---------------------------- MODULE RunLifecycle ----------------------------
(***************************************************************************)
(* The life of a ScheduleRun: web requests create, submit and cancel runs; *)
(* the broker delivers one message per submission at least once; Celery    *)
(* workers (services/runs.py through tasks.py) and the benchmark command   *)
(* (execute_experiment_batch, called a shell here) execute them; every     *)
(* process may die.  The database row of a run is the only state they      *)
(* share, and its row lock the only lock.                                  *)
(***************************************************************************)
EXTENDS Naturals, FiniteSets, RunRules

CONSTANTS
  Runs,          \* ScheduleRun rows that may be created, all of one term
  Workers,       \* Celery worker processes, one task at a time each
  Shells,        \* processes of the benchmark command
  GaRuns,        \* the runs that use the genetic algorithm
  DraftlessRuns, \* the runs configured with persist_schedule = False
  NoRun,         \* the job of an idle executor
  MaxFaults      \* bound on the environment's faults

Executors == Workers \cup Shells

ASSUME RunsAssumption ==
  /\ GaRuns \subseteq Runs
  /\ DraftlessRuns \subseteq Runs
  /\ NoRun \notin Runs
  /\ Workers \cap Shells = {}
  /\ MaxFaults \in Nat

VARIABLES
  status,     \* ScheduleRun.status, "ABSENT" before the row exists
  evidence,   \* the verdict of the run's ValidationResult
  version,    \* version_number of the run's ScheduleVersion, 0 when none
  taskId,     \* whether ScheduleRun.task_id is set
  submission, \* where the request that submits the run stands
  broker,     \* messages for the run that wait for delivery
  revoked,    \* per worker, the runs whose task ids it refuses
  control,    \* revoke commands on their way to the workers
  at,         \* where each executor stands in execute_run
  job,        \* the run it executes; a worker also holds its message unacked
  answer,     \* the verified solver answer it carries
  number,     \* the version number it read inside its open transaction
  faults      \* faults spent so far

rowVars == <<status, evidence, version, taskId>>
brokerVars == <<broker, revoked, control>>
execVars == <<at, job, answer, number>>
vars == <<rowVars, submission, brokerVars, execVars, faults>>

-----------------------------------------------------------------------------
Submissions == {"none", "created", "published", "done", "abandoned"}
Phases == {"idle", "taken", "solving", "solved", "persisting", "recording",
           "failing", "sweeping"}
NoAnswer == Answer("UNKNOWN", "unevaluated", FALSE)
Commands == [worker: Workers, run: Runs, terminate: BOOLEAN]

TypeOK ==
  /\ status \in [Runs -> {"ABSENT"} \cup RunStatus]
  /\ evidence \in [Runs -> Evidence]
  /\ version \in [Runs -> Nat]
  /\ taskId \in [Runs -> BOOLEAN]
  /\ submission \in [Runs -> Submissions]
  /\ broker \in [Runs -> Nat]
  /\ revoked \in [Workers -> SUBSET Runs]
  /\ control \in SUBSET Commands
  /\ at \in [Executors -> Phases]
  /\ job \in [Executors -> Runs \cup {NoRun}]
  /\ answer \in [Executors -> AllAnswers \cup {NoAnswer}]
  /\ number \in [Executors -> Nat]
  /\ faults \in 0..MaxFaults

Init ==
  /\ status = [r \in Runs |-> "ABSENT"]
  /\ evidence = [r \in Runs |-> "none"]
  /\ version = [r \in Runs |-> 0]
  /\ taskId = [r \in Runs |-> FALSE]
  /\ submission = [r \in Runs |-> "none"]
  /\ broker = [r \in Runs |-> 0]
  /\ revoked = [w \in Workers |-> {}]
  /\ control = {}
  /\ at = [e \in Executors |-> "idle"]
  /\ job = [e \in Executors |-> NoRun]
  /\ answer = [e \in Executors |-> NoAnswer]
  /\ number = [e \in Executors |-> 0]
  /\ faults = 0

Answers(r) == IF r \in GaRuns THEN GaAnswers ELSE CpSatAnswers

\* A persist_result that reads the row without locking it.
RowLocked_Unlocked(r) == FALSE
\* persist_result holds select_for_update on the run until it commits, so
\* every other writer of the row waits.
RowLocked(r) == \E e \in Executors : at[e] = "persisting" /\ job[e] = r

VersionNumbers == {version[r] : r \in Runs}
MaxVersion == CHOOSE n \in VersionNumbers : \A m \in VersionNumbers : m <= n

NextVersion == MaxVersion + 1

\* Without the unique index two transactions may store the same number.
NumberIsFree_NoIndex(n) == TRUE
\* The unique (term, version_number) index rejects a number taken meanwhile.
NumberIsFree(n) == n \notin VersionNumbers

Fault ==
  /\ faults < MaxFaults
  /\ faults' = faults + 1

\* Executor e leaves execute_run.  What becomes of a worker's message is
\* said by the action that uses this.
Release(e) ==
  /\ at' = [at EXCEPT ![e] = "idle"]
  /\ job' = [job EXCEPT ![e] = NoRun]
  /\ answer' = [answer EXCEPT ![e] = NoAnswer]
  /\ number' = [number EXCEPT ![e] = 0]

GoTo(e, phase) ==
  /\ at' = [at EXCEPT ![e] = phase]
  /\ UNCHANGED <<job, answer, number>>

EndTransaction(e, phase) ==
  /\ at' = [at EXCEPT ![e] = phase]
  /\ number' = [number EXCEPT ![e] = 0]
  /\ UNCHANGED <<job, answer>>

-----------------------------------------------------------------------------
(* Requests: create_run, queue_run, cancel_run                             *)

Create(r) ==
  /\ status[r] = "ABSENT"
  /\ status' = [status EXCEPT ![r] = "QUEUED"]
  /\ submission' = [submission EXCEPT ![r] = "created"]
  /\ UNCHANGED <<evidence, version, taskId, brokerVars, execVars, faults>>

\* queue_run looks at the run object in memory, which still says QUEUED: the
\* row may have been cancelled or executed meanwhile.
Publish(r) ==
  /\ submission[r] = "created"
  /\ submission' = [submission EXCEPT ![r] = "published"]
  /\ broker' = [broker EXCEPT ![r] = @ + 1]
  /\ UNCHANGED <<rowVars, revoked, control, execVars, faults>>

\* A queryset update of task_id alone, whatever the status has become.
StoreTaskId(r) ==
  /\ submission[r] = "published"
  /\ ~RowLocked(r)
  /\ submission' = [submission EXCEPT ![r] = "done"]
  /\ taskId' = [taskId EXCEPT ![r] = TRUE]
  /\ UNCHANGED <<status, evidence, version, brokerVars, execVars, faults>>

\* The broker refuses the message or the web process dies half way.
SubmissionFails(r) ==
  /\ submission[r] \in {"created", "published"}
  /\ Fault
  /\ submission' = [submission EXCEPT ![r] = "abandoned"]
  /\ UNCHANGED <<rowVars, brokerVars, execVars>>

\* The broadcast reaches the workers that happen to listen.
Revoke(r) ==
  \E listening \in SUBSET Workers :
    control' = control \cup
      [worker: listening, run: {r}, terminate: {status[r] = "RUNNING"}]

RevokeIfKnown(r) ==
  IF taskId[r] THEN Revoke(r) ELSE UNCHANGED control

Cancel(r) ==
  /\ status[r] \in Open
  /\ ~RowLocked(r)
  /\ RevokeIfKnown(r)
  /\ status' = [status EXCEPT ![r] = "CANCELLED"]
  /\ UNCHANGED <<evidence, version, taskId, submission, broker, revoked,
                 execVars, faults>>

\* The broadcast is sent inside the transaction; the transaction then fails.
CancelRollsBack(r) ==
  /\ status[r] \in Open
  /\ ~RowLocked(r)
  /\ taskId[r]
  /\ Fault
  /\ Revoke(r)
  /\ UNCHANGED <<rowVars, submission, broker, revoked, execVars>>

-----------------------------------------------------------------------------
(* Delivery                                                                *)

Receive(w, r) ==
  /\ at[w] = "idle"
  /\ broker[r] > 0
  /\ r \notin revoked[w]
  /\ broker' = [broker EXCEPT ![r] = @ - 1]
  /\ at' = [at EXCEPT ![w] = "taken"]
  /\ job' = [job EXCEPT ![w] = r]
  /\ UNCHANGED <<rowVars, submission, revoked, control, answer, number, faults>>

DiscardRevoked(w, r) ==
  /\ at[w] = "idle"
  /\ broker[r] > 0
  /\ r \in revoked[w]
  /\ broker' = [broker EXCEPT ![r] = @ - 1]
  /\ UNCHANGED <<rowVars, submission, revoked, control, execVars, faults>>

\* A revoke with terminate kills the child that executes the task; Celery
\* then acknowledges the message or returns it to the queue.
HandleRevoke(w) ==
  \E c \in control :
    /\ c.worker = w
    /\ control' = control \ {c}
    /\ revoked' = [revoked EXCEPT ![w] = @ \cup {c.run}]
    /\ IF c.terminate /\ job[w] = c.run
       THEN /\ Release(w)
            /\ \E returned \in {0, 1} :
                 broker' = [broker EXCEPT ![c.run] = @ + returned]
       ELSE UNCHANGED <<broker, execVars>>
    /\ UNCHANGED <<rowVars, submission, faults>>

\* execute_experiment_batch refreshes the run and takes it when queued.
ShellTakes(s, r) ==
  /\ at[s] = "idle"
  /\ status[r] = "QUEUED"
  /\ at' = [at EXCEPT ![s] = "taken"]
  /\ job' = [job EXCEPT ![s] = r]
  /\ UNCHANGED <<rowVars, submission, brokerVars, answer, number, faults>>

-----------------------------------------------------------------------------
(* execute_run                                                             *)

\* Where an exception of execute_run leaves its caller: the task fails and
\* is acknowledged, the batch command goes on to mark the run itself.
AfterError(e) == IF e \in Shells THEN "sweeping" ELSE "idle"

Exits(e, phase) == IF phase = "idle" THEN Release(e) ELSE GoTo(e, phase)

MarkStarted(e) ==
  /\ at[e] = "taken"
  /\ ~RowLocked(job[e])
  /\ Startable(status[job[e]])
  /\ status' = [status EXCEPT ![job[e]] = "RUNNING"]
  /\ GoTo(e, "solving")
  /\ UNCHANGED <<evidence, version, taskId, submission, brokerVars, faults>>

SkipCancelled(e) ==
  /\ at[e] = "taken"
  /\ ~RowLocked(job[e])
  /\ status[job[e]] = "CANCELLED"
  /\ Release(e)
  /\ UNCHANGED <<rowVars, submission, brokerVars, faults>>

\* _mark_started raises outside the try block of execute_run.
RefuseStart(e) ==
  /\ at[e] = "taken"
  /\ ~RowLocked(job[e])
  /\ ~Startable(status[job[e]])
  /\ status[job[e]] # "CANCELLED"
  /\ Exits(e, AfterError(e))
  /\ UNCHANGED <<rowVars, submission, brokerVars, faults>>

Solve(e) ==
  /\ at[e] = "solving"
  /\ \E a \in Answers(job[e]) : answer' = [answer EXCEPT ![e] = Verified(a)]
  /\ at' = [at EXCEPT ![e] = "solved"]
  /\ UNCHANGED <<rowVars, submission, brokerVars, job, number, faults>>

\* The solver called outside the try block: nobody fails the run.
SolverRaises_Uncaught(e) ==
  /\ at[e] = "solving"
  /\ Exits(e, AfterError(e))
  /\ UNCHANGED <<rowVars, submission, brokerVars, faults>>

SolverRaises(e) ==
  /\ at[e] = "solving"
  /\ GoTo(e, "failing")
  /\ UNCHANGED <<rowVars, submission, brokerVars, faults>>

WillPublish(e) == Publishable(answer[e]) /\ job[e] \notin DraftlessRuns

\* persist_result locks the row, then looks at its status.
BeginPersist(e) ==
  /\ at[e] = "solved"
  /\ ~RowLocked(job[e])
  /\ AcceptsResult(status[job[e]])
  /\ at' = [at EXCEPT ![e] = "persisting"]
  /\ number' = [number EXCEPT ![e] = IF WillPublish(e) THEN NextVersion ELSE 0]
  /\ UNCHANGED <<rowVars, submission, brokerVars, job, answer, faults>>

\* A cancelled run is returned untouched, a run failed by the batch command
\* makes persist_result raise.
DropResult(e) ==
  /\ at[e] = "solved"
  /\ ~RowLocked(job[e])
  /\ ~AcceptsResult(status[job[e]])
  /\ GoTo(e, IF status[job[e]] = "CANCELLED" THEN "recording" ELSE "failing")
  /\ UNCHANGED <<rowVars, submission, brokerVars, faults>>

CommitPersist(e) ==
  /\ at[e] = "persisting"
  /\ WillPublish(e) => NumberIsFree(number[e])
  /\ status' = [status EXCEPT ![job[e]] = ModelStatus(answer[e])]
  /\ evidence' = [evidence EXCEPT ![job[e]] = answer[e].verdict]
  /\ version' = [version EXCEPT ![job[e]] = number[e]]
  /\ EndTransaction(e, "recording")
  /\ UNCHANGED <<taskId, submission, brokerVars, faults>>

\* A taken number, another snapshot hash, a lost parent or a database error
\* rolls the whole transaction back.
PersistFails(e) ==
  /\ at[e] = "persisting"
  /\ EndTransaction(e, "failing")
  /\ UNCHANGED <<rowVars, submission, brokerVars, faults>>

\* The end-to-end metric; its failure cannot touch a terminal run.
RecordMetric(e) ==
  /\ at[e] = "recording"
  /\ \/ Release(e)
     \/ GoTo(e, "failing")
  /\ UNCHANGED <<rowVars, submission, brokerVars, faults>>

FailRun(e) ==
  /\ at[e] = "failing"
  /\ ~RowLocked(job[e])
  /\ status' = [status EXCEPT ![job[e]] = FailedBySolver(@)]
  /\ Exits(e, AfterError(e))
  /\ UNCHANGED <<evidence, version, taskId, submission, brokerVars, faults>>

\* execute_experiment_batch catches the exception and fails the run again,
\* this time whoever executes it.
ShellFailsRun(s) ==
  /\ at[s] = "sweeping"
  /\ ~RowLocked(job[s])
  /\ status' = [status EXCEPT ![job[s]] = FailedByBatch(@)]
  /\ Release(s)
  /\ UNCHANGED <<evidence, version, taskId, submission, brokerVars, faults>>

-----------------------------------------------------------------------------
(* Faults of the environment                                               *)

\* The child or the whole worker is lost: the unacknowledged message returns
\* to the queue, and a new main process has forgotten what was revoked.
WorkerLost(w) ==
  /\ Fault
  /\ job[w] # NoRun
  /\ broker' = [broker EXCEPT ![job[w]] = @ + 1]
  /\ Release(w)
  /\ revoked' \in {revoked, [revoked EXCEPT ![w] = {}]}
  /\ UNCHANGED <<rowVars, submission, control>>

\* CELERY_TASK_TIME_LIMIT kills the child and acknowledges the message.
HardTimeLimit(w) ==
  /\ Fault
  /\ job[w] # NoRun
  /\ Release(w)
  /\ UNCHANGED <<rowVars, submission, brokerVars>>

ShellDies(s) ==
  /\ Fault
  /\ job[s] # NoRun
  /\ Release(s)
  /\ UNCHANGED <<rowVars, submission, brokerVars>>

\* The broker's visibility timeout hands out a message that is in progress.
Redeliver(w) ==
  /\ Fault
  /\ job[w] # NoRun
  /\ broker' = [broker EXCEPT ![job[w]] = @ + 1]
  /\ UNCHANGED <<rowVars, submission, revoked, control, execVars>>

-----------------------------------------------------------------------------
Execute(e) ==
  \/ MarkStarted(e) \/ SkipCancelled(e) \/ RefuseStart(e)
  \/ Solve(e) \/ SolverRaises(e)
  \/ BeginPersist(e) \/ DropResult(e) \/ CommitPersist(e) \/ PersistFails(e)
  \/ RecordMetric(e) \/ FailRun(e)

Request(r) ==
  Create(r) \/ Publish(r) \/ StoreTaskId(r) \/ Cancel(r)

Deliver(w) ==
  \/ \E r \in Runs : Receive(w, r) \/ DiscardRevoked(w, r)
  \/ HandleRevoke(w)

Faulty ==
  \/ \E r \in Runs : SubmissionFails(r) \/ CancelRollsBack(r)
  \/ \E w \in Workers : WorkerLost(w) \/ HardTimeLimit(w) \/ Redeliver(w)
  \/ \E s \in Shells : ShellDies(s)

Next ==
  \/ \E r \in Runs : Request(r)
  \/ \E w \in Workers : Deliver(w)
  \/ \E s \in Shells, r \in Runs : ShellTakes(s, r)
  \/ \E e \in Executors : Execute(e)
  \/ \E s \in Shells : ShellFailsRun(s)
  \/ Faulty

Spec == Init /\ [][Next]_vars

(***************************************************************************)
(* Processes that run keep running: a worker polls its queue and the       *)
(* solvers stop at their deadline.  Nothing is assumed of users, of the    *)
(* web requests or of the shell's choice of a run.                         *)
(***************************************************************************)
FairSpec ==
  /\ Spec
  /\ \A w \in Workers : WF_vars(Deliver(w)) /\ WF_vars(Execute(w))
  /\ \A s \in Shells : WF_vars(Execute(s) \/ ShellFailsRun(s))

-----------------------------------------------------------------------------
(* Properties                                                              *)

Working == {"solving", "solved", "persisting", "recording", "failing"}

\* One solver per run: however often the broker delivers a message and
\* whoever else takes the run, no two executors are inside execute_run's try
\* block for it (_mark_started's guard under the row lock).
SoleSolver ==
  \A e, f \in Executors :
    /\ at[e] \in Working /\ at[f] \in Working
    /\ job[e] = job[f]
    => e = f

\* The stored status, the stored verdict and the draft tell one story: a
\* success was found feasible by the independent validator, an exhausted
\* search was not, only CP-SAT reports a proof, and an open or cancelled run
\* has neither a verdict nor a draft (persist_result is all or nothing).
EvidenceAgrees ==
  \A r \in Runs :
    /\ status[r] \in Successful => evidence[r] = "feasible"
    /\ status[r] \in {"NO_SOLUTION", "TIMEOUT"} =>
         evidence[r] \in {"unevaluated", "violated"}
    /\ status[r] \in {"OPTIMAL", "INFEASIBLE"} => r \notin GaRuns
    /\ status[r] \in Open \cup {"ABSENT", "CANCELLED"} =>
         evidence[r] = "none" /\ version[r] = 0
    /\ version[r] > 0 => evidence[r] = "feasible"

\* The drafts of a term are numbered 1, 2, ... without a gap or a repetition
\* although the next number is read without a lock.
VersionsConsecutive ==
  LET drafted == {r \in Runs : version[r] > 0}
  IN  {version[r] : r \in drafted} = 1 .. Cardinality(drafted)

\* While no process has died, a RUNNING run is in some executor's hands: it is
\* never left behind by a cancellation, a refused start or a late answer.
RunningIsAttended ==
  faults = 0 =>
    \A r \in Runs : status[r] = "RUNNING" =>
      \E e \in Executors :
        at[e] \in {"solving", "solved", "persisting", "failing"} /\ job[e] = r

\* Terminal evidence is immutable (ScheduleRun.save), also along the queryset
\* updates that bypass save; only the task id may still arrive.
TerminalIsFinal ==
  [][\A r \in Runs : status[r] \in Terminal =>
       /\ status'[r] = status[r]
       /\ evidence'[r] = evidence[r]
       /\ version'[r] = version[r]]_vars

\* Every run whose message reached the broker ends, and so does every run
\* that started, whoever executes it and whatever users do meanwhile.
EveryRunEnds ==
  \A r \in Runs :
    (submission[r] \in {"published", "done"} \/ status[r] = "RUNNING")
      ~> (status[r] \in Terminal)

\* docs/architecture.md:157 on a worker crash: the stale running task is
\* reconciled.  A run whose executor is gone and whose message is back in the
\* queue would have to end.
StaleRunsReconciled ==
  \A r \in Runs :
    (status[r] = "RUNNING" /\ broker[r] > 0 /\ \A e \in Executors : job[e] # r)
      ~> (status[r] \in Terminal)

Promise == INSTANCE RunPromise WITH drafted <- [r \in Runs |-> version[r] > 0]

\* The executors, messages and faults together implement the promise of
\* RunPromise: each run starts at most once and ends at most once.
KeepsPromise == Promise!Spec

-----------------------------------------------------------------------------
(* The inductive invariant behind the safety properties                    *)

IdleWithoutJob == \A e \in Executors : at[e] = "idle" <=> job[e] = NoRun

\* Work on a run begins after its start, and nothing un-starts a run.
WorkIsStarted ==
  \A e \in Executors :
    at[e] \in Working => status[job[e]] \notin {"ABSENT", "QUEUED"}

\* The row lock keeps a run RUNNING from the check of its status to the commit.
LockKeepsRunning ==
  \A e \in Executors : at[e] = "persisting" => status[job[e]] = "RUNNING"

\* What is persisted is a verified answer of the run's own solver.
AnswersAreVerified ==
  \A e \in Executors :
    at[e] \in {"solved", "persisting"} =>
      \E a \in Answers(job[e]) : answer[e] = Verified(a)

\* A number that was read belongs to a draft about to be stored, and the
\* number before it is in use.
NumbersFollow ==
  \A e \in Executors :
    /\ number[e] > 0 => at[e] = "persisting" /\ WillPublish(e)
    /\ number[e] > 1 => number[e] - 1 \in VersionNumbers

VersionsDiffer ==
  \A q, r \in Runs : version[q] = version[r] /\ version[q] > 0 => q = r

SafetyInv ==
  /\ TypeOK
  /\ IdleWithoutJob
  /\ WorkIsStarted
  /\ LockKeepsRunning
  /\ AnswersAreVerified
  /\ NumbersFollow
  /\ VersionsDiffer
  /\ SoleSolver
  /\ EvidenceAgrees
=============================================================================
