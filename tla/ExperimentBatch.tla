--------------------------- MODULE ExperimentBatch ---------------------------
(***************************************************************************)
(* One experiment batch (services/experiments.py): requests that queue it, *)
(* requests that cancel it, the benchmark command that executes it in its  *)
(* own process, the single Celery worker with its first-in first-out       *)
(* queue, and the batch status derived from the statuses of the runs.      *)
(* A run behaves as RunPromise says; crashes are the subject of            *)
(* RunLifecycle and do not occur here.  Run r is the r-th of the frozen    *)
(* execution order.                                                        *)
(***************************************************************************)
EXTENDS Naturals, Sequences, RunRules

CONSTANTS
  N,          \* planned runs
  Outcomes,   \* the final statuses a solver's answer leads to
  Queuers,    \* requests that queue the batch
  Cancellers, \* requests that cancel the batch
  Shells,     \* processes of the benchmark command
  Worker,     \* the Celery worker, concurrency one
  Viewer,     \* requests that show the comparison
  NoOne       \* nobody holds the batch row

Runs == 1..N
Executors == Shells \cup {Worker}
Refreshers == Executors \cup {Viewer}
BatchStatus == {"DRAFT", "QUEUED", "RUNNING", "COMPLETED", "CANCELLED", "FAILED"}
Settled == {"COMPLETED", "CANCELLED", "FAILED"}

ASSUME BatchAssumption ==
  /\ N \in Nat \ {0}
  /\ Outcomes \subseteq Terminal \ {"CANCELLED"}
  /\ Worker \notin Shells
  /\ Viewer \notin Executors
  /\ NoOne \notin Refreshers

VARIABLES
  batch,     \* ExperimentBatch.status
  status,    \* ScheduleRun.status of every planned run
  tasked,    \* the runs whose task_id is stored
  queue,     \* messages in the broker, in the order they were sent
  queuer,    \* per queue request, where it stands and what it has to send
  canceller, \* per cancel request, where it stands and what it has to cancel
  exec,      \* per executor, where it stands and its run
  refresh    \* who refreshes the batch holding its row, and the status found

vars == <<batch, status, tasked, queue, queuer, canceller, exec, refresh>>

Tasks(phases) == [at: phases, todo: SUBSET Runs]

TypeOK ==
  /\ batch \in BatchStatus
  /\ status \in [Runs -> RunStatus]
  /\ tasked \in SUBSET Runs
  /\ queue \in Seq(Runs)
  /\ queuer \in [Queuers ->
       Tasks({"idle", "admitted", "marked", "sending", "sent", "failing"})]
  /\ canceller \in [Cancellers -> Tasks({"idle", "cancelling"})]
  /\ exec \in [Executors ->
       [at: {"idle", "admitted", "queued", "looping", "taken", "executing",
             "sweeping", "returned"},
        run: 0..N + 1]]
  /\ refresh \in [by: Refreshers \cup {NoOne}, found: BatchStatus]

Init ==
  /\ batch = "DRAFT"
  /\ status = [r \in Runs |-> "QUEUED"]
  /\ tasked = {}
  /\ queue = <<>>
  /\ queuer = [q \in Queuers |-> [at |-> "idle", todo |-> {}]]
  /\ canceller = [c \in Cancellers |-> [at |-> "idle", todo |-> {}]]
  /\ exec = [e \in Executors |-> [at |-> "idle", run |-> 0]]
  /\ refresh = [by |-> NoOne, found |-> "DRAFT"]

BatchLocked == refresh.by # NoOne

\* A write of the batch status waits for the row; it overwrites what it finds.
SetBatch(s) == ~BatchLocked /\ batch' = s

-----------------------------------------------------------------------------
(* queue_experiment_batch                                                  *)

First(S) == CHOOSE r \in S : \A s \in S : r <= s

\* The batch is read without a lock, so two requests may both see a draft.
AdmitQueuing(q) ==
  /\ queuer[q].at = "idle"
  /\ batch = "DRAFT"
  /\ queuer' = [queuer EXCEPT ![q].at = "admitted"]
  /\ UNCHANGED <<batch, status, tasked, queue, canceller, exec, refresh>>

MarkQueued(q) ==
  /\ queuer[q].at = "admitted"
  /\ SetBatch("QUEUED")
  /\ queuer' = [queuer EXCEPT ![q].at = "marked"]
  /\ UNCHANGED <<status, tasked, queue, canceller, exec, refresh>>

\* The runs are loaded once; what happens to them later is not seen.
LoadPlan(q) ==
  /\ queuer[q].at = "marked"
  /\ queuer' = [queuer EXCEPT ![q] =
       [at |-> "sending",
        todo |-> {r \in Runs : status[r] = "QUEUED" /\ r \notin tasked}]]
  /\ UNCHANGED <<batch, status, tasked, queue, canceller, exec, refresh>>

\* Sends from the end of the plan.
NextToSend_Reversed(S) == CHOOSE r \in S : \A s \in S : s <= r
NextToSend(S) == First(S)

Send(q) ==
  /\ queuer[q].at = "sending"
  /\ queuer[q].todo # {}
  /\ queue' = Append(queue, NextToSend(queuer[q].todo))
  /\ queuer' = [queuer EXCEPT ![q].at = "sent"]
  /\ UNCHANGED <<batch, status, tasked, canceller, exec, refresh>>

StoreTaskId(q) ==
  /\ queuer[q].at = "sent"
  /\ LET r == NextToSend(queuer[q].todo)
     IN  /\ tasked' = tasked \cup {r}
         /\ queuer' = [queuer EXCEPT ![q] =
              [at |-> "sending", todo |-> @.todo \ {r}]]
  /\ UNCHANGED <<batch, status, queue, canceller, exec, refresh>>

\* The broker refuses; the runs not sent yet stay queued.
SendFails(q) ==
  /\ queuer[q].at = "sending"
  /\ queuer[q].todo # {}
  /\ queuer' = [queuer EXCEPT ![q] = [at |-> "failing", todo |-> {}]]
  /\ UNCHANGED <<batch, status, tasked, queue, canceller, exec, refresh>>

FailBatch(q) ==
  /\ queuer[q].at = "failing"
  /\ SetBatch("FAILED")
  /\ queuer' = [queuer EXCEPT ![q].at = "idle"]
  /\ UNCHANGED <<status, tasked, queue, canceller, exec, refresh>>

EndQueuing(q) ==
  /\ queuer[q].at = "sending"
  /\ queuer[q].todo = {}
  /\ queuer' = [queuer EXCEPT ![q].at = "idle"]
  /\ UNCHANGED <<batch, status, tasked, queue, canceller, exec, refresh>>

-----------------------------------------------------------------------------
(* ExperimentCancelView and RunCancelView                                  *)

\* Overlooks the runs that a worker has started.
ToCancel_QueuedOnly == {r \in Runs : status[r] = "QUEUED"}
ToCancel == {r \in Runs : status[r] \in Open}

BeginCancel(c) ==
  /\ canceller[c].at = "idle"
  /\ canceller' = [canceller EXCEPT ![c] = [at |-> "cancelling", todo |-> ToCancel]]
  /\ UNCHANGED <<batch, status, tasked, queue, queuer, exec, refresh>>

\* cancel_run leaves a run alone that ended meanwhile.
Cancelled(s) == IF s \in Open THEN "CANCELLED" ELSE s

CancelNext(c) ==
  /\ canceller[c].at = "cancelling"
  /\ \E r \in canceller[c].todo :
       /\ status' = [status EXCEPT ![r] = Cancelled(@)]
       /\ canceller' = [canceller EXCEPT ![c].todo = @ \ {r}]
  /\ UNCHANGED <<batch, tasked, queue, queuer, exec, refresh>>

\* Unconditional: also over a completed batch.
EndCancel(c) ==
  /\ canceller[c].at = "cancelling"
  /\ canceller[c].todo = {}
  /\ SetBatch("CANCELLED")
  /\ canceller' = [canceller EXCEPT ![c].at = "idle"]
  /\ UNCHANGED <<status, tasked, queue, queuer, exec, refresh>>

CancelRun(r) ==
  /\ status[r] \in Open
  /\ status' = [status EXCEPT ![r] = "CANCELLED"]
  /\ UNCHANGED <<batch, tasked, queue, queuer, canceller, exec, refresh>>

-----------------------------------------------------------------------------
(* Execution                                                               *)

\* The worker takes the oldest message; a revoked one it throws away.
Receive ==
  /\ exec[Worker].at = "idle"
  /\ queue # <<>>
  /\ queue' = Tail(queue)
  /\ \/ exec' = [exec EXCEPT ![Worker] = [at |-> "taken", run |-> Head(queue)]]
     \/ /\ Head(queue) \in tasked /\ status[Head(queue)] = "CANCELLED"
        /\ UNCHANGED exec
  /\ UNCHANGED <<batch, status, tasked, queuer, canceller, refresh>>

\* execute_experiment_batch writes QUEUED unless it has just read QUEUED.
BeginDirect(s) ==
  /\ exec[s].at = "idle"
  /\ batch \notin {"COMPLETED", "CANCELLED"}
  /\ exec' = [exec EXCEPT ![s] =
       [at |-> IF batch = "QUEUED" THEN "queued" ELSE "admitted", run |-> 1]]
  /\ UNCHANGED <<batch, status, tasked, queue, queuer, canceller, refresh>>

MarkDirect(s) ==
  /\ \/ exec[s].at = "admitted" /\ SetBatch("QUEUED")
     \/ exec[s].at = "queued" /\ SetBatch("RUNNING")
  /\ exec' = [exec EXCEPT ![s].at = IF @ = "admitted" THEN "queued" ELSE "looping"]
  /\ UNCHANGED <<status, tasked, queue, queuer, canceller, refresh>>

\* Every run is refreshed before it is taken or passed over.
LoopDirect(s) ==
  /\ exec[s].at = "looping"
  /\ exec' = [exec EXCEPT ![s] =
       IF @.run > N THEN [at |-> "returned", run |-> 0]
       ELSE IF status[@.run] = "QUEUED" THEN [at |-> "taken", run |-> @.run]
       ELSE [at |-> "looping", run |-> @.run + 1]]
  /\ UNCHANGED <<batch, status, tasked, queue, queuer, canceller, refresh>>

\* execute_run returns: a task refreshes the batch, the command goes on.
Returned(e) ==
  IF e \in Shells THEN [at |-> "looping", run |-> exec[e].run + 1]
  ELSE [at |-> "returned", run |-> 0]

\* execute_run raises: a task ends without a refresh, the command sweeps.
Raised(e) ==
  IF e \in Shells THEN [at |-> "sweeping", run |-> exec[e].run]
  ELSE [at |-> "idle", run |-> 0]

Start(e) ==
  /\ exec[e].at = "taken"
  /\ Startable(status[exec[e].run])
  /\ status' = [status EXCEPT ![exec[e].run] = "RUNNING"]
  /\ exec' = [exec EXCEPT ![e].at = "executing"]
  /\ UNCHANGED <<batch, tasked, queue, queuer, canceller, refresh>>

DoNotStart(e) ==
  /\ exec[e].at = "taken"
  /\ ~Startable(status[exec[e].run])
  /\ exec' = [exec EXCEPT ![e] =
       IF status[exec[e].run] = "CANCELLED" THEN Returned(e) ELSE Raised(e)]
  /\ UNCHANGED <<batch, status, tasked, queue, queuer, canceller, refresh>>

Conclude(e) ==
  /\ exec[e].at = "executing"
  /\ AcceptsResult(status[exec[e].run])
  /\ \E s \in Outcomes : status' = [status EXCEPT ![exec[e].run] = s]
  /\ exec' = [exec EXCEPT ![e] = Returned(e)]
  /\ UNCHANGED <<batch, tasked, queue, queuer, canceller, refresh>>

\* The answer comes too late: the run was cancelled or failed by a command.
DropAnswer(e) ==
  /\ exec[e].at = "executing"
  /\ ~AcceptsResult(status[exec[e].run])
  /\ exec' = [exec EXCEPT ![e] =
       IF status[exec[e].run] = "CANCELLED" THEN Returned(e) ELSE Raised(e)]
  /\ UNCHANGED <<batch, status, tasked, queue, queuer, canceller, refresh>>

SolverRaises(e) ==
  /\ exec[e].at = "executing"
  /\ status' = [status EXCEPT ![exec[e].run] = FailedBySolver(@)]
  /\ exec' = [exec EXCEPT ![e] = Raised(e)]
  /\ UNCHANGED <<batch, tasked, queue, queuer, canceller, refresh>>

\* A revoke kills the worker's child; no refresh follows.
Killed ==
  /\ exec[Worker].at = "executing"
  /\ status[exec[Worker].run] = "CANCELLED"
  /\ exec' = [exec EXCEPT ![Worker] = [at |-> "idle", run |-> 0]]
  /\ UNCHANGED <<batch, status, tasked, queue, queuer, canceller, refresh>>

Sweep(s) ==
  /\ exec[s].at = "sweeping"
  /\ status' = [status EXCEPT ![exec[s].run] = FailedByBatch(@)]
  /\ exec' = [exec EXCEPT ![s] = [at |-> "looping", run |-> @.run + 1]]
  /\ UNCHANGED <<batch, tasked, queue, queuer, canceller, refresh>>

-----------------------------------------------------------------------------
(* refresh_experiment_status                                               *)

\* Calls a batch completed as soon as nothing failed so far.
Derived_IgnoresOpenRuns(b) ==
  IF \E r \in Runs : status[r] = "FAILED" THEN "FAILED" ELSE "COMPLETED"

\* Keeps a batch running until it sees a run that did not fail.
Derived_ForgetsFailures(b) ==
  IF \A r \in Runs : status[r] \in Terminal \ {"FAILED"} THEN "COMPLETED"
  ELSE "RUNNING"

Derived(b) ==
  IF \A r \in Runs : status[r] \in Terminal
  THEN IF \A r \in Runs : status[r] = "CANCELLED" THEN "CANCELLED"
       ELSE IF \E r \in Runs : status[r] = "FAILED" THEN "FAILED"
       ELSE "COMPLETED"
  ELSE IF b \in {"DRAFT", "FAILED"} THEN b
  ELSE IF \E r \in Runs : status[r] # "QUEUED" THEN "RUNNING"
  ELSE "QUEUED"

\* The worker after a task and the command at its end always refresh; the
\* comparison page does so unless it shows a draft or a cancelled batch.
Refreshes(x) ==
  IF x = Viewer THEN batch # "DRAFT" ELSE exec[x].at = "returned"

ReadRuns(x) ==
  /\ ~BatchLocked
  /\ Refreshes(x)
  /\ batch # "CANCELLED"
  /\ refresh' = [by |-> x, found |-> Derived(batch)]
  /\ UNCHANGED <<batch, status, tasked, queue, queuer, canceller, exec>>

Ended(x) ==
  IF x = Viewer THEN exec ELSE [exec EXCEPT ![x].at = "idle"]

\* Runs may have ended since their statuses were read.
WriteStatus ==
  /\ BatchLocked
  /\ batch' = refresh.found
  /\ refresh' = [by |-> NoOne, found |-> "DRAFT"]
  /\ exec' = Ended(refresh.by)
  /\ UNCHANGED <<status, tasked, queue, queuer, canceller>>

LeaveCancelled(e) ==
  /\ ~BatchLocked
  /\ exec[e].at = "returned"
  /\ batch = "CANCELLED"
  /\ exec' = Ended(e)
  /\ UNCHANGED <<batch, status, tasked, queue, queuer, canceller, refresh>>

-----------------------------------------------------------------------------
Queue(q) ==
  \/ MarkQueued(q) \/ LoadPlan(q) \/ Send(q) \/ StoreTaskId(q) \/ SendFails(q)
  \/ FailBatch(q) \/ EndQueuing(q)

CancelBatch(c) == CancelNext(c) \/ EndCancel(c)

Work(e) ==
  \/ Start(e) \/ DoNotStart(e) \/ Conclude(e) \/ DropAnswer(e) \/ SolverRaises(e)
  \/ ReadRuns(e) \/ LeaveCancelled(e)

Direct(s) == MarkDirect(s) \/ LoopDirect(s) \/ Sweep(s)

Next ==
  \/ \E q \in Queuers : AdmitQueuing(q) \/ Queue(q)
  \/ \E c \in Cancellers : BeginCancel(c) \/ CancelBatch(c)
  \/ \E r \in Runs : CancelRun(r)
  \/ \E s \in Shells : BeginDirect(s) \/ Direct(s)
  \/ \E e \in Executors : Work(e)
  \/ Receive \/ Killed
  \/ ReadRuns(Viewer) \/ WriteStatus

Spec == Init /\ [][Next]_vars

(***************************************************************************)
(* Requests and processes that began go on, and the database grants the    *)
(* batch row to whoever waits for it; nobody has to begin a request.  The  *)
(* comparison page is opened again and again: the derived status is only   *)
(* as fresh as its last refresh.                                           *)
(***************************************************************************)
FairSpec ==
  /\ Spec
  /\ \A q \in Queuers : SF_vars(Queue(q))
  /\ \A c \in Cancellers : SF_vars(CancelBatch(c))
  /\ \A s \in Shells : SF_vars(Direct(s) \/ Work(s))
  /\ SF_vars(Receive \/ Work(Worker))
  /\ SF_vars(ReadRuns(Viewer))
  /\ WF_vars(WriteStatus)

-----------------------------------------------------------------------------
(* Properties                                                              *)

\* A batch is called completed only when every planned run has ended, none has
\* failed and some was not cancelled, although the runs move on while
\* refresh_experiment_status looks at them.
CompletedIsComplete ==
  batch = "COMPLETED" =>
    /\ \A r \in Runs : status[r] \in Terminal \ {"FAILED"}
    /\ \E r \in Runs : status[r] # "CANCELLED"

\* A cancelled batch has no open run: whoever started or queued runs while
\* ExperimentCancelView went through its list, they have all ended.
CancelledIsOver ==
  batch = "CANCELLED" => \A r \in Runs : status[r] \notin Open

\* Runs start in the frozen execution order (execution_order of the batch),
\* whoever starts them: duplicate queue requests, failed submissions and the
\* benchmark command never let a run start before an earlier one was decided.
StartsInOrder ==
  [][\A r \in Runs :
       status[r] = "QUEUED" /\ status'[r] = "RUNNING" =>
         \A p \in Runs : p < r => status[p] # "QUEUED"]_vars

\* A submitted batch whose runs have all ended settles: it says how it ended,
\* however its tasks ended (a task that raises or is killed does not refresh),
\* as long as somebody looks at the comparison.
EveryBatchSettles ==
  (batch # "DRAFT" /\ \A r \in Runs : status[r] \in Terminal)
    ~> (batch \in Settled)

\* Every run that was sent ends: duplicated, refused or late deliveries do not
\* stop the queue.
EverySentRunEnds == \A r \in Runs : (r \in tasked) ~> (status[r] \in Terminal)

-----------------------------------------------------------------------------
(* What the properties rest on                                             *)

\* An executor that is busy with a run has one.
ExecutorsHaveRuns ==
  \A e \in Executors :
    /\ exec[e].at \in {"taken", "executing", "sweeping"} => exec[e].run \in Runs
    /\ exec[e].at \in {"admitted", "queued", "looping"} => exec[e].run # 0
    /\ exec[e].at \in {"admitted", "queued", "looping", "sweeping"} => e # Worker

\* A queue request that has sent a message still has its task id to store.
SentIsUnstored ==
  \A q \in Queuers : queuer[q].at = "sent" => queuer[q].todo # {}

\* A status that says all is over is true of the runs as long as it is carried.
FoundIsTrue ==
  /\ BatchLocked /\ refresh.found = "COMPLETED" =>
       /\ \A r \in Runs : status[r] \in Terminal \ {"FAILED"}
       /\ \E r \in Runs : status[r] # "CANCELLED"
  /\ BatchLocked /\ refresh.found = "CANCELLED" =>
       \A r \in Runs : status[r] \notin Open

\* What a cancel request has still to do covers every open run.
CancelsCoverOpenRuns ==
  \A c \in Cancellers : canceller[c].at = "cancelling" =>
    \A r \in Runs : status[r] \in Open => r \in canceller[c].todo

BatchInv ==
  /\ TypeOK
  /\ ExecutorsHaveRuns
  /\ SentIsUnstored
  /\ FoundIsTrue
  /\ CancelsCoverOpenRuns
  /\ CompletedIsComplete
  /\ CancelledIsOver
=============================================================================
