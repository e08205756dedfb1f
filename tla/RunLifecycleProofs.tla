------------------------- MODULE RunLifecycleProofs -------------------------
(***************************************************************************)
(* Proofs about RunLifecycle for every set of runs, workers and shells and *)
(* every number of faults.  The inductive invariant is SafetyInv together  *)
(* with Dense: without Dense the number read by BeginPersist need not      *)
(* exist, because a set of numbers need not have a greatest one.           *)
(***************************************************************************)
EXTENDS RunLifecycle, FiniteSetTheorems, TLAPS

\* The version numbers in use are 1 .. n.
Dense == \E n \in Nat : VersionNumbers \cup {0} = 0 .. n

RowsTyped ==
  /\ status \in [Runs -> {"ABSENT"} \cup RunStatus]
  /\ evidence \in [Runs -> Evidence]
  /\ version \in [Runs -> Nat]

ExecTyped ==
  /\ at \in [Executors -> Phases]
  /\ job \in [Executors -> Runs \cup {NoRun}]
  /\ answer \in [Executors -> AllAnswers \cup {NoAnswer}]
  /\ number \in [Executors -> Nat]

\* The part of TypeOK the other invariants do not rest on.
EnvTyped ==
  /\ taskId \in [Runs -> BOOLEAN]
  /\ submission \in [Runs -> Submissions]
  /\ broker \in [Runs -> Nat]
  /\ revoked \in [Workers -> SUBSET Runs]
  /\ control \in SUBSET Commands
  /\ faults \in 0..MaxFaults

ExecInv ==
  /\ IdleWithoutJob
  /\ WorkIsStarted
  /\ LockKeepsRunning
  /\ AnswersAreVerified
  /\ NumbersFollow
  /\ SoleSolver

\* Everything about rows and executors, which is what the proofs carry.
Core ==
  /\ RowsTyped
  /\ ExecTyped
  /\ ExecInv
  /\ VersionsDiffer
  /\ EvidenceAgrees
  /\ Dense

rows == <<status, evidence, version>>

IInv == EnvTyped /\ Core

\* What is proved inductive implies what the runs check.
LEMMA IInvStrengthens == IInv => SafetyInv
BY DEF IInv, EnvTyped, Core, RowsTyped, ExecTyped, ExecInv, SafetyInv, TypeOK

-----------------------------------------------------------------------------
(* Values                                                                  *)

\* The verifier returns an answer the solvers might have given, and the
\* status it is stored with agrees with its verdict.
LEMMA VerifiedAnswers ==
  ASSUME NEW r, NEW a \in Answers(r)
  PROVE  /\ Verified(a) \in AllAnswers
         /\ Verified(a).verdict \in Verdicts
         /\ ModelStatus(Verified(a)) \in Terminal \ {"CANCELLED"}
         /\ ModelStatus(Verified(a)) \in Successful =>
              Verified(a).verdict = "feasible"
         /\ ModelStatus(Verified(a)) \in {"NO_SOLUTION", "TIMEOUT"} =>
              Verified(a).verdict \in {"unevaluated", "violated"}
         /\ ModelStatus(Verified(a)) = "INFEASIBLE" =>
              Verified(a).verdict = "unevaluated"
         /\ ModelStatus(Verified(a)) \in {"OPTIMAL", "INFEASIBLE"} =>
              r \notin GaRuns
<1>1. CASE a \in CpSatAnswers /\ r \notin GaRuns
  <2>1. /\ a.status \in {"OPTIMAL", "FEASIBLE"} => a.verdict = "feasible"
        /\ a.status = "INFEASIBLE" => a.verdict = "unevaluated"
        /\ a.status = "UNKNOWN" => a.verdict = "unevaluated"
        /\ a.status \in {"OPTIMAL", "FEASIBLE", "ERROR", "INFEASIBLE", "UNKNOWN"}
        /\ a.verdict \in Verdicts
        /\ a.status = "ERROR" => a = Answer("ERROR", a.verdict, FALSE)
    BY <1>1 DEF CpSatAnswers, Answer, Verdicts
  <2>2. Verified(a) = a
    BY <2>1 DEF Verified, Successful
  <2>3. QED
    BY <1>1, <2>1, <2>2 DEF AllAnswers, ModelStatus, Terminal, Successful
<1>2. CASE a \in GaAnswers
  <2>1. /\ a.status \in {"FEASIBLE", "NO_SOLUTION"}
        /\ a.status = "FEASIBLE" => a.verdict = "feasible"
        /\ a.status = "NO_SOLUTION" => a.verdict = "violated"
    BY <1>2 DEF GaAnswers, Answer
  <2>2. Verified(a) = a
    BY <2>1 DEF Verified, Successful
  <2>3. QED
    BY <1>2, <2>1, <2>2 DEF AllAnswers, ModelStatus, Terminal, Successful, Verdicts
<1>3. QED
  BY <1>1, <1>2 DEF Answers

\* The greatest element of a dense set of numbers exists and is its bound.
LEMMA DenseMax ==
  ASSUME NEW S, S # {}, NEW n \in Nat, S \cup {0} = 0 .. n
  PROVE  (CHOOSE m \in S : \A k \in S : k <= m) = n
<1>1. n \in S
  BY SMT
<1>2. \A k \in S : k <= n /\ k \in Nat
  BY SMT
<1>3. \A m \in S : (\A k \in S : k <= m) => m = n
  BY <1>1, <1>2, SMT
<1>4. QED
  BY <1>1, <1>2, <1>3

-----------------------------------------------------------------------------
(* One executor's step and one row's step                                  *)

RowsInv == RowsTyped /\ VersionsDiffer /\ EvidenceAgrees /\ Dense

\* The core of the invariant, as the steps below take it apart.
LEMMA CoreParts == Core <=> RowsInv /\ ExecTyped /\ ExecInv
BY DEF Core, RowsInv

\* Rows that an executor works on stay started, and RUNNING under its lock.
Undisturbed(f) ==
  /\ at[f] \in Working => status'[job[f]] \notin {"ABSENT", "QUEUED"}
  /\ at[f] = "persisting" => status'[job[f]] = "RUNNING"

\* What the rest of the proof needs to know of an executor's next state.
LEMMA ExecutorStep ==
  ASSUME ExecTyped, ExecInv, NEW e \in Executors,
         NEW p \in Phases, NEW j \in Runs \cup {NoRun},
         NEW a \in AllAnswers \cup {NoAnswer}, NEW k \in Nat,
         at' = [at EXCEPT ![e] = p], job' = [job EXCEPT ![e] = j],
         answer' = [answer EXCEPT ![e] = a], number' = [number EXCEPT ![e] = k],
         \A f \in Executors \ {e} : Undisturbed(f),
         VersionNumbers \ {0} \subseteq VersionNumbers',
         p = "idle" <=> j = NoRun,
         p \in Working => status'[j] \notin {"ABSENT", "QUEUED"},
         p = "persisting" => status'[j] = "RUNNING",
         p \in {"solved", "persisting"} => \E b \in Answers(j) : a = Verified(b),
         k > 0 => p = "persisting" /\ Publishable(a) /\ j \notin DraftlessRuns,
         k > 1 => k - 1 \in VersionNumbers',
         p \in Working =>
           \A f \in Executors \ {e} : at[f] \in Working => job[f] # j
  PROVE  ExecTyped' /\ ExecInv'
<1>1. ExecTyped'
  BY DEF ExecTyped
<1>2. IdleWithoutJob'
  BY DEF IdleWithoutJob, ExecInv, ExecTyped
<1>3. WorkIsStarted'
  BY DEF WorkIsStarted, ExecInv, ExecTyped, Undisturbed
<1>4. LockKeepsRunning'
  BY DEF LockKeepsRunning, ExecInv, ExecTyped, Undisturbed
<1>5. AnswersAreVerified'
  BY DEF AnswersAreVerified, ExecInv, ExecTyped
<1>6. NumbersFollow'
  BY DEF NumbersFollow, ExecInv, ExecTyped, WillPublish
<1>7. SoleSolver'
  BY DEF SoleSolver, ExecInv, ExecTyped
<1>8. QED
  BY <1>1, <1>2, <1>3, <1>4, <1>5, <1>6, <1>7 DEF ExecInv

\* The executors stand still while rows change around them.
LEMMA ExecutorsStay ==
  ASSUME ExecTyped, ExecInv, UNCHANGED execVars,
         \A f \in Executors : Undisturbed(f),
         UNCHANGED version
  PROVE  ExecTyped' /\ ExecInv'
BY DEF ExecTyped, ExecInv, execVars, IdleWithoutJob, WorkIsStarted,
       LockKeepsRunning, AnswersAreVerified, NumbersFollow, SoleSolver,
       Undisturbed, WillPublish, VersionNumbers

\* A status changes by a request, a start or a failure: no evidence yet.
LEMMA StatusStep ==
  ASSUME RowsInv, NEW r \in Runs, NEW s,
         status' = [status EXCEPT ![r] = s], UNCHANGED <<evidence, version>>,
         \/ s = status[r]
         \/ /\ status[r] \in Open \cup {"ABSENT"}
            /\ s \in {"QUEUED", "RUNNING", "CANCELLED", "FAILED"}
  PROVE  RowsInv'
<1>1. RowsTyped'
  BY DEF RowsInv, RowsTyped, RunStatus, Open, Terminal, Successful
<1>2. VersionsDiffer' /\ Dense'
  BY DEF RowsInv, VersionsDiffer, Dense, VersionNumbers
<1>3. EvidenceAgrees'
  BY DEF RowsInv, RowsTyped, EvidenceAgrees, Open, Successful
<1>4. QED
  BY <1>1, <1>2, <1>3 DEF RowsInv

\* A step that leaves the rows and the version numbers alone keeps RowsInv.
LEMMA RowsStay ==
  ASSUME RowsInv, UNCHANGED rows
  PROVE  RowsInv' /\ VersionNumbers' = VersionNumbers
BY DEF RowsInv, rows, RowsTyped, VersionsDiffer, EvidenceAgrees, Dense,
       VersionNumbers

\* A status that changes where no transaction holds the row disturbs nobody.
LEMMA NobodyDisturbed ==
  ASSUME Core, NEW r \in Runs, NEW s,
         status' = [status EXCEPT ![r] = s],
         \/ s = status[r]
         \/ ~RowLocked(r) /\ s \notin {"ABSENT", "QUEUED"}
         \/ status[r] = "ABSENT"
  PROVE  \A f \in Executors : Undisturbed(f)
BY DEF Core, ExecInv, ExecTyped, RowsTyped, WorkIsStarted, LockKeepsRunning,
       Undisturbed, RowLocked, Working

\* While no status changes, no executor is disturbed.
LEMMA NobodyDisturbedIfRowsStay ==
  ASSUME Core, UNCHANGED status
  PROVE  \A f \in Executors : Undisturbed(f)
BY DEF Core, ExecInv, WorkIsStarted, LockKeepsRunning, Undisturbed

-----------------------------------------------------------------------------
(* Steps that several actions share                                        *)

\* An executor gives its run up, and every row stays as it is.
LEMMA ReleaseStep ==
  ASSUME Core, NEW e \in Executors, Release(e), UNCHANGED rows
  PROVE  Core'
<1>1. RowsInv' /\ VersionNumbers' = VersionNumbers
  BY RowsStay, CoreParts
<1>2. ExecTyped' /\ ExecInv'
  <2>1. \A f \in Executors : Undisturbed(f)
    BY NobodyDisturbedIfRowsStay DEF rows
  <2>2. /\ ExecTyped /\ ExecInv
        /\ "idle" \in Phases /\ "idle" \notin Working
        /\ 0 \in Nat /\ ~(0 > 0) /\ ~(0 > 1)
    BY DEF Core, Phases, Working
  <2>3. QED
    BY <1>1, <2>1, <2>2, ExecutorStep DEF Release
<1>3. QED
  BY <1>1, <1>2 DEF Core, RowsInv

\* An executor that is past its start moves on without touching a row.
LEMMA MoveStep ==
  ASSUME Core, NEW e \in Executors, NEW p \in {"recording", "failing", "sweeping"},
         at[e] # "idle", p \in Working => at[e] \in Working,
         at' = [at EXCEPT ![e] = p], UNCHANGED <<job, answer>>,
         number' = number \/ number' = [number EXCEPT ![e] = 0],
         at[e] # "persisting" \/ number' = [number EXCEPT ![e] = 0],
         UNCHANGED rows
  PROVE  Core'
<1>1. RowsInv' /\ VersionNumbers' = VersionNumbers
  BY RowsStay, CoreParts
<1>2. /\ job' = [job EXCEPT ![e] = job[e]]
      /\ answer' = [answer EXCEPT ![e] = answer[e]]
      /\ number' = [number EXCEPT ![e] = 0]
  BY DEF Core, ExecTyped, ExecInv, NumbersFollow
<1>3. /\ job[e] # NoRun
      /\ p \in Working => status'[job[e]] \notin {"ABSENT", "QUEUED"}
      /\ p \in Working =>
           \A f \in Executors \ {e} : at[f] \in Working => job[f] # job[e]
  BY DEF Core, ExecInv, IdleWithoutJob, WorkIsStarted, SoleSolver, rows
<1>4. p \in Phases /\ job[e] \in Runs \cup {NoRun} /\ answer[e] \in AllAnswers \cup {NoAnswer}
  BY DEF Core, ExecTyped, Phases
<1>5. ExecTyped' /\ ExecInv'
  <2>1. \A f \in Executors : Undisturbed(f)
    BY NobodyDisturbedIfRowsStay DEF rows
  <2>2. ExecTyped /\ ExecInv /\ 0 \in Nat /\ ~(0 > 0) /\ ~(0 > 1)
    BY DEF Core
  <2>3. p # "idle" /\ p \notin {"solved", "persisting"}
    OBVIOUS
  <2>4. QED
    BY <1>1, <1>2, <1>3, <1>4, <2>1, <2>2, <2>3, ExecutorStep
<1>6. QED
  BY <1>1, <1>5 DEF Core, RowsInv

\* A row changes its status and the executors stand still.
LEMMA RequestStep ==
  ASSUME Core, NEW r \in Runs, NEW s,
         status' = [status EXCEPT ![r] = s], UNCHANGED <<evidence, version>>,
         UNCHANGED execVars,
         \/ status[r] = "ABSENT" /\ s = "QUEUED"
         \/ status[r] \in Open /\ s = "CANCELLED" /\ ~RowLocked(r)
  PROVE  Core'
<1>1. RowsInv'
  BY StatusStep, CoreParts
<1>2. \A f \in Executors : Undisturbed(f)
  BY NobodyDisturbed
<1>3. ExecTyped' /\ ExecInv'
  BY <1>2, ExecutorsStay, CoreParts
<1>4. QED
  BY <1>1, <1>3 DEF Core, RowsInv

\* A step of neither the rows nor an executor keeps the core.
LEMMA QuietStep ==
  ASSUME Core, UNCHANGED rows, UNCHANGED execVars
  PROVE  Core'
<1>1. RowsInv'
  BY RowsStay, CoreParts
<1>2. ExecTyped' /\ ExecInv'
  BY NobodyDisturbedIfRowsStay, ExecutorsStay, CoreParts DEF rows
<1>3. QED
  BY <1>1, <1>2 DEF Core, RowsInv

\* An executor fails its run, if the run is still its to fail, and leaves.
LEMMA FailStep ==
  ASSUME Core, NEW e \in Executors, at[e] \in {"failing", "sweeping"},
         ~RowLocked(job[e]), NEW s,
         status' = [status EXCEPT ![job[e]] = s],
         s = status[job[e]] \/ (s = "FAILED" /\ status[job[e]] \in Open),
         UNCHANGED <<evidence, version>>,
         \/ Release(e)
         \/ at[e] = "failing" /\ GoTo(e, "sweeping")
  PROVE  Core'
<1>1. job[e] \in Runs
  BY DEF Core, ExecTyped, ExecInv, IdleWithoutJob
<1>2. RowsInv' /\ VersionNumbers' = VersionNumbers
  <2>1. RowsInv'
    BY <1>1, StatusStep, CoreParts
  <2>2. QED
    BY <2>1 DEF VersionNumbers
<1>3. \A f \in Executors : Undisturbed(f)
  BY <1>1, NobodyDisturbed
<1>4. CASE Release(e)
  <2>1. ExecTyped' /\ ExecInv'
    <3>1. /\ ExecTyped /\ ExecInv
          /\ "idle" \in Phases /\ "idle" \notin Working
          /\ 0 \in Nat /\ ~(0 > 0) /\ ~(0 > 1)
      BY DEF Core, Phases, Working
    <3>2. QED
      BY <1>2, <1>3, <1>4, <3>1, ExecutorStep DEF Release
  <2>2. QED
    BY <1>2, <2>1 DEF Core, RowsInv
<1>5. CASE at[e] = "failing" /\ GoTo(e, "sweeping")
  <2>1. /\ at' = [at EXCEPT ![e] = "sweeping"]
        /\ job' = [job EXCEPT ![e] = job[e]]
        /\ answer' = [answer EXCEPT ![e] = answer[e]]
        /\ number' = [number EXCEPT ![e] = 0]
        /\ answer[e] \in AllAnswers \cup {NoAnswer}
        /\ job[e] # NoRun
    BY <1>1, <1>5, RunsAssumption DEF Core, ExecTyped, ExecInv, NumbersFollow, GoTo
  <2>2. ExecTyped' /\ ExecInv'
    <3>1. /\ ExecTyped /\ ExecInv
          /\ "sweeping" \in Phases /\ "sweeping" \notin Working
          /\ 0 \in Nat /\ ~(0 > 0) /\ ~(0 > 1)
      BY DEF Core, Phases, Working
    <3>2. QED
      BY <1>1, <1>2, <1>3, <2>1, <3>1, ExecutorStep
  <2>3. QED
    BY <1>2, <2>2 DEF Core, RowsInv
<1>6. QED
  BY <1>4, <1>5

-----------------------------------------------------------------------------
(* The invariant holds initially and is kept by every action               *)

\* With no row created the invariant holds.
LEMMA InitIInv == Init => IInv
<1> SUFFICES ASSUME Init PROVE IInv
  OBVIOUS
<1> USE DEF Init
<1>1. EnvTyped
  BY RunsAssumption DEF EnvTyped, Submissions
<1>2. RowsTyped /\ ExecTyped
  BY DEF RowsTyped, ExecTyped, Evidence, Phases
<1>3. ExecInv
  BY DEF ExecInv, IdleWithoutJob, WorkIsStarted, LockKeepsRunning, Working,
         AnswersAreVerified, NumbersFollow, SoleSolver
<1>4. VersionsDiffer /\ EvidenceAgrees
  BY DEF VersionsDiffer, EvidenceAgrees, Successful, Open
<1>5. Dense
  <2>1. VersionNumbers \cup {0} = 0 .. 0
    BY DEF VersionNumbers
  <2>2. QED
    BY <2>1 DEF Dense
<1>6. QED
  BY <1>1, <1>2, <1>3, <1>4, <1>5 DEF IInv, Core

\* Taking a run, from the queue or from the batch.
LEMMA TakeStep ==
  ASSUME Core, NEW e \in Executors, NEW r \in Runs, at[e] = "idle",
         at' = [at EXCEPT ![e] = "taken"], job' = [job EXCEPT ![e] = r],
         UNCHANGED <<answer, number>>, UNCHANGED rows
  PROVE  Core'
<1>1. RowsInv' /\ VersionNumbers' = VersionNumbers
  BY RowsStay, CoreParts
<1>2. /\ answer' = [answer EXCEPT ![e] = answer[e]]
      /\ number' = [number EXCEPT ![e] = 0]
      /\ answer[e] \in AllAnswers \cup {NoAnswer}
      /\ ExecTyped /\ ExecInv
  BY DEF Core, ExecTyped, ExecInv, NumbersFollow
<1>3. \A f \in Executors : Undisturbed(f)
  BY NobodyDisturbedIfRowsStay DEF rows
<1>4. /\ "taken" \in Phases /\ "taken" \notin Working /\ r # NoRun
      /\ 0 \in Nat /\ ~(0 > 0) /\ ~(0 > 1)
  BY RunsAssumption DEF Phases, Working
<1>5. ExecTyped' /\ ExecInv'
  BY <1>1, <1>2, <1>3, <1>4, ExecutorStep
<1>6. QED
  BY <1>1, <1>5 DEF Core, RowsInv

\* _mark_started admits one executor to the try block of execute_run.
LEMMA StartStep ==
  ASSUME Core, NEW e \in Executors, MarkStarted(e)
  PROVE  Core'
<1>1. /\ job[e] \in Runs /\ job[e] # NoRun
      /\ status[job[e]] = "QUEUED"
      /\ ExecTyped /\ ExecInv /\ RowsInv
  BY RunsAssumption
     DEF MarkStarted, Startable, Core, RowsInv, ExecTyped, ExecInv, IdleWithoutJob
<1>2. RowsInv'
  BY <1>1, StatusStep DEF MarkStarted, Open
<1>3. VersionNumbers' = VersionNumbers
  BY DEF MarkStarted, VersionNumbers
<1>4. \A f \in Executors : Undisturbed(f)
  BY <1>1, NobodyDisturbed DEF MarkStarted
<1>5. /\ at' = [at EXCEPT ![e] = "solving"]
      /\ job' = [job EXCEPT ![e] = job[e]]
      /\ answer' = [answer EXCEPT ![e] = answer[e]]
      /\ number' = [number EXCEPT ![e] = 0]
      /\ answer[e] \in AllAnswers \cup {NoAnswer}
  BY <1>1 DEF MarkStarted, GoTo, ExecTyped, ExecInv, NumbersFollow
<1>6. /\ status'[job[e]] = "RUNNING"
      /\ \A f \in Executors \ {e} : at[f] \in Working => job[f] # job[e]
  BY <1>1 DEF MarkStarted, RowsInv, RowsTyped, ExecInv, WorkIsStarted
<1>7. "solving" \in Phases /\ 0 \in Nat /\ ~(0 > 0) /\ ~(0 > 1)
  BY DEF Phases
<1>8. ExecTyped' /\ ExecInv'
  BY <1>1, <1>3, <1>4, <1>5, <1>6, <1>7, ExecutorStep
<1>9. QED
  BY <1>2, <1>8 DEF Core, RowsInv

\* The solver answers, and the service verifies what it answered.
LEMMA SolveStep ==
  ASSUME Core, NEW e \in Executors, Solve(e)
  PROVE  Core'
<1>1. RowsInv' /\ VersionNumbers' = VersionNumbers
  BY RowsStay, CoreParts DEF Solve, rows, rowVars
<1>2. PICK a \in Answers(job[e]) : answer' = [answer EXCEPT ![e] = Verified(a)]
  BY DEF Solve
<1>3. Verified(a) \in AllAnswers \cup {NoAnswer}
  BY <1>2, VerifiedAnswers
<1>4. /\ at' = [at EXCEPT ![e] = "solved"]
      /\ job' = [job EXCEPT ![e] = job[e]]
      /\ number' = [number EXCEPT ![e] = 0]
      /\ job[e] \in Runs \cup {NoRun} /\ job[e] # NoRun
      /\ ExecTyped /\ ExecInv
  BY DEF Solve, Core, ExecTyped, ExecInv, NumbersFollow, IdleWithoutJob
<1>5. /\ status'[job[e]] \notin {"ABSENT", "QUEUED"}
      /\ \A f \in Executors \ {e} : at[f] \in Working => job[f] # job[e]
  BY <1>4 DEF Solve, rowVars, ExecInv, WorkIsStarted, SoleSolver, Working
<1>6. \A f \in Executors : Undisturbed(f)
  BY NobodyDisturbedIfRowsStay DEF Solve, rowVars
<1>7. "solved" \in Phases /\ 0 \in Nat /\ ~(0 > 0) /\ ~(0 > 1)
  BY DEF Phases
<1>8. ExecTyped' /\ ExecInv'
  BY <1>1, <1>2, <1>3, <1>4, <1>5, <1>6, <1>7, ExecutorStep
<1>9. QED
  BY <1>1, <1>8 DEF Core, RowsInv

\* The number read is the successor of the greatest one, so its predecessor
\* is in use.
LEMMA BeginPersistStep ==
  ASSUME Core, NEW e \in Executors, BeginPersist(e)
  PROVE  Core'
<1>1. RowsInv' /\ VersionNumbers' = VersionNumbers
  BY RowsStay, CoreParts DEF BeginPersist, rows, rowVars
<1>2. /\ job[e] \in Runs /\ job[e] # NoRun
      /\ answer[e] \in AllAnswers \cup {NoAnswer}
      /\ job' = [job EXCEPT ![e] = job[e]]
      /\ answer' = [answer EXCEPT ![e] = answer[e]]
      /\ ExecTyped /\ ExecInv
  BY RunsAssumption DEF BeginPersist, Core, ExecTyped, ExecInv, IdleWithoutJob
<1>3. PICK n \in Nat : VersionNumbers \cup {0} = 0 .. n
  BY DEF Core, Dense
<1>4. NextVersion = n + 1
  <2>1. VersionNumbers # {}
    BY <1>2 DEF VersionNumbers
  <2>2. QED
    BY <1>3, <2>1, DenseMax DEF NextVersion, MaxVersion
<1>5. PICK k \in Nat :
        /\ k = IF WillPublish(e) THEN n + 1 ELSE 0
        /\ number' = [number EXCEPT ![e] = k]
  <2>1. number' = [number EXCEPT ![e] = IF WillPublish(e) THEN n + 1 ELSE 0]
    BY <1>4 DEF BeginPersist
  <2>2. CASE WillPublish(e)
    BY <2>1, <2>2, n + 1 \in Nat
  <2>3. CASE ~WillPublish(e)
    BY <2>1, <2>3, 0 \in Nat
  <2>4. QED
    BY <2>2, <2>3
<1>6. /\ k > 0 => Publishable(answer[e]) /\ job[e] \notin DraftlessRuns
      /\ k > 1 => k - 1 \in VersionNumbers'
  BY <1>1, <1>3, <1>5 DEF WillPublish
<1>7. /\ status'[job[e]] = "RUNNING"
      /\ \E b \in Answers(job[e]) : answer[e] = Verified(b)
      /\ \A f \in Executors \ {e} : at[f] \in Working => job[f] # job[e]
  BY <1>2 DEF BeginPersist, AcceptsResult, rowVars, ExecInv, AnswersAreVerified,
              SoleSolver, Working
<1>8. \A f \in Executors : Undisturbed(f)
  BY NobodyDisturbedIfRowsStay DEF BeginPersist, rowVars
<1>9. ExecTyped' /\ ExecInv'
  <2>1. at' = [at EXCEPT ![e] = "persisting"] /\ "persisting" \in Phases
    BY DEF BeginPersist, Phases
  <2>2. QED
    BY <1>1, <1>2, <1>5, <1>6, <1>7, <1>8, <2>1, ExecutorStep
<1>10. QED
  BY <1>1, <1>9 DEF Core, RowsInv

\* The transaction writes status, verdict and draft together; the number it
\* read was free, so it is the next one.
LEMMA CommitStep ==
  ASSUME Core, NEW e \in Executors, CommitPersist(e)
  PROVE  Core'
<1> DEFINE r == job[e]
           k == number[e]
<1>1. /\ r \in Runs /\ r # NoRun /\ at[e] = "persisting"
      /\ answer[e] \in AllAnswers \cup {NoAnswer}
      /\ k \in Nat
      /\ status[r] = "RUNNING" /\ version[r] = 0
      /\ ExecTyped /\ ExecInv /\ RowsTyped
  BY RunsAssumption
     DEF CommitPersist, Core, RowsTyped, ExecTyped, ExecInv, IdleWithoutJob,
         LockKeepsRunning, EvidenceAgrees, Open
<1>2. PICK a \in Answers(r) : answer[e] = Verified(a)
  BY <1>1 DEF ExecInv, AnswersAreVerified
<1>3. /\ k > 0 => answer[e].verdict = "feasible" /\ k \notin VersionNumbers
      /\ k > 1 => k - 1 \in VersionNumbers
  BY <1>1 DEF ExecInv, NumbersFollow, WillPublish, Publishable, NumberIsFree, CommitPersist
<1>4. /\ status' = [status EXCEPT ![r] = ModelStatus(answer[e])]
      /\ evidence' = [evidence EXCEPT ![r] = answer[e].verdict]
      /\ version' = [version EXCEPT ![r] = k]
  BY DEF CommitPersist
<1>5. RowsTyped'
  BY <1>1, <1>2, <1>4, VerifiedAnswers DEF RowsTyped, RunStatus, Evidence
<1>6. \A q \in Runs : q # r => version[q] # k \/ k = 0
  BY <1>1, <1>3 DEF VersionNumbers
<1>7. VersionsDiffer'
  BY <1>1, <1>4, <1>6 DEF Core, VersionsDiffer, RowsTyped
<1>8. EvidenceAgrees'
  <2>1. /\ ModelStatus(answer[e]) \notin Open \cup {"ABSENT", "CANCELLED"}
        /\ k > 0 => answer[e].verdict = "feasible"
        /\ ModelStatus(answer[e]) \in Successful => answer[e].verdict = "feasible"
        /\ ModelStatus(answer[e]) \in {"NO_SOLUTION", "TIMEOUT"} =>
             answer[e].verdict \in {"unevaluated", "violated"}
        /\ ModelStatus(answer[e]) \in {"OPTIMAL", "INFEASIBLE"} => r \notin GaRuns
    BY <1>2, <1>3, VerifiedAnswers DEF Open, Terminal, Successful
  <2>2. QED
    BY <1>1, <1>4, <2>1 DEF Core, EvidenceAgrees, RowsTyped
<1>9. VersionNumbers' \cup {0} = VersionNumbers \cup {0} \cup {k}
  BY <1>1, <1>4 DEF VersionNumbers, RowsTyped
<1>10. Dense'
  <2>1. PICK n \in Nat : VersionNumbers \cup {0} = 0 .. n
    BY DEF Core, Dense
  <2>2. CASE k = 0
    BY <1>9, <2>1, <2>2 DEF Dense
  <2>3. CASE k > 0
    <3>1. k = n + 1
      BY <1>1, <1>3, <2>1, <2>3
    <3>2. VersionNumbers' \cup {0} = 0 .. (n + 1)
      BY <1>9, <2>1, <3>1
    <3>3. QED
      BY <3>2 DEF Dense
  <2>4. QED
    BY <1>1, <2>2, <2>3
<1>11. VersionNumbers \ {0} \subseteq VersionNumbers'
  BY <1>1, <1>4 DEF VersionNumbers, RowsTyped
<1>12. \A f \in Executors : f # e => Undisturbed(f)
  <2> SUFFICES ASSUME NEW f \in Executors, f # e PROVE Undisturbed(f)
    OBVIOUS
  <2>1. at[f] \in Working => job[f] # r
    BY <1>1 DEF ExecInv, SoleSolver, Working
  <2>2. at[f] \in Working => status'[job[f]] = status[job[f]]
    BY <1>1, <1>4, <2>1 DEF RowsTyped, ExecTyped, ExecInv, IdleWithoutJob, Working
  <2>3. QED
    BY <1>1, <2>2
       DEF Undisturbed, ExecInv, WorkIsStarted, LockKeepsRunning, Working
<1>13. /\ at' = [at EXCEPT ![e] = "recording"]
       /\ job' = [job EXCEPT ![e] = job[e]]
       /\ answer' = [answer EXCEPT ![e] = answer[e]]
       /\ number' = [number EXCEPT ![e] = 0]
  BY <1>1 DEF CommitPersist, EndTransaction, ExecTyped
<1>14. /\ status'[job[e]] \notin {"ABSENT", "QUEUED"}
       /\ \A f \in Executors \ {e} : at[f] \in Working => job[f] # job[e]
  BY <1>1, <1>2, <1>4, VerifiedAnswers
     DEF RowsTyped, ExecInv, SoleSolver, Working, Terminal, Successful
<1>15. "recording" \in Phases /\ 0 \in Nat /\ ~(0 > 0) /\ ~(0 > 1)
  BY DEF Phases
<1>16. ExecTyped' /\ ExecInv'
  BY <1>1, <1>11, <1>12, <1>13, <1>14, <1>15, ExecutorStep
<1>17. QED
  BY <1>5, <1>7, <1>8, <1>10, <1>16 DEF Core

\* A revoke broadcast adds commands and nothing else.
LEMMA RevokeTyped ==
  ASSUME control \in SUBSET Commands, NEW r \in Runs, Revoke(r)
  PROVE  control' \in SUBSET Commands
<1>1. PICK listening \in SUBSET Workers :
        control' = control \cup
          [worker: listening, run: {r}, terminate: {status[r] = "RUNNING"}]
  BY DEF Revoke
<1>2. (status[r] = "RUNNING") \in BOOLEAN
  OBVIOUS
<1>3. [worker: listening, run: {r}, terminate: {status[r] = "RUNNING"}]
        \subseteq Commands
  BY <1>2 DEF Commands
<1>4. QED
  BY <1>1, <1>3

\* Messages, revokes and task ids keep the types of the variables they touch.
LEMMA EnvStep ==
  ASSUME EnvTyped, ExecTyped, ExecInv, [Next]_vars
  PROVE  EnvTyped'
<1> USE RunsAssumption DEF EnvTyped, Submissions, brokerVars
<1>1. CASE UNCHANGED vars
  BY <1>1 DEF vars, rowVars
<1>2. ASSUME NEW r \in Runs, Request(r) PROVE EnvTyped'
  <2>1. CASE Cancel(r)
    <3>1. control' \in SUBSET Commands
      BY <2>1, RevokeTyped DEF Cancel, RevokeIfKnown
    <3>2. QED
      BY <2>1, <3>1 DEF Cancel
  <2>2. CASE Create(r) \/ Publish(r) \/ StoreTaskId(r)
    <3>1. CASE Create(r)
      BY <3>1 DEF Create
    <3>2. CASE Publish(r)
      BY <3>2 DEF Publish, rowVars
    <3>3. CASE StoreTaskId(r)
      BY <3>3 DEF StoreTaskId
    <3>4. QED
      BY <2>2, <3>1, <3>2, <3>3
  <2>3. QED
    BY <1>2, <2>1, <2>2 DEF Request
<1>3. ASSUME NEW w \in Workers, Deliver(w) PROVE EnvTyped'
  <2>1. ASSUME NEW r \in Runs, Receive(w, r) \/ DiscardRevoked(w, r)
        PROVE  EnvTyped'
    <3>1. broker[r] - 1 \in Nat
      BY <2>1 DEF Receive, DiscardRevoked
    <3>2. QED
      BY <2>1, <3>1 DEF Receive, DiscardRevoked, rowVars
  <2>2. CASE HandleRevoke(w)
    <3>1. PICK c \in control :
            /\ control' = control \ {c}
            /\ revoked' = [revoked EXCEPT ![w] = @ \cup {c.run}]
            /\ IF c.terminate /\ job[w] = c.run
               THEN /\ Release(w)
                    /\ \E returned \in {0, 1} :
                         broker' = [broker EXCEPT ![c.run] = @ + returned]
               ELSE UNCHANGED <<broker, execVars>>
            /\ UNCHANGED <<rowVars, submission, faults>>
      BY <2>2 DEF HandleRevoke
    <3>2. c.run \in Runs
      BY DEF Commands
    <3>3. broker' \in [Runs -> Nat]
      <4>1. CASE c.terminate /\ job[w] = c.run
        BY <3>1, <3>2, <4>1
      <4>2. CASE ~(c.terminate /\ job[w] = c.run)
        BY <3>1, <4>2
      <4>3. QED
        BY <4>1, <4>2
    <3>4. revoked' \in [Workers -> SUBSET Runs]
      BY <3>1, <3>2
    <3>5. QED
      BY <3>1, <3>3, <3>4 DEF rowVars
  <2>3. QED
    BY <1>3, <2>1, <2>2 DEF Deliver
<1>4. ASSUME NEW e \in Executors, Execute(e) PROVE EnvTyped'
  BY <1>4 DEF Execute, MarkStarted, SkipCancelled, RefuseStart, Solve, SolverRaises,
              BeginPersist, DropResult, CommitPersist, PersistFails, RecordMetric,
              FailRun, rowVars
<1>5. ASSUME NEW s \in Shells, NEW r \in Runs, ShellTakes(s, r) PROVE EnvTyped'
  BY <1>5 DEF ShellTakes, rowVars
<1>6. ASSUME NEW s \in Shells, ShellFailsRun(s) PROVE EnvTyped'
  BY <1>6 DEF ShellFailsRun
<1>7. CASE Faulty
  <2>1. Fault => faults' \in 0 .. MaxFaults
    BY DEF Fault
  <2>2. ASSUME NEW r \in Runs, SubmissionFails(r) PROVE EnvTyped'
    BY <2>1, <2>2 DEF SubmissionFails, rowVars
  <2>3. ASSUME NEW r \in Runs, CancelRollsBack(r) PROVE EnvTyped'
    BY <2>1, <2>3, RevokeTyped DEF CancelRollsBack, rowVars
  <2>4. ASSUME NEW w \in Workers, WorkerLost(w) \/ HardTimeLimit(w) \/ Redeliver(w)
        PROVE  EnvTyped'
    <3>1. job[w] \in Runs
      BY <2>4 DEF WorkerLost, HardTimeLimit, Redeliver, ExecTyped, Executors
    <3>2. CASE WorkerLost(w)
      BY <2>1, <3>1, <3>2 DEF WorkerLost, rowVars
    <3>3. CASE HardTimeLimit(w) \/ Redeliver(w)
      BY <2>1, <3>1, <3>3 DEF HardTimeLimit, Redeliver, rowVars
    <3>4. QED
      BY <2>4, <3>2, <3>3
  <2>5. ASSUME NEW s \in Shells, ShellDies(s) PROVE EnvTyped'
    BY <2>1, <2>5 DEF ShellDies, rowVars
  <2>6. QED
    BY <1>7, <2>2, <2>3, <2>4, <2>5 DEF Faulty
<1>8. QED
  BY <1>1, <1>2, <1>3, <1>4, <1>5, <1>6, <1>7 DEF Next

\* Every step keeps the inductive core: one case per action.
LEMMA CoreStep ==
  ASSUME Core, [Next]_vars
  PROVE  Core'
<1> USE DEF rows, rowVars
<1>1. CASE UNCHANGED vars
  BY <1>1, QuietStep DEF vars
<1>2. ASSUME NEW r \in Runs, Request(r) PROVE Core'
  <2>1. CASE Create(r)
    BY <2>1, RequestStep DEF Create
  <2>2. CASE Cancel(r)
    BY <2>2, RequestStep DEF Cancel
  <2>3. CASE Publish(r) \/ StoreTaskId(r)
    BY <2>3, QuietStep DEF Publish, StoreTaskId
  <2>4. QED
    BY <1>2, <2>1, <2>2, <2>3 DEF Request
<1>3. ASSUME NEW w \in Workers, Deliver(w) PROVE Core'
  <2>1. ASSUME NEW r \in Runs, Receive(w, r) PROVE Core'
    BY <2>1, TakeStep DEF Receive, Executors
  <2>2. ASSUME NEW r \in Runs, DiscardRevoked(w, r) PROVE Core'
    BY <2>2, QuietStep DEF DiscardRevoked
  <2>3. CASE HandleRevoke(w)
    <3>1. UNCHANGED rows /\ (Release(w) \/ UNCHANGED execVars)
      BY <2>3 DEF HandleRevoke
    <3>2. QED
      BY <3>1, ReleaseStep, QuietStep DEF Executors
  <2>4. QED
    BY <1>3, <2>1, <2>2, <2>3 DEF Deliver
<1>4. ASSUME NEW e \in Executors, Execute(e) PROVE Core'
  <2>1. CASE MarkStarted(e)
    BY <2>1, StartStep
  <2>2. CASE SkipCancelled(e)
    BY <2>2, ReleaseStep DEF SkipCancelled
  <2>3. CASE RefuseStart(e)
    BY <2>3, ReleaseStep, MoveStep
       DEF RefuseStart, Exits, AfterError, GoTo, Working
  <2>4. CASE Solve(e)
    BY <2>4, SolveStep
  <2>5. CASE SolverRaises(e)
    BY <2>5, MoveStep DEF SolverRaises, GoTo, Working
  <2>6. CASE BeginPersist(e)
    BY <2>6, BeginPersistStep
  <2>7. CASE DropResult(e)
    BY <2>7, MoveStep DEF DropResult, GoTo, Working
  <2>8. CASE CommitPersist(e)
    BY <2>8, CommitStep
  <2>9. CASE PersistFails(e)
    BY <2>9, MoveStep DEF PersistFails, EndTransaction, Working
  <2>10. CASE RecordMetric(e)
    BY <2>10, ReleaseStep, MoveStep DEF RecordMetric, GoTo, Working
  <2>11. CASE FailRun(e)
    <3>1. /\ status' = [status EXCEPT ![job[e]] = FailedBySolver(status[job[e]])]
          /\ Release(e) \/ GoTo(e, "sweeping")
          /\ at[e] = "failing" /\ ~RowLocked(job[e])
          /\ UNCHANGED <<evidence, version>>
      BY <2>11 DEF FailRun, Exits, AfterError
    <3>2. PICK t :
            /\ t = FailedBySolver(status[job[e]])
            /\ t = status[job[e]] \/ (t = "FAILED" /\ status[job[e]] \in Open)
      BY DEF FailedBySolver, Open
    <3>3. status' = [status EXCEPT ![job[e]] = t]
      BY <3>1, <3>2
    <3>4. QED
      BY <3>1, <3>2, <3>3, FailStep
  <2>12. QED
    BY <1>4, <2>1, <2>2, <2>3, <2>4, <2>5, <2>6, <2>7, <2>8, <2>9, <2>10, <2>11
       DEF Execute
<1>5. ASSUME NEW s \in Shells, NEW r \in Runs, ShellTakes(s, r) PROVE Core'
  BY <1>5, TakeStep DEF ShellTakes, Executors
<1>6. ASSUME NEW s \in Shells, ShellFailsRun(s) PROVE Core'
  <2>1. /\ status' = [status EXCEPT ![job[s]] = FailedByBatch(status[job[s]])]
        /\ Release(s) /\ s \in Executors
        /\ at[s] = "sweeping" /\ ~RowLocked(job[s])
        /\ UNCHANGED <<evidence, version>>
    BY <1>6 DEF ShellFailsRun, Executors
  <2>2. PICK t :
          /\ t = FailedByBatch(status[job[s]])
          /\ t = status[job[s]] \/ (t = "FAILED" /\ status[job[s]] \in Open)
    BY DEF FailedByBatch
  <2>3. status' = [status EXCEPT ![job[s]] = t]
    BY <2>1, <2>2
  <2>4. QED
    BY <2>1, <2>2, <2>3, FailStep
<1>7. CASE Faulty
  <2>1. ASSUME NEW r \in Runs, SubmissionFails(r) \/ CancelRollsBack(r)
        PROVE  Core'
    BY <2>1, QuietStep DEF SubmissionFails, CancelRollsBack
  <2>2. ASSUME NEW w \in Workers, WorkerLost(w) \/ HardTimeLimit(w)
        PROVE  Core'
    BY <2>2, ReleaseStep DEF WorkerLost, HardTimeLimit, Executors
  <2>3. ASSUME NEW w \in Workers, Redeliver(w) PROVE Core'
    BY <2>3, QuietStep DEF Redeliver
  <2>4. ASSUME NEW s \in Shells, ShellDies(s) PROVE Core'
    BY <2>4, ReleaseStep DEF ShellDies, Executors
  <2>5. QED
    BY <1>7, <2>1, <2>2, <2>3, <2>4 DEF Faulty
<1>8. QED
  BY <1>1, <1>2, <1>3, <1>4, <1>5, <1>6, <1>7 DEF Next

\* The invariant is inductive.
LEMMA InvariantStep == IInv /\ [Next]_vars => IInv'
BY EnvStep, CoreStep DEF IInv, Core

-----------------------------------------------------------------------------
(* The theorems                                                            *)

\* The inductive invariant holds in every reachable state, for any number of
\* runs, workers, shells and faults: the other safety theorems rest on it.
THEOREM Invariance == Spec => []IInv
<1>1. Init => IInv
  BY InitIInv
<1>2. IInv /\ [Next]_vars => IInv'
  BY InvariantStep
<1>3. QED
  BY <1>1, <1>2, PTL DEF Spec

\* Every variable keeps its type; in particular the version number read
\* under Max always exists.
THEOREM TypeCorrect == Spec => []TypeOK
<1>1. IInv => TypeOK
  BY IInvStrengthens DEF SafetyInv
<1>2. QED
  BY <1>1, Invariance, PTL

\* At most one executor is inside execute_run's try block for a run, for any
\* number of workers, shells, redeliveries and crashes.
THEOREM OneSolverPerRun == Spec => []SoleSolver
<1>1. IInv => SoleSolver
  BY IInvStrengthens DEF SafetyInv
<1>2. QED
  BY <1>1, Invariance, PTL

\* Status, verdict and draft of a run never contradict each other.
THEOREM EvidenceCorrect == Spec => []EvidenceAgrees
<1>1. IInv => EvidenceAgrees
  BY IInvStrengthens DEF SafetyInv
<1>2. QED
  BY <1>1, Invariance, PTL

\* Drafts of a term are numbered 1 .. k for every number of runs and writers.
THEOREM VersionsNumbered == Spec => []VersionsConsecutive
<1>1. IInv => VersionsConsecutive
  <2> SUFFICES ASSUME IInv PROVE VersionsConsecutive
    OBVIOUS
  <2> DEFINE drafted == {r \in Runs : version[r] > 0}
             numbered == [r \in drafted |-> version[r]]
  <2>1. PICK n \in Nat : VersionNumbers \cup {0} = 0 .. n
    BY DEF IInv, Core, Dense
  <2>2. version \in [Runs -> Nat] /\ VersionsDiffer
    BY DEF IInv, Core, RowsTyped
  <2>3. {version[r] : r \in drafted} = 1 .. n
    <3>1. \A r \in drafted : version[r] \in 1 .. n
      BY <2>1, <2>2 DEF VersionNumbers
    <3>2. \A k \in 1 .. n : \E r \in drafted : version[r] = k
      <4> SUFFICES ASSUME NEW k \in 1 .. n PROVE \E r \in drafted : version[r] = k
        OBVIOUS
      <4>1. k \in VersionNumbers /\ k > 0
        BY <2>1
      <4>2. QED
        BY <4>1 DEF VersionNumbers
    <3>3. QED
      BY <3>1, <3>2
  <2>4. numbered \in Injection(drafted, 1 .. n)
    BY <2>2, <2>3 DEF Injection, IsInjective, VersionsDiffer
  <2>5. numbered \in Surjection(drafted, 1 .. n)
    BY <2>3, <2>4 DEF Injection, Surjection
  <2>6. IsFiniteSet(1 .. n) /\ Cardinality(1 .. n) = n
    BY FS_Interval
  <2>7. Cardinality(drafted) = n
    BY <2>4, <2>5, <2>6, FS_Injection
  <2>8. QED
    BY <2>3, <2>7 DEF VersionsConsecutive
<1>2. QED
  BY <1>1, Invariance, PTL

-----------------------------------------------------------------------------
(* How rows change: the promise, and that finished rows do not             *)

\* Requests, starts and failures.
StatusMove(r, s) ==
  /\ status' = [status EXCEPT ![r] = s]
  /\ UNCHANGED <<evidence, version>>
  /\ \/ status[r] = "ABSENT" /\ s = "QUEUED"
     \/ status[r] = "QUEUED" /\ s = "RUNNING"
     \/ status[r] \in Open /\ s \in {"CANCELLED", "FAILED"}

\* A committed result.
Concludes(r) ==
  /\ status[r] = "RUNNING"
  /\ \E s \in Terminal \ {"CANCELLED"}, v \in Verdicts, k \in Nat :
       /\ Promise!VerdictFits(s, v)
       /\ k > 0 => v = "feasible"
       /\ status' = [status EXCEPT ![r] = s]
       /\ evidence' = [evidence EXCEPT ![r] = v]
       /\ version' = [version EXCEPT ![r] = k]

\* persist_result's commit is the promise's Conclude.
LEMMA CommitConcludes ==
  ASSUME Core, NEW e \in Executors, CommitPersist(e)
  PROVE  job[e] \in Runs /\ Concludes(job[e])
<1>1. /\ job[e] \in Runs /\ number[e] \in Nat
      /\ status[job[e]] = "RUNNING"
      /\ number[e] > 0 => answer[e].verdict = "feasible"
  BY DEF CommitPersist, Core, ExecTyped, ExecInv, IdleWithoutJob,
         LockKeepsRunning, NumbersFollow, WillPublish, Publishable
<1>2. PICK a \in Answers(job[e]) : answer[e] = Verified(a)
  BY DEF CommitPersist, Core, ExecInv, AnswersAreVerified
<1>3. /\ ModelStatus(answer[e]) \in Terminal \ {"CANCELLED"}
      /\ answer[e].verdict \in Verdicts
      /\ Promise!VerdictFits(ModelStatus(answer[e]), answer[e].verdict)
  BY <1>2, VerifiedAnswers DEF Promise!VerdictFits, Promise!Successful, Successful
<1>4. QED
  BY <1>1, <1>3 DEF Concludes, CommitPersist

\* A failure recorded in a row is the promise's Fail.
LEMMA FailMoves ==
  ASSUME NEW r \in Runs, UNCHANGED <<evidence, version>>,
         status \in [Runs -> {"ABSENT"} \cup RunStatus],
         \/ status' = [status EXCEPT ![r] = FailedBySolver(@)]
         \/ status' = [status EXCEPT ![r] = FailedByBatch(@)]
  PROVE  UNCHANGED rows \/ StatusMove(r, "FAILED")
BY DEF FailedBySolver, FailedByBatch, StatusMove, rows, Open

\* Every step of the run service maps to one of the promise or leaves its
\* rows alone.
LEMMA RowSteps ==
  ASSUME Core, [Next]_vars
  PROVE  \/ UNCHANGED rows
         \/ \E r \in Runs : \E s : StatusMove(r, s)
         \/ \E r \in Runs : Concludes(r)
<1> USE DEF rows, rowVars
<1>1. CASE UNCHANGED vars
  BY <1>1 DEF vars
<1>2. ASSUME NEW r \in Runs, Request(r)
      PROVE  UNCHANGED rows \/ \E s : StatusMove(r, s)
  <2>1. CASE Create(r)
    BY <2>1 DEF Create, StatusMove
  <2>2. CASE Cancel(r)
    BY <2>2 DEF Cancel, StatusMove
  <2>3. CASE Publish(r) \/ StoreTaskId(r)
    BY <2>3 DEF Publish, StoreTaskId
  <2>4. QED
    BY <1>2, <2>1, <2>2, <2>3 DEF Request
<1>3. ASSUME NEW w \in Workers, Deliver(w) PROVE UNCHANGED rows
  BY <1>3 DEF Deliver, Receive, DiscardRevoked, HandleRevoke
<1>4. ASSUME NEW e \in Executors, Execute(e)
      PROVE  \/ UNCHANGED rows
             \/ \E r \in Runs : \E s : StatusMove(r, s)
             \/ \E r \in Runs : Concludes(r)
  <2>1. at[e] # "idle" => job[e] \in Runs
    BY DEF Core, ExecTyped, ExecInv, IdleWithoutJob
  <2>2. CASE MarkStarted(e)
    BY <2>1, <2>2 DEF MarkStarted, Startable, StatusMove
  <2>3. CASE CommitPersist(e)
    BY <2>3, CommitConcludes
  <2>4. CASE FailRun(e)
    <3>1. job[e] \in Runs /\ status \in [Runs -> {"ABSENT"} \cup RunStatus]
      BY <2>1, <2>4 DEF FailRun, Core, RowsTyped
    <3>2. QED
      BY <2>4, <3>1, FailMoves DEF FailRun
  <2>5. CASE SkipCancelled(e) \/ RefuseStart(e) \/ Solve(e) \/ SolverRaises(e)
    BY <2>5 DEF SkipCancelled, RefuseStart, Solve, SolverRaises
  <2>6. CASE BeginPersist(e) \/ DropResult(e) \/ PersistFails(e) \/ RecordMetric(e)
    BY <2>6 DEF BeginPersist, DropResult, PersistFails, RecordMetric
  <2>7. QED
    BY <1>4, <2>2, <2>3, <2>4, <2>5, <2>6 DEF Execute
<1>5. ASSUME NEW s \in Shells, NEW r \in Runs, ShellTakes(s, r)
      PROVE  UNCHANGED rows
  BY <1>5 DEF ShellTakes
<1>6. ASSUME NEW s \in Shells, ShellFailsRun(s)
      PROVE  UNCHANGED rows \/ \E r \in Runs : \E t : StatusMove(r, t)
  <2>1. job[s] \in Runs /\ status \in [Runs -> {"ABSENT"} \cup RunStatus]
    BY <1>6 DEF ShellFailsRun, Core, RowsTyped, ExecTyped, ExecInv, IdleWithoutJob,
                Executors
  <2>2. QED
    BY <1>6, <2>1, FailMoves DEF ShellFailsRun
<1>7. CASE Faulty
  BY <1>7 DEF Faulty, SubmissionFails, CancelRollsBack, WorkerLost, HardTimeLimit,
              Redeliver, ShellDies
<1>8. QED
  BY <1>1, <1>2, <1>3, <1>4, <1>5, <1>6, <1>7 DEF Next

Frozen ==
  \A r \in Runs : status[r] \in Terminal =>
    /\ status'[r] = status[r]
    /\ evidence'[r] = evidence[r]
    /\ version'[r] = version[r]

\* No step writes the row of a run that ended.
LEMMA FinishedStays ==
  ASSUME Core, [Next]_vars
  PROVE  Frozen
<1> SUFFICES ASSUME NEW q \in Runs, status[q] \in Terminal
             PROVE  /\ status'[q] = status[q]
                    /\ evidence'[q] = evidence[q]
                    /\ version'[q] = version[q]
  BY DEF Frozen
<1>1. RowsTyped /\ Core
  BY DEF Core
<1>2. CASE UNCHANGED rows
  BY <1>2 DEF rows
<1>3. ASSUME NEW r \in Runs, NEW s, StatusMove(r, s) PROVE r # q
  BY <1>3 DEF StatusMove, Terminal, Successful, Open
<1>4. ASSUME NEW r \in Runs, Concludes(r) PROVE r # q
  BY <1>4 DEF Concludes, Terminal, Successful
<1>5. ASSUME NEW r \in Runs, NEW s, StatusMove(r, s)
      PROVE  /\ status'[q] = status[q]
             /\ evidence'[q] = evidence[q]
             /\ version'[q] = version[q]
  BY <1>1, <1>3, <1>5 DEF StatusMove, RowsTyped
<1>6. ASSUME NEW r \in Runs, Concludes(r)
      PROVE  /\ status'[q] = status[q]
             /\ evidence'[q] = evidence[q]
             /\ version'[q] = version[q]
  BY <1>1, <1>4, <1>6 DEF Concludes, RowsTyped
<1>7. QED
  BY <1>1, <1>2, <1>5, <1>6, RowSteps

\* A run that ended keeps its status, verdict and draft for ever, along every
\* path that writes the row.
THEOREM FinishedRunsFrozen == Spec => TerminalIsFinal
<1>1. IInv /\ [Next]_vars => Frozen
  BY FinishedStays DEF IInv
<1>2. QED
  BY <1>1, Invariance, PTL DEF Spec, TerminalIsFinal, Frozen

-----------------------------------------------------------------------------
(* Who attends to a run                                                    *)

Attending == {"solving", "solved", "persisting", "failing"}

\* A terminating revoke that is under way concerns a run that ended: the
\* cancellation that sent it was committed.
RevokesComeLate == \A c \in control : c.terminate => status[c.run] \in Terminal

\* What holds until a process dies.
Calm == faults = 0 => RunningIsAttended /\ RevokesComeLate

\* A step of one executor, or of none, leaves nothing unattended if it stays
\* with a run that is still open and takes what it opens into its hands.
LEMMA AttendanceStep ==
  ASSUME RunningIsAttended, faults = 0, NEW e \in Executors,
         \A f \in Executors \ {e} : at'[f] = at[f] /\ job'[f] = job[f],
         \A r \in Runs : status'[r] = "RUNNING" =>
           \/ at'[e] \in Attending /\ job'[e] = r
           \/ status[r] = "RUNNING" /\ ~(at[e] \in Attending /\ job[e] = r)
  PROVE  RunningIsAttended'
<1> SUFFICES ASSUME NEW r \in Runs, status'[r] = "RUNNING"
             PROVE  \E f \in Executors : at'[f] \in Attending /\ job'[f] = r
  BY DEF RunningIsAttended, Attending
<1>2. CASE at'[e] \in Attending /\ job'[e] = r
  BY <1>2
<1>3. CASE status[r] = "RUNNING" /\ ~(at[e] \in Attending /\ job[e] = r)
  <2>1. PICK f \in Executors : at[f] \in Attending /\ job[f] = r
    BY <1>3 DEF RunningIsAttended, Attending
  <2>2. at'[f] = at[f] /\ job'[f] = job[f]
    BY <1>3, <2>1
  <2>3. QED
    BY <2>1, <2>2
<1>4. QED
  BY <1>2, <1>3

\* Where an executor that goes on or leaves is found, and the others.
LEMMA Goes ==
  ASSUME Core, NEW e \in Executors, NEW p, GoTo(e, p)
  PROVE  /\ at'[e] = p /\ job'[e] = job[e]
         /\ \A f \in Executors \ {e} : at'[f] = at[f] /\ job'[f] = job[f]
BY DEF GoTo, Core, ExecTyped

LEMMA Leaves ==
  ASSUME Core, NEW e \in Executors, Release(e)
  PROVE  /\ at'[e] = "idle" /\ job'[e] = NoRun
         /\ \A f \in Executors \ {e} : at'[f] = at[f] /\ job'[f] = job[f]
BY DEF Release, Core, ExecTyped

\* Steps that move no executor and open no run.
LEMMA AttendanceKept ==
  ASSUME RunningIsAttended, faults = 0, UNCHANGED <<at, job>>,
         \A r \in Runs : status'[r] = "RUNNING" => status[r] = "RUNNING"
  PROVE  RunningIsAttended'
BY DEF RunningIsAttended

\* Revokes under way stay late, because runs that ended stay so.
LEMMA RevokesStayLate ==
  ASSUME Core, EnvTyped, RevokesComeLate, [Next]_vars, control' \subseteq control
  PROVE  RevokesComeLate'
<1> SUFFICES ASSUME NEW c \in control, c.terminate PROVE status'[c.run] \in Terminal
  BY DEF RevokesComeLate
<1>1. c.run \in Runs /\ status[c.run] \in Terminal
  BY DEF RevokesComeLate, EnvTyped, Commands
<1>2. QED
  BY <1>1, FinishedStays DEF Frozen

\* One case per action: who leaves the try block of execute_run leaves a run
\* behind that ended.
LEMMA CalmStep ==
  ASSUME IInv, Calm, [Next]_vars
  PROVE  Calm'
<1> SUFFICES ASSUME faults' = 0 PROVE RunningIsAttended' /\ RevokesComeLate'
  BY DEF Calm
<1> USE DEF rowVars, brokerVars, execVars
<1>1. Core /\ EnvTyped
  BY DEF IInv
<1>2. ~Fault
  BY <1>1, RunsAssumption DEF Fault, EnvTyped
<1>3. ASSUME faults = faults' PROVE RunningIsAttended /\ RevokesComeLate
  BY <1>3 DEF Calm
<1>4. CASE UNCHANGED vars
  BY <1>1, <1>3, <1>4, AttendanceKept, RevokesStayLate DEF vars
<1>5. ASSUME NEW r \in Runs, Request(r) PROVE RunningIsAttended' /\ RevokesComeLate'
  <2>1. faults = faults' /\ UNCHANGED <<at, job>>
    BY <1>5 DEF Request, Create, Publish, StoreTaskId, Cancel
  <2>2. \A q \in Runs : status'[q] = "RUNNING" => status[q] = "RUNNING"
    BY <1>1, <1>5
       DEF Request, Create, Publish, StoreTaskId, Cancel, Core, RowsTyped
  <2>3. RunningIsAttended'
    BY <1>3, <2>1, <2>2, AttendanceKept
  <2>4. CASE Cancel(r)
    <3>1. \A c \in control' : c.terminate => c \in control \/ c.run = r
      BY <2>4 DEF Cancel, RevokeIfKnown, Revoke
    <3>2. status'[r] \in Terminal
      BY <1>1, <2>4 DEF Cancel, Terminal, Core, RowsTyped
    <3>3. ASSUME NEW c \in control, c.terminate PROVE status'[c.run] \in Terminal
      <4>1. c.run \in Runs /\ status[c.run] \in Terminal
        BY <1>1, <1>3, <2>1, <3>3 DEF RevokesComeLate, EnvTyped, Commands
      <4>2. QED
        BY <1>1, <4>1, FinishedStays DEF Frozen
    <3>4. QED
      BY <2>3, <3>1, <3>2, <3>3 DEF RevokesComeLate
  <2>5. CASE Create(r) \/ Publish(r) \/ StoreTaskId(r)
    <3>1. control' = control
      BY <2>5 DEF Create, Publish, StoreTaskId
    <3>2. QED
      BY <1>1, <1>3, <2>1, <2>3, <3>1, RevokesStayLate
  <2>6. QED
    BY <1>5, <2>4, <2>5 DEF Request
<1>6. ASSUME NEW w \in Workers, Deliver(w) PROVE RunningIsAttended' /\ RevokesComeLate'
  <2>1. faults = faults' /\ control' \subseteq control /\ UNCHANGED rows
    BY <1>6 DEF Deliver, Receive, DiscardRevoked, HandleRevoke, rows
  <2>2. RevokesComeLate'
    BY <1>1, <1>3, <2>1, RevokesStayLate
  <2>3. w \in Executors
    BY DEF Executors
  <2>4. ASSUME NEW r \in Runs, Receive(w, r) PROVE RunningIsAttended'
    <3>1. /\ at[w] = "idle"
          /\ \A f \in Executors \ {w} : at'[f] = at[f] /\ job'[f] = job[f]
      BY <1>1, <2>4 DEF Receive, Core, ExecTyped
    <3>2. QED
      BY <1>3, <2>1, <2>3, <3>1, AttendanceStep DEF Attending, rows
  <2>5. ASSUME NEW r \in Runs, DiscardRevoked(w, r) PROVE RunningIsAttended'
    BY <1>3, <2>1, <2>5, AttendanceKept DEF DiscardRevoked, rows
  <2>6. ASSUME HandleRevoke(w) PROVE RunningIsAttended'
    <3>1. CASE UNCHANGED execVars
      BY <1>3, <2>1, <3>1, AttendanceKept DEF rows
    <3>2. CASE ~UNCHANGED execVars
      <4>1. PICK c \in control : c.terminate /\ job[w] = c.run /\ Release(w)
        BY <2>6, <3>2 DEF HandleRevoke
      <4>2. status[job[w]] # "RUNNING"
        BY <1>3, <2>1, <4>1 DEF RevokesComeLate, Terminal, Successful
      <4>3. QED
        BY <1>1, <1>3, <2>1, <2>3, <4>1, <4>2, Leaves, AttendanceStep DEF rows
    <3>3. QED
      BY <3>1, <3>2
  <2>7. QED
    BY <1>6, <2>2, <2>4, <2>5, <2>6 DEF Deliver
<1>7. ASSUME NEW e \in Executors, Execute(e) PROVE RunningIsAttended' /\ RevokesComeLate'
  <2>1. faults = faults' /\ control' = control
    BY <1>7 DEF Execute, MarkStarted, SkipCancelled, RefuseStart, Solve, SolverRaises,
                BeginPersist, DropResult, CommitPersist, PersistFails, RecordMetric,
                FailRun
  <2>2. RevokesComeLate'
    BY <1>1, <1>3, <2>1, RevokesStayLate
  <2>3. job[e] \in Runs \cup {NoRun} /\ (at[e] # "idle" => job[e] \in Runs)
    BY <1>1 DEF Core, ExecTyped, ExecInv, IdleWithoutJob
  <2>4. ASSUME MarkStarted(e) PROVE RunningIsAttended'
    <3>1. /\ at[e] = "taken" /\ GoTo(e, "solving")
          /\ \A q \in Runs \ {job[e]} : status'[q] = status[q]
      BY <1>1, <2>3, <2>4 DEF MarkStarted, Core, RowsTyped
    <3>2. QED
      BY <1>1, <1>3, <2>1, <3>1, Goes, AttendanceStep DEF Attending
  <2>5. ASSUME SkipCancelled(e) \/ RefuseStart(e) PROVE RunningIsAttended'
    <3>1. /\ at[e] = "taken" /\ UNCHANGED rows
          /\ Release(e) \/ GoTo(e, "sweeping")
      BY <2>5 DEF SkipCancelled, RefuseStart, Exits, AfterError, rows
    <3>2. QED
      BY <1>1, <1>3, <2>1, <3>1, Leaves, Goes, AttendanceStep DEF Attending, rows
  <2>6. ASSUME Solve(e) \/ SolverRaises(e) \/ BeginPersist(e) \/ PersistFails(e)
        PROVE  RunningIsAttended'
    <3>1. /\ at[e] \in Attending /\ UNCHANGED <<rows, job>>
          /\ at'[e] \in Attending
          /\ \A f \in Executors \ {e} : at'[f] = at[f]
      BY <1>1, <2>6 DEF Solve, SolverRaises, BeginPersist, PersistFails,
                        EndTransaction, GoTo, Attending, rows, Core, ExecTyped
    <3>2. QED
      BY <1>3, <2>1, <3>1, AttendanceStep DEF rows
  <2>7. ASSUME DropResult(e) PROVE RunningIsAttended'
    <3>1. PICK p \in {"recording", "failing"} :
            /\ GoTo(e, p) /\ UNCHANGED rows
            /\ p = "recording" => status[job[e]] = "CANCELLED"
      BY <2>7 DEF DropResult, rows
    <3>2. QED
      BY <1>1, <1>3, <2>1, <3>1, Goes, AttendanceStep DEF Attending, rows
  <2>8. ASSUME CommitPersist(e) PROVE RunningIsAttended'
    <3>1. Concludes(job[e]) /\ job[e] \in Runs
      BY <1>1, <2>8, CommitConcludes
    <3>2. /\ status'[job[e]] # "RUNNING"
          /\ \A q \in Runs \ {job[e]} : status'[q] = status[q]
      BY <1>1, <3>1 DEF Concludes, Core, RowsTyped, Terminal, Successful
    <3>3. QED
      <4>1. \A f \in Executors \ {e} : at'[f] = at[f] /\ job'[f] = job[f]
        BY <1>1, <2>8 DEF CommitPersist, EndTransaction, Core, ExecTyped
      <4>2. QED
        BY <1>3, <2>1, <3>2, <4>1, AttendanceStep
  <2>9. ASSUME RecordMetric(e) PROVE RunningIsAttended'
    <3>1. /\ at[e] = "recording" /\ UNCHANGED rows
          /\ Release(e) \/ GoTo(e, "failing")
      BY <2>9 DEF RecordMetric, rows
    <3>2. QED
      BY <1>1, <1>3, <2>1, <3>1, Leaves, Goes, AttendanceStep DEF Attending, rows
  <2>10. ASSUME FailRun(e) PROVE RunningIsAttended'
    <3>1. /\ status'[job[e]] # "RUNNING"
          /\ \A q \in Runs \ {job[e]} : status'[q] = status[q]
      BY <1>1, <2>3, <2>10 DEF FailRun, FailedBySolver, Core, RowsTyped
    <3>2. Release(e) \/ GoTo(e, "sweeping")
      BY <2>10 DEF FailRun, Exits, AfterError
    <3>3. QED
      BY <1>1, <1>3, <2>1, <3>1, <3>2, Leaves, Goes, AttendanceStep
  <2>11. QED
    BY <1>7, <2>2, <2>4, <2>5, <2>6, <2>7, <2>8, <2>9, <2>10 DEF Execute
<1>8. ASSUME NEW s \in Shells, NEW r \in Runs, ShellTakes(s, r)
      PROVE  RunningIsAttended' /\ RevokesComeLate'
  <2>1. faults = faults' /\ control' = control /\ s \in Executors
    BY <1>8 DEF ShellTakes, Executors
  <2>2. RunningIsAttended'
    <3>1. /\ at[s] = "idle" /\ UNCHANGED rows
          /\ \A f \in Executors \ {s} : at'[f] = at[f] /\ job'[f] = job[f]
      BY <1>1, <1>8, <2>1 DEF ShellTakes, Core, ExecTyped, rows
    <3>2. QED
      BY <1>3, <2>1, <3>1, AttendanceStep DEF Attending, rows
  <2>3. QED
    BY <1>1, <1>3, <2>1, <2>2, RevokesStayLate
<1>9. ASSUME NEW s \in Shells, ShellFailsRun(s)
      PROVE  RunningIsAttended' /\ RevokesComeLate'
  <2>1. faults = faults' /\ control' = control /\ s \in Executors
    BY <1>9 DEF ShellFailsRun, Executors
  <2>2. job[s] \in Runs
    BY <1>1, <1>9, <2>1 DEF ShellFailsRun, Core, ExecTyped, ExecInv, IdleWithoutJob
  <2>3. \A q \in Runs : status'[q] = "RUNNING" => status[q] = "RUNNING"
    BY <1>1, <1>9, <2>2 DEF ShellFailsRun, FailedByBatch, Core, RowsTyped
  <2>4. RunningIsAttended'
    <3>1. at[s] = "sweeping" /\ Release(s)
      BY <1>9 DEF ShellFailsRun
    <3>2. QED
      BY <1>1, <1>3, <2>1, <2>3, <3>1, Leaves, AttendanceStep DEF Attending
  <2>5. QED
    BY <1>1, <1>3, <2>1, <2>4, RevokesStayLate
<1>10. ~Faulty
  BY <1>2 DEF Faulty, SubmissionFails, CancelRollsBack, WorkerLost, HardTimeLimit,
              Redeliver, ShellDies
<1>11. QED
  BY <1>4, <1>5, <1>6, <1>7, <1>8, <1>9, <1>10 DEF Next

\* Unless a process died, every RUNNING run is in the hands of an executor:
\* no cancellation, refused start or dropped answer leaves one behind.
THEOREM RunsAreAttended == Spec => []RunningIsAttended
<1>1. Init => Calm
  BY DEF Init, Calm, RunningIsAttended, RevokesComeLate
<1>2. (IInv /\ Calm) /\ [Next]_vars => Calm'
  BY CalmStep
<1>3. Calm => RunningIsAttended
  BY DEF Calm, RunningIsAttended
<1>4. QED
  BY <1>1, <1>2, <1>3, Invariance, PTL DEF Spec

\* All parts of the invariant the run RunFaults checks.
THEOREM RunsAreSafe == Spec => []SafetyInv
<1>1. QED
  BY IInvStrengthens, Invariance, PTL

\* The executors, messages and faults implement RunPromise.
THEOREM PromiseKept == Spec => KeepsPromise
<1>1. Init => Promise!Init
  <2> SUFFICES ASSUME Init PROVE Promise!Init
    OBVIOUS
  <2>1. [r \in Runs |-> version[r] > 0] = [r \in Runs |-> FALSE]
    <3>1. \A r \in Runs : (version[r] > 0) = FALSE
      BY DEF Init
    <3>2. QED
      BY <3>1, Zenon
  <2>2. QED
    BY <2>1 DEF Init, Promise!Init
<1>2. IInv /\ [Next]_vars => [Promise!Next]_Promise!vars
  <2> SUFFICES ASSUME IInv, [Next]_vars PROVE [Promise!Next]_Promise!vars
    OBVIOUS
  <2>1. RowsTyped /\ Core
    BY DEF IInv, Core
  <2>2. CASE UNCHANGED rows
    BY <2>2 DEF rows, Promise!vars
  <2>3. ASSUME NEW r \in Runs, NEW s, StatusMove(r, s) PROVE Promise!Next
    <3>1. UNCHANGED <<evidence, [q \in Runs |-> version[q] > 0]>>
      BY <2>3 DEF StatusMove
    <3>2. \/ Promise!Moves(r, {"ABSENT"}, "QUEUED")
          \/ Promise!Moves(r, {"QUEUED"}, "RUNNING")
          \/ Promise!Moves(r, Open, "CANCELLED")
          \/ Promise!Moves(r, Open, "FAILED")
      BY <2>3 DEF StatusMove, Promise!Moves
    <3>3. \/ Promise!Enqueue(r) \/ Promise!Start(r)
          \/ Promise!Cancel(r) \/ Promise!Fail(r)
      BY <3>1, <3>2
         DEF Promise!Enqueue, Promise!Start, Promise!Cancel, Promise!Fail,
             Promise!Open, Open
    <3>4. QED
      BY <3>3 DEF Promise!Next
  <2>4. ASSUME NEW r \in Runs, Concludes(r) PROVE Promise!Next
    <3>1. PICK s \in Terminal \ {"CANCELLED"}, v \in Verdicts, k \in Nat :
            /\ Promise!VerdictFits(s, v)
            /\ k > 0 => v = "feasible"
            /\ status' = [status EXCEPT ![r] = s]
            /\ evidence' = [evidence EXCEPT ![r] = v]
            /\ version' = [version EXCEPT ![r] = k]
      BY <2>4 DEF Concludes
    <3>2. [q \in Runs |-> version'[q] > 0]
            = [[q \in Runs |-> version[q] > 0] EXCEPT ![r] = k > 0]
      BY <2>1, <3>1 DEF RowsTyped
    <3>3. Promise!Moves(r, {"RUNNING"}, s)
      BY <2>4, <3>1 DEF Concludes, Promise!Moves
    <3>4. PICK d \in BOOLEAN :
            /\ d => v = "feasible"
            /\ [q \in Runs |-> version'[q] > 0]
                 = [[q \in Runs |-> version[q] > 0] EXCEPT ![r] = d]
      <4>1. (k > 0) \in BOOLEAN
        OBVIOUS
      <4>2. QED
        BY <3>1, <3>2, <4>1
    <3>5. Promise!Conclude(r)
      BY <3>1, <3>3, <3>4
         DEF Promise!Conclude, Promise!Terminal, Promise!Successful,
             Promise!Verdicts, Terminal, Successful, Verdicts
    <3>6. QED
      BY <3>5 DEF Promise!Next
  <2>5. QED
    BY <2>1, <2>2, <2>3, <2>4, RowSteps
<1>3. QED
  BY <1>1, <1>2, Invariance, PTL DEF Spec, KeepsPromise, Promise!Spec
=============================================================================
