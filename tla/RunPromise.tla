----------------------------- MODULE RunPromise -----------------------------
(***************************************************************************)
(* What the run service promises about a ScheduleRun, with no executors,   *)
(* messages or faults: the row is queued, starts at most once, and ends    *)
(* exactly once, either by a verdict on a solver's answer, by a user, or   *)
(* by a failure that leaves no evidence.  A finished row never changes.    *)
(***************************************************************************)
EXTENDS RunRules

CONSTANTS Runs

VARIABLES status, evidence, drafted

vars == <<status, evidence, drafted>>

Init ==
  /\ status = [r \in Runs |-> "ABSENT"]
  /\ evidence = [r \in Runs |-> "none"]
  /\ drafted = [r \in Runs |-> FALSE]

Moves(r, from, to) ==
  /\ status[r] \in from
  /\ status' = [status EXCEPT ![r] = to]

Enqueue(r) == Moves(r, {"ABSENT"}, "QUEUED") /\ UNCHANGED <<evidence, drafted>>
Start(r) == Moves(r, {"QUEUED"}, "RUNNING") /\ UNCHANGED <<evidence, drafted>>
Cancel(r) == Moves(r, Open, "CANCELLED") /\ UNCHANGED <<evidence, drafted>>
Fail(r) == Moves(r, Open, "FAILED") /\ UNCHANGED <<evidence, drafted>>

\* Which verdict may accompany a final status.
VerdictFits(s, v) ==
  /\ s \in Successful => v = "feasible"
  /\ s = "INFEASIBLE" => v = "unevaluated"
  /\ s \in {"NO_SOLUTION", "TIMEOUT"} => v \in {"unevaluated", "violated"}

\* The verdict, the status and the draft schedule appear in one step.
Conclude(r) ==
  \E s \in Terminal \ {"CANCELLED"}, v \in Verdicts, d \in BOOLEAN :
    /\ VerdictFits(s, v)
    /\ d => v = "feasible"
    /\ Moves(r, {"RUNNING"}, s)
    /\ evidence' = [evidence EXCEPT ![r] = v]
    /\ drafted' = [drafted EXCEPT ![r] = d]

Next ==
  \E r \in Runs : Enqueue(r) \/ Start(r) \/ Cancel(r) \/ Fail(r) \/ Conclude(r)

Spec == Init /\ [][Next]_vars
=============================================================================
