------------------------------ MODULE RunRules ------------------------------
(***************************************************************************)
(* What the run service decides from values alone: the status vocabulary   *)
(* of a ScheduleRun, what each solver may answer, and how an answer is     *)
(* verified and turned into a stored status.  Shared by every module that  *)
(* speaks of runs.  An operator named <Rule>_<Fault> is <Rule> as a        *)
(* plausible mistake would have it; only the mutation runs use those.      *)
(***************************************************************************)

\* "ABSENT" stands for a row that create_run has not inserted yet.
Open == {"QUEUED", "RUNNING"}
Successful == {"OPTIMAL", "FEASIBLE"}
Terminal == Successful \cup
            {"INFEASIBLE", "NO_SOLUTION", "TIMEOUT", "CANCELLED", "FAILED"}
RunStatus == Open \cup Terminal

\* The ValidationResult kept with a run: no row yet, no candidate returned,
\* or the verdict of the independent validator on the returned assignments.
Verdicts == {"unevaluated", "violated", "feasible"}
Evidence == {"none"} \cup Verdicts

(***************************************************************************)
(* Answers.  "timed" says that the stopping reason contains "time".        *)
(***************************************************************************)
Answer(status, verdict, timed) ==
  [status |-> status, verdict |-> verdict, timed |-> timed]

\* The two ERROR answers with assignments are the solver's own distrust of
\* itself: rejected by the validator, or rescored to another objective.
CpSatAnswers ==
  { Answer("OPTIMAL",    "feasible",    FALSE),
    Answer("FEASIBLE",   "feasible",    TRUE),
    Answer("ERROR",      "feasible",    FALSE),
    Answer("ERROR",      "violated",    FALSE),
    Answer("ERROR",      "unevaluated", FALSE),
    Answer("INFEASIBLE", "unevaluated", FALSE),
    Answer("UNKNOWN",    "unevaluated", TRUE) }

\* The GA always returns its best chromosome, feasible or not.
GaAnswers ==
  { Answer("FEASIBLE",    "feasible", timed) : timed \in BOOLEAN } \cup
  { Answer("NO_SOLUTION", "violated", timed) : timed \in BOOLEAN }

AllAnswers == CpSatAnswers \cup GaAnswers

\* execute_run downgrades a claim the independent validator contradicts.
Verified(a) ==
  IF a.status \in Successful <=> a.verdict = "feasible"
  THEN a
  ELSE Answer("ERROR", a.verdict, FALSE)

\* A mapping that reports an exhausted search as a proof.
ModelStatus_ClaimsProof(a) ==
  IF a.status = "ERROR" THEN "FAILED"
  ELSE IF a.status \in {"NO_SOLUTION", "UNKNOWN"} THEN "INFEASIBLE"
  ELSE a.status

ModelStatus(a) ==
  IF a.status = "ERROR" THEN "FAILED"
  ELSE IF a.status \in {"NO_SOLUTION", "UNKNOWN"}
       THEN IF a.timed THEN "TIMEOUT" ELSE "NO_SOLUTION"
  ELSE a.status

\* persist_result stores a draft for every verified feasible candidate.
Publishable(a) == a.verdict = "feasible"

(***************************************************************************)
(* The guards of the three writers of a run's status.                      *)
(***************************************************************************)
\* Treats a redelivered task as a fresh one.
Startable_Redelivery(s) == s \in Open
Startable(s) == s = "QUEUED"

\* Forgets that a run may be cancelled while its solver is unwinding.
AcceptsResult_LateAnswer(s) == s \in {"RUNNING", "CANCELLED"}
AcceptsResult(s) == s = "RUNNING"

\* Leaves the row alone: the exception is only logged.
FailedBySolver_Forgets(s) == s
FailedBySolver(s) == IF s = "RUNNING" THEN "FAILED" ELSE s

\* Marks the run failed whatever was decided about it in the meantime.
FailedByBatch_Unfiltered(s) == "FAILED"
FailedByBatch(s) == IF s \in Open THEN "FAILED" ELSE s
=============================================================================
