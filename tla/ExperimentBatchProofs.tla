------------------------ MODULE ExperimentBatchProofs ------------------------
(***************************************************************************)
(* Proofs about ExperimentBatch.  BatchInv is inductive: a run that ended  *)
(* never changes (EndedRunsStay), so a final batch status read while runs  *)
(* move is still true when it is written (FoundIsTrue), and a cancel       *)
(* request that has emptied its list has met every open run                *)
(* (CancelsCoverOpenRuns).  With OrderInv, which follows the runs from the *)
(* plan through the requests and the queue to the worker, runs start in    *)
(* the frozen order.                                                       *)
(***************************************************************************)
EXTENDS ExperimentBatch, TLAPS, WellFoundedInduction

\* The run that queue_experiment_batch sends next is one it still has to send
\* and comes before the others.
LEMMA FirstIsLeast ==
  ASSUME NEW S, S \subseteq Nat, S # {}
  PROVE  First(S) \in S /\ \A s \in S : First(S) <= s
<1>1. PICK m \in S : \A s \in S : ~(<<s, m>> \in OpToRel(<, Nat))
  BY NatLessThanWellFounded, WFMin, Zenon
<1>2. \A s \in S : <<s, m>> \in OpToRel(<, Nat) <=> s < m
  BY Zenon DEF OpToRel
<1>3. \A s \in S : ~(s < m)
  BY <1>1, <1>2
<1>4. \E r \in S : \A s \in S : r <= s
  BY <1>3
<1> QED
  BY <1>4, Zenon DEF First

\* The plan is a nonempty set of natural numbers.
LEMMA PlanNonempty == N \in Nat /\ N # 0 /\ Runs = 1..N /\ Runs \subseteq Nat
  BY BatchAssumption DEF Runs

\* The run that a queue request sends next is one it still has to send.
LEMMA NextIsPlanned ==
  ASSUME TypeOK, NEW q \in Queuers, queuer[q].todo # {}
  PROVE  NextToSend(queuer[q].todo) \in Runs
<1>1. PICK S : S = queuer[q].todo
  OBVIOUS
<1>2. S \subseteq Runs
  BY <1>1 DEF TypeOK, Tasks
<1>3. First(S) \in S
  BY <1>1, <1>2, PlanNonempty, FirstIsLeast
<1> QED
  BY <1>1, <1>2, <1>3 DEF NextToSend

\* A new batch satisfies the invariant.
LEMMA InitInv == Init => BatchInv
<1> SUFFICES ASSUME Init PROVE BatchInv
  OBVIOUS
<1>1. TypeOK
  BY PlanNonempty DEF Init, TypeOK, Tasks, RunStatus, Open, BatchStatus
<1>2. ExecutorsHaveRuns /\ SentIsUnstored
  BY DEF Init, ExecutorsHaveRuns, SentIsUnstored
<1>3. FoundIsTrue /\ CancelsCoverOpenRuns /\ CompletedIsComplete /\ CancelledIsOver
  BY DEF Init, FoundIsTrue, BatchLocked, CancelsCoverOpenRuns, CompletedIsComplete,
         CancelledIsOver
<1> QED
  BY <1>1, <1>2, <1>3 DEF BatchInv

-----------------------------------------------------------------------------
(* A run that ended stays as it is                                         *)

EndedRunsStay ==
  \A r \in Runs : status[r] \in Terminal => status'[r] = status[r]

\* Carried over by every step that leaves the batch and its readers alone.
LEMMA FramedFacts ==
  ASSUME BatchInv, EndedRunsStay, status' \in [Runs -> RunStatus],
         UNCHANGED <<batch, refresh>>
  PROVE  FoundIsTrue' /\ CompletedIsComplete' /\ CancelledIsOver'
<1>1. status \in [Runs -> RunStatus]
  BY DEF BatchInv, TypeOK
<1>2. \A r \in Runs : status[r] \notin Open => status'[r] = status[r]
  BY <1>1 DEF EndedRunsStay, RunStatus
<1>3. Terminal \cap Open = {} /\ "CANCELLED" \in Terminal
  BY DEF Terminal, Open, Successful
<1> QED
  BY <1>1, <1>2, <1>3
     DEF BatchInv, FoundIsTrue, BatchLocked, CompletedIsComplete, CancelledIsOver,
         EndedRunsStay

\* Carried over by every step that leaves the cancel requests alone.
LEMMA FramedCancels ==
  ASSUME BatchInv, EndedRunsStay, UNCHANGED canceller
  PROVE  CancelsCoverOpenRuns'
<1>1. status \in [Runs -> RunStatus]
  BY DEF BatchInv, TypeOK
<1>2. \A r \in Runs : status'[r] \in Open => status[r] \in Open
  BY <1>1 DEF EndedRunsStay, RunStatus, Terminal, Open, Successful
<1> QED
  BY <1>2 DEF BatchInv, CancelsCoverOpenRuns

\* A write of a status that claims nothing about the runs.
LEMMA HarmlessWrite ==
  ASSUME BatchInv, UNCHANGED <<status, canceller, refresh>>,
         batch' \in BatchStatus \ {"COMPLETED", "CANCELLED"}
  PROVE  FoundIsTrue' /\ CancelsCoverOpenRuns' /\ CompletedIsComplete' /\ CancelledIsOver'
  BY DEF BatchInv, FoundIsTrue, BatchLocked, CancelsCoverOpenRuns, CompletedIsComplete,
         CancelledIsOver

-----------------------------------------------------------------------------
(* One lemma per kind of step                                              *)

\* Requests that queue the batch.
LEMMA QueueStep ==
  ASSUME BatchInv, NEW q \in Queuers, AdmitQueuing(q) \/ Queue(q)
  PROVE  BatchInv'
<1>1. TypeOK' /\ SentIsUnstored'
  <2> USE DEF BatchInv, TypeOK, Tasks, SentIsUnstored
  <2>1. CASE AdmitQueuing(q)
    BY <2>1 DEF AdmitQueuing
  <2>2. CASE MarkQueued(q)
    BY <2>2 DEF MarkQueued, SetBatch, BatchStatus
  <2>3. CASE LoadPlan(q)
    BY <2>3 DEF LoadPlan
  <2>4. CASE Send(q)
    <3>1. NextToSend(queuer[q].todo) \in Runs
      BY <2>4, NextIsPlanned DEF Send
    <3>2. queue' \in Seq(Runs)
      BY <2>4, <3>1 DEF Send
    <3> QED
      BY <2>4, <3>2 DEF Send
  <2>5. CASE StoreTaskId(q)
    <3>1. NextToSend(queuer[q].todo) \in Runs
      BY <2>5, NextIsPlanned DEF StoreTaskId
    <3> QED
      BY <2>5, <3>1 DEF StoreTaskId
  <2>6. CASE SendFails(q)
    BY <2>6 DEF SendFails
  <2>7. CASE FailBatch(q)
    BY <2>7 DEF FailBatch, SetBatch, BatchStatus
  <2>8. CASE EndQueuing(q)
    BY <2>8 DEF EndQueuing
  <2> QED
    BY <2>1, <2>2, <2>3, <2>4, <2>5, <2>6, <2>7, <2>8 DEF Queue
<1>2. UNCHANGED <<status, canceller, exec, refresh>>
  BY DEF AdmitQueuing, Queue, MarkQueued, LoadPlan, Send, StoreTaskId, SendFails,
         FailBatch, EndQueuing
<1>3. ExecutorsHaveRuns'
  BY <1>2 DEF BatchInv, ExecutorsHaveRuns
<1>4. FoundIsTrue' /\ CancelsCoverOpenRuns' /\ CompletedIsComplete' /\ CancelledIsOver'
  <2>1. CASE batch' = batch
    BY <1>2, <2>1
       DEF BatchInv, FoundIsTrue, BatchLocked, CancelsCoverOpenRuns,
           CompletedIsComplete, CancelledIsOver
  <2>2. CASE batch' # batch
    <3>1. batch' \in {"QUEUED", "FAILED"}
      BY <2>2 DEF AdmitQueuing, Queue, MarkQueued, LoadPlan, Send, StoreTaskId,
                  SendFails, FailBatch, EndQueuing, SetBatch
    <3> QED
      BY <1>2, <3>1, HarmlessWrite DEF BatchStatus
  <2> QED
    BY <2>1, <2>2
<1> QED
  BY <1>1, <1>3, <1>4 DEF BatchInv

\* Requests that cancel the batch or one of its runs.
LEMMA CancelStep ==
  ASSUME BatchInv,
         \/ \E c \in Cancellers : BeginCancel(c) \/ CancelBatch(c)
         \/ \E r \in Runs : CancelRun(r)
  PROVE  BatchInv'
<1>1. CASE \E r \in Runs : CancelRun(r)
  <2>1. TypeOK' /\ EndedRunsStay
    BY <1>1 DEF BatchInv, TypeOK, CancelRun, EndedRunsStay, RunStatus, Terminal, Open,
                Successful
  <2>2. UNCHANGED <<batch, queuer, canceller, exec, refresh>>
    BY <1>1 DEF CancelRun
  <2>3. ExecutorsHaveRuns' /\ SentIsUnstored'
    BY <2>2 DEF BatchInv, ExecutorsHaveRuns, SentIsUnstored
  <2>4. status' \in [Runs -> RunStatus]
    BY <2>1 DEF TypeOK
  <2> QED
    BY <2>1, <2>2, <2>3, <2>4, FramedFacts, FramedCancels DEF BatchInv
<1>2. ASSUME NEW c \in Cancellers, BeginCancel(c)
      PROVE  BatchInv'
  <2>1. ToCancel \in SUBSET Runs
    BY DEF ToCancel
  <2>2. TypeOK'
    BY <1>2, <2>1 DEF BatchInv, TypeOK, Tasks, BeginCancel
  <2>3. CancelsCoverOpenRuns'
    BY <1>2 DEF BatchInv, TypeOK, BeginCancel, CancelsCoverOpenRuns, ToCancel
  <2>4. UNCHANGED <<batch, status, queuer, exec, refresh>>
    BY <1>2 DEF BeginCancel
  <2>5. /\ ExecutorsHaveRuns' /\ SentIsUnstored'
        /\ FoundIsTrue' /\ CompletedIsComplete' /\ CancelledIsOver'
    BY <2>4 DEF BatchInv, ExecutorsHaveRuns, SentIsUnstored, FoundIsTrue, BatchLocked,
                CompletedIsComplete, CancelledIsOver
  <2> QED
    BY <2>2, <2>3, <2>5 DEF BatchInv
<1>3. ASSUME NEW c \in Cancellers, CancelNext(c)
      PROVE  BatchInv'
  <2>1. PICK r \in canceller[c].todo :
          /\ status' = [status EXCEPT ![r] = Cancelled(@)]
          /\ canceller' = [canceller EXCEPT ![c].todo = @ \ {r}]
    BY <1>3 DEF CancelNext
  <2>2. r \in Runs /\ canceller[c].at = "cancelling"
    BY <1>3 DEF BatchInv, TypeOK, Tasks, CancelNext
  <2>3. UNCHANGED <<batch, tasked, queue, queuer, exec, refresh>>
    BY <1>3 DEF CancelNext
  <2>4. TypeOK' /\ EndedRunsStay /\ status'[r] \notin Open
    BY <2>1, <2>2, <2>3
       DEF BatchInv, TypeOK, Tasks, Cancelled, EndedRunsStay, RunStatus, Terminal, Open,
           Successful
  <2>5. CancelsCoverOpenRuns'
    <3>1. \A p \in Runs : status'[p] \in Open => p # r /\ status[p] \in Open
      BY <2>1, <2>2, <2>4 DEF BatchInv, TypeOK
    <3> QED
      BY <2>1, <3>1 DEF BatchInv, TypeOK, Tasks, CancelsCoverOpenRuns
  <2>6. ExecutorsHaveRuns' /\ SentIsUnstored'
    BY <2>3 DEF BatchInv, ExecutorsHaveRuns, SentIsUnstored
  <2>7. status' \in [Runs -> RunStatus]
    BY <2>4 DEF TypeOK
  <2> QED
    BY <2>3, <2>4, <2>5, <2>6, <2>7, FramedFacts DEF BatchInv
<1>4. ASSUME NEW c \in Cancellers, EndCancel(c)
      PROVE  BatchInv'
  <2>1. \A r \in Runs : status[r] \notin Open
    BY <1>4 DEF BatchInv, EndCancel, CancelsCoverOpenRuns
  <2>2. /\ batch' = "CANCELLED" /\ ~BatchLocked
        /\ UNCHANGED <<status, tasked, queue, queuer, exec, refresh>>
    BY <1>4 DEF EndCancel, SetBatch
  <2>3. TypeOK'
    BY <1>4, <2>2 DEF BatchInv, TypeOK, Tasks, EndCancel, BatchStatus
  <2>4. CancelsCoverOpenRuns'
    BY <2>1, <2>2 DEF CancelsCoverOpenRuns
  <2>5. /\ ExecutorsHaveRuns' /\ SentIsUnstored'
        /\ FoundIsTrue' /\ CompletedIsComplete' /\ CancelledIsOver'
    BY <2>1, <2>2 DEF BatchInv, ExecutorsHaveRuns, SentIsUnstored, FoundIsTrue,
                      BatchLocked, CompletedIsComplete, CancelledIsOver
  <2> QED
    BY <2>3, <2>4, <2>5 DEF BatchInv
<1> QED
  BY <1>1, <1>2, <1>3, <1>4 DEF CancelBatch

\* Where an executor may stand.
Places ==
  [at: {"idle", "admitted", "queued", "looping", "taken", "executing", "sweeping",
        "returned"},
   run: 0..N + 1]

Fits(e, p) ==
  /\ p \in Places
  /\ p.at \in {"taken", "executing", "sweeping"} => p.run \in Runs
  /\ p.at \in {"admitted", "queued", "looping"} => p.run # 0
  /\ p.at \in {"admitted", "queued", "looping", "sweeping"} => e # Worker

\* Where an executor stands fits what it is.
LEMMA ExecutorsFit ==
  ASSUME BatchInv, NEW e \in Executors
  PROVE  Fits(e, exec[e])
  BY DEF BatchInv, TypeOK, ExecutorsHaveRuns, Fits, Places

\* One executor moves to a place that fits it.
LEMMA ExecutorMoves ==
  ASSUME BatchInv, NEW e \in Executors, NEW p, Fits(e, p),
         exec' = [exec EXCEPT ![e] = p]
  PROVE  exec' \in [Executors -> Places] /\ ExecutorsHaveRuns'
<1>1. exec' \in [Executors -> Places]
  BY DEF BatchInv, TypeOK, Fits, Places
<1>2. \A f \in Executors : exec'[f] = IF f = e THEN p ELSE exec[f]
  BY DEF BatchInv, TypeOK
<1> QED
  BY <1>1, <1>2 DEF BatchInv, ExecutorsHaveRuns, Fits

\* Where execute_run leaves its caller.
LEMMA ReturnsFit ==
  ASSUME BatchInv, NEW e \in Executors, exec[e].at \in {"taken", "executing"}
  PROVE  Fits(e, Returned(e)) /\ Fits(e, Raised(e))
<1>1. exec[e].run \in Runs
  BY DEF BatchInv, ExecutorsHaveRuns
<1>2. exec[e].run + 1 \in 0..N + 1 /\ exec[e].run \in 0..N + 1 /\ exec[e].run + 1 # 0
  BY <1>1, PlanNonempty
<1>3. e \in Shells => e # Worker
  BY BatchAssumption
<1>4. 0 \in 0..N + 1
  BY PlanNonempty
<1> QED
  BY <1>1, <1>2, <1>3, <1>4 DEF Fits, Places, Returned, Raised

\* The worker and the command while they execute a run.
LEMMA ExecuteFits ==
  ASSUME BatchInv, NEW e \in Executors,
         \/ Start(e) \/ DoNotStart(e) \/ Conclude(e) \/ DropAnswer(e) \/ SolverRaises(e)
  PROVE  exec' \in [Executors -> Places] /\ ExecutorsHaveRuns'
<1>1. CASE Start(e)
  <2>1. exec' = [exec EXCEPT ![e] = [at |-> "executing", run |-> exec[e].run]]
    <3>1. exec[e] = [at |-> exec[e].at, run |-> exec[e].run]
      BY ExecutorsFit DEF Fits, Places
    <3>2. [exec[e] EXCEPT !.at = "executing"] = [at |-> "executing", run |-> exec[e].run]
      BY <3>1
    <3>3. exec' = [exec EXCEPT ![e] = [exec[e] EXCEPT !.at = "executing"]]
      BY <1>1 DEF Start
    <3> QED
      BY <3>2, <3>3
  <2>2. Fits(e, [at |-> "executing", run |-> exec[e].run])
    BY <1>1, ExecutorsFit DEF Start, Fits, Places
  <2> QED
    BY <2>1, <2>2, ExecutorMoves
<1>2. CASE DoNotStart(e)
  BY <1>2, ReturnsFit, ExecutorMoves DEF DoNotStart
<1>3. CASE Conclude(e)
  BY <1>3, ReturnsFit, ExecutorMoves DEF Conclude
<1>4. CASE DropAnswer(e)
  BY <1>4, ReturnsFit, ExecutorMoves DEF DropAnswer
<1>5. CASE SolverRaises(e)
  BY <1>5, ReturnsFit, ExecutorMoves DEF SolverRaises
<1> QED
  BY <1>1, <1>2, <1>3, <1>4, <1>5

\* The command while it goes through the plan.
LEMMA LoopFits ==
  ASSUME BatchInv, NEW s \in Shells, BeginDirect(s) \/ LoopDirect(s) \/ Sweep(s)
  PROVE  exec' \in [Executors -> Places] /\ ExecutorsHaveRuns'
<1>1. s \in Executors /\ s # Worker
  BY BatchAssumption DEF Executors
<1>2. Fits(s, exec[s])
  BY <1>1, ExecutorsFit
<1>3. CASE BeginDirect(s)
  <2>1. 1 \in 0..N + 1
    BY PlanNonempty
  <2>2. PICK x \in {"queued", "admitted"} :
          exec' = [exec EXCEPT ![s] = [at |-> x, run |-> 1]]
    BY <1>3 DEF BeginDirect
  <2>3. Fits(s, [at |-> x, run |-> 1])
    BY <1>1, <2>1, <2>2 DEF Fits, Places
  <2> QED
    BY <1>1, <2>2, <2>3, ExecutorMoves
<1>4. CASE LoopDirect(s)
  <2>1. exec[s].run \in 0..N + 1 /\ exec[s].run # 0
    BY <1>2, <1>4 DEF LoopDirect, Fits, Places
  <2>2. CASE exec[s].run > N
    <3>1. Fits(s, [at |-> "returned", run |-> 0])
      BY PlanNonempty DEF Fits, Places
    <3>2. exec' = [exec EXCEPT ![s] = [at |-> "returned", run |-> 0]]
      BY <1>1, <1>4, <2>2 DEF BatchInv, TypeOK, LoopDirect
    <3> QED
      BY <1>1, <3>1, <3>2, ExecutorMoves
  <2>3. CASE ~(exec[s].run > N)
    <3>1. exec[s].run \in Runs /\ exec[s].run + 1 \in 0..N + 1 /\ exec[s].run + 1 # 0
      BY <2>1, <2>3, PlanNonempty
    <3>2. PICK p : /\ \/ p = [at |-> "taken", run |-> exec[s].run]
                      \/ p = [at |-> "looping", run |-> exec[s].run + 1]
                   /\ exec' = [exec EXCEPT ![s] = p]
      BY <1>1, <1>4, <2>3 DEF BatchInv, TypeOK, LoopDirect
    <3>3. Fits(s, p)
      BY <1>1, <2>1, <3>1, <3>2 DEF Fits, Places
    <3> QED
      BY <1>1, <3>2, <3>3, ExecutorMoves
  <2> QED
    BY <2>2, <2>3
<1>5. CASE Sweep(s)
  <2>1. exec[s].run \in Runs
    BY <1>2, <1>5 DEF Sweep, Fits
  <2>2. exec[s].run + 1 \in 0..N + 1 /\ exec[s].run + 1 # 0
    BY <2>1, PlanNonempty
  <2>3. exec' = [exec EXCEPT ![s] = [at |-> "looping", run |-> exec[s].run + 1]]
    BY <1>1, <1>5 DEF BatchInv, TypeOK, Sweep
  <2>4. Fits(s, [at |-> "looping", run |-> exec[s].run + 1])
    BY <1>1, <2>2 DEF Fits, Places
  <2> QED
    BY <1>1, <2>3, <2>4, ExecutorMoves
<1> QED
  BY <1>3, <1>4, <1>5

\* The worker between two runs.
LEMMA WorkerFits ==
  ASSUME BatchInv, Receive \/ Killed
  PROVE  exec' \in [Executors -> Places] /\ ExecutorsHaveRuns'
<1>1. Worker \in Executors
  BY DEF Executors
<1>2. CASE Killed
  <2>1. Fits(Worker, [at |-> "idle", run |-> 0])
    BY PlanNonempty DEF Fits, Places
  <2> QED
    BY <1>1, <1>2, <2>1, ExecutorMoves DEF Killed
<1>3. CASE exec' = [exec EXCEPT ![Worker] = [at |-> "taken", run |-> Head(queue)]] /\ Receive
  <2>1. Head(queue) \in Runs /\ Head(queue) \in 0..N + 1
    BY <1>3, PlanNonempty DEF BatchInv, TypeOK, Receive
  <2>2. Fits(Worker, [at |-> "taken", run |-> Head(queue)])
    BY <2>1 DEF Fits, Places
  <2> QED
    BY <1>1, <1>3, <2>2, ExecutorMoves
<1>4. CASE UNCHANGED exec
  BY <1>4 DEF BatchInv, TypeOK, ExecutorsHaveRuns, Places
<1> QED
  BY <1>2, <1>3, <1>4 DEF Receive

\* A run moves to another status, which for an ended run is the one it has.
LEMMA MovesKeep ==
  ASSUME BatchInv, NEW r \in Runs, NEW s \in RunStatus,
         status[r] \in Terminal => s = status[r],
         status' = [status EXCEPT ![r] = s]
  PROVE  status' \in [Runs -> RunStatus] /\ EndedRunsStay
  BY DEF BatchInv, TypeOK, EndedRunsStay

\* Every step of an executor that does not touch the batch row.
LEMMA WorkStep ==
  ASSUME BatchInv,
         \/ \E e \in Executors :
              Start(e) \/ DoNotStart(e) \/ Conclude(e) \/ DropAnswer(e) \/ SolverRaises(e)
         \/ \E s \in Shells : BeginDirect(s) \/ LoopDirect(s) \/ Sweep(s)
         \/ Receive \/ Killed
  PROVE  BatchInv'
<1>1. UNCHANGED <<batch, tasked, queuer, canceller, refresh>>
  BY DEF Start, DoNotStart, Conclude, DropAnswer, SolverRaises, BeginDirect, LoopDirect,
         Sweep, Receive, Killed
<1>2. queue' \in Seq(Runs)
  <2>1. queue' = queue \/ (queue # <<>> /\ queue' = Tail(queue))
    BY DEF Start, DoNotStart, Conclude, DropAnswer, SolverRaises, BeginDirect,
           LoopDirect, Sweep, Receive, Killed
  <2>2. queue \in Seq(Runs)
    BY DEF BatchInv, TypeOK
  <2>3. queue # <<>> => Tail(queue) \in Seq(Runs)
    BY <2>2
  <2> QED
    BY <2>1, <2>2, <2>3
<1>3. status' \in [Runs -> RunStatus] /\ EndedRunsStay
  <2>1. CASE \E e \in Executors : Start(e) \/ Conclude(e) \/ SolverRaises(e)
    <3>1. PICK e \in Executors : Start(e) \/ Conclude(e) \/ SolverRaises(e)
      BY <2>1
    <3>2. exec[e].run \in Runs
      BY <3>1 DEF BatchInv, ExecutorsHaveRuns, Start, Conclude, SolverRaises
    <3>3. PICK r \in Runs : r = exec[e].run
      BY <3>2
    <3>4. status[r] \in RunStatus
      BY DEF BatchInv, TypeOK
    <3>5. CASE Start(e)
      BY <3>3, <3>4, <3>5, MovesKeep
         DEF Start, Startable, RunStatus, Terminal, Open, Successful
    <3>6. CASE Conclude(e)
      <4>1. PICK s \in Outcomes : status' = [status EXCEPT ![r] = s]
        BY <3>3, <3>6 DEF Conclude
      <4>2. s \in RunStatus /\ status[r] \notin Terminal
        BY <3>3, <3>6, BatchAssumption
           DEF Conclude, AcceptsResult, RunStatus, Terminal, Successful
      <4> QED
        BY <4>1, <4>2, MovesKeep
    <3>7. CASE SolverRaises(e)
      <4>1. status' = [status EXCEPT ![r] = FailedBySolver(status[r])]
        BY <3>3, <3>7 DEF SolverRaises
      <4>2. /\ FailedBySolver(status[r]) \in RunStatus
            /\ status[r] \in Terminal => FailedBySolver(status[r]) = status[r]
        BY <3>4 DEF FailedBySolver, RunStatus, Terminal, Successful
      <4> QED
        BY <4>1, <4>2, MovesKeep
    <3> QED
      BY <3>1, <3>5, <3>6, <3>7
  <2>2. CASE \E s \in Shells : Sweep(s)
    <3>1. PICK e \in Shells : Sweep(e)
      BY <2>2
    <3>2. exec[e].run \in Runs
      BY <3>1 DEF BatchInv, ExecutorsHaveRuns, Sweep, Executors
    <3>3. PICK r \in Runs : r = exec[e].run
      BY <3>2
    <3>4. status' = [status EXCEPT ![r] = FailedByBatch(status[r])]
      BY <3>1, <3>3 DEF Sweep
    <3>5. status[r] \in RunStatus
      BY DEF BatchInv, TypeOK
    <3>6. /\ FailedByBatch(status[r]) \in RunStatus
          /\ status[r] \in Terminal => FailedByBatch(status[r]) = status[r]
      BY <3>5 DEF FailedByBatch, RunStatus, Terminal, Open, Successful
    <3> QED
      BY <3>4, <3>6, MovesKeep
  <2>3. CASE UNCHANGED status
    BY <2>3 DEF BatchInv, TypeOK, EndedRunsStay
  <2> QED
    BY <2>1, <2>2, <2>3 DEF DoNotStart, DropAnswer, BeginDirect, LoopDirect, Receive, Killed
<1>4. exec' \in [Executors -> Places] /\ ExecutorsHaveRuns'
  BY ExecuteFits, LoopFits, WorkerFits
<1>5. TypeOK' /\ SentIsUnstored'
  BY <1>1, <1>2, <1>3, <1>4 DEF BatchInv, TypeOK, SentIsUnstored, Places
<1> QED
  BY <1>1, <1>3, <1>4, <1>5, FramedFacts, FramedCancels DEF BatchInv

\* Writes of the batch status by the command and by a refresh.
LEMMA RefreshStep ==
  ASSUME BatchInv,
         \/ \E s \in Shells : MarkDirect(s)
         \/ \E x \in Refreshers : ReadRuns(x)
         \/ \E e \in Executors : LeaveCancelled(e)
         \/ WriteStatus
  PROVE  BatchInv'
<1>1. ASSUME NEW x \in Refreshers, ReadRuns(x)
      PROVE  BatchInv'
  <2>1. UNCHANGED <<batch, status, tasked, queue, queuer, canceller, exec>>
    BY <1>1 DEF ReadRuns
  <2>2. Derived(batch) \in BatchStatus
    BY DEF BatchInv, TypeOK, BatchStatus, Derived
  <2>3. /\ refresh' = [by |-> x, found |-> Derived(batch)]
        /\ batch # "CANCELLED"
    BY <1>1 DEF ReadRuns
  <2>4. TypeOK'
    BY <2>1, <2>2, <2>3 DEF BatchInv, TypeOK
  <2>5. FoundIsTrue'
    <3>1. Derived(batch) = "COMPLETED" =>
            /\ \A r \in Runs : status[r] \in Terminal \ {"FAILED"}
            /\ \E r \in Runs : status[r] # "CANCELLED"
      BY DEF Derived
    <3>2. Derived(batch) = "CANCELLED" => \A r \in Runs : status[r] = "CANCELLED"
      BY DEF Derived
    <3> QED
      BY <2>1, <2>3, <3>1, <3>2 DEF FoundIsTrue, Open
  <2>6. /\ ExecutorsHaveRuns' /\ SentIsUnstored' /\ CancelsCoverOpenRuns'
        /\ CompletedIsComplete' /\ CancelledIsOver'
    BY <2>1 DEF BatchInv, ExecutorsHaveRuns, SentIsUnstored, CancelsCoverOpenRuns,
                CompletedIsComplete, CancelledIsOver
  <2> QED
    BY <2>4, <2>5, <2>6 DEF BatchInv
<1>2. ASSUME NEW e \in Executors, exec' = [exec EXCEPT ![e].at = "idle"]
      PROVE  exec' \in [Executors -> Places] /\ ExecutorsHaveRuns'
  <2>1. exec[e] = [at |-> exec[e].at, run |-> exec[e].run]
    BY ExecutorsFit DEF Fits, Places
  <2>2. [exec[e] EXCEPT !.at = "idle"] = [at |-> "idle", run |-> exec[e].run]
    BY <2>1
  <2>3. Fits(e, [at |-> "idle", run |-> exec[e].run])
    BY ExecutorsFit DEF Fits, Places
  <2>4. exec' = [exec EXCEPT ![e] = [exec[e] EXCEPT !.at = "idle"]]
    BY <1>2
  <2> QED
    BY <2>2, <2>3, <2>4, ExecutorMoves
<1>3. CASE WriteStatus
  <2>1. /\ BatchLocked /\ batch' = refresh.found
        /\ refresh' = [by |-> NoOne, found |-> "DRAFT"]
        /\ UNCHANGED <<status, tasked, queue, queuer, canceller>>
    BY <1>3 DEF WriteStatus
  <2>2. exec' \in [Executors -> Places] /\ ExecutorsHaveRuns'
    <3>1. refresh.by \in Refreshers
      BY <2>1 DEF BatchInv, TypeOK, BatchLocked
    <3>2. CASE refresh.by = Viewer
      BY <1>3, <3>2 DEF WriteStatus, Ended, BatchInv, TypeOK, ExecutorsHaveRuns, Places
    <3>3. CASE refresh.by # Viewer
      <4>1. refresh.by \in Executors
        BY <3>1, <3>3 DEF Refreshers
      <4>2. exec' = [exec EXCEPT ![refresh.by].at = "idle"]
        BY <1>3, <3>3 DEF WriteStatus, Ended
      <4> QED
        BY <4>1, <4>2, <1>2
    <3> QED
      BY <3>2, <3>3
  <2>3. TypeOK'
    <3>1. refresh' \in [by: Refreshers \cup {NoOne}, found: BatchStatus]
      BY <2>1 DEF BatchStatus
    <3>2. batch' \in BatchStatus
      BY <2>1 DEF BatchInv, TypeOK
    <3> QED
      BY <2>1, <2>2, <3>1, <3>2 DEF BatchInv, TypeOK, Places
  <2>4. ~BatchLocked' /\ FoundIsTrue'
    BY <2>1 DEF BatchInv, TypeOK, BatchLocked, FoundIsTrue
  <2>5. /\ SentIsUnstored' /\ CancelsCoverOpenRuns'
        /\ CompletedIsComplete' /\ CancelledIsOver'
    BY <2>1 DEF BatchInv, SentIsUnstored, CancelsCoverOpenRuns, FoundIsTrue,
                CompletedIsComplete, CancelledIsOver
  <2> QED
    BY <2>2, <2>3, <2>4, <2>5 DEF BatchInv
<1>4. ASSUME NEW e \in Executors, LeaveCancelled(e)
      PROVE  BatchInv'
  <2>1. /\ UNCHANGED <<batch, status, tasked, queue, queuer, canceller, refresh>>
        /\ batch = "CANCELLED" /\ exec' = Ended(e)
    BY <1>4 DEF LeaveCancelled
  <2>2. e # Viewer
    BY BatchAssumption
  <2>3. exec' \in [Executors -> Places] /\ ExecutorsHaveRuns'
    BY <1>2, <2>1, <2>2 DEF Ended
  <2>4. TypeOK'
    BY <2>1, <2>3 DEF BatchInv, TypeOK, Places
  <2>5. /\ SentIsUnstored' /\ FoundIsTrue' /\ CancelsCoverOpenRuns'
        /\ CompletedIsComplete' /\ CancelledIsOver'
    BY <2>1 DEF BatchInv, SentIsUnstored, FoundIsTrue, BatchLocked,
                CancelsCoverOpenRuns, CompletedIsComplete, CancelledIsOver
  <2> QED
    BY <2>3, <2>4, <2>5 DEF BatchInv
<1>5. ASSUME NEW s \in Shells, MarkDirect(s)
      PROVE  BatchInv'
  <2>1. /\ UNCHANGED <<status, tasked, queue, queuer, canceller, refresh>>
        /\ batch' \in {"QUEUED", "RUNNING"}
    BY <1>5 DEF MarkDirect, SetBatch
  <2>2. s \in Executors /\ s # Worker /\ exec[s].at \in {"admitted", "queued"}
    BY <1>5, BatchAssumption DEF MarkDirect, Executors
  <2>3. PICK x \in {"queued", "looping"} : exec' = [exec EXCEPT ![s].at = x]
    BY <1>5, <2>2 DEF MarkDirect, BatchInv, TypeOK
  <2>4. exec' \in [Executors -> Places] /\ ExecutorsHaveRuns'
    <3>1. exec[s] = [at |-> exec[s].at, run |-> exec[s].run]
      BY <2>2, ExecutorsFit DEF Fits, Places
    <3>2. [exec[s] EXCEPT !.at = x] = [at |-> x, run |-> exec[s].run]
      BY <3>1
    <3>3. Fits(s, [at |-> x, run |-> exec[s].run])
      BY <2>2, <2>3, ExecutorsFit DEF Fits, Places
    <3>4. exec' = [exec EXCEPT ![s] = [exec[s] EXCEPT !.at = x]]
      BY <2>3
    <3> QED
      BY <2>2, <3>2, <3>3, <3>4, ExecutorMoves
  <2>5. TypeOK'
    BY <2>1, <2>4 DEF BatchInv, TypeOK, Places, BatchStatus
  <2>6. SentIsUnstored'
    BY <2>1 DEF BatchInv, SentIsUnstored
  <2> QED
    BY <2>1, <2>4, <2>5, <2>6, HarmlessWrite DEF BatchInv, BatchStatus
<1> QED
  BY <1>1, <1>3, <1>4, <1>5

-----------------------------------------------------------------------------
(* Theorems                                                                *)

\* BatchInv holds of the initial state and is kept by every step: requests,
\* the worker, the command and refreshes, in any order.
THEOREM BatchInvariant == Spec => []BatchInv
<1>1. BatchInv /\ [Next]_vars => BatchInv'
  <2> SUFFICES ASSUME BatchInv, [Next]_vars PROVE BatchInv'
    OBVIOUS
  <2>1. CASE UNCHANGED vars
    BY <2>1 DEF vars, BatchInv, TypeOK, ExecutorsHaveRuns, SentIsUnstored, FoundIsTrue,
                BatchLocked, CancelsCoverOpenRuns, CompletedIsComplete, CancelledIsOver
  <2>2. ASSUME NEW q \in Queuers, AdmitQueuing(q) \/ Queue(q) PROVE BatchInv'
    BY <2>2, QueueStep
  <2>3. ASSUME NEW c \in Cancellers, BeginCancel(c) \/ CancelBatch(c) PROVE BatchInv'
    BY <2>3, CancelStep
  <2>4. ASSUME NEW r \in Runs, CancelRun(r) PROVE BatchInv'
    BY <2>4, CancelStep
  <2>5. ASSUME NEW s \in Shells, BeginDirect(s) \/ Direct(s) PROVE BatchInv'
    <3>1. CASE MarkDirect(s)
      BY <3>1, RefreshStep
    <3>2. CASE BeginDirect(s) \/ LoopDirect(s) \/ Sweep(s)
      BY <3>2, WorkStep
    <3> QED
      BY <2>5, <3>1, <3>2 DEF Direct
  <2>6. ASSUME NEW e \in Executors, Work(e) PROVE BatchInv'
    <3>1. CASE ReadRuns(e) \/ LeaveCancelled(e)
      BY <3>1, RefreshStep DEF Refreshers
    <3>2. CASE \/ Start(e) \/ DoNotStart(e) \/ Conclude(e) \/ DropAnswer(e)
               \/ SolverRaises(e)
      BY <3>2, WorkStep
    <3> QED
      BY <2>6, <3>1, <3>2 DEF Work
  <2>7. CASE Receive \/ Killed
    BY <2>7, WorkStep
  <2>8. CASE ReadRuns(Viewer) \/ WriteStatus
    BY <2>8, RefreshStep DEF Refreshers
  <2> QED
    BY <2>1, <2>2, <2>3, <2>4, <2>5, <2>6, <2>7, <2>8 DEF Next
<1> QED
  BY <1>1, InitInv, PTL DEF Spec

\* The statuses of batch and runs stay in their vocabularies.
THEOREM BatchTypeCorrect == Spec => []TypeOK
<1>1. BatchInv => TypeOK
  BY DEF BatchInv
<1> QED
  BY <1>1, BatchInvariant, PTL

\* refresh_experiment_status never calls a batch completed that is not, for
\* any number of runs, requests and processes.
THEOREM CompletedBatchesAreComplete == Spec => []CompletedIsComplete
<1>1. BatchInv => CompletedIsComplete
  BY DEF BatchInv
<1> QED
  BY <1>1, BatchInvariant, PTL

\* After ExperimentCancelView (or a refresh) has called the batch cancelled no
\* run of it is open.
THEOREM CancelledBatchesAreOver == Spec => []CancelledIsOver
<1>1. BatchInv => CancelledIsOver
  BY DEF BatchInv
<1> QED
  BY <1>1, BatchInvariant, PTL

-----------------------------------------------------------------------------
(* Runs start in the frozen order.  A run waits unless it is decided; the  *)
(* requests hand the runs to the worker in order, and the command decides  *)
(* them in order.                                                          *)

\* The run has left the queue of the plan, for good.
Decided(r) == status[r] # "QUEUED"
\* The worker has received it and not started it yet.
AtHand(r) == exec[Worker].at = "taken" /\ exec[Worker].run = r
\* Whatever becomes of it, nobody waits for it to be sent.
Handed(r) == Decided(r) \/ AtHand(r) \/ \E i \in DOMAIN queue : queue[i] = r

\* Whoever is about to start a run, or goes through the plan, has only decided
\* runs behind it.
EarlierAreDecided ==
  \A e \in Executors :
    /\ exec[e].at \notin {"idle", "returned"} =>
         \A p \in Runs : p < exec[e].run => Decided(p)
    /\ exec[e].at \in {"executing", "sweeping"} => Decided(exec[e].run)

\* A message stands behind those of the earlier runs, as long as these wait.
QueueInOrder ==
  \A i \in DOMAIN queue : \A p \in Runs : p < queue[i] =>
    Decided(p) \/ AtHand(p) \/ \E j \in DOMAIN queue : j < i /\ queue[j] = p

\* A stored task id was sent before, and so was all that a queue request leaves out.
TaskedAreHanded == \A r \in tasked : Handed(r)
OthersAreHanded ==
  \A q \in Queuers :
    /\ queuer[q].at \in {"sending", "sent"} => \A p \in Runs \ queuer[q].todo : Handed(p)
    /\ queuer[q].at = "sent" => Handed(NextToSend(queuer[q].todo))

\* Who refreshes the batch is between two runs.
RefresherReturned == refresh.by \in Executors => exec[refresh.by].at = "returned"

OrderInv ==
  /\ EarlierAreDecided
  /\ QueueInOrder
  /\ TaskedAreHanded
  /\ OthersAreHanded
  /\ RefresherReturned

\* A run that was decided never waits again.
DecidedStay == \A r \in Runs : Decided(r) => Decided(r)'

\* The steps that leave the executors and the messages alone.
LEMMA OrderFramed ==
  ASSUME BatchInv, OrderInv, DecidedStay, UNCHANGED <<tasked, queue, queuer, exec>>,
         refresh' = refresh \/ (refresh'.by \in Executors => exec[refresh'.by].at = "returned")
  PROVE  OrderInv'
<1>1. \A e \in Executors : exec[e].at \in {"executing", "sweeping"} => exec[e].run \in Runs
  BY DEF BatchInv, ExecutorsHaveRuns
<1>2. EarlierAreDecided'
  BY <1>1 DEF OrderInv, EarlierAreDecided, DecidedStay, Decided
<1>3. QueueInOrder'
  BY DEF OrderInv, QueueInOrder, DecidedStay, AtHand
<1>4. \A r \in Runs : Handed(r) => Handed(r)'
  BY DEF DecidedStay, Handed, AtHand
<1>5. TaskedAreHanded'
  BY <1>4 DEF OrderInv, TaskedAreHanded, BatchInv, TypeOK
<1>6. OthersAreHanded'
  <2>1. \A q \in Queuers : queuer[q].at = "sent" => NextToSend(queuer[q].todo) \in Runs
    BY NextIsPlanned DEF BatchInv, SentIsUnstored
  <2> QED
    BY <1>4, <2>1 DEF OrderInv, OthersAreHanded
<1>7. RefresherReturned'
  BY DEF OrderInv, RefresherReturned
<1> QED
  BY <1>2, <1>3, <1>5, <1>6, <1>7 DEF OrderInv

\* One executor goes on: what it has behind it is decided, and a run that the
\* worker held is decided when it lets it go.
LEMMA OrderWhenExecutorMoves ==
  ASSUME BatchInv, OrderInv, DecidedStay, UNCHANGED <<tasked, queue, queuer>>,
         NEW e \in Executors, NEW p \in Places,
         exec' = [exec EXCEPT ![e] = p],
         p.at \notin {"idle", "returned"} => \A x \in Runs : x < p.run => Decided(x)',
         p.at \in {"executing", "sweeping"} => \A x \in Runs : x = p.run => Decided(x)',
         p.at \in {"executing", "sweeping"} => p.run \in Runs,
         exec[e].at = "taken" => \A x \in Runs : x = exec[e].run => Decided(x)',
         \/ UNCHANGED refresh /\ exec[e].at # "returned"
         \/ refresh'.by \notin Executors
  PROVE  OrderInv'
<1>1. \A f \in Executors : exec'[f] = IF f = e THEN p ELSE exec[f]
  BY DEF BatchInv, TypeOK
<1>2. Worker \in Executors
  BY DEF Executors
<1>3. EarlierAreDecided'
  <2>1. \A f \in Executors : exec[f].at \in {"executing", "sweeping"} => exec[f].run \in Runs
    BY DEF BatchInv, ExecutorsHaveRuns
  <2> SUFFICES ASSUME NEW f \in Executors
               PROVE  /\ exec'[f].at \notin {"idle", "returned"} =>
                           \A x \in Runs : x < exec'[f].run => Decided(x)'
                      /\ exec'[f].at \in {"executing", "sweeping"} =>
                           \A x \in Runs : x = exec'[f].run => Decided(x)'
                      /\ exec'[f].at \in {"executing", "sweeping"} => exec'[f].run \in Runs
    BY DEF EarlierAreDecided, Decided
  <2>2. CASE f = e
    BY <1>1, <2>2
  <2>3. CASE f # e
    <3>1. exec'[f] = exec[f]
      BY <1>1, <2>3
    <3> QED
      BY <2>1, <3>1 DEF OrderInv, EarlierAreDecided, DecidedStay
  <2> QED
    BY <2>2, <2>3
<1>4. \A r \in Runs : AtHand(r) => Decided(r)' \/ AtHand(r)'
  BY <1>1, <1>2 DEF AtHand
<1>5. QueueInOrder'
  BY <1>4 DEF OrderInv, QueueInOrder, DecidedStay
<1>6. \A r \in Runs : Handed(r) => Handed(r)'
  BY <1>4 DEF DecidedStay, Handed
<1>7. TaskedAreHanded'
  BY <1>6 DEF OrderInv, TaskedAreHanded, BatchInv, TypeOK
<1>8. OthersAreHanded'
  <2>1. \A q \in Queuers : queuer[q].at = "sent" => NextToSend(queuer[q].todo) \in Runs
    BY NextIsPlanned DEF BatchInv, SentIsUnstored
  <2> QED
    BY <1>6, <2>1 DEF OrderInv, OthersAreHanded
<1>9. RefresherReturned'
  BY <1>1 DEF OrderInv, RefresherReturned
<1> QED
  BY <1>3, <1>5, <1>7, <1>8, <1>9 DEF OrderInv

\* Requests that queue the batch hand over the runs in order.
LEMMA OrderWhenQueuing ==
  ASSUME BatchInv, OrderInv, NEW q \in Queuers, AdmitQueuing(q) \/ Queue(q)
  PROVE  OrderInv'
<1>1. UNCHANGED <<status, exec, refresh>>
  BY DEF AdmitQueuing, Queue, MarkQueued, LoadPlan, Send, StoreTaskId, SendFails,
         FailBatch, EndQueuing
<1>2. EarlierAreDecided' /\ RefresherReturned'
  BY <1>1 DEF OrderInv, EarlierAreDecided, RefresherReturned, Decided
<1>3. CASE Send(q)
  <2>1. PICK r : r = NextToSend(queuer[q].todo)
    OBVIOUS
  <2>2. r \in Runs /\ \A t \in queuer[q].todo : r <= t
    <3>1. PICK S : S = queuer[q].todo
      OBVIOUS
    <3>2. S \subseteq Nat /\ S # {} /\ S \subseteq Runs
      BY <1>3, <3>1, PlanNonempty DEF Send, BatchInv, TypeOK, Tasks
    <3>3. First(S) \in S /\ \A t \in S : First(S) <= t
      BY <3>2, FirstIsLeast
    <3> QED
      BY <2>1, <3>1, <3>2, <3>3 DEF NextToSend
  <2>3. queue \in Seq(Runs) /\ queue' = Append(queue, r)
    BY <1>3, <2>1 DEF Send, BatchInv, TypeOK
  <2>4. /\ DOMAIN queue = 1..Len(queue) /\ Len(queue) \in Nat
        /\ DOMAIN queue' = 1..(Len(queue) + 1)
        /\ \A i \in DOMAIN queue : queue'[i] = queue[i] /\ i # Len(queue) + 1
        /\ queue'[Len(queue) + 1] = r
    BY <2>2, <2>3
  <2>5. \A p \in Runs : Handed(p) => Handed(p)'
    <3>1. DOMAIN queue \subseteq DOMAIN queue'
      BY <2>4
    <3> QED
      BY <1>1, <2>4, <3>1 DEF Handed, Decided, AtHand
  <2>6. Handed(r)'
    <3>1. Len(queue) + 1 \in DOMAIN queue'
      BY <2>4
    <3> QED
      BY <2>4, <3>1 DEF Handed
  <2>7. \A p \in Runs : p < r => Handed(p)
    <3>1. \A p \in Runs : p < r => p \notin queuer[q].todo
      BY <2>2, PlanNonempty
    <3> QED
      BY <1>3, <3>1 DEF Send, OrderInv, OthersAreHanded
  <2>8. QueueInOrder'
    <3> SUFFICES ASSUME NEW i \in DOMAIN queue', NEW p \in Runs, p < queue'[i]
                 PROVE  Decided(p) \/ AtHand(p) \/ \E j \in DOMAIN queue' : j < i /\ queue'[j] = p
      BY <1>1 DEF QueueInOrder, Decided, AtHand
    <3>1. CASE i \in DOMAIN queue
      <4>1. Decided(p) \/ AtHand(p) \/ \E j \in DOMAIN queue : j < i /\ queue[j] = p
        BY <2>4, <3>1 DEF OrderInv, QueueInOrder
      <4> QED
        BY <2>4, <4>1
    <3>2. CASE i = Len(queue) + 1
      <4>1. Decided(p) \/ AtHand(p) \/ \E j \in DOMAIN queue : queue[j] = p
        BY <2>4, <2>7, <3>2 DEF Handed
      <4> QED
        BY <2>4, <3>2, <4>1
    <3> QED
      BY <2>4, <3>1, <3>2
  <2>9. tasked' = tasked /\ queuer[q].at = "sending"
        /\ queuer' = [queuer EXCEPT ![q].at = "sent"]
    BY <1>3 DEF Send
  <2>10. TaskedAreHanded'
    BY <2>5, <2>9 DEF OrderInv, TaskedAreHanded, BatchInv, TypeOK
  <2>11. OthersAreHanded'
    <3>1. \A x \in Queuers : queuer'[x].todo = queuer[x].todo /\ (x # q => queuer'[x] = queuer[x])
      BY <2>9 DEF BatchInv, TypeOK, Tasks
    <3>2. \A x \in Queuers : queuer'[x].at \in {"sending", "sent"} => queuer[x].at \in {"sending", "sent"}
      BY <2>9, <3>1
    <3>3. \A x \in Queuers : queuer[x].at = "sent" => NextToSend(queuer[x].todo) \in Runs
      BY NextIsPlanned DEF BatchInv, SentIsUnstored
    <3>4. ASSUME NEW x \in Queuers, queuer'[x].at \in {"sending", "sent"},
                 NEW p \in Runs \ queuer'[x].todo
          PROVE  Handed(p)'
      BY <2>5, <3>1, <3>2, <3>4 DEF OrderInv, OthersAreHanded
    <3>5. ASSUME NEW x \in Queuers, queuer'[x].at = "sent",
                 NEW n, n = NextToSend(queuer[x].todo)
          PROVE  Handed(n)'
      <4>1. CASE x = q
        BY <2>1, <2>6, <3>5, <4>1
      <4>2. CASE x # q
        <5>1. n \in Runs /\ Handed(n)
          BY <3>1, <3>3, <3>5, <4>2 DEF OrderInv, OthersAreHanded
        <5> QED
          BY <2>5, <5>1
      <4> QED
        BY <4>1, <4>2
    <3>6. \A x \in Queuers : NextToSend(queuer'[x].todo) = NextToSend(queuer[x].todo)
      BY <3>1
    <3>7. \A x \in Queuers : queuer'[x].at = "sent" => Handed(NextToSend(queuer[x].todo))'
      BY <3>5, <3>6 DEF Handed
    <3> QED
      BY <3>4, <3>7 DEF OthersAreHanded
  <2> QED
    BY <1>2, <2>8, <2>10, <2>11 DEF OrderInv
<1>4. CASE UNCHANGED queue
  <2>1. \A p : Handed(p)' <=> Handed(p)
    BY <1>1, <1>4 DEF Handed, Decided, AtHand
  <2>2. QueueInOrder'
    BY <1>1, <1>4 DEF OrderInv, QueueInOrder, Decided, AtHand
  <2>3. TaskedAreHanded' /\ OthersAreHanded'
    <3>1. CASE StoreTaskId(q)
      <4>1. PICK r : r = NextToSend(queuer[q].todo)
        OBVIOUS
      <4>2. /\ queuer[q].at = "sent" /\ tasked' = tasked \cup {r}
            /\ queuer' = [queuer EXCEPT ![q] = [at |-> "sending", todo |-> queuer[q].todo \ {r}]]
        BY <3>1, <4>1 DEF StoreTaskId, BatchInv, TypeOK
      <4>3. Handed(r)
        BY <4>1, <4>2 DEF OrderInv, OthersAreHanded
      <4>4. TaskedAreHanded'
        BY <2>1, <4>2, <4>3 DEF OrderInv, TaskedAreHanded
      <4>5. \A x \in Queuers : queuer'[x] =
              IF x = q THEN [at |-> "sending", todo |-> queuer[q].todo \ {r}] ELSE queuer[x]
        BY <4>2 DEF BatchInv, TypeOK
      <4>6. OthersAreHanded'
        BY <2>1, <4>2, <4>3, <4>5 DEF OrderInv, OthersAreHanded
      <4> QED
        BY <4>4, <4>6
    <3>2. CASE LoadPlan(q)
      <4>1. /\ tasked' = tasked
            /\ queuer' = [queuer EXCEPT ![q] =
                  [at |-> "sending",
                   todo |-> {r \in Runs : status[r] = "QUEUED" /\ r \notin tasked}]]
        BY <3>2 DEF LoadPlan
      <4>2. \A x \in Queuers : queuer'[x] =
              IF x = q
              THEN [at |-> "sending",
                    todo |-> {r \in Runs : status[r] = "QUEUED" /\ r \notin tasked}]
              ELSE queuer[x]
        BY <4>1 DEF BatchInv, TypeOK
      <4>3. \A p \in Runs : p \notin {r \in Runs : status[r] = "QUEUED" /\ r \notin tasked} => Handed(p)
        BY DEF OrderInv, TaskedAreHanded, Handed, Decided
      <4> QED
        BY <2>1, <4>1, <4>2, <4>3 DEF OrderInv, TaskedAreHanded, OthersAreHanded
    <3>3. CASE \/ AdmitQueuing(q) \/ MarkQueued(q) \/ SendFails(q) \/ FailBatch(q)
               \/ EndQueuing(q)
      <4>1. tasked' = tasked
        BY <3>3 DEF AdmitQueuing, MarkQueued, SendFails, FailBatch, EndQueuing
      <4>2. \A x \in Queuers :
              queuer'[x] = queuer[x] \/ queuer'[x].at \notin {"sending", "sent"}
        BY <3>3 DEF AdmitQueuing, MarkQueued, SendFails, FailBatch, EndQueuing, BatchInv,
                    TypeOK, Tasks
      <4> QED
        BY <2>1, <4>1, <4>2 DEF OrderInv, TaskedAreHanded, OthersAreHanded
    <3>4. CASE Send(q)
      <4>1. queue \in Seq(Runs) /\ NextToSend(queuer[q].todo) \in Runs
        BY <3>4, NextIsPlanned DEF Send, BatchInv, TypeOK
      <4>2. Len(queue') = Len(queue) + 1 /\ Len(queue) \in Nat
        BY <3>4, <4>1 DEF Send
      <4> QED
        BY <1>4, <4>2
    <3> QED
      BY <3>1, <3>2, <3>3, <3>4 DEF Queue
  <2> QED
    BY <1>2, <2>2, <2>3 DEF OrderInv
<1> QED
  BY <1>3, <1>4
     DEF AdmitQueuing, Queue, MarkQueued, LoadPlan, StoreTaskId, SendFails, FailBatch,
         EndQueuing

\* The worker receives the oldest message: nothing that waits stood before it.
LEMMA OrderWhenReceiving ==
  ASSUME BatchInv, OrderInv, Receive
  PROVE  OrderInv'
<1>1. /\ exec[Worker].at = "idle" /\ queue # <<>> /\ queue \in Seq(Runs)
      /\ queue' = Tail(queue) /\ UNCHANGED <<status, tasked, queuer, refresh>>
  BY DEF Receive, BatchInv, TypeOK
<1>2. PICK h \in Runs : h = Head(queue) /\ h = queue[1]
  BY <1>1
<1>3. /\ DOMAIN queue = 1..Len(queue) /\ DOMAIN queue' = 1..(Len(queue) - 1)
      /\ Len(queue) \in Nat \ {0}
      /\ \A i \in DOMAIN queue' : i + 1 \in DOMAIN queue /\ queue'[i] = queue[i + 1]
  BY <1>1
<1>4. \A i \in DOMAIN queue : i # 1 => i - 1 \in DOMAIN queue' /\ queue'[i - 1] = queue[i]
  BY <1>3
<1>5. Worker \in Executors /\ h \in 0..N + 1
  BY PlanNonempty DEF Executors
<1>6. \/ exec' = [exec EXCEPT ![Worker] = [at |-> "taken", run |-> h]]
      \/ Decided(h) /\ UNCHANGED exec
  BY <1>2 DEF Receive, Decided
<1>7. \A f \in Executors : f # Worker => exec'[f] = exec[f]
  BY <1>6 DEF BatchInv, TypeOK
<1>8. Decided(h) \/ AtHand(h)'
  <2>1. CASE exec' = [exec EXCEPT ![Worker] = [at |-> "taken", run |-> h]]
    <3>1. exec'[Worker] = [at |-> "taken", run |-> h]
      BY <1>5, <2>1 DEF BatchInv, TypeOK
    <3> QED
      BY <3>1 DEF AtHand
  <2> QED
    BY <1>6, <2>1
<1>9. \A p : ~AtHand(p)
  BY <1>1 DEF AtHand
<1>10. \A p \in Runs : Handed(p) => Handed(p)'
  <2> SUFFICES ASSUME NEW p \in Runs, Handed(p) PROVE Handed(p)'
    OBVIOUS
  <2>1. CASE Decided(p)
    BY <1>1, <2>1 DEF Handed, Decided
  <2>2. CASE \E i \in DOMAIN queue : queue[i] = p
    <3>1. PICK i \in DOMAIN queue : queue[i] = p
      BY <2>2
    <3>2. CASE i = 1
      BY <1>1, <1>2, <1>8, <3>1, <3>2 DEF Handed, Decided
    <3>3. CASE i # 1
      BY <1>4, <3>1, <3>3 DEF Handed
    <3> QED
      BY <3>2, <3>3
  <2> QED
    BY <1>9, <2>1, <2>2 DEF Handed
<1>11. \A p \in Runs : p < h => Decided(p)
  <2>1. 1 \in DOMAIN queue /\ \A j \in DOMAIN queue : ~(j < 1)
    BY <1>3
  <2> QED
    BY <1>2, <1>9, <2>1 DEF OrderInv, QueueInOrder
<1>12. EarlierAreDecided'
  <2>1. CASE exec' = [exec EXCEPT ![Worker] = [at |-> "taken", run |-> h]]
    <3>1. exec'[Worker].at = "taken" /\ exec'[Worker].run = h
      BY <1>5, <2>1 DEF BatchInv, TypeOK
    <3> QED
      BY <1>1, <1>7, <1>11, <3>1 DEF OrderInv, EarlierAreDecided, Decided
  <2>2. CASE UNCHANGED exec
    BY <1>1, <2>2 DEF OrderInv, EarlierAreDecided, Decided
  <2> QED
    BY <1>6, <2>1, <2>2
<1>13. QueueInOrder'
  <2> SUFFICES ASSUME NEW i \in DOMAIN queue', NEW p \in Runs, p < queue'[i], ~Decided(p)
               PROVE  AtHand(p)' \/ \E j \in DOMAIN queue' : j < i /\ queue'[j] = p
    BY <1>1 DEF QueueInOrder, Decided
  <2>1. i + 1 \in DOMAIN queue /\ p < queue[i + 1]
    BY <1>3
  <2>2. PICK j \in DOMAIN queue : j < i + 1 /\ queue[j] = p
    BY <1>9, <2>1 DEF OrderInv, QueueInOrder
  <2>3. CASE j = 1
    BY <1>2, <1>8, <2>2, <2>3
  <2>4. CASE j # 1
    <3>1. j - 1 \in DOMAIN queue' /\ queue'[j - 1] = p
      BY <1>4, <2>2, <2>4
    <3>2. j - 1 < i
      BY <1>3, <2>2
    <3> QED
      BY <3>1, <3>2
  <2> QED
    BY <2>3, <2>4
<1>14. TaskedAreHanded'
  BY <1>1, <1>10 DEF OrderInv, TaskedAreHanded, BatchInv, TypeOK
<1>15. OthersAreHanded'
  <2>1. \A q \in Queuers : queuer[q].at = "sent" => NextToSend(queuer[q].todo) \in Runs
    BY NextIsPlanned DEF BatchInv, SentIsUnstored
  <2> QED
    BY <1>1, <1>10, <2>1 DEF OrderInv, OthersAreHanded
<1>16. RefresherReturned'
  BY <1>1, <1>6, <1>7 DEF OrderInv, RefresherReturned
<1> QED
  BY <1>12, <1>13, <1>14, <1>15, <1>16 DEF OrderInv

\* A run moves to a status that is not the waiting one, or keeps its status.
LEMMA MovesDecide ==
  ASSUME BatchInv, NEW r \in Runs, NEW s, s # "QUEUED" \/ s = status[r],
         status' = [status EXCEPT ![r] = s]
  PROVE  DecidedStay /\ (s # "QUEUED" => Decided(r)')
  BY DEF BatchInv, TypeOK, DecidedStay, Decided

\* The worker or the command executes the run it has taken.
LEMMA OrderWhenExecuting ==
  ASSUME BatchInv, OrderInv, NEW e \in Executors,
         \/ Start(e) \/ DoNotStart(e) \/ Conclude(e) \/ DropAnswer(e) \/ SolverRaises(e)
         \/ e \in Shells /\ Sweep(e)
         \/ e = Worker /\ Killed
  PROVE  OrderInv'
<1>1. UNCHANGED <<tasked, queue, queuer, refresh>>
      /\ exec[e].at \in {"taken", "executing", "sweeping"}
  BY DEF Start, DoNotStart, Conclude, DropAnswer, SolverRaises, Sweep, Killed
<1>2. PICK r \in Runs : r = exec[e].run
  BY <1>1 DEF BatchInv, ExecutorsHaveRuns
<1>3. exec[e] = [at |-> exec[e].at, run |-> r] /\ r \in 0..N + 1
      /\ exec \in [Executors -> Places]
  BY <1>2, PlanNonempty DEF BatchInv, TypeOK, Places
<1>4. status \in [Runs -> RunStatus]
  BY DEF BatchInv, TypeOK
<1>5. \A x \in Runs : x < r => Decided(x)
  BY <1>1, <1>2 DEF OrderInv, EarlierAreDecided
<1>6. DecidedStay /\ Decided(r)'
  <2>1. exec[e].at \in {"executing", "sweeping"} => Decided(r)
    BY <1>2 DEF OrderInv, EarlierAreDecided
  <2>2. CASE Start(e)
    <3>1. PICK s : s = "RUNNING"
      OBVIOUS
    <3>2. status' = [status EXCEPT ![r] = s] /\ s # "QUEUED"
      BY <1>2, <2>2, <3>1 DEF Start
    <3> QED
      BY <3>2, MovesDecide
  <2>3. CASE DoNotStart(e) \/ DropAnswer(e) \/ (e = Worker /\ Killed)
    <3>1. UNCHANGED status
      BY <2>3 DEF DoNotStart, DropAnswer, Killed
    <3>2. DoNotStart(e) => Decided(r)
      BY <1>2 DEF DoNotStart, Startable, Decided
    <3>3. ~DoNotStart(e) => exec[e].at = "executing"
      BY <2>3 DEF DropAnswer, Killed
    <3>4. Decided(r)
      BY <2>1, <3>2, <3>3
    <3> QED
      BY <3>1, <3>4 DEF DecidedStay, Decided
  <2>4. CASE Conclude(e)
    <3>1. PICK s \in Outcomes : status' = [status EXCEPT ![r] = s]
      BY <1>2, <2>4 DEF Conclude
    <3>2. s # "QUEUED"
      BY <3>1, BatchAssumption DEF Terminal, Successful
    <3> QED
      BY <3>1, <3>2, MovesDecide
  <2>5. CASE SolverRaises(e)
    <3>1. status' = [status EXCEPT ![r] = FailedBySolver(status[r])]
      BY <1>2, <2>5 DEF SolverRaises
    <3>2. Decided(r)
      BY <2>1, <2>5 DEF SolverRaises
    <3>3. FailedBySolver(status[r]) # "QUEUED"
      BY <3>2 DEF FailedBySolver, Decided
    <3> QED
      BY <3>1, <3>3, MovesDecide
  <2>6. CASE e \in Shells /\ Sweep(e)
    <3>1. status' = [status EXCEPT ![r] = FailedByBatch(status[r])]
      BY <1>2, <2>6 DEF Sweep
    <3>2. Decided(r)
      BY <2>1, <2>6 DEF Sweep
    <3>3. FailedByBatch(status[r]) # "QUEUED"
      BY <3>2 DEF FailedByBatch, Decided
    <3> QED
      BY <3>1, <3>3, MovesDecide
  <2> QED
    BY <2>2, <2>3, <2>4, <2>5, <2>6
<1>7. \E p \in { [at |-> "executing", run |-> r], [at |-> "looping", run |-> r + 1],
                [at |-> "returned", run |-> 0], [at |-> "sweeping", run |-> r],
                [at |-> "idle", run |-> 0] } :
        exec' = [exec EXCEPT ![e] = p]
  <2>1. CASE Start(e)
    <3>1. [exec[e] EXCEPT !.at = "executing"] = [at |-> "executing", run |-> r]
      BY <1>3
    <3>2. exec' = [exec EXCEPT ![e] = [exec[e] EXCEPT !.at = "executing"]]
      BY <2>1 DEF Start
    <3> QED
      BY <3>1, <3>2
  <2>2. CASE DoNotStart(e) \/ DropAnswer(e) \/ Conclude(e) \/ SolverRaises(e)
    <3>1. exec' = [exec EXCEPT ![e] = Returned(e)] \/ exec' = [exec EXCEPT ![e] = Raised(e)]
      BY <2>2 DEF DoNotStart, DropAnswer, Conclude, SolverRaises
    <3> QED
      BY <1>2, <3>1 DEF Returned, Raised
  <2>3. CASE e \in Shells /\ Sweep(e)
    BY <1>2, <1>3, <2>3 DEF Sweep
  <2>4. CASE e = Worker /\ Killed
    BY <2>4 DEF Killed
  <2> QED
    BY <2>1, <2>2, <2>3, <2>4
<1>8. PICK p : /\ p \in { [at |-> "executing", run |-> r], [at |-> "looping", run |-> r + 1],
                         [at |-> "returned", run |-> 0], [at |-> "sweeping", run |-> r],
                         [at |-> "idle", run |-> 0] }
               /\ exec' = [exec EXCEPT ![e] = p]
  BY <1>7
<1>9. p \in Places /\ (p.at \in {"executing", "sweeping"} => p.run = r)
      /\ (p.at = "looping" => p.run = r + 1)
      /\ p.at \in {"executing", "looping", "returned", "sweeping", "idle"}
  <2>1. r + 1 \in 0..N + 1 /\ 0 \in 0..N + 1
    BY PlanNonempty
  <2> QED
    BY <1>3, <1>8, <2>1 DEF Places
<1>10. \A x \in Runs : x < r + 1 => x < r \/ x = r
  BY PlanNonempty
<1>11. \A x \in Runs : x < r + 1 => Decided(x)'
  BY <1>5, <1>6, <1>10 DEF DecidedStay
<1>12. p.at \notin {"idle", "returned"} => \A x \in Runs : x < p.run => Decided(x)'
  BY <1>5, <1>6, <1>9, <1>11 DEF DecidedStay
<1> QED
  BY <1>1, <1>2, <1>6, <1>8, <1>9, <1>12, OrderWhenExecutorMoves

\* The command goes through the plan; a run that is passed over was decided.
LEMMA OrderWhenLooping ==
  ASSUME BatchInv, OrderInv, NEW s \in Shells,
         BeginDirect(s) \/ MarkDirect(s) \/ LoopDirect(s)
  PROVE  OrderInv'
<1>1. UNCHANGED <<status, tasked, queue, queuer, refresh>>
      /\ exec[s].at \in {"idle", "admitted", "queued", "looping"}
  BY DEF BeginDirect, MarkDirect, LoopDirect
<1>2. s \in Executors /\ s # Worker /\ exec \in [Executors -> Places]
  BY BatchAssumption DEF Executors, BatchInv, TypeOK, Places
<1>3. DecidedStay
  BY <1>1 DEF DecidedStay, Decided
<1>4. PICK k \in 0..N + 1 : k = exec[s].run /\ exec[s] = [at |-> exec[s].at, run |-> k]
  BY <1>2 DEF Places
<1>5. exec[s].at # "idle" => \A x \in Runs : x < k => Decided(x)
  BY <1>1, <1>2, <1>4 DEF OrderInv, EarlierAreDecided
<1>6. CASE BeginDirect(s)
  <2>1. PICK p : /\ p \in {[at |-> "queued", run |-> 1], [at |-> "admitted", run |-> 1]}
                 /\ exec' = [exec EXCEPT ![s] = p]
    BY <1>6 DEF BeginDirect
  <2>2. p \in Places /\ p.run = 1 /\ p.at \in {"queued", "admitted"}
    <3>1. 1 \in 0..N + 1
      BY PlanNonempty
    <3> QED
      BY <2>1, <3>1 DEF Places
  <2>3. \A x \in Runs : ~(x < 1)
    BY PlanNonempty
  <2> QED
    BY <1>1, <1>2, <1>3, <2>1, <2>2, <2>3, OrderWhenExecutorMoves
<1>7. CASE MarkDirect(s)
  <2>1. exec[s].at \in {"admitted", "queued"}
    BY <1>7 DEF MarkDirect
  <2>2. PICK a \in {"queued", "looping"} : exec' = [exec EXCEPT ![s].at = a]
    BY <1>2, <1>7 DEF MarkDirect
  <2>3. [exec[s] EXCEPT !.at = a] = [at |-> a, run |-> k]
    BY <1>4
  <2>4. exec' = [exec EXCEPT ![s] = [exec[s] EXCEPT !.at = a]]
    BY <2>2
  <2>5. PICK p : p = [at |-> a, run |-> k]
    OBVIOUS
  <2>6. p \in Places /\ p.run = k /\ p.at \in {"queued", "looping"}
    BY <2>5 DEF Places
  <2>7. exec' = [exec EXCEPT ![s] = p]
    BY <2>3, <2>4, <2>5
  <2>8. \A x \in Runs : x < p.run => Decided(x)'
    BY <1>3, <1>5, <2>1, <2>6 DEF DecidedStay
  <2> QED
    BY <1>1, <1>2, <1>3, <2>6, <2>7, <2>8, OrderWhenExecutorMoves
<1>8. CASE LoopDirect(s)
  <2>1. exec[s].at = "looping" /\ k # 0
    BY <1>2, <1>4, <1>8 DEF LoopDirect, BatchInv, ExecutorsHaveRuns
  <2>2. CASE k > N
    <3>1. PICK p : p = [at |-> "returned", run |-> 0]
      OBVIOUS
    <3>2. exec' = [exec EXCEPT ![s] = p]
      BY <1>2, <1>4, <1>8, <2>2, <3>1 DEF LoopDirect
    <3>3. 0 \in 0..N + 1
      BY PlanNonempty
    <3>4. p \in Places /\ p.at = "returned"
      BY <3>1, <3>3 DEF Places
    <3> QED
      BY <1>1, <1>2, <1>3, <3>2, <3>4, OrderWhenExecutorMoves
  <2>3. CASE ~(k > N) /\ status[k] = "QUEUED"
    <3>1. PICK p : p = [at |-> "taken", run |-> k]
      OBVIOUS
    <3>2. exec' = [exec EXCEPT ![s] = p]
      BY <1>2, <1>4, <1>8, <2>3, <3>1 DEF LoopDirect
    <3>3. p \in Places /\ p.run = k /\ p.at = "taken"
      BY <3>1 DEF Places
    <3>4. \A x \in Runs : x < p.run => Decided(x)'
      BY <1>3, <1>5, <2>1, <3>3 DEF DecidedStay
    <3> QED
      BY <1>1, <1>2, <1>3, <3>2, <3>3, <3>4, OrderWhenExecutorMoves
  <2>4. CASE ~(k > N) /\ status[k] # "QUEUED"
    <3>1. PICK p : p = [at |-> "looping", run |-> k + 1]
      OBVIOUS
    <3>2. exec' = [exec EXCEPT ![s] = p]
      BY <1>2, <1>4, <1>8, <2>4, <3>1 DEF LoopDirect
    <3>3. k + 1 \in 0..N + 1
      BY <2>4, PlanNonempty
    <3>4. p \in Places /\ p.run = k + 1 /\ p.at = "looping"
      BY <3>1, <3>3 DEF Places
    <3>5. \A x \in Runs : x < k + 1 => x < k \/ x = k
      BY PlanNonempty
    <3>6. \A x \in Runs : x < k + 1 => Decided(x)
      BY <1>5, <2>1, <2>4, <3>5 DEF Decided
    <3>7. \A x \in Runs : x < p.run => Decided(x)'
      BY <1>3, <3>4, <3>6 DEF DecidedStay
    <3> QED
      BY <1>1, <1>2, <1>3, <3>2, <3>4, <3>7, OrderWhenExecutorMoves
  <2> QED
    BY <2>2, <2>3, <2>4
<1> QED
  BY <1>6, <1>7, <1>8

\* Who holds the batch row for a refresh is idle afterwards.
LEMMA OrderWhenRefreshing ==
  ASSUME BatchInv, OrderInv,
         \/ \E x \in Refreshers : ReadRuns(x)
         \/ \E e \in Executors : LeaveCancelled(e)
         \/ WriteStatus
  PROVE  OrderInv'
<1>1. UNCHANGED <<status, tasked, queue, queuer>>
  BY DEF ReadRuns, LeaveCancelled, WriteStatus
<1>2. DecidedStay
  BY <1>1 DEF DecidedStay, Decided
<1>3. NoOne \notin Executors /\ Viewer \notin Executors
  BY BatchAssumption DEF Refreshers
<1>4. CASE \E x \in Refreshers : ReadRuns(x)
  <2>1. PICK x \in Refreshers : ReadRuns(x)
    BY <1>4
  <2>2. UNCHANGED exec /\ refresh'.by = x
    BY <2>1 DEF ReadRuns
  <2>3. x \in Executors => exec[x].at = "returned"
    BY <1>3, <2>1 DEF ReadRuns, Refreshes
  <2> QED
    BY <1>1, <1>2, <2>2, <2>3, OrderFramed
<1>5. ASSUME NEW e \in Executors, exec[e].at = "returned", refresh'.by = NoOne,
             exec' = [exec EXCEPT ![e].at = "idle"]
      PROVE  OrderInv'
  <2>1. exec[e] \in Places
    BY DEF BatchInv, TypeOK, Places
  <2>2. PICK p : p = [at |-> "idle", run |-> exec[e].run]
    OBVIOUS
  <2>3. p \in Places /\ p.at = "idle"
    BY <2>1, <2>2 DEF Places
  <2>4. [exec[e] EXCEPT !.at = "idle"] = p
    BY <2>1, <2>2 DEF Places
  <2>5. exec' = [exec EXCEPT ![e] = [exec[e] EXCEPT !.at = "idle"]]
    BY <1>5
  <2>6. exec' = [exec EXCEPT ![e] = p]
    BY <2>4, <2>5
  <2>7. refresh'.by \notin Executors
    BY <1>3, <1>5
  <2> QED
    BY <1>1, <1>2, <1>5, <2>3, <2>6, <2>7, OrderWhenExecutorMoves
<1>6. CASE \E e \in Executors : LeaveCancelled(e)
  <2>1. PICK e \in Executors : LeaveCancelled(e)
    BY <1>6
  <2>2. exec[e].at = "returned" /\ exec' = [exec EXCEPT ![e].at = "idle"]
    BY <1>3, <2>1 DEF LeaveCancelled, Ended
  <2>3. refresh'.by = NoOne
    BY <2>1 DEF LeaveCancelled, BatchLocked
  <2> QED
    BY <2>2, <2>3, <1>5
<1>7. CASE WriteStatus
  <2>1. refresh'.by = NoOne /\ exec' = Ended(refresh.by) /\ refresh.by \in Refreshers
    BY <1>7 DEF WriteStatus, BatchLocked, BatchInv, TypeOK
  <2>2. CASE refresh.by = Viewer
    <3>1. UNCHANGED exec
      BY <2>1, <2>2 DEF Ended
    <3>2. refresh'.by \notin Executors
      BY <1>3, <2>1
    <3> QED
      BY <1>1, <1>2, <3>1, <3>2, OrderFramed
  <2>3. CASE refresh.by # Viewer
    <3>1. refresh.by \in Executors /\ exec[refresh.by].at = "returned"
      BY <2>1, <2>3 DEF OrderInv, RefresherReturned, Refreshers
    <3>2. exec' = [exec EXCEPT ![refresh.by].at = "idle"]
      BY <2>1, <2>3 DEF Ended
    <3> QED
      BY <2>1, <3>1, <3>2, <1>5
  <2> QED
    BY <2>2, <2>3
<1> QED
  BY <1>4, <1>6, <1>7

\* Cancelled runs do not wait any more.
LEMMA OrderWhenCancelling ==
  ASSUME BatchInv, OrderInv,
         \/ \E c \in Cancellers : BeginCancel(c) \/ CancelBatch(c)
         \/ \E r \in Runs : CancelRun(r)
  PROVE  OrderInv'
<1>1. UNCHANGED <<tasked, queue, queuer, exec, refresh>>
  BY DEF BeginCancel, CancelBatch, CancelNext, EndCancel, CancelRun
<1>2. DecidedStay
  <2>1. \/ UNCHANGED status
        \/ \E r \in Runs : status' = [status EXCEPT ![r] = "CANCELLED"]
        \/ \E r \in Runs : status' = [status EXCEPT ![r] = Cancelled(status[r])]
    <3>1. \A c \in Cancellers : canceller[c].todo \subseteq Runs
      BY DEF BatchInv, TypeOK, Tasks
    <3> QED
      BY <3>1 DEF BeginCancel, CancelBatch, CancelNext, EndCancel, CancelRun
  <2>2. CASE UNCHANGED status
    BY <2>2 DEF DecidedStay, Decided
  <2>3. ASSUME NEW r \in Runs, NEW s, s # "QUEUED" \/ s = status[r],
               status' = [status EXCEPT ![r] = s]
        PROVE  DecidedStay
    BY <2>3, MovesDecide
  <2>4. CASE \E r \in Runs : status' = [status EXCEPT ![r] = "CANCELLED"]
    BY <2>4 DEF DecidedStay, Decided, BatchInv, TypeOK
  <2>5. CASE \E r \in Runs : status' = [status EXCEPT ![r] = Cancelled(status[r])]
    <3>1. \A x : Cancelled(x) # "QUEUED" \/ Cancelled(x) = x
      BY DEF Cancelled
    <3> QED
      BY <2>3, <2>5, <3>1
  <2> QED
    BY <2>1, <2>2, <2>4, <2>5
<1> QED
  BY <1>1, <1>2, OrderFramed

\* The order is kept by every step: requests that queue the batch twice, messages
\* that were sent twice or refused, cancellations, the command.
THEOREM OrderInvariant == Spec => [](BatchInv /\ OrderInv)
<1>1. Init => OrderInv
  BY BatchAssumption
     DEF Init, OrderInv, EarlierAreDecided, QueueInOrder, TaskedAreHanded, OthersAreHanded,
         RefresherReturned, Refreshers
<1>2. BatchInv /\ OrderInv /\ [Next]_vars => OrderInv'
  <2> SUFFICES ASSUME BatchInv, OrderInv, [Next]_vars PROVE OrderInv'
    OBVIOUS
  <2>1. CASE UNCHANGED vars
    BY <2>1, OrderFramed DEF vars, DecidedStay, Decided
  <2>2. ASSUME NEW q \in Queuers, AdmitQueuing(q) \/ Queue(q) PROVE OrderInv'
    BY <2>2, OrderWhenQueuing
  <2>3. ASSUME NEW c \in Cancellers, BeginCancel(c) \/ CancelBatch(c) PROVE OrderInv'
    BY <2>3, OrderWhenCancelling
  <2>4. ASSUME NEW r \in Runs, CancelRun(r) PROVE OrderInv'
    BY <2>4, OrderWhenCancelling
  <2>5. ASSUME NEW s \in Shells, BeginDirect(s) \/ Direct(s) PROVE OrderInv'
    <3>1. CASE Sweep(s)
      BY <3>1, OrderWhenExecuting DEF Executors
    <3>2. CASE BeginDirect(s) \/ MarkDirect(s) \/ LoopDirect(s)
      BY <3>2, OrderWhenLooping
    <3> QED
      BY <2>5, <3>1, <3>2 DEF Direct
  <2>6. ASSUME NEW e \in Executors, Work(e) PROVE OrderInv'
    <3>1. CASE ReadRuns(e) \/ LeaveCancelled(e)
      BY <3>1, OrderWhenRefreshing DEF Refreshers
    <3>2. CASE Start(e) \/ DoNotStart(e) \/ Conclude(e) \/ DropAnswer(e) \/ SolverRaises(e)
      BY <3>2, OrderWhenExecuting
    <3> QED
      BY <2>6, <3>1, <3>2 DEF Work
  <2>7. CASE Receive
    BY <2>7, OrderWhenReceiving
  <2>8. CASE Killed
    <3>1. Worker \in Executors
      BY DEF Executors
    <3> QED
      BY <2>8, <3>1, OrderWhenExecuting
  <2>9. CASE ReadRuns(Viewer) \/ WriteStatus
    BY <2>9, OrderWhenRefreshing DEF Refreshers
  <2> QED
    BY <2>1, <2>2, <2>3, <2>4, <2>5, <2>6, <2>7, <2>8, <2>9 DEF Next
<1> QED
  BY <1>1, <1>2, BatchInvariant, PTL DEF Spec

\* Runs start in the frozen execution order: when one starts, no earlier run of
\* the plan still waits, for any number of requests, commands and runs.
THEOREM RunsStartInOrder == Spec => StartsInOrder
<1>1. ASSUME BatchInv, OrderInv, [Next]_vars,
             NEW r \in Runs, status[r] = "QUEUED", status'[r] = "RUNNING"
      PROVE  \A p \in Runs : p < r => status[p] # "QUEUED"
  <2>1. PICK e \in Executors : exec[e].at = "taken" /\ exec[e].run = r
    <3>1. status \in [Runs -> RunStatus] /\ status'[r] # status[r]
      BY <1>1 DEF BatchInv, TypeOK
    <3>2. CASE \E e \in Executors : Start(e)
      <4>1. PICK e \in Executors : Start(e)
        BY <3>2
      <4>2. exec[e].run = r
        BY <3>1, <4>1 DEF Start
      <4> QED
        BY <4>1, <4>2 DEF Start
    <3>3. CASE \E e \in Executors : Conclude(e)
      <4>1. PICK e \in Executors, s \in Outcomes : status' = [status EXCEPT ![exec[e].run] = s]
        BY <3>3 DEF Conclude
      <4>2. s # "RUNNING"
        BY <4>1, BatchAssumption DEF Terminal, Successful
      <4> QED
        BY <1>1, <3>1, <4>1, <4>2
    <3>4. ASSUME NEW x, NEW s, s # "RUNNING", status' = [status EXCEPT ![x] = s]
          PROVE  FALSE
      BY <1>1, <3>1, <3>4
    <3>5. ASSUME NEW e \in Executors, SolverRaises(e) PROVE FALSE
      <4>1. PICK s : s = FailedBySolver(status[exec[e].run])
        OBVIOUS
      <4>2. status' = [status EXCEPT ![exec[e].run] = s]
        BY <3>5, <4>1 DEF SolverRaises
      <4>3. exec[e].run = r
        BY <3>1, <4>2
      <4>4. s # "RUNNING"
        BY <1>1, <4>1, <4>3 DEF FailedBySolver
      <4> QED
        BY <3>4, <4>2, <4>4
    <3>6. ASSUME NEW e \in Shells, Sweep(e) PROVE FALSE
      <4>1. PICK s : s = FailedByBatch(status[exec[e].run])
        OBVIOUS
      <4>2. status' = [status EXCEPT ![exec[e].run] = s]
        BY <3>6, <4>1 DEF Sweep
      <4>3. exec[e].run = r
        BY <3>1, <4>2
      <4>4. s # "RUNNING"
        BY <1>1, <4>1, <4>3 DEF FailedByBatch
      <4> QED
        BY <3>4, <4>2, <4>4
    <3>7. ASSUME NEW c \in Cancellers, CancelNext(c) PROVE FALSE
      <4>1. PICK x \in canceller[c].todo : status' = [status EXCEPT ![x] = Cancelled(status[x])]
        BY <3>7 DEF CancelNext
      <4>2. x = r
        BY <3>1, <4>1
      <4>3. PICK s : s = Cancelled(status[x])
        OBVIOUS
      <4>4. s # "RUNNING"
        BY <1>1, <4>2, <4>3 DEF Cancelled
      <4> QED
        BY <3>4, <4>1, <4>3, <4>4
    <3>8. ASSUME NEW x \in Runs, CancelRun(x) PROVE FALSE
      <4>1. PICK s : s = "CANCELLED"
        OBVIOUS
      <4>2. status' = [status EXCEPT ![x] = s] /\ s # "RUNNING"
        BY <3>8, <4>1 DEF CancelRun
      <4> QED
        BY <3>4, <4>2
    <3> QED
      BY <1>1, <3>1, <3>2, <3>3, <3>5, <3>6, <3>7, <3>8
         DEF Next, vars, AdmitQueuing, Queue, MarkQueued, LoadPlan, Send, StoreTaskId,
             SendFails, FailBatch, EndQueuing, BeginCancel, CancelBatch, EndCancel,
             BeginDirect, Direct, MarkDirect, LoopDirect, Work, DoNotStart, DropAnswer,
             ReadRuns, LeaveCancelled, Receive, Killed, WriteStatus
  <2> QED
    BY <1>1, <2>1 DEF OrderInv, EarlierAreDecided, Decided
<1>2. BatchInv /\ OrderInv /\ [Next]_vars =>
        [\A r \in Runs : status[r] = "QUEUED" /\ status'[r] = "RUNNING" =>
           \A p \in Runs : p < r => status[p] # "QUEUED"]_vars
  BY <1>1
<1> QED
  BY <1>2, OrderInvariant, PTL DEF Spec, StartsInOrder

-----------------------------------------------------------------------------
(* The runs of a batch move as RunPromise lets a single run move.          *)

\* The batch does not look at evidence and drafts; its runs have been created.
Promise == INSTANCE RunPromise
  WITH evidence <- [r \in Runs |-> "none"], drafted <- [r \in Runs |-> FALSE]

\* A run starts, is cancelled or fails, or ends with the status of a Conclude.
PromisedMove(r) ==
  \/ Promise!Start(r) \/ Promise!Cancel(r) \/ Promise!Fail(r)
  \/ \E s \in Terminal \ {"CANCELLED"} : Promise!Moves(r, {"RUNNING"}, s)

LEMMA NoMove ==
  ASSUME status \in [Runs -> RunStatus], NEW r \in Runs,
         status' = [status EXCEPT ![r] = status[r]]
  PROVE  UNCHANGED status
OBVIOUS

LEMMA CancelMoves ==
  ASSUME BatchInv, NEW r \in Runs, status' = [status EXCEPT ![r] = Cancelled(status[r])]
  PROVE  PromisedMove(r) \/ UNCHANGED status
<1>1. status \in [Runs -> RunStatus]
  BY DEF BatchInv, TypeOK
<1>2. CASE status[r] \in Open
  BY <1>2 DEF Cancelled, PromisedMove, Promise!Cancel, Promise!Moves, Promise!Open, Open
<1>3. CASE status[r] \notin Open
  BY <1>1, <1>3, NoMove DEF Cancelled
<1> QED
  BY <1>2, <1>3

\* Whoever executes: the worker, the command, its sweep.
LEMMA ExecutorsMoveAsPromised ==
  ASSUME BatchInv, NEW e \in Executors,
         Start(e) \/ Conclude(e) \/ SolverRaises(e) \/ Sweep(e)
  PROVE  UNCHANGED status \/ \E r \in Runs : PromisedMove(r)
<1>1. status \in [Runs -> RunStatus]
  BY DEF BatchInv, TypeOK
<1>2. PICK r \in Runs : r = exec[e].run
  BY DEF BatchInv, ExecutorsHaveRuns, Start, Conclude, SolverRaises, Sweep
<1>3. CASE Start(e)
  BY <1>2, <1>3 DEF Start, Startable, PromisedMove, Promise!Start, Promise!Moves
<1>4. CASE Conclude(e)
  <2>1. PICK s \in Outcomes : status' = [status EXCEPT ![r] = s]
    BY <1>2, <1>4 DEF Conclude
  <2>2. status[r] = "RUNNING" /\ s \in Terminal \ {"CANCELLED"}
    BY <1>2, <1>4, <2>1, BatchAssumption DEF Conclude, AcceptsResult
  <2> QED
    BY <2>1, <2>2 DEF PromisedMove, Promise!Cancel, Promise!Moves, Promise!Open, Open
<1>5. CASE SolverRaises(e)
  <2>1. status' = [status EXCEPT ![r] = FailedBySolver(status[r])]
    BY <1>2, <1>5 DEF SolverRaises
  <2>2. CASE status[r] = "RUNNING"
    BY <2>1, <2>2 DEF FailedBySolver, PromisedMove, Promise!Fail, Promise!Moves, Promise!Open, Open
  <2>3. CASE status[r] # "RUNNING"
    BY <1>1, <2>1, <2>3, NoMove DEF FailedBySolver
  <2> QED
    BY <2>2, <2>3
<1>6. CASE Sweep(e)
  <2>1. status' = [status EXCEPT ![r] = FailedByBatch(status[r])]
    BY <1>2, <1>6 DEF Sweep
  <2>2. CASE status[r] \in Open
    BY <2>1, <2>2 DEF FailedByBatch, PromisedMove, Promise!Fail, Promise!Moves, Promise!Open, Open
  <2>3. CASE status[r] \notin Open
    BY <1>1, <2>1, <2>3, NoMove DEF FailedByBatch
  <2> QED
    BY <2>2, <2>3
<1> QED
  BY <1>3, <1>4, <1>5, <1>6

\* The requests, the worker, the command and its sweep together do to the runs
\* of a batch what RunPromise allows, one run at a time.
THEOREM BatchKeepsPromise == Spec => [][\E r \in Runs : PromisedMove(r)]_status
<1>1. BatchInv /\ [Next]_vars => [\E r \in Runs : PromisedMove(r)]_status
  <2> SUFFICES ASSUME BatchInv, [Next]_vars
               PROVE  UNCHANGED status \/ \E r \in Runs : PromisedMove(r)
    OBVIOUS
  <2>1. ASSUME NEW c \in Cancellers, CancelNext(c)
        PROVE  UNCHANGED status \/ \E r \in Runs : PromisedMove(r)
    <3>1. PICK r \in canceller[c].todo : status' = [status EXCEPT ![r] = Cancelled(status[r])]
      BY <2>1 DEF CancelNext
    <3>2. r \in Runs
      BY DEF BatchInv, TypeOK, Tasks
    <3> QED
      BY <3>1, <3>2, CancelMoves
  <2>2. ASSUME NEW r \in Runs, CancelRun(r) PROVE PromisedMove(r)
    BY <2>2 DEF CancelRun, PromisedMove, Promise!Cancel, Promise!Moves, Promise!Open, Open
  <2>3. CASE \E e \in Executors : Start(e) \/ Conclude(e) \/ SolverRaises(e) \/ Sweep(e)
    BY <2>3, ExecutorsMoveAsPromised
  <2> QED
    BY <2>1, <2>2, <2>3
       DEF Next, vars, AdmitQueuing, Queue, MarkQueued, LoadPlan, Send, StoreTaskId,
           SendFails, FailBatch, EndQueuing, BeginCancel, CancelBatch, EndCancel,
           BeginDirect, Direct, MarkDirect, LoopDirect, Work, DoNotStart, DropAnswer,
           ReadRuns, LeaveCancelled, Receive, Killed, WriteStatus, Executors
<1> QED
  BY <1>1, BatchInvariant, PTL DEF Spec
=============================================================================
