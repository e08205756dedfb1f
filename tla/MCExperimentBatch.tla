-------------------------- MODULE MCExperimentBatch --------------------------
(***************************************************************************)
(* Instances of ExperimentBatch for TLC.  Requests do not differ.          *)
(***************************************************************************)
EXTENDS ExperimentBatch, TLC

RequestSymmetry == Permutations(Queuers)
=============================================================================
