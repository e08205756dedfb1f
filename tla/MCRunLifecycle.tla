--------------------------- MODULE MCRunLifecycle ---------------------------
(***************************************************************************)
(* Instances of RunLifecycle for TLC.  The sets are given by the           *)
(* configurations; only the symmetry is defined here.                      *)
(***************************************************************************)
EXTENDS RunLifecycle, TLC

\* Workers do not differ; runs do, by their solver.
WorkerSymmetry == Permutations(Workers)
=============================================================================
