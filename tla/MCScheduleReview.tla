-------------------------- MODULE MCScheduleReview --------------------------
(***************************************************************************)
(* Instances of ScheduleReview for TLC.  Versions, review requests and     *)
(* editors do not differ among themselves.                                 *)
(***************************************************************************)
EXTENDS ScheduleReview, TLC

Symmetry ==
  Permutations(Versions) \cup Permutations(Requests) \cup Permutations(Editors)
=============================================================================
