--------------------------- MODULE MCRegeneration ---------------------------
(***************************************************************************)
(* Instances of Regeneration for TLC.  One room makes every two meetings   *)
(* at one slot contradict each other.  Originals, requests and meetings do *)
(* not differ among themselves.                                            *)
(***************************************************************************)
EXTENDS Regeneration, TLC

NoneRelated == {}

Symmetry ==
  Permutations(Originals) \cup Permutations(Requests) \cup Permutations(Meetings)
=============================================================================
