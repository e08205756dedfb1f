--------------------------- MODULE MCDatasetRevision ---------------------------
(* Two workbooks for DatasetRevision; only the rows r1 pass the preflight of *)
(* a finalization.                                                           *)
EXTENDS DatasetRevision, TLC

CONSTANTS r1, r2, a, w1, w2, home, next

MCBatches == {<<home, w1>>, <<home, w2>>, <<next, w1>>}
MCBuildable == {r1}
MCSheets == w1 :> [rows |-> r1, room |-> a] @@ w2 :> [rows |-> r2, room |-> a]
\* A blank hash, and the one that a finalization of r1 stores.
MCFormHashes == {None, [of |-> "problem", content |-> [rows |-> r1, room |-> a]]}
MCSymmetry == Permutations(Revisions) \cup Permutations(Requests)
=============================================================================
