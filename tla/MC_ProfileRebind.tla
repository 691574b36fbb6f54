--------------------------- MODULE MC_ProfileRebind ---------------------------
(* Small instances of ProfileRebind for TLC. *)
EXTENDS ProfileRebind, Integers, TLC

Anywhere == Step

(* The bound on the interrupted edits whose traces pile up: two stop the Doctor. *)
FewJournals == Cardinality(Journals) <= 3 /\ Cardinality(backup) <= 4

Symmetry == Permutations(Profile) \union Permutations(Editor)
=============================================================================
