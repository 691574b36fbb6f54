---------------------------- MODULE MC_FrontHandoff ----------------------------
(* Small instances of FrontHandoff for TLC: two profiles that ask different  *)
(* fields and different resume sections.                                     *)
EXTENDS FrontHandoff, TLC

CONSTANTS p1, p2, goal, risks

AskedFields == p1 :> {goal} @@ p2 :> {risks}
AskedSections == p1 :> "rules" @@ p2 :> "rules and state"

Symmetry == Permutations(Session)
=============================================================================
