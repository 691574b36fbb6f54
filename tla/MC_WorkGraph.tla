---------------------------- MODULE MC_WorkGraph ----------------------------
(* Small instances of WorkGraph for TLC. *)
EXTENDS WorkGraph, TLC

(* Identifiers are told apart by no rule. *)
Symmetry == Permutations(WorkItem) \union Permutations(Gate) \union Permutations(Evidence)

(* A policy OPEN asks nothing, like none, and precludes a later one: whatever *)
(* happens under it happens without it as well.                               *)
PoliciesThatAsk == start_policy # "OPEN" /\ completion_policy # "OPEN"
=============================================================================
