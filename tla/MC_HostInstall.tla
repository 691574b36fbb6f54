--------------------------- MODULE MC_HostInstall ---------------------------
(* Two catalogues that compile to different manifests, one that allows        *)
(* nothing and compiles to none, and two places.                              *)
EXTENDS HostInstall, TLC

CONSTANTS k1, k2, closed, d1, d2

MCCatalogue == {k1, k2, closed}
MCPlace == {d1, d2}
MCAllowed(k) == IF k = closed THEN {} ELSE {"run"}

MCSymmetry ==
    Permutations(Process) \cup Permutations({k1, k2}) \cup Permutations(MCPlace)

=============================================================================
