--------------------------- MODULE MC_ProjectSetup ---------------------------
(* Small instances of ProjectSetup for TLC. *)
EXTENDS ProjectSetup, TLC

CONSTANTS p1, p2, soft, data, c1, c2, c3, t1, t2, f1, f2

Observation(id, fields) == [id |-> id, runner |-> "NOOP", validator |-> "EVIDENCE_FIELDS", fields |-> fields]
HashCheck(id) == [id |-> id, runner |-> "EVIDENCE_HASH", validator |-> "EVIDENCE_HASH", fields |-> {}]

(* Two domains that declare different capabilities and types. *)
Domains == soft :> {Observation(c1, {f1})} @@ data :> {HashCheck(c2)}
Taxonomies == soft :> {t1, t2} @@ data :> {t2}

(* A second observation with another field, a check that needs a runner the
   first domain does not allow, and one the Core refuses. *)
Declarable == {Observation(c3, {f2}), HashCheck(c2), Observation(c3, {})}

Symmetry == Permutations({p1, p2})
=============================================================================
