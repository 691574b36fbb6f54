--------------------------- MODULE MC_StoreRuntime ---------------------------
(* Small instances of StoreRuntime for TLC. *)
EXTENDS StoreRuntime, TLC

CONSTANTS p1, p2, own, other, m1, m2, m3

(* A release, the next one with a migration more, and one that knows neither. *)
Releases == {<<m1>>, <<m1, m2>>, <<m3>>}

(* What another device may have sent: a bundle of the project. *)
Sent == [owner |-> own, declared |-> <<m1>>, ledger |-> <<m1>>,
         meta |-> [ident |-> own, fmt |-> 1], log |-> {0}]
Sendings == {{}, {Sent}}

(* The processes are alike: the runs check safety only. *)
Symmetry == Permutations({p1, p2})

(* One release and one project, on every database. *)
Plain ==
    /\ \A p \in Process : proc[p].owner \in {None, own} /\ proc[p].release \in {None, <<m1>>}
    /\ \A g \in Generation : /\ files[g].ledger \in {<< >>, <<m1>>}
                             /\ files[g].meta # None => files[g].meta.ident = own

(* Releases and projects meet on one database, between restores and under one   *)
(* policy; restores meet whoever opens, writes and synchronises at any step, of *)
(* one release and one project, and a second database under the other policy.   *)
InScope ==
    /\ \/ Plain
       \/ /\ Len(files) <= 1 /\ policy = "commit"
          /\ \A p \in Process : proc[p].pc \notin Restoring
    /\ Len(files) <= 1 \/ policy = "push"
=============================================================================
