--------------------------- MODULE AppendOnlyStore ---------------------------
(***************************************************************************)
(* What the registries of the store promise to those who read it: rows are *)
(* only ever added, a key is used once, and a batch of an import appears   *)
(* in one step with every one of its rows, all of them new.  Registry,     *)
(* where an import inserts row by row, implements this specification.      *)
(***************************************************************************)
VARIABLES rows,      \* the rows a reader finds, as <<table, key, content>>
          batches    \* the batches it finds, each with the set of its rows

KeysAreUnique(R) == \A x, y \in R : x[1] = y[1] /\ x[2] = y[2] => x = y

StoreInit == rows = {} /\ batches = {}

AppendRows ==
    /\ rows \subseteq rows'
    /\ KeysAreUnique(rows')
    /\ batches' = batches

CommitBatch == \E b \in batches' :
    /\ b \notin batches /\ batches' = batches \union {b}
    /\ b.rows \intersect rows = {}
    /\ rows' = rows \union b.rows \union b.declares
    /\ KeysAreUnique(rows')

StoreNext == AppendRows \/ CommitBatch

StoreSpec == StoreInit /\ [][StoreNext]_<<rows, batches>>
=============================================================================
