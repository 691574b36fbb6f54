------------------------------ MODULE MC_Registry ------------------------------
(* A small instance of Registry for TLC: two entity types, two entities, one  *)
(* of everything that refers to them, three knowledges, and for each ledger   *)
(* batches that agree, conflict, depend on each other's rows or fail midway.  *)
EXTENDS Registry, TLC

CONSTANTS t1, t2, d1, d2, e1, e2, rt, r1, s1, s2, w1, w2, kt, k1, k2, k3, q1,
          place, slice

AnyOrFirstType == {{}, {t1}}

Row(key, row) == [key |-> key, row |-> row]
EntityBatch(definition, rows) ==
    [id |-> "b1", target |-> "entity", empty |-> FALSE, type |-> t1,
     definition |-> definition, rows |-> rows]
ResourceBatch(id, target, rows) ==
    [id |-> id, target |-> target, empty |-> TRUE, rows |-> rows]

Submitted == {
    EntityBatch(d1, <<Row(e1, t1), Row(e2, t1)>>),
    EntityBatch(d2, <<Row(e1, t1)>>),
    ResourceBatch("b1", "symbol", <<Row(s1, [entity |-> e1, place |-> place]),
                                    Row(s2, [entity |-> e2, place |-> place])>>),
    ResourceBatch("b1", "work_item", <<Row(w1, [parent |-> None]),
                                       Row(w2, [parent |-> w1])>>),
    ResourceBatch("b1", "knowledge", <<Row(k1, [type |-> kt])>>),
    ResourceBatch("b2", "knowledge", <<Row(k2, [type |-> kt])>>),
    ResourceBatch("b1", "knowledge_source", <<Row(q1, [knowledge |-> k1, slice |-> slice])>>)}
=============================================================================
