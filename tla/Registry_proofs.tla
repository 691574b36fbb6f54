---------------------------- MODULE Registry_proofs ----------------------------
(***************************************************************************)
(* What the registries keep, for any identifiers and any batches: an       *)
(* import that inserts row by row is seen as one step or not at all, and   *)
(* relations, successions and batches keep what they were checked for.     *)
(***************************************************************************)
EXTENDS Registry, TLAPS

LEMMA NoneIsNoRow ==
  /\ None \notin Definition /\ None \notin EntityType /\ None \notin RelationTypeRow
  /\ None \notin RelationRow /\ None \notin SymbolRow /\ None \notin WorkItemRow
  /\ None \notin KnowledgeRow /\ None \notin Knowledge /\ None \notin SourceRow
  /\ None \notin AssetSourceRow /\ None \notin Input /\ None \notin Import
  BY NoneAssumption

-----------------------------------------------------------------------------
(* Tables *)

(* Every row of the table is in the other one, *)
Kept(t, u) == \A k \in DOMAIN t : t[k] # None => u[k] = t[k]
(* and of the store in the other store. *)
Grows(d, e) ==
    /\ Kept(d.entity_type, e.entity_type) /\ Kept(d.entity, e.entity)
    /\ Kept(d.relation_type, e.relation_type) /\ Kept(d.relation, e.relation)
    /\ Kept(d.symbol, e.symbol) /\ Kept(d.work_item, e.work_item)
    /\ Kept(d.knowledge, e.knowledge) /\ Kept(d.successor, e.successor)
    /\ Kept(d.knowledge_source, e.knowledge_source)
    /\ Kept(d.asset_source, e.asset_source)
    /\ d.knowledge_type \subseteq e.knowledge_type /\ d.asset_link \subseteq e.asset_link

LEMMA TablesOf ==
  ASSUME NEW d \in Tables
  PROVE  /\ d.entity_type \in Table(EntityType, Definition) /\ d.entity \in Table(Entity, EntityType)
         /\ d.relation_type \in Table(RelationType, RelationTypeRow)
         /\ d.relation \in Table(Relation, RelationRow) /\ d.symbol \in Table(Symbol, SymbolRow)
         /\ d.work_item \in Table(WorkItem, WorkItemRow)
         /\ d.knowledge_type \subseteq KnowledgeType
         /\ d.knowledge \in Table(Knowledge, KnowledgeRow)
         /\ d.successor \in Table(Knowledge, Knowledge)
         /\ d.knowledge_source \in Table(Source, SourceRow)
         /\ d.asset_link \subseteq Knowledge \X Asset
         /\ d.asset_source \in Table(AssetSource, AssetSourceRow)
         /\ d.batch \in Table(Ledger \X BatchId, Input)
  BY DEF Tables

LEMMA OneRow ==
  ASSUME NEW Key, NEW Row, NEW t \in Table(Key, Row), NEW k \in Key, NEW r \in Row, t[k] = None
  PROVE  [t EXCEPT ![k] = r] \in Table(Key, Row) /\ Kept(t, [t EXCEPT ![k] = r])
  BY DEF Table, Kept

LEMMA NothingLost == ASSUME NEW d PROVE Grows(d, d)
  BY DEF Grows, Kept

(* A store with one table replaced. *)
LEMMA EntityTypeReplaced ==
  ASSUME NEW d \in Tables, NEW t \in Table(EntityType, Definition), Kept(d.entity_type, t)
  PROVE  [d EXCEPT !.entity_type = t] \in Tables /\ Grows(d, [d EXCEPT !.entity_type = t])
  BY DEF Tables, Grows, Kept
LEMMA EntityReplaced ==
  ASSUME NEW d \in Tables, NEW t \in Table(Entity, EntityType), Kept(d.entity, t)
  PROVE  [d EXCEPT !.entity = t] \in Tables /\ Grows(d, [d EXCEPT !.entity = t])
  BY DEF Tables, Grows, Kept
LEMMA RelationTypeReplaced ==
  ASSUME NEW d \in Tables, NEW t \in Table(RelationType, RelationTypeRow), Kept(d.relation_type, t)
  PROVE  [d EXCEPT !.relation_type = t] \in Tables /\ Grows(d, [d EXCEPT !.relation_type = t])
  BY DEF Tables, Grows, Kept
LEMMA RelationReplaced ==
  ASSUME NEW d \in Tables, NEW t \in Table(Relation, RelationRow), Kept(d.relation, t)
  PROVE  [d EXCEPT !.relation = t] \in Tables /\ Grows(d, [d EXCEPT !.relation = t])
  BY DEF Tables, Grows, Kept
LEMMA SymbolReplaced ==
  ASSUME NEW d \in Tables, NEW t \in Table(Symbol, SymbolRow), Kept(d.symbol, t)
  PROVE  [d EXCEPT !.symbol = t] \in Tables /\ Grows(d, [d EXCEPT !.symbol = t])
  BY DEF Tables, Grows, Kept
LEMMA WorkItemReplaced ==
  ASSUME NEW d \in Tables, NEW t \in Table(WorkItem, WorkItemRow), Kept(d.work_item, t)
  PROVE  [d EXCEPT !.work_item = t] \in Tables /\ Grows(d, [d EXCEPT !.work_item = t])
  BY DEF Tables, Grows, Kept
LEMMA KnowledgeTypeReplaced ==
  ASSUME NEW d \in Tables, NEW t, t \subseteq KnowledgeType, d.knowledge_type \subseteq t
  PROVE  [d EXCEPT !.knowledge_type = t] \in Tables /\ Grows(d, [d EXCEPT !.knowledge_type = t])
  BY DEF Tables, Grows, Kept
LEMMA KnowledgeReplaced ==
  ASSUME NEW d \in Tables, NEW t \in Table(Knowledge, KnowledgeRow), Kept(d.knowledge, t)
  PROVE  [d EXCEPT !.knowledge = t] \in Tables /\ Grows(d, [d EXCEPT !.knowledge = t])
  BY DEF Tables, Grows, Kept
LEMMA SuccessorReplaced ==
  ASSUME NEW d \in Tables, NEW t \in Table(Knowledge, Knowledge), Kept(d.successor, t)
  PROVE  [d EXCEPT !.successor = t] \in Tables /\ Grows(d, [d EXCEPT !.successor = t])
  BY DEF Tables, Grows, Kept
LEMMA SourceReplaced ==
  ASSUME NEW d \in Tables, NEW t \in Table(Source, SourceRow), Kept(d.knowledge_source, t)
  PROVE  [d EXCEPT !.knowledge_source = t] \in Tables /\ Grows(d, [d EXCEPT !.knowledge_source = t])
  BY DEF Tables, Grows, Kept
LEMMA AssetLinkReplaced ==
  ASSUME NEW d \in Tables, NEW t, t \subseteq Knowledge \X Asset, d.asset_link \subseteq t
  PROVE  [d EXCEPT !.asset_link = t] \in Tables /\ Grows(d, [d EXCEPT !.asset_link = t])
  BY DEF Tables, Grows, Kept
LEMMA AssetSourceReplaced ==
  ASSUME NEW d \in Tables, NEW t \in Table(AssetSource, AssetSourceRow), Kept(d.asset_source, t)
  PROVE  [d EXCEPT !.asset_source = t] \in Tables /\ Grows(d, [d EXCEPT !.asset_source = t])
  BY DEF Tables, Grows, Kept
LEMMA BatchReplaced ==
  ASSUME NEW d \in Tables, NEW t \in Table(Ledger \X BatchId, Input)
  PROVE  [d EXCEPT !.batch = t] \in Tables /\ Grows(d, [d EXCEPT !.batch = t])
  BY DEF Tables, Grows, Kept

-----------------------------------------------------------------------------
(* Service calls add rows *)

Adds == db' \in Tables /\ Grows(db, db') /\ db'.batch = db.batch

LEMMA EntityTypeCalls ==
  ASSUME db \in Tables, NEW type \in EntityType, NEW definition \in Definition,
         RegisterEntityType(type, definition)
  PROVE  Adds
<1> DEFINE t == [db.entity_type EXCEPT ![type] = definition]
<1>1. t \in Table(EntityType, Definition) /\ Kept(db.entity_type, t)
  BY TablesOf, OneRow DEF RegisterEntityType
<1>2. db' = [db EXCEPT !.entity_type = t]
  BY DEF RegisterEntityType, Write
<1> HIDE DEF t
<1> QED
  BY <1>1, <1>2, EntityTypeReplaced DEF Adds, Tables

LEMMA EntityCalls ==
  ASSUME db \in Tables, NEW e \in Entity, NEW type \in EntityType, CreateEntity(e, type)
  PROVE  Adds
<1> DEFINE t == [db.entity EXCEPT ![e] = type]
<1>1. t \in Table(Entity, EntityType) /\ Kept(db.entity, t)
  BY TablesOf, OneRow DEF CreateEntity, EntityFits
<1>2. db' = [db EXCEPT !.entity = t]
  BY DEF CreateEntity, Write
<1> HIDE DEF t
<1> QED
  BY <1>1, <1>2, EntityReplaced DEF Adds, Tables

LEMMA ManyEntities ==
  ASSUME NEW d \in Tables, NEW E \in SUBSET Entity, NEW type \in EntityType,
         \A e \in E : d.entity[e] = None
  PROVE  /\ WithEntities(d, E, type) \in Tables /\ Grows(d, WithEntities(d, E, type))
         /\ WithEntities(d, E, type).batch = d.batch
<1> DEFINE t == [e \in Entity |-> IF e \in E THEN type ELSE d.entity[e]]
<1>1. t \in Table(Entity, EntityType) /\ Kept(d.entity, t)
  <2>1. d.entity \in [Entity -> EntityType \union {None}]
    BY TablesOf DEF Table
  <2>2. \A e \in Entity : t[e] = IF e \in E THEN type ELSE d.entity[e]
    OBVIOUS
  <2>3. t \in [Entity -> EntityType \union {None}]
    BY <2>1
  <2>4. \A e \in Entity : d.entity[e] # None => t[e] = d.entity[e]
    BY <2>2
  <2> QED
    BY <2>1, <2>3, <2>4 DEF Table, Kept
<1>2. WithEntities(d, E, type) = [d EXCEPT !.entity = t]
  BY DEF WithEntities
<1> HIDE DEF t
<1>3. [d EXCEPT !.entity = t].batch = d.batch
  BY DEF Tables
<1>4. [d EXCEPT !.entity = t] \in Tables /\ Grows(d, [d EXCEPT !.entity = t])
  BY <1>1, EntityReplaced
<1> QED
  BY <1>2, <1>3, <1>4

LEMMA BatchCalls ==
  ASSUME db \in Tables, NEW type \in EntityType, NEW E \in SUBSET Entity,
         \/ CreateBatchForRegisteredType(type, E)
         \/ \E definition \in Definition : RegisterTypeAndCreateBatch(type, definition, E)
  PROVE  Adds
<1>1. CASE CreateBatchForRegisteredType(type, E)
  BY <1>1, ManyEntities DEF CreateBatchForRegisteredType, EntityFits, Write, Adds
<1>2. ASSUME NEW definition \in Definition, RegisterTypeAndCreateBatch(type, definition, E)
      PROVE  Adds
  <2> DEFINE t == [db.entity_type EXCEPT ![type] = definition]
             d == [db EXCEPT !.entity_type = t]
  <2>1. t \in Table(EntityType, Definition) /\ Kept(db.entity_type, t)
    BY <1>2, TablesOf, OneRow DEF RegisterTypeAndCreateBatch
  <2>2. d \in Tables /\ Grows(db, d) /\ d.batch = db.batch /\ d.entity = db.entity
    <3> HIDE DEF t
    <3> QED
      BY <2>1, EntityTypeReplaced DEF Tables
  <2>3. db' = WithEntities(d, E, type)
    BY <1>2 DEF RegisterTypeAndCreateBatch, Write
  <2> HIDE DEF d
  <2>4. db' \in Tables /\ Grows(d, db') /\ db'.batch = d.batch
    BY <1>2, <2>2, <2>3, ManyEntities DEF RegisterTypeAndCreateBatch
  <2>5. Grows(db, db')
    BY <2>2, <2>4, TablesOf DEF Grows, Kept, Table
  <2> QED
    BY <2>2, <2>4, <2>5 DEF Adds
<1> QED
  BY <1>1, <1>2

LEMMA RelationCalls ==
  ASSUME db \in Tables,
         \/ \E r \in RelationType, row \in RelationTypeRow : RegisterRelationType(r, row)
         \/ \E r \in Relation, row \in RelationRow : CreateRelation(r, row)
  PROVE  Adds
<1>1. ASSUME NEW r \in RelationType, NEW row \in RelationTypeRow, RegisterRelationType(r, row)
      PROVE  Adds
  <2> DEFINE t == [db.relation_type EXCEPT ![r] = row]
  <2>1. t \in Table(RelationType, RelationTypeRow) /\ Kept(db.relation_type, t)
    BY <1>1, TablesOf, OneRow DEF RegisterRelationType, RelationTypeFits
  <2>2. db' = [db EXCEPT !.relation_type = t]
    BY <1>1 DEF RegisterRelationType, Write
  <2> HIDE DEF t
  <2> QED
    BY <2>1, <2>2, RelationTypeReplaced DEF Adds, Tables
<1>2. ASSUME NEW r \in Relation, NEW row \in RelationRow, CreateRelation(r, row)
      PROVE  Adds
  <2> DEFINE t == [db.relation EXCEPT ![r] = row]
  <2>1. t \in Table(Relation, RelationRow) /\ Kept(db.relation, t)
    BY <1>2, TablesOf, OneRow DEF CreateRelation, RelationFits
  <2>2. db' = [db EXCEPT !.relation = t]
    BY <1>2 DEF CreateRelation, Write
  <2> HIDE DEF t
  <2> QED
    BY <2>1, <2>2, RelationReplaced DEF Adds, Tables
<1> QED
  BY <1>1, <1>2

LEMMA ResourceCalls ==
  ASSUME db \in Tables,
         \/ \E s \in Symbol, row \in SymbolRow : CreateSymbol(s, row)
         \/ \E w \in WorkItem, row \in WorkItemRow : CreateWorkItem(w, row)
  PROVE  Adds
<1>1. ASSUME NEW s \in Symbol, NEW row \in SymbolRow, CreateSymbol(s, row) PROVE Adds
  <2> DEFINE t == [db.symbol EXCEPT ![s] = row]
  <2>1. t \in Table(Symbol, SymbolRow) /\ Kept(db.symbol, t)
    BY <1>1, TablesOf, OneRow DEF CreateSymbol, SymbolFits
  <2>2. db' = [db EXCEPT !.symbol = t]
    BY <1>1 DEF CreateSymbol, Write
  <2> HIDE DEF t
  <2> QED
    BY <2>1, <2>2, SymbolReplaced DEF Adds, Tables
<1>2. ASSUME NEW w \in WorkItem, NEW row \in WorkItemRow, CreateWorkItem(w, row) PROVE Adds
  <2> DEFINE t == [db.work_item EXCEPT ![w] = row]
  <2>1. t \in Table(WorkItem, WorkItemRow) /\ Kept(db.work_item, t)
    BY <1>2, TablesOf, OneRow DEF CreateWorkItem, WorkItemFits
  <2>2. db' = [db EXCEPT !.work_item = t]
    BY <1>2 DEF CreateWorkItem, Write
  <2> HIDE DEF t
  <2> QED
    BY <2>1, <2>2, WorkItemReplaced DEF Adds, Tables
<1> QED
  BY <1>1, <1>2

LEMMA KnowledgeCalls ==
  ASSUME db \in Tables,
         \/ \E type \in KnowledgeType : RegisterKnowledgeType(type)
         \/ \E k \in Knowledge, row \in KnowledgeRow : AppendKnowledge(k, row)
         \/ \E k, by \in Knowledge : Supersede(k, by)
  PROVE  Adds
<1>1. ASSUME NEW type \in KnowledgeType, RegisterKnowledgeType(type) PROVE Adds
  <2> DEFINE t == db.knowledge_type \union {type}
  <2>1. t \subseteq KnowledgeType /\ db.knowledge_type \subseteq t
    BY TablesOf
  <2>2. db' = [db EXCEPT !.knowledge_type = t]
    BY <1>1 DEF RegisterKnowledgeType, Write
  <2> HIDE DEF t
  <2> QED
    BY <2>1, <2>2, KnowledgeTypeReplaced DEF Adds, Tables
<1>2. ASSUME NEW k \in Knowledge, NEW row \in KnowledgeRow, AppendKnowledge(k, row) PROVE Adds
  <2> DEFINE t == [db.knowledge EXCEPT ![k] = row]
  <2>1. t \in Table(Knowledge, KnowledgeRow) /\ Kept(db.knowledge, t)
    BY <1>2, TablesOf, OneRow DEF AppendKnowledge, KnowledgeFits
  <2>2. db' = [db EXCEPT !.knowledge = t]
    BY <1>2 DEF AppendKnowledge, Write
  <2> HIDE DEF t
  <2> QED
    BY <2>1, <2>2, KnowledgeReplaced DEF Adds, Tables
<1>3. ASSUME NEW k \in Knowledge, NEW by \in Knowledge, Supersede(k, by) PROVE Adds
  <2> DEFINE t == [db.successor EXCEPT ![k] = by]
  <2>1. t \in Table(Knowledge, Knowledge) /\ Kept(db.successor, t)
    BY <1>3, TablesOf, OneRow DEF Supersede, SupersessionFits
  <2>2. db' = [db EXCEPT !.successor = t]
    BY <1>3 DEF Supersede, Write
  <2> HIDE DEF t
  <2> QED
    BY <2>1, <2>2, SuccessorReplaced DEF Adds, Tables
<1> QED
  BY <1>1, <1>2, <1>3

LEMMA ProvenanceCalls ==
  ASSUME db \in Tables,
         \/ \E s \in Source, row \in SourceRow : AttachSource(s, row)
         \/ \E k \in Knowledge, asset \in Asset : LinkAsset(k, asset)
         \/ \E s \in AssetSource, row \in AssetSourceRow : AttachAssetSource(s, row)
  PROVE  Adds
<1>1. ASSUME NEW s \in Source, NEW row \in SourceRow, AttachSource(s, row) PROVE Adds
  <2> DEFINE t == [db.knowledge_source EXCEPT ![s] = row]
  <2>1. t \in Table(Source, SourceRow) /\ Kept(db.knowledge_source, t)
    BY <1>1, TablesOf, OneRow DEF AttachSource, SourceFits
  <2>2. db' = [db EXCEPT !.knowledge_source = t]
    BY <1>1 DEF AttachSource, Write
  <2> HIDE DEF t
  <2> QED
    BY <2>1, <2>2, SourceReplaced DEF Adds, Tables
<1>2. ASSUME NEW k \in Knowledge, NEW asset \in Asset, LinkAsset(k, asset) PROVE Adds
  <2> DEFINE t == db.asset_link \union {<<k, asset>>}
  <2>1. t \subseteq Knowledge \X Asset /\ db.asset_link \subseteq t
    BY TablesOf
  <2>2. db' = [db EXCEPT !.asset_link = t]
    BY <1>2 DEF LinkAsset, Write
  <2> HIDE DEF t
  <2> QED
    BY <2>1, <2>2, AssetLinkReplaced DEF Adds, Tables
<1>3. ASSUME NEW s \in AssetSource, NEW row \in AssetSourceRow, AttachAssetSource(s, row)
      PROVE  Adds
  <2> DEFINE t == [db.asset_source EXCEPT ![s] = row]
  <2>1. t \in Table(AssetSource, AssetSourceRow) /\ Kept(db.asset_source, t)
    BY <1>3, TablesOf, OneRow DEF AttachAssetSource, AssetSourceFits
  <2>2. db' = [db EXCEPT !.asset_source = t]
    BY <1>3 DEF AttachAssetSource, Write
  <2> HIDE DEF t
  <2> QED
    BY <2>1, <2>2, AssetSourceReplaced DEF Adds, Tables
<1> QED
  BY <1>1, <1>2, <1>3

LEMMA ServicesAdd ==
  ASSUME db \in Tables, ServiceCall
  PROVE  Adds /\ tx = None /\ tx' = None
<1>1. Adds
  BY EntityTypeCalls, EntityCalls, BatchCalls, RelationCalls, ResourceCalls, KnowledgeCalls,
     ProvenanceCalls DEF ServiceCall
<1>2. tx = None /\ tx' = None
  BY DEF ServiceCall, RegisterEntityType, CreateEntity, CreateBatchForRegisteredType,
     RegisterTypeAndCreateBatch, RegisterRelationType, CreateRelation, CreateSymbol,
     CreateWorkItem, RegisterKnowledgeType, AppendKnowledge, Supersede, AttachSource,
     LinkAsset, AttachAssetSource, Write, MayWrite
<1> QED
  BY <1>1, <1>2

-----------------------------------------------------------------------------
(* Imports *)

(* What no import writes. *)
Others(d) == <<d.relation_type, d.relation, d.knowledge_type, d.successor,
               d.asset_link, d.asset_source, d.batch>>
KeyOf(i, n) == i.rows[n].key
RowOf(i, n) == i.rows[n].row

(* Where an import stands: the tables it sees are the committed ones with the *)
(* rows it has inserted, whose keys were free, and with the type it declares. *)
Standing(base, i, work, done) ==
    /\ Others(work) = Others(base)
    /\ \A t \in Target \ {i.target} : ContentOf(work, t) = ContentOf(base, t)
    /\ work.entity_type = IF i.target = "entity" THEN WithType(base, i).entity_type
                          ELSE base.entity_type
    /\ i.target = "entity" => TypeMatches(base, i)
    /\ \A n \in 1..done : /\ ContentOf(base, i.target)[KeyOf(i, n)] = None
                           /\ ContentOf(work, i.target)[KeyOf(i, n)] = RowOf(i, n)
    /\ \A k \in DOMAIN ContentOf(base, i.target) :
          \/ ContentOf(work, i.target)[k] = ContentOf(base, i.target)[k]
          \/ \E n \in 1..done : k = KeyOf(i, n)
    /\ NewBatch(base, i) /\ (i.empty => TargetIsEmpty(base, i))
ImportStands == tx # None => Standing(db, tx.input, tx.work, tx.done)

KeySet(target) ==
    CASE target = "entity" -> Entity [] target = "symbol" -> Symbol
      [] target = "work_item" -> WorkItem [] target = "knowledge" -> Knowledge
      [] target = "knowledge_source" -> Source
RowSet(target) ==
    CASE target = "entity" -> EntityType [] target = "symbol" -> SymbolRow
      [] target = "work_item" -> WorkItemRow [] target = "knowledge" -> KnowledgeRow
      [] target = "knowledge_source" -> SourceRow

LEMMA ListsAreFunctions ==
  ASSUME NEW S, NEW s \in Seq(S), Len(s) \in 1..100
  PROVE  /\ Len(s) \in Nat \ {0} /\ DOMAIN s = 1..Len(s) /\ \A n \in 1..Len(s) : s[n] \in S
<1>1. Len(s) \in Nat \ {0}
  <2>1. \A n \in 1..100 : n \in Nat \ {0}
    OBVIOUS
  <2> QED
    BY <2>1, Zenon
<1>2. DOMAIN s = 1..Len(s)
  OBVIOUS
<1>3. \A n \in 1..Len(s) : s[n] \in S
  OBVIOUS
<1> QED
  BY <1>1, <1>2, <1>3

LEMMA Inputs ==
  ASSUME NEW i \in Input
  PROVE  /\ i.target \in Target /\ Len(i.rows) \in Nat \ {0} /\ DOMAIN i.rows = 1..Len(i.rows)
         /\ \A m, n \in 1..Len(i.rows) : KeyOf(i, m) = KeyOf(i, n) => m = n
         /\ \A n \in 1..Len(i.rows) : KeyOf(i, n) \in KeySet(i.target) /\ RowOf(i, n) \in RowSet(i.target)
         /\ i.target = "entity" => i.type \in EntityType /\ i.definition \in Definition /\ ~i.empty
         /\ LedgerKey(i) \in Ledger \X BatchId
<1>1. PreparedBatch(i)
  BY InputsArePrepared
<1>2. i.target \in Target /\ PreparedRows(i)
  BY <1>1 DEF PreparedBatch, PreparedEntityBatch, PreparedResourceBatch, PreparedKnowledgeBatch,
              PreparedSourceBatch, Target
<1>3. i.rows \in Seq(ImportRow(i.target)) /\ Len(i.rows) \in 1..100
  BY <1>2 DEF PreparedRows
<1>4. Len(i.rows) \in Nat \ {0} /\ DOMAIN i.rows = 1..Len(i.rows)
      /\ \A n \in 1..Len(i.rows) : i.rows[n] \in ImportRow(i.target)
  BY <1>3, ListsAreFunctions
<1>5. \A n \in 1..Len(i.rows) : KeyOf(i, n) \in KeySet(i.target) /\ RowOf(i, n) \in RowSet(i.target)
  <2>1. ImportRow(i.target) = [key : KeySet(i.target), row : RowSet(i.target)]
    BY <1>2 DEF ImportRow, KeySet, RowSet, Target
  <2> QED
    BY <2>1, <1>4 DEF KeyOf, RowOf
<1>6. \A m, n \in 1..Len(i.rows) : KeyOf(i, m) = KeyOf(i, n) => m = n
  BY <1>2, <1>4 DEF PreparedRows, KeyOf
<1>7. i.target = "entity" => i.type \in EntityType /\ i.definition \in Definition /\ ~i.empty
  BY <1>1 DEF PreparedBatch, PreparedEntityBatch, PreparedResourceBatch, PreparedKnowledgeBatch,
              PreparedSourceBatch
<1>8. LedgerKey(i) \in Ledger \X BatchId
  BY <1>2 DEF LedgerKey, Ledger, BatchId
<1> QED
  BY <1>2, <1>4, <1>5, <1>6, <1>7, <1>8

LEMMA Contents ==
  ASSUME NEW d \in Tables, NEW target \in Target
  PROVE  ContentOf(d, target) \in Table(KeySet(target), RowSet(target))
  BY TablesOf DEF ContentOf, KeySet, RowSet, Target

LEMMA RowsAreSomething == ASSUME NEW target \in Target PROVE None \notin RowSet(target)
  BY NoneIsNoRow DEF RowSet, Target

(* One row of an import. *)
LEMMA RowWritten ==
  ASSUME NEW d \in Tables, NEW i \in Input, NEW n \in 1..Len(i.rows),
         RowFits(d, i.target, i.rows[n]), NEW e, e = WithRow(d, i.target, i.rows[n])
  PROVE  /\ e \in Tables /\ Grows(d, e) /\ Others(e) = Others(d) /\ e.entity_type = d.entity_type
         /\ \A t \in Target \ {i.target} : ContentOf(e, t) = ContentOf(d, t)
         /\ ContentOf(d, i.target)[KeyOf(i, n)] = None
         /\ ContentOf(e, i.target) = [ContentOf(d, i.target) EXCEPT ![KeyOf(i, n)] = RowOf(i, n)]
<1> DEFINE k == i.rows[n].key
           r == i.rows[n].row
<1>1. k \in KeySet(i.target) /\ r \in RowSet(i.target) /\ i.target \in Target
  BY Inputs DEF KeyOf, RowOf
<1> USE DEF Others, KeyOf, RowOf
<1>2. CASE i.target = "entity"
  <2> DEFINE t == [d.entity EXCEPT ![k] = r]
  <2>1. d.entity[k] = None
    BY <1>2 DEF RowFits, EntityFits
  <2>2. t \in Table(Entity, EntityType) /\ Kept(d.entity, t)
    BY <1>1, <1>2, <2>1, TablesOf, OneRow DEF KeySet, RowSet
  <2>3. WithRow(d, i.target, i.rows[n]) = [d EXCEPT !.entity = t]
    BY <1>2 DEF WithRow
  <2> HIDE DEF t
  <2>4. [d EXCEPT !.entity = t] \in Tables /\ Grows(d, [d EXCEPT !.entity = t])
    BY <2>2, EntityReplaced
  <2>5. /\ Others([d EXCEPT !.entity = t]) = Others(d)
        /\ [d EXCEPT !.entity = t].entity_type = d.entity_type
        /\ \A x \in Target \ {"entity"} : ContentOf([d EXCEPT !.entity = t], x) = ContentOf(d, x)
        /\ ContentOf([d EXCEPT !.entity = t], "entity") = t /\ ContentOf(d, "entity") = d.entity
    BY DEF Tables, ContentOf, Target
  <2> QED
    BY <1>2, <2>1, <2>3, <2>4, <2>5 DEF t
<1>3. CASE i.target = "symbol"
  <2> DEFINE t == [d.symbol EXCEPT ![k] = r]
  <2>1. d.symbol[k] = None
    BY <1>3 DEF RowFits, SymbolFits
  <2>2. t \in Table(Symbol, SymbolRow) /\ Kept(d.symbol, t)
    BY <1>1, <1>3, <2>1, TablesOf, OneRow DEF KeySet, RowSet
  <2>3. WithRow(d, i.target, i.rows[n]) = [d EXCEPT !.symbol = t]
    BY <1>3 DEF WithRow
  <2> HIDE DEF t
  <2>4. [d EXCEPT !.symbol = t] \in Tables /\ Grows(d, [d EXCEPT !.symbol = t])
    BY <2>2, SymbolReplaced
  <2>5. /\ Others([d EXCEPT !.symbol = t]) = Others(d)
        /\ [d EXCEPT !.symbol = t].entity_type = d.entity_type
        /\ \A x \in Target \ {"symbol"} : ContentOf([d EXCEPT !.symbol = t], x) = ContentOf(d, x)
        /\ ContentOf([d EXCEPT !.symbol = t], "symbol") = t /\ ContentOf(d, "symbol") = d.symbol
    BY DEF Tables, ContentOf, Target
  <2> QED
    BY <1>3, <2>1, <2>3, <2>4, <2>5 DEF t
<1>4. CASE i.target = "work_item"
  <2> DEFINE t == [d.work_item EXCEPT ![k] = r]
  <2>1. d.work_item[k] = None
    BY <1>4 DEF RowFits, WorkItemFits
  <2>2. t \in Table(WorkItem, WorkItemRow) /\ Kept(d.work_item, t)
    BY <1>1, <1>4, <2>1, TablesOf, OneRow DEF KeySet, RowSet
  <2>3. WithRow(d, i.target, i.rows[n]) = [d EXCEPT !.work_item = t]
    BY <1>4 DEF WithRow
  <2> HIDE DEF t
  <2>4. [d EXCEPT !.work_item = t] \in Tables /\ Grows(d, [d EXCEPT !.work_item = t])
    BY <2>2, WorkItemReplaced
  <2>5. /\ Others([d EXCEPT !.work_item = t]) = Others(d)
        /\ [d EXCEPT !.work_item = t].entity_type = d.entity_type
        /\ \A x \in Target \ {"work_item"} : ContentOf([d EXCEPT !.work_item = t], x) = ContentOf(d, x)
        /\ ContentOf([d EXCEPT !.work_item = t], "work_item") = t
        /\ ContentOf(d, "work_item") = d.work_item
    BY DEF Tables, ContentOf, Target
  <2> QED
    BY <1>4, <2>1, <2>3, <2>4, <2>5 DEF t
<1>5. CASE i.target = "knowledge"
  <2> DEFINE t == [d.knowledge EXCEPT ![k] = r]
  <2>1. d.knowledge[k] = None
    BY <1>5 DEF RowFits, KnowledgeFits
  <2>2. t \in Table(Knowledge, KnowledgeRow) /\ Kept(d.knowledge, t)
    BY <1>1, <1>5, <2>1, TablesOf, OneRow DEF KeySet, RowSet
  <2>3. WithRow(d, i.target, i.rows[n]) = [d EXCEPT !.knowledge = t]
    BY <1>5 DEF WithRow
  <2> HIDE DEF t
  <2>4. [d EXCEPT !.knowledge = t] \in Tables /\ Grows(d, [d EXCEPT !.knowledge = t])
    BY <2>2, KnowledgeReplaced
  <2>5. /\ Others([d EXCEPT !.knowledge = t]) = Others(d)
        /\ [d EXCEPT !.knowledge = t].entity_type = d.entity_type
        /\ \A x \in Target \ {"knowledge"} : ContentOf([d EXCEPT !.knowledge = t], x) = ContentOf(d, x)
        /\ ContentOf([d EXCEPT !.knowledge = t], "knowledge") = t
        /\ ContentOf(d, "knowledge") = d.knowledge
    BY DEF Tables, ContentOf, Target
  <2> QED
    BY <1>5, <2>1, <2>3, <2>4, <2>5 DEF t
<1>6. CASE i.target = "knowledge_source"
  <2> DEFINE t == [d.knowledge_source EXCEPT ![k] = r]
  <2>1. d.knowledge_source[k] = None
    BY <1>6 DEF RowFits, SourceFits
  <2>2. t \in Table(Source, SourceRow) /\ Kept(d.knowledge_source, t)
    BY <1>1, <1>6, <2>1, TablesOf, OneRow DEF KeySet, RowSet
  <2>3. WithRow(d, i.target, i.rows[n]) = [d EXCEPT !.knowledge_source = t]
    BY <1>6 DEF WithRow
  <2> HIDE DEF t
  <2>4. [d EXCEPT !.knowledge_source = t] \in Tables /\ Grows(d, [d EXCEPT !.knowledge_source = t])
    BY <2>2, SourceReplaced
  <2>5. /\ Others([d EXCEPT !.knowledge_source = t]) = Others(d)
        /\ [d EXCEPT !.knowledge_source = t].entity_type = d.entity_type
        /\ \A x \in Target \ {"knowledge_source"} :
              ContentOf([d EXCEPT !.knowledge_source = t], x) = ContentOf(d, x)
        /\ ContentOf([d EXCEPT !.knowledge_source = t], "knowledge_source") = t
        /\ ContentOf(d, "knowledge_source") = d.knowledge_source
    BY DEF Tables, ContentOf, Target
  <2> QED
    BY <1>6, <2>1, <2>3, <2>4, <2>5 DEF t
<1> QED
  BY <1>1, <1>2, <1>3, <1>4, <1>5, <1>6 DEF Target

LEMMA TypeDeclared ==
  ASSUME NEW d \in Tables, NEW i \in Input, i.target = "entity", TypeMatches(d, i)
  PROVE  /\ WithType(d, i) \in Tables /\ Grows(d, WithType(d, i))
         /\ WithType(d, i).entity_type = [d.entity_type EXCEPT ![i.type] = i.definition]
         /\ Others(WithType(d, i)) = Others(d)
         /\ \A t \in Target : ContentOf(WithType(d, i), t) = ContentOf(d, t)
<1>1. i.type \in EntityType /\ i.definition \in Definition
  BY Inputs
<1> DEFINE t == [d.entity_type EXCEPT ![i.type] = i.definition]
<1>2. CASE d.entity_type[i.type] = None
  <2>1. t \in Table(EntityType, Definition) /\ Kept(d.entity_type, t)
    BY <1>1, <1>2, TablesOf, OneRow
  <2>2. WithType(d, i) = [d EXCEPT !.entity_type = t]
    BY <1>2 DEF WithType
  <2> HIDE DEF t
  <2>3. [d EXCEPT !.entity_type = t] \in Tables /\ Grows(d, [d EXCEPT !.entity_type = t])
    BY <2>1, EntityTypeReplaced
  <2>4. /\ [d EXCEPT !.entity_type = t].entity_type = t
        /\ Others([d EXCEPT !.entity_type = t]) = Others(d)
        /\ \A x \in Target : ContentOf([d EXCEPT !.entity_type = t], x) = ContentOf(d, x)
    BY DEF Tables, Others, ContentOf, Target
  <2> QED
    BY <2>2, <2>3, <2>4 DEF t
<1>3. CASE d.entity_type[i.type] # None
  <2>1. WithType(d, i) = d /\ d.entity_type[i.type] = i.definition
    BY <1>3 DEF WithType, TypeMatches
  <2>2. t = d.entity_type
    BY <1>1, <2>1, TablesOf DEF Table
  <2> QED
    BY <2>1, <2>2, NothingLost
<1> QED
  BY <1>2, <1>3

-----------------------------------------------------------------------------
(* Steps of an import *)

(* Batches are filed under their own ledger and identifier. *)
BatchesKeyed == \A key \in Ledger \X BatchId :
    db.batch[key] # None => key = LedgerKey(db.batch[key])

Beginning == \E i \in Input :
    BeginEntityImport(i) \/ BeginResourceImport(i) \/ BeginKnowledgeImport(i) \/ BeginSourceImport(i)

LEMMA BeginningStands ==
  ASSUME TypeOK, Beginning
  PROVE  TypeOK' /\ ImportStands' /\ db' = db
<1> PICK i \in Input :
       BeginEntityImport(i) \/ BeginResourceImport(i) \/ BeginKnowledgeImport(i) \/ BeginSourceImport(i)
  BY DEF Beginning
<1>1. db \in Tables /\ db' = db
  BY DEF TypeOK, BeginEntityImport, BeginResourceImport, BeginKnowledgeImport, BeginSourceImport, Begin
<1>2. /\ i.target \in Target /\ Len(i.rows) \in Nat
  BY Inputs
<1>3. NewBatch(db, i) /\ (i.empty => TargetIsEmpty(db, i))
  BY Inputs DEF BeginEntityImport, BeginResourceImport, BeginKnowledgeImport, BeginSourceImport
<1>4. CASE BeginEntityImport(i)
  <2>1. i.target = "entity" /\ TypeMatches(db, i)
        /\ tx' = [input |-> i, work |-> WithType(db, i), done |-> 0]
    BY <1>4 DEF BeginEntityImport, Begin
  <2>2. /\ WithType(db, i) \in Tables /\ Others(WithType(db, i)) = Others(db)
        /\ \A t \in Target : ContentOf(WithType(db, i), t) = ContentOf(db, t)
    BY <1>1, <2>1, TypeDeclared
  <2>3. tx' \in Import /\ tx'.done <= Len(tx'.input.rows)
    BY <1>1, <1>2, <2>1, <2>2 DEF Import
  <2>4. Standing(db, i, WithType(db, i), 0)
    BY <1>1, <1>2, <1>3, <2>1, <2>2 DEF Standing
  <2> QED
    BY <1>1, <2>1, <2>3, <2>4 DEF TypeOK, ImportStands
<1>5. CASE BeginResourceImport(i) \/ BeginKnowledgeImport(i) \/ BeginSourceImport(i)
  <2>1. i.target # "entity" /\ tx' = [input |-> i, work |-> db, done |-> 0]
    BY <1>5 DEF BeginResourceImport, BeginKnowledgeImport, BeginSourceImport, Begin
  <2>2. tx' \in Import /\ tx'.done <= Len(tx'.input.rows)
    BY <1>1, <1>2, <2>1 DEF Import
  <2>3. Standing(db, i, db, 0)
    BY <1>3, <2>1 DEF Standing
  <2> QED
    BY <1>1, <2>1, <2>2, <2>3 DEF TypeOK, ImportStands
<1> QED
  BY <1>4, <1>5

LEMMA RowStands ==
  ASSUME TypeOK, ImportStands, ImportRowStep
  PROVE  TypeOK' /\ ImportStands' /\ db' = db
<1> DEFINE i == tx.input
           n == tx.done + 1
           d == tx.work
           e == WithRow(d, i.target, i.rows[n])
           target == i.target
<1>1. /\ tx # None /\ tx \in Import /\ i \in Input /\ d \in Tables /\ tx.done \in Nat
      /\ db' = db /\ db \in Tables
  BY DEF TypeOK, ImportRowStep, Importing, Import
<1>2. n \in 1..Len(i.rows) /\ target \in Target /\ 1..n = 1..tx.done \union {n}
  BY <1>1, Inputs DEF ImportRowStep, Importing
<1>3. RowFits(d, target, i.rows[n])
  BY DEF ImportRowStep, NextRow
<1>4. tx' = [tx EXCEPT !.work = e, !.done = n]
  BY DEF ImportRowStep, NextRow
<1>5. tx.input = i /\ e = WithRow(d, i.target, i.rows[n]) /\ n = tx.done + 1
      /\ target = i.target
  OBVIOUS
<1>6. Standing(db, i, d, tx.done)
  BY <1>1 DEF ImportStands
<1> HIDE DEF i, n, d, e
<1>7. /\ e \in Tables /\ Others(e) = Others(d) /\ e.entity_type = d.entity_type
      /\ \A t \in Target \ {target} : ContentOf(e, t) = ContentOf(d, t)
      /\ ContentOf(d, target)[KeyOf(i, n)] = None
      /\ ContentOf(e, target) = [ContentOf(d, target) EXCEPT ![KeyOf(i, n)] = RowOf(i, n)]
  <2>1. /\ d \in Tables /\ i \in Input /\ n \in 1..Len(i.rows)
        /\ RowFits(d, i.target, i.rows[n]) /\ e = WithRow(d, i.target, i.rows[n])
    BY <1>1, <1>2, <1>3, <1>5
  <2>2. /\ e \in Tables /\ Others(e) = Others(d) /\ e.entity_type = d.entity_type
        /\ \A t \in Target \ {i.target} : ContentOf(e, t) = ContentOf(d, t)
        /\ ContentOf(d, i.target)[KeyOf(i, n)] = None
        /\ ContentOf(e, i.target) = [ContentOf(d, i.target) EXCEPT ![KeyOf(i, n)] = RowOf(i, n)]
    BY <2>1, RowWritten
  <2> QED
    BY <2>2
<1>8. /\ KeyOf(i, n) \in KeySet(target) /\ RowOf(i, n) \in RowSet(target)
      /\ \A m \in 1..tx.done : KeyOf(i, m) \in KeySet(target) /\ KeyOf(i, m) # KeyOf(i, n)
                              /\ RowOf(i, m) # None
  <2>1. \A m \in 1..tx.done : m \in 1..Len(i.rows) /\ m # n
    BY <1>1, <1>2, <1>5, Inputs
  <2> QED
    BY <1>1, <1>2, <2>1, Inputs, RowsAreSomething
<1>9. /\ ContentOf(d, target) \in [KeySet(target) -> RowSet(target) \union {None}]
      /\ DOMAIN ContentOf(db, target) = KeySet(target)
  BY <1>1, <1>2, Contents DEF Table
<1> HIDE DEF target
<1>10. Standing(db, i, e, n)
  <2>1. \A m \in 1..n : /\ ContentOf(db, target)[KeyOf(i, m)] = None
                        /\ ContentOf(e, target)[KeyOf(i, m)] = RowOf(i, m)
    <3> TAKE m \in 1..n
    <3>1. CASE m = n
      <4>1. KeyOf(i, n) \notin {KeyOf(i, x) : x \in 1..tx.done}
        BY <1>8
      <4>2. ContentOf(db, target)[KeyOf(i, n)] = ContentOf(d, target)[KeyOf(i, n)]
        BY <1>8, <1>9, <1>6, <4>1 DEF Standing, target
      <4> QED
        BY <3>1, <4>2, <1>7, <1>8, <1>9
    <3>2. CASE m \in 1..tx.done
      <4>1. /\ ContentOf(db, target)[KeyOf(i, m)] = None
            /\ ContentOf(d, target)[KeyOf(i, m)] = RowOf(i, m)
        BY <3>2, <1>6 DEF Standing, target
      <4> QED
        BY <3>2, <4>1, <1>7, <1>8, <1>9
    <3> QED
      BY <3>1, <3>2, <1>2
  <2>2. \A k \in DOMAIN ContentOf(db, target) :
           \/ ContentOf(e, target)[k] = ContentOf(db, target)[k]
           \/ \E m \in 1..n : k = KeyOf(i, m)
    <3> TAKE k \in DOMAIN ContentOf(db, target)
    <3>1. CASE k = KeyOf(i, n)
      BY <3>1, <1>2
    <3>2. CASE k # KeyOf(i, n)
      <4>1. ContentOf(e, target)[k] = ContentOf(d, target)[k]
        BY <3>2, <1>7, <1>9
      <4>2. \/ ContentOf(d, target)[k] = ContentOf(db, target)[k]
            \/ \E m \in 1..tx.done : k = KeyOf(i, m)
        BY <1>6 DEF Standing, target
      <4> QED
        BY <4>1, <4>2, <1>2
    <3> QED
      BY <3>1, <3>2
  <2> QED
    BY <1>7, <1>6, <2>1, <2>2 DEF Standing, target
<1>11. tx'.input = i /\ tx'.work = e /\ tx'.done = n /\ tx' \in Import
  <2>1. tx \in [input : Input, work : Tables, done : Nat] /\ n \in Nat /\ e \in Tables
    BY <1>1, <1>5, <1>7 DEF Import
  <2> QED
    BY <1>4, <1>5, <2>1 DEF Import
<1>12. ImportStands'
  BY <1>1, <1>10, <1>11 DEF ImportStands
<1>13. TypeOK'
  BY <1>1, <1>2, <1>11 DEF TypeOK
<1> QED
  BY <1>1, <1>12, <1>13

(* What a commit brings: the rows of the batch, the type it declares and the  *)
(* batch itself, and nothing else.                                           *)
Committed(i) ==
    /\ db' \in Tables /\ Grows(db, db') /\ NewBatch(db, i)
    /\ db'.batch = [db.batch EXCEPT ![LedgerKey(i)] = i]
    /\ i.empty => TargetIsEmpty(db, i)
    /\ db'.relation_type = db.relation_type /\ db'.relation = db.relation
    /\ db'.knowledge_type = db.knowledge_type /\ db'.successor = db.successor
    /\ db'.asset_link = db.asset_link /\ db'.asset_source = db.asset_source
    /\ \A t \in Target \ {i.target} : ContentOf(db', t) = ContentOf(db, t)
    /\ db'.entity_type = IF i.target = "entity" THEN [db.entity_type EXCEPT ![i.type] = i.definition]
                         ELSE db.entity_type
    /\ i.target = "entity" => TypeMatches(db, i)
    /\ \A n \in 1..Len(i.rows) : /\ ContentOf(db, i.target)[KeyOf(i, n)] = None
                                 /\ ContentOf(db', i.target)[KeyOf(i, n)] = RowOf(i, n)
    /\ \A k \in KeySet(i.target) :
          \/ ContentOf(db', i.target)[k] = ContentOf(db, i.target)[k]
          \/ \E n \in 1..Len(i.rows) : k = KeyOf(i, n)

LEMMA TablesGrow ==
  ASSUME NEW d \in Tables, NEW e \in Tables,
         d.relation_type = e.relation_type, d.relation = e.relation,
         d.knowledge_type = e.knowledge_type, d.successor = e.successor,
         d.asset_link = e.asset_link, d.asset_source = e.asset_source,
         Kept(d.entity_type, e.entity_type),
         \A t \in Target : Kept(ContentOf(d, t), ContentOf(e, t))
  PROVE  Grows(d, e)
  BY DEF Grows, Kept, ContentOf, Target

LEMMA CommitsBatch ==
  ASSUME TypeOK, ImportStands, CommitImport
  PROVE  /\ tx.input \in Input /\ Committed(tx.input) /\ tx' = None
<1> DEFINE i == tx.input
           d == tx.work
<1>1. /\ tx # None /\ i \in Input /\ d \in Tables /\ tx.done = Len(i.rows) /\ db \in Tables
      /\ db' = [d EXCEPT !.batch[LedgerKey(i)] = i] /\ tx' = None
  BY DEF TypeOK, CommitImport, Import
<1>2. Standing(db, i, d, Len(i.rows))
  BY <1>1 DEF ImportStands
<1> HIDE DEF i, d
<1> DEFINE t == [d.batch EXCEPT ![LedgerKey(i)] = i]
<1>3. LedgerKey(i) \in Ledger \X BatchId /\ i.target \in Target
      /\ (i.target = "entity" => i.type \in EntityType)
  BY <1>1, Inputs
<1>4. t \in Table(Ledger \X BatchId, Input)
  BY <1>1, <1>3, TablesOf DEF Table
<1>5. db' = [d EXCEPT !.batch = t]
  BY <1>1
<1> HIDE DEF t
<1>6. /\ db' \in Tables /\ db'.batch = t /\ db'.entity_type = d.entity_type
      /\ db'.relation_type = d.relation_type /\ db'.relation = d.relation
      /\ db'.knowledge_type = d.knowledge_type /\ db'.successor = d.successor
      /\ db'.asset_link = d.asset_link /\ db'.asset_source = d.asset_source
      /\ \A x \in Target : ContentOf(db', x) = ContentOf(d, x)
  <2>1. [d EXCEPT !.batch = t] \in Tables
    BY <1>1, <1>4, BatchReplaced
  <2> QED
    BY <1>1, <1>5, <2>1 DEF Tables, ContentOf, Target
<1>7. /\ d.relation_type = db.relation_type /\ d.relation = db.relation
      /\ d.knowledge_type = db.knowledge_type /\ d.successor = db.successor
      /\ d.asset_link = db.asset_link /\ d.asset_source = db.asset_source /\ d.batch = db.batch
  BY <1>2 DEF Standing, Others
<1>8. d.entity_type = IF i.target = "entity" THEN [db.entity_type EXCEPT ![i.type] = i.definition]
                      ELSE db.entity_type
  BY <1>1, <1>2, TypeDeclared DEF Standing
<1>9. \A k \in KeySet(i.target) :
         \/ ContentOf(d, i.target)[k] = ContentOf(db, i.target)[k]
         \/ \E n \in 1..Len(i.rows) : k = KeyOf(i, n)
  <2>1. DOMAIN ContentOf(db, i.target) = KeySet(i.target)
    BY <1>1, <1>3, Contents DEF Table
  <2> QED
    BY <1>2, <2>1 DEF Standing
<1>10. Grows(db, db')
  <2>1. Kept(db.entity_type, d.entity_type)
    <3>1. CASE i.target = "entity"
      BY <1>1, <1>2, <3>1, TypeDeclared DEF Standing, Grows
    <3>2. CASE i.target # "entity"
      BY <1>8, <3>2 DEF Kept
    <3> QED
      BY <3>1, <3>2
  <2>2. \A x \in Target : Kept(ContentOf(db, x), ContentOf(d, x))
    <3> TAKE x \in Target
    <3>1. CASE x = i.target
      <4>1. DOMAIN ContentOf(db, x) = KeySet(x)
        BY <1>1, <3>1, Contents DEF Table
      <4> QED
        BY <1>2, <1>9, <3>1, <4>1 DEF Standing, Kept
    <3>2. CASE x # i.target
      BY <1>2, <3>2 DEF Standing, Kept
    <3> QED
      BY <3>1, <3>2
  <2>3. /\ Kept(db.entity_type, db'.entity_type)
        /\ \A x \in Target : Kept(ContentOf(db, x), ContentOf(db', x))
    BY <1>6, <2>1, <2>2
  <2> QED
    BY <1>1, <1>6, <1>7, <2>3, TablesGrow
<1>11. db'.batch = [db.batch EXCEPT ![LedgerKey(i)] = i]
  BY <1>6, <1>7 DEF t
<1>12. /\ NewBatch(db, i) /\ (i.empty => TargetIsEmpty(db, i))
       /\ i.target = "entity" => TypeMatches(db, i)
       /\ \A x \in Target \ {i.target} : ContentOf(d, x) = ContentOf(db, x)
       /\ \A n \in 1..Len(i.rows) : /\ ContentOf(db, i.target)[KeyOf(i, n)] = None
                                    /\ ContentOf(d, i.target)[KeyOf(i, n)] = RowOf(i, n)
  BY <1>2 DEF Standing
<1>13. Committed(i)
  BY <1>3, <1>6, <1>7, <1>8, <1>9, <1>10, <1>11, <1>12 DEF Committed
<1> QED
  BY <1>1, <1>13 DEF i

-----------------------------------------------------------------------------
(* The invariant *)

IInv == /\ TypeOK /\ ImportStands /\ BatchesKeyed
        /\ RelationsRespectTypes /\ SuccessionsEnd
        /\ ReplayAnswers /\ EmptyTargetsAreTakenOnce

LEMMA InitIInv == Init => IInv
<1> SUFFICES ASSUME Init PROVE IInv
  OBVIOUS
<1>1. db \in Tables /\ tx = None
  BY DEF Init, Tables, Table, NoRow
<1>2. /\ \A r \in Relation : db.relation[r] = None
      /\ \A k \in Knowledge : db.successor[k] = None
      /\ \A key \in Ledger \X BatchId : db.batch[key] = None
  BY DEF Init, NoRow
<1>3. Batches = {}
  BY <1>2 DEF Batches
<1>4. SuccessionsEnd
  BY <1>2, NoneIsNoRow DEF SuccessionsEnd
<1> QED
  BY <1>1, <1>2, <1>3, <1>4 DEF IInv, TypeOK, ImportStands, BatchesKeyed, RelationsRespectTypes,
     ReplayAnswers, EmptyTargetsAreTakenOnce

LEMMA RelationsStay ==
  ASSUME db \in Tables, RelationsRespectTypes, db' \in Tables, Grows(db, db'),
         db'.relation = db.relation
  PROVE  RelationsRespectTypes'
<1> SUFFICES ASSUME NEW r \in Relation, db.relation[r] # None
             PROVE  LET row == db.relation[r]
                        type == db'.relation_type[row.type]
                    IN /\ type # None
                       /\ db'.entity[row.from] # None /\ db'.entity[row.to] # None
                       /\ type.from # {} => db'.entity[row.from] \in type.from
                       /\ type.to # {} => db'.entity[row.to] \in type.to
  BY DEF RelationsRespectTypes
<1> DEFINE row == db.relation[r]
<1>1. row \in RelationRow
  BY TablesOf DEF Table
<1>2. row.type \in RelationType /\ row.from \in Entity /\ row.to \in Entity
  BY <1>1 DEF RelationRow
<1>3. /\ db.relation_type[row.type] # None /\ db.entity[row.from] # None /\ db.entity[row.to] # None
      /\ db.relation_type[row.type].from # {} =>
            db.entity[row.from] \in db.relation_type[row.type].from
      /\ db.relation_type[row.type].to # {} =>
            db.entity[row.to] \in db.relation_type[row.type].to
  BY DEF RelationsRespectTypes
<1>4. /\ db'.relation_type[row.type] = db.relation_type[row.type]
      /\ db'.entity[row.from] = db.entity[row.from] /\ db'.entity[row.to] = db.entity[row.to]
  BY <1>2, <1>3, TablesOf DEF Grows, Kept, Table
<1> QED
  BY <1>3, <1>4

LEMMA NewRelationFits ==
  ASSUME db \in Tables, RelationsRespectTypes, NEW r \in Relation, NEW row \in RelationRow,
         CreateRelation(r, row)
  PROVE  RelationsRespectTypes'
<1>1. /\ db' = [db EXCEPT !.relation[r] = row] /\ EndpointsFit(db, row)
  BY DEF CreateRelation, RelationFits, Write
<1>2. /\ db'.relation_type = db.relation_type /\ db'.entity = db.entity
      /\ \A q \in Relation : db'.relation[q] = IF q = r THEN row ELSE db.relation[q]
  BY <1>1, TablesOf DEF Tables, Table
<1> QED
  BY <1>1, <1>2 DEF RelationsRespectTypes, EndpointsFit, Allows

LEMMA SupersessionEnds ==
  ASSUME db \in Tables, SuccessionsEnd, NEW k \in Knowledge, NEW by \in Knowledge, Supersede(k, by)
  PROVE  SuccessionsEnd'
<1>1. db' = [db EXCEPT !.successor[k] = by] /\ SupersessionFits(db, k, by)
  BY DEF Supersede, Write
<1>2. db.successor \in [Knowledge -> Knowledge \union {None}]
  BY TablesOf DEF Table
<1>3. \A x \in Knowledge : db'.successor[x] = IF x = k THEN by ELSE db.successor[x]
  BY <1>1, <1>2 DEF Tables
<1>4. \A x, y \in Knowledge :
         db'.successor[x] # None /\ db'.successor[x] = db'.successor[y] => x = y
  BY <1>1, <1>3 DEF SuccessionsEnd, SupersessionFits
<1>5. ASSUME NEW S \in SUBSET Knowledge, S # {} PROVE \E x \in S : db'.successor[x] \notin S
  <2> SUFFICES ASSUME \A x \in S : db'.successor[x] \in S PROVE FALSE
    OBVIOUS
  <2>1. CASE k \notin S
    BY <1>3, <1>5, <2>1 DEF SuccessionsEnd
  <2>2. CASE k \in S
    <3>1. PICK T \in SUBSET Knowledge :
             /\ db.successor[by] # None => db.successor[by] \in T
             /\ \A x \in T : db.successor[x] # None => db.successor[x] \in T
             /\ k \notin T
      BY <1>1 DEF SupersessionFits, Follows
    <3> DEFINE U == S \intersect (T \union {by})
    <3>2. by \in U /\ U \in SUBSET Knowledge
      BY <1>3, <2>2
    <3>3. \A x \in U : db.successor[x] \in U
      <4> TAKE x \in U
      <4>1. x # k
        BY <1>1, <3>1 DEF SupersessionFits
      <4>2. db.successor[x] \in S
        BY <1>3, <4>1
      <4>3. db.successor[x] # None
        BY <4>2, NoneIsNoRow
      <4>4. db.successor[x] \in T
        BY <3>1, <4>3
      <4> QED
        BY <4>2, <4>4
    <3> QED
      BY <3>2, <3>3 DEF SuccessionsEnd
  <2> QED
    BY <2>1, <2>2
<1> QED
  BY <1>4, <1>5 DEF SuccessionsEnd

LEMMA Writers ==
  ASSUME db \in Tables, ServiceCall
  PROVE  /\ db'.relation = db.relation \/ \E r \in Relation, row \in RelationRow : CreateRelation(r, row)
         /\ db'.successor = db.successor \/ \E k, by \in Knowledge : Supersede(k, by)
<1> USE DEF Write, Tables
<1>1. CASE \E type \in EntityType, definition \in Definition :
              \/ RegisterEntityType(type, definition)
              \/ \E E \in SUBSET Entity : RegisterTypeAndCreateBatch(type, definition, E)
  BY <1>1 DEF RegisterEntityType, RegisterTypeAndCreateBatch, WithEntities
<1>2. CASE \E type \in EntityType :
              \/ \E e \in Entity : CreateEntity(e, type)
              \/ \E E \in SUBSET Entity : CreateBatchForRegisteredType(type, E)
  BY <1>2 DEF CreateEntity, CreateBatchForRegisteredType, WithEntities
<1>3. CASE \E r \in RelationType, row \in RelationTypeRow : RegisterRelationType(r, row)
  BY <1>3 DEF RegisterRelationType
<1>4. CASE \E r \in Relation, row \in RelationRow : CreateRelation(r, row)
  BY <1>4 DEF CreateRelation
<1>5. CASE \E s \in Symbol, row \in SymbolRow : CreateSymbol(s, row)
  BY <1>5 DEF CreateSymbol
<1>6. CASE \E w \in WorkItem, row \in WorkItemRow : CreateWorkItem(w, row)
  BY <1>6 DEF CreateWorkItem
<1>7. CASE \/ \E type \in KnowledgeType : RegisterKnowledgeType(type)
           \/ \E k \in Knowledge, row \in KnowledgeRow : AppendKnowledge(k, row)
  BY <1>7 DEF RegisterKnowledgeType, AppendKnowledge
<1>8. CASE \E k, by \in Knowledge : Supersede(k, by)
  BY <1>8 DEF Supersede
<1>9. CASE \/ \E s \in Source, row \in SourceRow : AttachSource(s, row)
           \/ \E k \in Knowledge, asset \in Asset : LinkAsset(k, asset)
           \/ \E s \in AssetSource, row \in AssetSourceRow : AttachAssetSource(s, row)
  BY <1>9 DEF AttachSource, LinkAsset, AttachAssetSource
<1> QED
  BY <1>1, <1>2, <1>3, <1>4, <1>5, <1>6, <1>7, <1>8, <1>9 DEF ServiceCall

(* A committed batch, and what it brought, is there for ever. *)
LEMMA BatchIsInput ==
  ASSUME db \in Tables, NEW i \in Batches
  PROVE  i \in Input
  BY TablesOf DEF Batches, Table

LEMMA ContentsKept ==
  ASSUME NEW d, NEW e, Grows(d, e), NEW target \in Target
  PROVE  Kept(ContentOf(d, target), ContentOf(e, target))
  BY DEF Grows, ContentOf, Target

Replayed(d, i) ==
    /\ \A n \in DOMAIN i.rows : ContentOf(d, i.target)[i.rows[n].key] = i.rows[n].row
    /\ i.target = "entity" => d.entity_type[i.type] = i.definition

LEMMA ReplayKept ==
  ASSUME db \in Tables, db' \in Tables, Grows(db, db'), NEW i \in Input, Replayed(db, i)
  PROVE  Replayed(db', i)
<1>1. i.target \in Target /\ DOMAIN i.rows = 1..Len(i.rows)
      /\ (i.target = "entity" => i.type \in EntityType /\ i.definition # None)
  BY Inputs, NoneIsNoRow
<1>2. Kept(ContentOf(db, i.target), ContentOf(db', i.target))
      /\ DOMAIN ContentOf(db, i.target) = KeySet(i.target)
  BY <1>1, ContentsKept, Contents DEF Table
<1>3. \A n \in DOMAIN i.rows : i.rows[n].key \in KeySet(i.target) /\ i.rows[n].row # None
  BY <1>1, Inputs, RowsAreSomething DEF KeyOf, RowOf
<1>4. i.target = "entity" => db'.entity_type[i.type] = i.definition
  BY <1>1, TablesOf DEF Replayed, Grows, Kept, Table
<1> QED
  BY <1>2, <1>3, <1>4 DEF Replayed, Kept

LEMMA BatchAppears ==
  ASSUME db \in Tables, NEW i \in Input, Committed(i)
  PROVE  /\ Batches' = Batches \union {i} /\ (BatchesKeyed => BatchesKeyed' /\ i \notin Batches)
         /\ Replayed(db', i)
<1>1. LedgerKey(i) \in Ledger \X BatchId
  BY Inputs
<1>2. db.batch[LedgerKey(i)] = None /\ i # None
  BY NoneIsNoRow DEF Committed, NewBatch
<1>3. \A key \in Ledger \X BatchId :
         db'.batch[key] = IF key = LedgerKey(i) THEN i ELSE db.batch[key]
  BY TablesOf DEF Committed, Table
<1>4. Batches' = Batches \union {i}
  BY <1>1, <1>2, <1>3 DEF Batches
<1>5. BatchesKeyed => BatchesKeyed' /\ i \notin Batches
  BY <1>1, <1>2, <1>3 DEF BatchesKeyed, Batches
<1>6. DOMAIN i.rows = 1..Len(i.rows)
  BY Inputs
<1>7. i.target = "entity" => db'.entity_type[i.type] = i.definition
  BY Inputs, TablesOf DEF Committed, Table
<1> QED
  BY <1>4, <1>5, <1>6, <1>7 DEF Committed, Replayed, KeyOf, RowOf

(* An import that asked for an empty target did not find a batch there. *)
LEMMA EmptyTargetHasNoBatch ==
  ASSUME NEW d \in Tables, NEW i \in Input, TargetIsEmpty(d, i),
         NEW j \in Input, j.target = i.target, Replayed(d, j)
  PROVE  FALSE
<1>1. /\ j.target \in Target /\ DOMAIN j.rows = 1..Len(j.rows) /\ 1 \in 1..Len(j.rows)
      /\ KeyOf(j, 1) \in KeySet(j.target) /\ RowOf(j, 1) \in RowSet(j.target)
  BY Inputs
<1>2. ContentOf(d, j.target)[KeyOf(j, 1)] = RowOf(j, 1)
  BY <1>1 DEF Replayed, KeyOf, RowOf
<1>3. RowOf(j, 1) # None
  BY <1>1, RowsAreSomething
<1>4. ContentOf(d, i.target) = NoRow(KeySet(i.target))
  BY <1>1 DEF TargetIsEmpty, ContentOf, KeySet, Target
<1> QED
  BY <1>1, <1>2, <1>3, <1>4 DEF NoRow

LEMMA ReplayAnswersEach == ReplayAnswers <=> \A i \in Batches : Replayed(db, i)
  BY DEF ReplayAnswers, Replayed

LEMMA CommitKeepsIInv ==
  ASSUME IInv, NEW i \in Input, Committed(i), tx' = None
  PROVE  IInv'
<1>1. db \in Tables /\ db' \in Tables /\ Grows(db, db')
  BY DEF IInv, TypeOK, Committed
<1>2. /\ Batches' = Batches \union {i} /\ BatchesKeyed' /\ i \notin Batches /\ Replayed(db', i)
  BY <1>1, BatchAppears DEF IInv
<1>3. \A j \in Batches : j \in Input /\ Replayed(db, j)
  BY <1>1, BatchIsInput, ReplayAnswersEach DEF IInv
<1>4. \A j \in Batches : Replayed(db', j)
  BY <1>1, <1>3, ReplayKept
<1>5. ReplayAnswers'
  BY <1>2, <1>4 DEF ReplayAnswers, Replayed
<1>6. EmptyTargetsAreTakenOnce'
  <2> SUFFICES ASSUME NEW j \in Batches', NEW k \in Batches',
                      j.empty, k.empty, j.target = k.target, j # k
               PROVE  FALSE
    BY DEF EmptyTargetsAreTakenOnce
  <2>1. CASE j \in Batches /\ k \in Batches
    BY <2>1 DEF IInv, EmptyTargetsAreTakenOnce
  <2>2. CASE j = i /\ k \in Batches
    BY <1>1, <1>3, <2>2, EmptyTargetHasNoBatch DEF Committed
  <2>3. CASE k = i /\ j \in Batches
    BY <1>1, <1>3, <2>3, EmptyTargetHasNoBatch DEF Committed
  <2> QED
    BY <1>2, <2>1, <2>2, <2>3
<1>7. RelationsRespectTypes'
  BY <1>1, RelationsStay DEF IInv, Committed
<1>8. SuccessionsEnd'
  BY DEF IInv, Committed, SuccessionsEnd
<1> QED
  BY <1>1, <1>2, <1>5, <1>6, <1>7, <1>8 DEF IInv, TypeOK, ImportStands

LEMMA CallKeepsIInv ==
  ASSUME IInv, ServiceCall
  PROVE  IInv'
<1>1. db \in Tables /\ db' \in Tables /\ Grows(db, db') /\ db'.batch = db.batch /\ tx' = None
  BY ServicesAdd DEF IInv, TypeOK, Adds
<1>2. Batches' = Batches
  BY <1>1 DEF Batches
<1>3. BatchesKeyed'
  BY <1>1 DEF IInv, BatchesKeyed
<1>4. \A j \in Batches : Replayed(db', j)
  BY <1>1, BatchIsInput, ReplayAnswersEach, ReplayKept DEF IInv
<1>5. ReplayAnswers'
  BY <1>2, <1>4 DEF ReplayAnswers, Replayed
<1>6. EmptyTargetsAreTakenOnce'
  BY <1>2 DEF IInv, EmptyTargetsAreTakenOnce
<1>7. RelationsRespectTypes'
  <2>1. CASE db'.relation = db.relation
    BY <1>1, <2>1, RelationsStay DEF IInv
  <2>2. CASE \E r \in Relation, row \in RelationRow : CreateRelation(r, row)
    BY <1>1, <2>2, NewRelationFits DEF IInv
  <2> QED
    BY <1>1, <2>1, <2>2, Writers
<1>8. SuccessionsEnd'
  <2>1. CASE db'.successor = db.successor
    BY <2>1 DEF IInv, SuccessionsEnd
  <2>2. CASE \E k, by \in Knowledge : Supersede(k, by)
    BY <1>1, <2>2, SupersessionEnds DEF IInv
  <2> QED
    BY <1>1, <2>1, <2>2, Writers
<1> QED
  BY <1>1, <1>3, <1>5, <1>6, <1>7, <1>8 DEF IInv, TypeOK, ImportStands

(* What is on record stays as it is while an import goes on. *)
LEMMA SameStore ==
  ASSUME IInv, db' = db, TypeOK', ImportStands'
  PROVE  IInv'
<1>1. Batches' = Batches /\ BatchesKeyed'
  BY DEF IInv, Batches, BatchesKeyed
<1>2. ReplayAnswers' /\ EmptyTargetsAreTakenOnce'
  BY <1>1 DEF IInv, ReplayAnswers, EmptyTargetsAreTakenOnce
<1>3. RelationsRespectTypes' /\ SuccessionsEnd'
  BY DEF IInv, RelationsRespectTypes, SuccessionsEnd
<1> QED
  BY <1>1, <1>2, <1>3 DEF IInv

LEMMA NextIInv ==
  ASSUME IInv, [Next]_vars
  PROVE  IInv'
<1>1. TypeOK /\ ImportStands
  BY DEF IInv
<1>2. CASE ServiceCall
  BY <1>2, CallKeepsIInv
<1>3. CASE Beginning
  BY <1>1, <1>3, BeginningStands, SameStore
<1>4. CASE ImportRowStep
  BY <1>1, <1>4, RowStands, SameStore
<1>5. CASE CommitImport
  BY <1>1, <1>5, CommitsBatch, CommitKeepsIInv
<1>6. CASE RollBack \/ Crash
  <2>1. db' = db /\ tx' = None
    BY <1>6 DEF RollBack, Crash
  <2>2. TypeOK' /\ ImportStands'
    BY <1>1, <2>1 DEF TypeOK, ImportStands
  <2> QED
    BY <2>1, <2>2, SameStore
<1>7. CASE UNCHANGED vars
  <2>1. db' = db /\ tx' = tx
    BY <1>7 DEF vars
  <2>2. TypeOK'
    BY <1>1, <2>1 DEF TypeOK
  <2>3. ImportStands'
    BY <1>1, <2>1 DEF ImportStands
  <2> QED
    BY <2>1, <2>2, <2>3, SameStore
<1> QED
  BY <1>2, <1>3, <1>4, <1>5, <1>6, <1>7 DEF Next, ImportStep, Beginning

THEOREM InductiveInvariant == Spec => []IInv
<1>1. Init => IInv
  BY InitIInv
<1>2. IInv /\ [Next]_vars => IInv'
  BY NextIInv
<1> QED
  BY <1>1, <1>2, PTL DEF Spec

-----------------------------------------------------------------------------
(* Theorems *)

(* Tables keep their shapes, and an import has inserted no more rows than its *)
(* batch has: what import_batches and the services it calls write.            *)
THEOREM TypeCorrect == Spec => []TypeOK
  BY InductiveInvariant, PTL DEF IInv

(* Every relation joins entities its type allows: the check of                *)
(* create_relation stands however types, entities and batches come later.     *)
THEOREM RelationsStayTyped == Spec => []RelationsRespectTypes
  BY InductiveInvariant, PTL DEF IInv

(* The successions of knowledge never fork, join or close: _would_create_cycle *)
(* is enough, in whatever order knowledge is superseded.                       *)
THEOREM SuccessionsAreLines == Spec => []SuccessionsEnd
  BY InductiveInvariant, PTL DEF IInv

(* The rows of a committed batch stay as it brought them, so that its replay   *)
(* is answered from the ledger.                                                *)
THEOREM BatchesReplay == Spec => []ReplayAnswers
  BY InductiveInvariant, PTL DEF IInv

(* Two batches never both get the empty target they asked for.                 *)
THEOREM EmptyTargetsGoOnce == Spec => []EmptyTargetsAreTakenOnce
  BY InductiveInvariant, PTL DEF IInv

-----------------------------------------------------------------------------
(* The store is append-only *)

VisibleOf(d) ==
    Rows("entity_type", d.entity_type) \union Rows("entity", d.entity)
    \union Rows("relation_type", d.relation_type) \union Rows("relation", d.relation)
    \union Rows("symbol", d.symbol) \union Rows("work_item", d.work_item)
    \union Rows("knowledge", d.knowledge) \union Rows("successor", d.successor)
    \union Rows("knowledge_source", d.knowledge_source)
    \union Rows("asset_source", d.asset_source)
    \union {<<"knowledge_type", type, None>> : type \in d.knowledge_type}
    \union {<<"asset_link", link, None>> : link \in d.asset_link}

(* The content a row can only have: that of its cell. *)
CellOf(d, name, k) ==
    CASE name = "entity_type" -> d.entity_type[k] [] name = "entity" -> d.entity[k]
      [] name = "relation_type" -> d.relation_type[k] [] name = "relation" -> d.relation[k]
      [] name = "symbol" -> d.symbol[k] [] name = "work_item" -> d.work_item[k]
      [] name = "knowledge" -> d.knowledge[k] [] name = "successor" -> d.successor[k]
      [] name = "knowledge_source" -> d.knowledge_source[k]
      [] name = "asset_source" -> d.asset_source[k]
      [] OTHER -> None

LEMMA RowsAreCells ==
  ASSUME NEW name, NEW t, NEW x \in Rows(name, t)
  PROVE  x[1] = name /\ x = <<x[1], x[2], t[x[2]]>> /\ t[x[2]] # None /\ x[3] = t[x[2]]
  BY DEF Rows

LEMMA VisibleCells ==
  ASSUME NEW d, NEW x \in VisibleOf(d)
  PROVE  x = <<x[1], x[2], CellOf(d, x[1], x[2])>>
<1>1. CASE x \in Rows("entity_type", d.entity_type)
  BY <1>1, RowsAreCells DEF CellOf
<1>2. CASE x \in Rows("entity", d.entity)
  BY <1>2, RowsAreCells DEF CellOf
<1>3. CASE x \in Rows("relation_type", d.relation_type)
  BY <1>3, RowsAreCells DEF CellOf
<1>4. CASE x \in Rows("relation", d.relation)
  BY <1>4, RowsAreCells DEF CellOf
<1>5. CASE x \in Rows("symbol", d.symbol)
  BY <1>5, RowsAreCells DEF CellOf
<1>6. CASE x \in Rows("work_item", d.work_item)
  BY <1>6, RowsAreCells DEF CellOf
<1>7. CASE x \in Rows("knowledge", d.knowledge)
  BY <1>7, RowsAreCells DEF CellOf
<1>8. CASE x \in Rows("successor", d.successor)
  BY <1>8, RowsAreCells DEF CellOf
<1>9. CASE x \in Rows("knowledge_source", d.knowledge_source)
  BY <1>9, RowsAreCells DEF CellOf
<1>10. CASE x \in Rows("asset_source", d.asset_source)
  BY <1>10, RowsAreCells DEF CellOf
<1>11. CASE x \in {<<"knowledge_type", type, None>> : type \in d.knowledge_type}
  BY <1>11 DEF CellOf
<1>12. CASE x \in {<<"asset_link", link, None>> : link \in d.asset_link}
  BY <1>12 DEF CellOf
<1> QED
  BY <1>1, <1>2, <1>3, <1>4, <1>5, <1>6, <1>7, <1>8, <1>9, <1>10, <1>11, <1>12 DEF VisibleOf

LEMMA KeysUsedOnce == ASSUME NEW d PROVE Store!KeysAreUnique(VisibleOf(d))
  BY VisibleCells DEF Store!KeysAreUnique

LEMMA RowsGrow ==
  ASSUME NEW Key, NEW Row, NEW t \in Table(Key, Row), NEW u \in Table(Key, Row), Kept(t, u), NEW name
  PROVE  Rows(name, t) \subseteq Rows(name, u)
  BY DEF Table, Kept, Rows

LEMMA VisibleGrows ==
  ASSUME NEW d \in Tables, NEW e \in Tables, Grows(d, e)
  PROVE  VisibleOf(d) \subseteq VisibleOf(e)
<1>1. /\ Rows("entity_type", d.entity_type) \subseteq Rows("entity_type", e.entity_type)
      /\ Rows("entity", d.entity) \subseteq Rows("entity", e.entity)
      /\ Rows("relation_type", d.relation_type) \subseteq Rows("relation_type", e.relation_type)
      /\ Rows("relation", d.relation) \subseteq Rows("relation", e.relation)
      /\ Rows("symbol", d.symbol) \subseteq Rows("symbol", e.symbol)
  BY TablesOf, RowsGrow DEF Grows
<1>2. /\ Rows("work_item", d.work_item) \subseteq Rows("work_item", e.work_item)
      /\ Rows("knowledge", d.knowledge) \subseteq Rows("knowledge", e.knowledge)
      /\ Rows("successor", d.successor) \subseteq Rows("successor", e.successor)
      /\ Rows("knowledge_source", d.knowledge_source)
            \subseteq Rows("knowledge_source", e.knowledge_source)
      /\ Rows("asset_source", d.asset_source) \subseteq Rows("asset_source", e.asset_source)
  BY TablesOf, RowsGrow DEF Grows
<1>3. d.knowledge_type \subseteq e.knowledge_type /\ d.asset_link \subseteq e.asset_link
  BY DEF Grows
<1> QED
  BY <1>1, <1>2, <1>3 DEF VisibleOf

(* What an import can write, apart from the rest. *)
TargetRows(d) == UNION {Rows(t, ContentOf(d, t)) : t \in Target}
OtherRows(d) ==
    Rows("relation_type", d.relation_type) \union Rows("relation", d.relation)
    \union Rows("successor", d.successor) \union Rows("asset_source", d.asset_source)
    \union {<<"knowledge_type", type, None>> : type \in d.knowledge_type}
    \union {<<"asset_link", link, None>> : link \in d.asset_link}

LEMMA VisibleParts ==
  ASSUME NEW d
  PROVE  VisibleOf(d) = Rows("entity_type", d.entity_type) \union TargetRows(d) \union OtherRows(d)
<1>1. TargetRows(d) = Rows("entity", d.entity) \union Rows("symbol", d.symbol)
                      \union Rows("work_item", d.work_item) \union Rows("knowledge", d.knowledge)
                      \union Rows("knowledge_source", d.knowledge_source)
  BY DEF TargetRows, ContentOf, Target
<1> QED
  BY <1>1 DEF VisibleOf, OtherRows

LEMMA TargetFilled ==
  ASSUME db \in Tables, NEW i \in Input, Committed(i)
  PROVE  Rows(i.target, ContentOf(db', i.target)) =
            Rows(i.target, ContentOf(db, i.target)) \union VisibleBatch(i).rows
<1> DEFINE t == ContentOf(db, i.target)
           u == ContentOf(db', i.target)
           B == {<<i.target, i.rows[n].key, i.rows[n].row>> : n \in DOMAIN i.rows}
<1>1. i.target \in Target /\ DOMAIN i.rows = 1..Len(i.rows)
  BY Inputs
<1>2. DOMAIN t = KeySet(i.target) /\ DOMAIN u = KeySet(i.target)
  BY <1>1, Contents DEF Committed, Table
<1>3. \A n \in DOMAIN i.rows :
         /\ i.rows[n].key \in KeySet(i.target) /\ i.rows[n].row # None
         /\ t[i.rows[n].key] = None /\ u[i.rows[n].key] = i.rows[n].row
  BY <1>1, Inputs, RowsAreSomething DEF Committed, KeyOf, RowOf
<1>4. \A k \in KeySet(i.target) :
         u[k] = t[k] \/ \E n \in DOMAIN i.rows : k = i.rows[n].key
  BY <1>1 DEF Committed, KeyOf
<1>5. VisibleBatch(i).rows = B
  BY DEF VisibleBatch
<1> HIDE DEF t, u
<1>6. Rows(i.target, u) = Rows(i.target, t) \union B
  <2>1. ASSUME NEW k \in KeySet(i.target), u[k] # None
        PROVE  <<i.target, k, u[k]>> \in Rows(i.target, t) \union B
    <3>1. CASE u[k] = t[k]
      BY <1>2, <2>1, <3>1 DEF Rows
    <3>2. CASE \E n \in DOMAIN i.rows : k = i.rows[n].key
      BY <1>3, <3>2
    <3> QED
      BY <1>4, <3>1, <3>2
  <2>2. ASSUME NEW k \in KeySet(i.target), t[k] # None
        PROVE  <<i.target, k, t[k]>> \in Rows(i.target, u)
    <3>1. u[k] = t[k]
      BY <1>3, <1>4, <2>2
    <3> QED
      BY <1>2, <2>2, <3>1 DEF Rows
  <2>3. ASSUME NEW n \in DOMAIN i.rows
        PROVE  <<i.target, i.rows[n].key, i.rows[n].row>> \in Rows(i.target, u)
    BY <1>2, <1>3 DEF Rows
  <2> QED
    BY <1>2, <2>1, <2>2, <2>3 DEF Rows
<1> QED
  BY <1>5, <1>6 DEF t, u

LEMMA TypeFilled ==
  ASSUME db \in Tables, NEW i \in Input, Committed(i)
  PROVE  Rows("entity_type", db'.entity_type) =
            Rows("entity_type", db.entity_type) \union VisibleBatch(i).declares
<1>1. CASE i.target = "entity"
  <2>1. i.type \in EntityType /\ i.definition # None
    BY <1>1, Inputs, NoneIsNoRow
  <2>2. /\ db.entity_type \in [EntityType -> Definition \union {None}]
        /\ db'.entity_type = [db.entity_type EXCEPT ![i.type] = i.definition]
        /\ db.entity_type[i.type] \in {None, i.definition}
    BY <1>1, TablesOf DEF Committed, TypeMatches, Table
  <2>3. VisibleBatch(i).declares = {<<"entity_type", i.type, i.definition>>}
    BY <1>1 DEF VisibleBatch
  <2> QED
    BY <2>1, <2>2, <2>3 DEF Rows
<1>2. CASE i.target # "entity"
  <2>1. VisibleBatch(i).declares = {} /\ db'.entity_type = db.entity_type
    BY <1>2 DEF VisibleBatch, Committed
  <2> QED
    BY <2>1
<1> QED
  BY <1>1, <1>2

LEMMA BatchIsSeen ==
  ASSUME db \in Tables, NEW i \in Input, Committed(i)
  PROVE  /\ VisibleOf(db') = VisibleOf(db) \union VisibleBatch(i).rows \union VisibleBatch(i).declares
         /\ VisibleBatch(i).rows \intersect VisibleOf(db) = {}
<1>1. i.target \in Target
  BY Inputs
<1>2. TargetRows(db') = TargetRows(db) \union VisibleBatch(i).rows
  <2>1. \A t \in Target \ {i.target} : ContentOf(db', t) = ContentOf(db, t)
    BY DEF Committed
  <2>2. Rows(i.target, ContentOf(db', i.target)) =
           Rows(i.target, ContentOf(db, i.target)) \union VisibleBatch(i).rows
    BY TargetFilled
  <2> QED
    BY <1>1, <2>1, <2>2 DEF TargetRows
<1>3. OtherRows(db') = OtherRows(db)
  BY DEF Committed, OtherRows
<1>4. VisibleOf(db') = VisibleOf(db) \union VisibleBatch(i).rows \union VisibleBatch(i).declares
  BY <1>2, <1>3, VisibleParts, TypeFilled
<1>5. ASSUME NEW x \in VisibleBatch(i).rows, x \in VisibleOf(db) PROVE FALSE
  <2>1. PICK n \in DOMAIN i.rows : x = <<i.target, i.rows[n].key, i.rows[n].row>>
    BY DEF VisibleBatch
  <2>2. ContentOf(db, i.target)[i.rows[n].key] = None /\ i.rows[n].row # None
    BY <1>1, Inputs, RowsAreSomething DEF Committed, KeyOf, RowOf
  <2>3. CellOf(db, x[1], x[2]) = x[3]
    BY <1>5, VisibleCells
  <2>4. CellOf(db, i.target, i.rows[n].key) = ContentOf(db, i.target)[i.rows[n].key]
    BY <1>1 DEF CellOf, ContentOf, Target
  <2> QED
    BY <2>1, <2>2, <2>3, <2>4
<1> QED
  BY <1>4, <1>5

SeenBatches == {VisibleBatch(i) : i \in Batches}

LEMMA StepImplements ==
  ASSUME IInv, [Next]_vars
  PROVE  [Store!StoreNext]_<<Visible, SeenBatches>>
<1>1. Visible = VisibleOf(db) /\ Visible' = VisibleOf(db')
  BY DEF Visible, VisibleOf
<1>2. TypeOK /\ ImportStands /\ BatchesKeyed /\ db \in Tables
  BY DEF IInv, TypeOK
<1>3. CASE db' = db
  <2>1. Batches' = Batches
    BY <1>3 DEF Batches
  <2>2. SeenBatches' = SeenBatches
    BY <2>1 DEF SeenBatches
  <2> QED
    BY <1>1, <1>3, <2>2
<1>4. CASE ServiceCall
  <2>1. db' \in Tables /\ Grows(db, db') /\ db'.batch = db.batch
    BY <1>2, <1>4, ServicesAdd DEF Adds
  <2>2. SeenBatches' = SeenBatches
    <3>1. Batches' = Batches
      BY <2>1 DEF Batches
    <3> QED
      BY <3>1 DEF SeenBatches
  <2>3. Visible \subseteq Visible'
    BY <1>1, <1>2, <2>1, VisibleGrows
  <2>4. Store!KeysAreUnique(Visible')
    BY <1>1, KeysUsedOnce
  <2> QED
    BY <2>2, <2>3, <2>4 DEF Store!StoreNext, Store!AppendRows, SeenBatches
<1>5. CASE CommitImport
  <2>1. PICK i \in Input : Committed(i)
    BY <1>2, <1>5, CommitsBatch
  <2> DEFINE b == VisibleBatch(i)
  <2>2. SeenBatches' = SeenBatches \union {b}
    <3>1. Batches' = Batches \union {i}
      BY <1>2, <2>1, BatchAppears
    <3> QED
      BY <3>1 DEF SeenBatches
  <2>3. b \notin SeenBatches
    <3>1. ASSUME NEW j \in Batches, VisibleBatch(j) = b PROVE FALSE
      <4>1. LedgerKey(j) = LedgerKey(i)
        BY <3>1 DEF VisibleBatch
      <4>2. db.batch[LedgerKey(j)] = j /\ j # None
        BY DEF Batches, BatchesKeyed, IInv
      <4> QED
        BY <2>1, <4>1, <4>2 DEF Committed, NewBatch
    <3> QED
      BY <3>1 DEF SeenBatches
  <2>4. /\ Visible' = Visible \union b.rows \union b.declares /\ b.rows \intersect Visible = {}
        /\ Store!KeysAreUnique(Visible')
    BY <1>1, <1>2, <2>1, BatchIsSeen, KeysUsedOnce
  <2> HIDE DEF b
  <2> QED
    BY <2>2, <2>3, <2>4 DEF Store!StoreNext, Store!CommitBatch, SeenBatches
<1> QED
  <2>1. Beginning => db' = db
    BY <1>2, BeginningStands
  <2>2. ImportRowStep \/ RollBack \/ Crash \/ UNCHANGED vars => db' = db
    BY DEF ImportRowStep, RollBack, Crash, vars
  <2> QED
    BY <1>3, <1>4, <1>5, <2>1, <2>2 DEF Next, ImportStep, Beginning

LEMMA InitImplements == Init => Store!StoreInit
<1> SUFFICES ASSUME Init PROVE Store!StoreInit
  OBVIOUS
<1>1. Batches = {}
  BY DEF Init, Batches, NoRow
<1>2. Visible = {}
  BY DEF Init, Visible, Rows, NoRow
<1> QED
  BY <1>1, <1>2 DEF Store!StoreInit

(* A reader sees an append-only store: an import that inserts row by row      *)
(* inside its transaction appears in one step with all its rows, or never.    *)
THEOREM StoreIsAppendOnly == Spec => ImplementsStore
<1>1. Init => Store!StoreInit
  BY InitImplements
<1>2. IInv /\ [Next]_vars => [Store!StoreNext]_<<Visible, SeenBatches>>
  BY StepImplements
<1>3. SeenBatches = {VisibleBatch(i) : i \in Batches}
  BY DEF SeenBatches
<1> QED
  BY <1>1, <1>2, InductiveInvariant, PTL
     DEF Spec, ImplementsStore, Store!StoreSpec, SeenBatches

=============================================================================
