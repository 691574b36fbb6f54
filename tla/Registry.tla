------------------------------- MODULE Registry -------------------------------
(***************************************************************************)
(* The registries an import fills: entity types and entities, relations,   *)
(* symbols, work items, knowledge with its succession and provenance, and  *)
(* the four ledgers of import batches.  A service call is one transaction. *)
(* An import is a long one: it calls the services row by row inside its    *)
(* own transaction, may be refused at any row or end with its process, and *)
(* no reader sees it before it commits.                                    *)
(***************************************************************************)
EXTENDS Naturals, Sequences, FiniteSets

CONSTANTS EntityType, Entity, RelationType, Relation, Symbol, WorkItem,
          KnowledgeType, Knowledge, Source, AssetSource,   \* identifiers
          Definition,     \* label, description and schema of an entity type
          Constraint,     \* sets of entity types an endpoint may be limited to
          Place,          \* path and identifier of a symbol
          Slice,          \* repository, revision, path and lines of a source
          Asset,          \* the assets on record
          Input,          \* the batches callers submit: all their content
          MaxRows,        \* bound on the rows of the store
          None

ASSUME ConstraintsAreTypes == Constraint \subseteq SUBSET EntityType /\ MaxRows \in Nat

RelationTypeRow == [from : Constraint, to : Constraint]
RelationRow == [type : RelationType, from : Entity, to : Entity]
SymbolRow == [entity : Entity, place : Place]
WorkItemRow == [parent : WorkItem \union {None}]
KnowledgeRow == [type : KnowledgeType]
SourceRow == [knowledge : Knowledge, slice : Slice]
AssetSourceRow == [asset : Asset, slice : Slice]

-----------------------------------------------------------------------------
(* What callers submit *)

Target == {"entity", "symbol", "work_item", "knowledge", "knowledge_source"}

LedgerOf(target) ==
    CASE target = "entity" -> "import_batch"
      [] target \in {"symbol", "work_item"} -> "resource_import_batch"
      [] target = "knowledge" -> "knowledge_import_batch"
      [] target = "knowledge_source" -> "knowledge_source_import_batch"
Ledger == {LedgerOf(target) : target \in Target}

ImportRow(target) ==
    CASE target = "entity" -> [key : Entity, row : EntityType]
      [] target = "symbol" -> [key : Symbol, row : SymbolRow]
      [] target = "work_item" -> [key : WorkItem, row : WorkItemRow]
      [] target = "knowledge" -> [key : Knowledge, row : KnowledgeRow]
      [] target = "knowledge_source" -> [key : Source, row : SourceRow]

(* The inputs that the four _prepare functions let through. The fingerprint of *)
(* a batch is its content, the actor apart: it is the input itself.           *)
PreparedRows(i) ==
    /\ i.rows \in Seq(ImportRow(i.target)) /\ Len(i.rows) \in 1..100
    /\ \A m, n \in DOMAIN i.rows : i.rows[m].key = i.rows[n].key => m = n
PreparedEntityBatch(i) ==
    /\ i.target = "entity" /\ PreparedRows(i)
    /\ i.type \in EntityType /\ i.definition \in Definition /\ ~i.empty
    /\ \A n \in DOMAIN i.rows : i.rows[n].row = i.type
PreparedResourceBatch(i) ==
    i.target \in {"symbol", "work_item"} /\ PreparedRows(i) /\ i.empty \in BOOLEAN
PreparedKnowledgeBatch(i) ==
    i.target = "knowledge" /\ PreparedRows(i) /\ i.empty \in BOOLEAN
PreparedSourceBatch(i) ==
    i.target = "knowledge_source" /\ PreparedRows(i) /\ i.empty \in BOOLEAN
PreparedBatch(i) ==
    \/ PreparedEntityBatch(i) \/ PreparedResourceBatch(i)
    \/ PreparedKnowledgeBatch(i) \/ PreparedSourceBatch(i)

ASSUME InputsArePrepared == \A i \in Input : PreparedBatch(i)

BatchId == {i.id : i \in Input}

-----------------------------------------------------------------------------
(* The store *)

VARIABLES
    db,   \* what is committed: per table a function from keys to rows or None
    tx    \* the import under way: input, tables as it sees them, rows inserted
vars == <<db, tx>>

Table(Key, Row) == [Key -> Row \union {None}]
NoRow(Key) == [k \in Key |-> None]

Tables == [
    entity_type : Table(EntityType, Definition),
    entity : Table(Entity, EntityType),
    relation_type : Table(RelationType, RelationTypeRow),
    relation : Table(Relation, RelationRow),
    symbol : Table(Symbol, SymbolRow),
    work_item : Table(WorkItem, WorkItemRow),
    knowledge_type : SUBSET KnowledgeType,
    knowledge : Table(Knowledge, KnowledgeRow),
    successor : Table(Knowledge, Knowledge),
    knowledge_source : Table(Source, SourceRow),
    asset_link : SUBSET (Knowledge \X Asset),
    asset_source : Table(AssetSource, AssetSourceRow),
    batch : Table(Ledger \X BatchId, Input)]

Import == [input : Input, work : Tables, done : Nat]

ASSUME NoneAssumption ==
    None \notin Definition \union EntityType \union RelationTypeRow \union RelationRow
                \union SymbolRow \union WorkItemRow \union KnowledgeRow \union Knowledge
                \union SourceRow \union AssetSourceRow \union Input \union Import

(* Tables have their shapes, and an import has done no more than its rows. *)
TypeOK ==
    /\ db \in Tables
    /\ tx \in Import \union {None}
    /\ tx # None => tx.done <= Len(tx.input.rows)

Init ==
    /\ db = [entity_type |-> NoRow(EntityType), entity |-> NoRow(Entity),
             relation_type |-> NoRow(RelationType), relation |-> NoRow(Relation),
             symbol |-> NoRow(Symbol), work_item |-> NoRow(WorkItem),
             knowledge_type |-> {}, knowledge |-> NoRow(Knowledge),
             successor |-> NoRow(Knowledge), knowledge_source |-> NoRow(Source),
             asset_link |-> {}, asset_source |-> NoRow(AssetSource),
             batch |-> NoRow(Ledger \X BatchId)]
    /\ tx = None

(* The rows a reader of the store finds. *)
Rows(name, table) ==
    {<<name, k, table[k]>> : k \in {x \in DOMAIN table : table[x] # None}}
Visible ==
    Rows("entity_type", db.entity_type) \union Rows("entity", db.entity)
    \union Rows("relation_type", db.relation_type) \union Rows("relation", db.relation)
    \union Rows("symbol", db.symbol) \union Rows("work_item", db.work_item)
    \union Rows("knowledge", db.knowledge) \union Rows("successor", db.successor)
    \union Rows("knowledge_source", db.knowledge_source)
    \union Rows("asset_source", db.asset_source)
    \union {<<"knowledge_type", type, None>> : type \in db.knowledge_type}
    \union {<<"asset_link", link, None>> : link \in db.asset_link}

(* BEGIN IMMEDIATE: one writer at a time. *)
MayWrite == tx = None /\ Cardinality(Visible) < MaxRows
Write(new) == MayWrite /\ db' = new /\ UNCHANGED tx

-----------------------------------------------------------------------------
(* What each service checks inside its transaction, primary keys and UNIQUE  *)
(* constraints included, on the tables as this transaction sees them.        *)

EntityFits(d, e, type) == d.entity[e] = None /\ d.entity_type[type] # None

RelationTypeFits(d, r, row) ==
    /\ d.relation_type[r] = None
    /\ \A type \in row.from \union row.to : d.entity_type[type] # None

(* _enforce_endpoint_constraint: no constraint allows every type. *)
Allows(constraint, type) == constraint # {} => type \in constraint

(* How it could go wrong: the constraint on the target is not enforced. *)
SourceFitsOnly(d, row) ==
    /\ d.relation_type[row.type] # None
    /\ d.entity[row.from] # None /\ d.entity[row.to] # None
    /\ Allows(d.relation_type[row.type].from, d.entity[row.from])

EndpointsFit(d, row) ==
    /\ d.relation_type[row.type] # None
    /\ d.entity[row.from] # None /\ d.entity[row.to] # None
    /\ Allows(d.relation_type[row.type].from, d.entity[row.from])
    /\ Allows(d.relation_type[row.type].to, d.entity[row.to])

RelationFits(d, r, row) ==
    /\ d.relation[r] = None
    /\ EndpointsFit(d, row)
    /\ \A other \in Relation : d.relation[other] # row

SymbolFits(d, s, row) ==
    /\ d.symbol[s] = None
    /\ d.entity[row.entity] # None
    /\ \A other \in Symbol : d.symbol[other] # row

WorkItemFits(d, w, row) ==
    /\ d.work_item[w] = None
    /\ row.parent # w
    /\ row.parent # None => d.work_item[row.parent] # None

KnowledgeFits(d, k, row) == d.knowledge[k] = None /\ row.type \in d.knowledge_type

SourceFits(d, s, row) ==
    /\ d.knowledge_source[s] = None
    /\ d.knowledge[row.knowledge] # None
    /\ \A other \in Source : d.knowledge_source[other] # row

AssetSourceFits(d, s, row) ==
    /\ d.asset_source[s] = None
    /\ \A other \in AssetSource : d.asset_source[other] # row

(* How it could go wrong: only the direct successor is looked at, *)
FollowsDirectly(d, k, from) == d.successor[from] = k

(* _would_create_cycle: the predecessor is among the successors of the       *)
(* successor, that is in every set that holds the first and is closed.       *)
Follows(d, k, from) == \A S \in SUBSET Knowledge :
    (/\ d.successor[from] # None => d.successor[from] \in S
     /\ \A x \in S : d.successor[x] # None => d.successor[x] \in S) => k \in S

SupersessionFits(d, k, by) ==
    /\ k # by
    /\ d.knowledge[k] # None /\ d.knowledge[by] # None
    /\ d.successor[k] = None
    /\ \A other \in Knowledge : d.successor[other] # by
    /\ ~Follows(d, k, by)

-----------------------------------------------------------------------------
(* Service calls: one transaction each *)

RegisterEntityType(type, definition) ==
    /\ db.entity_type[type] = None
    /\ Write([db EXCEPT !.entity_type[type] = definition])

CreateEntity(e, type) ==
    /\ EntityFits(db, e, type)
    /\ Write([db EXCEPT !.entity[e] = type])

WithEntities(d, E, type) ==
    [d EXCEPT !.entity = [e \in Entity |-> IF e \in E THEN type ELSE d.entity[e]]]

CreateBatchForRegisteredType(type, E) ==
    /\ E # {} /\ \A e \in E : EntityFits(db, e, type)
    /\ Write(WithEntities(db, E, type))

RegisterTypeAndCreateBatch(type, definition, E) ==
    /\ db.entity_type[type] = None
    /\ E # {} /\ \A e \in E : db.entity[e] = None
    /\ Write(WithEntities([db EXCEPT !.entity_type[type] = definition], E, type))

RegisterRelationType(r, row) ==
    /\ RelationTypeFits(db, r, row)
    /\ Write([db EXCEPT !.relation_type[r] = row])

CreateRelation(r, row) ==
    /\ RelationFits(db, r, row)
    /\ Write([db EXCEPT !.relation[r] = row])

CreateSymbol(s, row) ==
    /\ SymbolFits(db, s, row)
    /\ Write([db EXCEPT !.symbol[s] = row])

CreateWorkItem(w, row) ==
    /\ WorkItemFits(db, w, row)
    /\ Write([db EXCEPT !.work_item[w] = row])

RegisterKnowledgeType(type) ==
    /\ type \notin db.knowledge_type
    /\ Write([db EXCEPT !.knowledge_type = @ \union {type}])

AppendKnowledge(k, row) ==
    /\ KnowledgeFits(db, k, row)
    /\ Write([db EXCEPT !.knowledge[k] = row])

Supersede(k, by) ==
    /\ SupersessionFits(db, k, by)
    /\ Write([db EXCEPT !.successor[k] = by])

AttachSource(s, row) ==
    /\ SourceFits(db, s, row)
    /\ Write([db EXCEPT !.knowledge_source[s] = row])

LinkAsset(k, asset) ==
    /\ db.knowledge[k] # None
    /\ <<k, asset>> \notin db.asset_link
    /\ Write([db EXCEPT !.asset_link = @ \union {<<k, asset>>}])

AttachAssetSource(s, row) ==
    /\ AssetSourceFits(db, s, row)
    /\ Write([db EXCEPT !.asset_source[s] = row])

-----------------------------------------------------------------------------
(* Imports: one transaction of many steps *)

LedgerKey(i) == <<LedgerOf(i.target), i.id>>

(* A batch that exists is replayed or refused, and nothing is written. *)
NewBatch(d, i) == d.batch[LedgerKey(i)] = None

(* How it could go wrong: the target is only compared with the batch, *)
TargetHasNoneOfBatch(d, i) == \A n \in DOMAIN i.rows :
    \/ i.target = "knowledge" /\ d.knowledge[i.rows[n].key] = None
    \/ i.target # "knowledge"

TargetIsEmpty(d, i) == CASE i.target = "symbol" -> d.symbol = NoRow(Symbol)
                         [] i.target = "work_item" -> d.work_item = NoRow(WorkItem)
                         [] i.target = "knowledge" -> d.knowledge = NoRow(Knowledge)
                         [] i.target = "knowledge_source" -> d.knowledge_source = NoRow(Source)
                         [] OTHER -> FALSE

(* How it could go wrong: whatever type is there will do. *)
TypeIsReused(d, i) == TRUE

(* The type an entity batch is for is created, or must be the same. *)
TypeMatches(d, i) == d.entity_type[i.type] \in {None, i.definition}
WithType(d, i) ==
    IF d.entity_type[i.type] = None
    THEN [d EXCEPT !.entity_type[i.type] = i.definition] ELSE d

(* The start of an import: the ledger, the target and the type are looked at  *)
(* inside the transaction, which goes on with the rows of the batch.          *)
Begin(i, work) == tx' = [input |-> i, work |-> work, done |-> 0] /\ UNCHANGED db

BeginEntityImport(i) ==
    /\ MayWrite /\ i.target = "entity" /\ NewBatch(db, i)
    /\ TypeMatches(db, i)
    /\ Begin(i, WithType(db, i))

BeginResourceImport(i) ==
    /\ MayWrite /\ i.target \in {"symbol", "work_item"} /\ NewBatch(db, i)
    /\ i.empty => TargetIsEmpty(db, i)
    /\ Begin(i, db)

BeginKnowledgeImport(i) ==
    /\ MayWrite /\ i.target = "knowledge" /\ NewBatch(db, i)
    /\ i.empty => TargetIsEmpty(db, i)
    /\ Begin(i, db)

BeginSourceImport(i) ==
    /\ MayWrite /\ i.target = "knowledge_source" /\ NewBatch(db, i)
    /\ i.empty => TargetIsEmpty(db, i)
    /\ Begin(i, db)

(* What the service of the target checks for one row of the batch, *)
RowFits(d, target, item) ==
    \/ target = "entity" /\ EntityFits(d, item.key, item.row)
    \/ target = "symbol" /\ SymbolFits(d, item.key, item.row)
    \/ target = "work_item" /\ WorkItemFits(d, item.key, item.row)
    \/ target = "knowledge" /\ KnowledgeFits(d, item.key, item.row)
    \/ target = "knowledge_source" /\ SourceFits(d, item.key, item.row)

(* How it could go wrong: the knowledge is stored with the envelope it came in, *)
WithEnvelope(d, target, item) ==
    IF target = "knowledge" THEN [d EXCEPT !.knowledge[item.key] = item] ELSE d

(* and what it inserts. *)
WithRow(d, target, item) ==
    CASE target = "entity" -> [d EXCEPT !.entity[item.key] = item.row]
      [] target = "symbol" -> [d EXCEPT !.symbol[item.key] = item.row]
      [] target = "work_item" -> [d EXCEPT !.work_item[item.key] = item.row]
      [] target = "knowledge" -> [d EXCEPT !.knowledge[item.key] = item.row]
      [] target = "knowledge_source" -> [d EXCEPT !.knowledge_source[item.key] = item.row]

Importing == tx # None /\ tx.done < Len(tx.input.rows)
NextRow == tx.input.rows[tx.done + 1]

(* How it could go wrong: the transaction of the service commits what is there. *)
ImportRowCommits ==
    /\ Importing
    /\ RowFits(tx.work, tx.input.target, NextRow)
    /\ tx' = [tx EXCEPT !.work = WithRow(@, tx.input.target, NextRow), !.done = @ + 1]
    /\ db' = tx'.work

(* The service is called inside the transaction: its own is a savepoint. *)
ImportRowStep ==
    /\ Importing
    /\ RowFits(tx.work, tx.input.target, NextRow)
    /\ tx' = [tx EXCEPT !.work = WithRow(@, tx.input.target, NextRow), !.done = @ + 1]
    /\ UNCHANGED db

CommitImport ==
    /\ tx # None /\ tx.done = Len(tx.input.rows)
    /\ db' = [tx.work EXCEPT !.batch[LedgerKey(tx.input)] = tx.input]
    /\ tx' = None

(* How it could go wrong: the refusal of a row does not end the transaction. *)
RollBackRowOnly ==
    /\ Importing
    /\ ~RowFits(tx.work, tx.input.target, NextRow)
    /\ UNCHANGED vars

(* A row that does not fit takes the whole transaction back. *)
RollBack ==
    /\ Importing
    /\ ~RowFits(tx.work, tx.input.target, NextRow)
    /\ tx' = None
    /\ UNCHANGED db

(* The process ends: SQLite rolls its transaction back. *)
Crash ==
    /\ tx # None
    /\ tx' = None
    /\ UNCHANGED db

-----------------------------------------------------------------------------
ServiceCall ==
    \/ \E type \in EntityType, definition \in Definition :
          \/ RegisterEntityType(type, definition)
          \/ \E E \in SUBSET Entity : RegisterTypeAndCreateBatch(type, definition, E)
    \/ \E type \in EntityType :
          \/ \E e \in Entity : CreateEntity(e, type)
          \/ \E E \in SUBSET Entity : CreateBatchForRegisteredType(type, E)
    \/ \E r \in RelationType, row \in RelationTypeRow : RegisterRelationType(r, row)
    \/ \E r \in Relation, row \in RelationRow : CreateRelation(r, row)
    \/ \E s \in Symbol, row \in SymbolRow : CreateSymbol(s, row)
    \/ \E w \in WorkItem, row \in WorkItemRow : CreateWorkItem(w, row)
    \/ \E type \in KnowledgeType : RegisterKnowledgeType(type)
    \/ \E k \in Knowledge, row \in KnowledgeRow : AppendKnowledge(k, row)
    \/ \E k, by \in Knowledge : Supersede(k, by)
    \/ \E s \in Source, row \in SourceRow : AttachSource(s, row)
    \/ \E k \in Knowledge, asset \in Asset : LinkAsset(k, asset)
    \/ \E s \in AssetSource, row \in AssetSourceRow : AttachAssetSource(s, row)

ImportStep == ImportRowStep \/ CommitImport \/ RollBack

Next ==
    \/ ServiceCall
    \/ \E i \in Input :
          \/ BeginEntityImport(i) \/ BeginResourceImport(i)
          \/ BeginKnowledgeImport(i) \/ BeginSourceImport(i)
    \/ ImportStep
    \/ Crash

Spec == Init /\ [][Next]_vars

(* A commit function runs on by itself: it waits for nobody. *)
FairSpec == Spec /\ WF_vars(ImportStep)

-----------------------------------------------------------------------------
(* Properties *)

Batches == {db.batch[key] : key \in Ledger \X BatchId} \ {None}

ContentOf(d, target) ==
    CASE target = "entity" -> d.entity
      [] target = "symbol" -> d.symbol
      [] target = "work_item" -> d.work_item
      [] target = "knowledge" -> d.knowledge
      [] target = "knowledge_source" -> d.knowledge_source

(* A committed batch has all its rows in the registry, as it brought them:    *)
(* submitted again, it is answered from the store and never refused.          *)
ReplayAnswers == \A i \in Batches :
    /\ \A n \in DOMAIN i.rows : ContentOf(db, i.target)[i.rows[n].key] = i.rows[n].row
    /\ i.target = "entity" => db.entity_type[i.type] = i.definition

(* Of two batches that asked for an empty target only one got it. *)
EmptyTargetsAreTakenOnce == \A i, j \in Batches :
    i.empty /\ j.empty /\ i.target = j.target => i = j

(* Every relation joins entities its type allows, however relation types, *)
(* entities and whole batches of them came in.                            *)
RelationsRespectTypes == \A r \in Relation : db.relation[r] # None =>
    LET row == db.relation[r]
        type == db.relation_type[row.type]
    IN /\ type # None
       /\ db.entity[row.from] # None /\ db.entity[row.to] # None
       /\ type.from # {} => db.entity[row.from] \in type.from
       /\ type.to # {} => db.entity[row.to] \in type.to

(* The successions of knowledge are lines: none forks, joins or is closed. *)
SuccessionsEnd ==
    /\ \A k, other \in Knowledge :
          db.successor[k] # None /\ db.successor[k] = db.successor[other] => k = other
    /\ \A S \in SUBSET Knowledge : S # {} => \E k \in S : db.successor[k] \notin S

(* No reader ever sees a part of a batch, and nothing it saw changes. *)
VisibleBatch(i) == [
    key |-> LedgerKey(i),
    rows |-> {<<i.target, i.rows[n].key, i.rows[n].row>> : n \in DOMAIN i.rows},
    declares |-> IF i.target = "entity" THEN {<<"entity_type", i.type, i.definition>>} ELSE {}]

Store == INSTANCE AppendOnlyStore
    WITH rows <- Visible, batches <- {VisibleBatch(i) : i \in Batches}
ImplementsStore == Store!StoreSpec

(* The one writer the store admits does not keep it for ever. *)
ImportsEnd == tx # None ~> tx = None
=============================================================================
