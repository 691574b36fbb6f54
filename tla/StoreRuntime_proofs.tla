------------------------- MODULE StoreRuntime_proofs -------------------------
(***************************************************************************)
(* What opening a store ensures, for any processes, releases, identities   *)
(* and bundles, races of openers, writers and restores included.           *)
(***************************************************************************)
EXTENDS StoreRuntime, TLAPS

(* Who works on a store knows whose it is; who restores knows what, and where *)
(* the previous directory went.                                              *)
ProcessesKnow == \A p \in Process :
    /\ proc[p].pc \notin {"out"} \union Restoring => proc[p].handle # None
    /\ proc[p].handle # None => proc[p].owner \in Identity /\ proc[p].release \in Release
    /\ proc[p].pc \in Restoring => proc[p].bundle \in Archive
    /\ proc[p].pc \in {"moved", "installed"} => proc[p].backup \in DirectoryType
Typed == StateTypes /\ ProcessesKnow

-----------------------------------------------------------------------------
(* How the databases change: none, a new one, or one of them. *)

Extends(s, t) == Len(s) <= Len(t) /\ \A v \in DOMAIN s : t[v] = s[v]

(* A database goes on from another state of its own. *)
GoesOn(old, new) ==
    /\ Extends(old.ledger, new.ledger)
    /\ old.meta # None => new.meta # None /\ new.meta.ident = old.meta.ident
    /\ new.meta = old.meta \/ Fits(new)

Arrived(db) ==
    \/ db = Empty
    \/ \E p \in Process : /\ proc[p].pc = "moved"
                          /\ db.ledger = proc[p].bundle.ledger /\ db.meta = proc[p].bundle.meta
Created == \E db \in Database :
    /\ files' = Append(files, db) /\ db.folded \subseteq db.log
    /\ Arrived(db)
Changed == \E g \in Generation, db \in Database :
    /\ files' = [files EXCEPT ![g] = db] /\ db.folded \subseteq db.log
    /\ GoesOn(files[g], db)
FilesMove == UNCHANGED files \/ Created \/ Changed

LEMMA NoneIsNothing ==
    /\ None \notin Identity /\ None \notin Release /\ None \notin Archive /\ None \notin Nat
    /\ None \notin [ident : Identity, fmt : Nat]
    /\ None \notin [config : {"whole", "half", "lost"}, memory : {None} \union Nat]
  BY NoneAssumption

LEMMA ReleasesAreLists ==
  ASSUME NEW r \in Release
  PROVE  r \in Seq(Checksum) /\ r # << >> /\ Len(r) \in Nat \ {0} /\ DOMAIN r = 1..Len(r)
  BY RuntimeAssumption

LEMMA EmptyIsDatabase == Empty \in Database /\ Empty.folded \subseteq Empty.log
  BY DEF Empty, Database, MetaType

LEMMA FilesAreDatabases ==
  ASSUME Typed
  PROVE  /\ Generation = 1..Len(files) /\ Len(files) \in Nat
         /\ \A g \in Generation : files[g] \in Database /\ files[g].folded \subseteq files[g].log
  BY DEF Typed, StateTypes, Generation

(* A move of the databases keeps their shape and lets each of them go on. *)
LEMMA MovesGoOn ==
  ASSUME Typed, FilesMove
  PROVE  /\ files' \in Seq(Database) /\ Len(files) <= Len(files') /\ Generation \subseteq Generation'
         /\ \A g \in Generation' : files'[g].folded \subseteq files'[g].log
         /\ \A g \in Generation : GoesOn(files[g], files'[g])
         /\ \A g \in Generation' \ Generation : Arrived(files'[g])
<1> USE FilesAreDatabases
<1>1. \A g \in Generation : GoesOn(files[g], files[g])
  BY DEF GoesOn, Extends, Database
<1>2. CASE UNCHANGED files
  BY <1>1, <1>2 DEF Typed, StateTypes, Generation
<1>3. CASE Created
  <2> PICK db \in Database :
          files' = Append(files, db) /\ db.folded \subseteq db.log /\ Arrived(db)
    BY <1>3 DEF Created
  <2>1. files' \in Seq(Database) /\ Len(files') = Len(files) + 1
    BY DEF Typed, StateTypes
  <2>2. \A g \in Generation : files'[g] = files[g]
    BY DEF Typed, StateTypes
  <2>3. files'[Len(files) + 1] = db
    BY DEF Typed, StateTypes
  <2>4. Generation' = 1..(Len(files) + 1)
    BY <2>1 DEF Generation
  <2> QED
    BY <2>1, <2>2, <2>3, <2>4, <1>1
<1>4. CASE Changed
  <2> PICK g \in Generation, db \in Database :
          /\ files' = [files EXCEPT ![g] = db] /\ db.folded \subseteq db.log
          /\ GoesOn(files[g], db)
    BY <1>4 DEF Changed
  <2>1. files' \in Seq(Database) /\ Len(files') = Len(files)
    BY DEF Typed, StateTypes
  <2>2. Generation' = Generation
    BY <2>1 DEF Generation
  <2>3. files'[g] = db /\ \A h \in Generation \ {g} : files'[h] = files[h]
    BY DEF Typed, StateTypes
  <2> QED
    BY <2>1, <2>2, <2>3, <1>1
<1> QED
  BY <1>2, <1>3, <1>4 DEF FilesMove

-----------------------------------------------------------------------------
(* Shapes *)

Knows(x, Directories) ==
    /\ x.pc \notin {"out"} \union Restoring => x.handle # None
    /\ x.handle # None => x.owner \in Identity /\ x.release \in Release
    /\ x.pc \in Restoring => x.bundle \in Archive
    /\ x.pc \in {"moved", "installed"} => x.backup \in Directories

ProcessIn(Generations, Directories) ==
    [pc : {"out", "open"} \union Opening \union Syncing \union Restoring,
     owner : {None} \union Identity, release : {None} \union Release,
     handle : {None} \union Generations, seen : Seq(Checksum),
     mine : {None} \union Mutation, status : Status,
     bundle : {None} \union Archive, backup : {None} \union Directories]

LEMMA TypesGrow ==
  ASSUME Generation \subseteq Generation'
  PROVE  /\ DirectoryType \subseteq DirectoryType' /\ ProcessType \subseteq ProcessType'
         /\ \A x \in ProcessType : Knows(x, DirectoryType) => Knows(x, DirectoryType')
<1>1. \A d \in DirectoryType : d \in DirectoryType'
  BY DEF DirectoryType
<1>2. \A x \in ProcessType : x \in ProcessType'
  <2>1. ProcessType = ProcessIn(Generation, DirectoryType)
    BY DEF ProcessType, ProcessIn
  <2>2. ProcessType' = ProcessIn(Generation', DirectoryType')
    BY DEF ProcessType, ProcessIn
  <2>3. ASSUME NEW G, NEW H, NEW D, NEW E, G \subseteq H, D \subseteq E,
               NEW x \in ProcessIn(G, D)
        PROVE  x \in ProcessIn(H, E)
    BY <2>3 DEF ProcessIn
  <2> QED
    BY <1>1, <2>1, <2>2, <2>3
<1> QED
  BY <1>1, <1>2 DEF Knows

LEMMA OutsideIsProcess == Outside \in ProcessType /\ Knows(Outside, DirectoryType)
<1>1. << >> \in Seq(Checksum)
  OBVIOUS
<1>2. Outside \in ProcessType
  BY <1>1 DEF Outside, ProcessType, Status
<1>3. Knows(Outside, DirectoryType)
  BY DEF Outside, Knows, Restoring
<1> QED
  BY <1>2, <1>3

(* One process moves. *)
LEMMA OneMoves ==
  ASSUME Typed, FilesMove, NEW p \in Process, NEW x,
         x \in ProcessType', Knows(x, DirectoryType'), proc' = [proc EXCEPT ![p] = x]
  PROVE  proc' \in [Process -> ProcessType'] /\ ProcessesKnow'
<1>1. Generation \subseteq Generation'
  BY MovesGoOn
<1>2. \A q \in Process : proc[q] \in ProcessType /\ Knows(proc[q], DirectoryType)
  BY DEF Typed, StateTypes, ProcessesKnow, Knows
<1>3. \A q \in Process : proc[q] \in ProcessType' /\ Knows(proc[q], DirectoryType')
  BY <1>1, <1>2, TypesGrow
<1>4. \A q \in Process : proc'[q] = IF q = p THEN x ELSE proc[q]
  BY DEF Typed, StateTypes
<1>5. \A q \in Process : proc'[q] \in ProcessType' /\ Knows(proc'[q], DirectoryType')
  BY <1>3, <1>4
<1> QED
  BY <1>5, <1>4 DEF ProcessesKnow, Knows, Typed, StateTypes

LEMMA ShapesKept ==
  ASSUME Typed, FilesMove, runtime' \in {None} \union DirectoryType \union DirectoryType',
         bundles' \subseteq Archive, mutations' \in 0..MaxMutations, policy' = policy,
         head' \subseteq Nat, remote' \subseteq Nat,
         NEW p \in Process, NEW x, x \in ProcessType \union ProcessType',
         Knows(x, DirectoryType) \/ Knows(x, DirectoryType'),
         proc' = [proc EXCEPT ![p] = x]
  PROVE  Typed'
<1>1. Generation \subseteq Generation'
  BY MovesGoOn
<1>2. DirectoryType \subseteq DirectoryType' /\ x \in ProcessType'
  BY <1>1, TypesGrow
<1>3. Knows(x, DirectoryType')
  BY <1>2 DEF Knows
<1>4. proc' \in [Process -> ProcessType'] /\ ProcessesKnow'
  BY <1>2, <1>3, OneMoves
<1>5. StateTypes'
  BY <1>2, <1>4, MovesGoOn DEF StateTypes, Typed
<1> QED
  BY <1>4, <1>5 DEF Typed

LEMMA RestoreEnds ==
  ASSUME NEW p \in Process, proc[p] \in ProcessType, Knows(proc[p], DirectoryType),
         NEW status \in Status, EndRestore(p, status)
  PROVE  \E x \in ProcessType : Knows(x, DirectoryType) /\ proc' = [proc EXCEPT ![p] = x]
<1> USE DEF Opening, Syncing, Restoring
<1>1. ASSUME NEW pc \in {"out", "open"}, pc = "open" => proc[p].handle # None
      PROVE  LET x == [proc[p] EXCEPT !.pc = pc, !.status = status,
                                      !.bundle = None, !.backup = None]
             IN x \in ProcessType /\ Knows(x, DirectoryType)
  BY <1>1 DEF ProcessType, Knows
<1>2. PICK pc \in {"out", "open"} :
         /\ pc = "open" => proc[p].handle # None
         /\ proc' = [proc EXCEPT ![p] = [proc[p] EXCEPT !.pc = pc, !.status = status,
                                                 !.bundle = None, !.backup = None]]
  <2>1. CASE proc[p].handle = None
    BY <2>1 DEF EndRestore
  <2>2. CASE proc[p].handle # None
    BY <2>2 DEF EndRestore
  <2> QED
    BY <2>1, <2>2
<1> QED
  BY <1>1, <1>2

(* Steps that leave the databases and the directory alone. *)
LEMMA QuietSteps ==
  ASSUME Typed, NEW p \in Process,
         \/ RefuseLedger(p) \/ ReadMetadata(p) \/ Close(p)
         \/ AskSync(p) \/ Refuse(p) \/ ReadSyncPolicy(p)
         \/ CommitMemory(p) \/ PushMemory(p) \/ ClearBackup(p)
         \/ \E o \in Identity, r \in Release, b \in bundles : StageRestore(p, o, r, b)
  PROVE  Typed' /\ FilesMove
<1> USE DEF Opening, Syncing, Restoring
<1>1. proc[p] \in ProcessType /\ Knows(proc[p], DirectoryType)
  BY DEF Typed, StateTypes, ProcessesKnow, Knows
<1>2. /\ FilesMove /\ UNCHANGED <<runtime, bundles, mutations, policy>>
      /\ runtime' \in {None} \union DirectoryType /\ bundles' \subseteq Archive
      /\ mutations' \in 0..MaxMutations
  BY DEF Typed, StateTypes, FilesMove, RefuseLedger, ReadMetadata, Close, AskSync, Refuse,
         ReadSyncPolicy, CommitMemory, PushMemory, ClearBackup, StageRestore
<1>3. head' \subseteq Nat /\ remote' \subseteq Nat
  <2>1. WorkingTree \subseteq Nat
    <3>1. HasMemory => runtime.memory \in Generation
      BY DEF HasMemory, Typed, StateTypes, DirectoryType
    <3>2. HasMemory => files[runtime.memory] \in Database
      BY <3>1, FilesAreDatabases
    <3> QED
      BY <3>2 DEF WorkingTree, AtPath, Database
  <2> QED
    BY <2>1 DEF Typed, StateTypes, RefuseLedger, ReadMetadata, Close, AskSync, Refuse,
           ReadSyncPolicy, CommitMemory, PushMemory, ClearBackup, StageRestore
<1>4. SUFFICES \E x \in ProcessType :
                  Knows(x, DirectoryType) /\ proc' = [proc EXCEPT ![p] = x]
  BY <1>2, <1>3, ShapesKept
<1>5. CASE RefuseLedger(p) \/ Close(p)
  BY <1>5, OutsideIsProcess DEF RefuseLedger, Close, Fails
<1>6. CASE ReadMetadata(p)
  <2>1. proc' = [proc EXCEPT ![p] = Outside] \/ \E pc \in {"binding", "upgrading", "open"} :
           proc' = [proc EXCEPT ![p] = [proc[p] EXCEPT !.pc = pc]]
    BY <1>6 DEF ReadMetadata, To, Fails
  <2>2. ASSUME NEW pc \in {"binding", "upgrading", "open"}
        PROVE  [proc[p] EXCEPT !.pc = pc] \in ProcessType
               /\ Knows([proc[p] EXCEPT !.pc = pc], DirectoryType)
    BY <1>1, <1>6 DEF ProcessType, Knows, ReadMetadata
  <2> QED
    BY <2>1, <2>2, OutsideIsProcess
<1>7. CASE AskSync(p) \/ Refuse(p) \/ ReadSyncPolicy(p) \/ CommitMemory(p) \/ PushMemory(p)
  <2>1. proc[p].pc \in {"open"} \union Syncing
    BY <1>7 DEF AskSync, Refuse, ReadSyncPolicy, CommitMemory, PushMemory
  <2>2. \/ \E pc \in Syncing : proc' = [proc EXCEPT ![p] = [proc[p] EXCEPT !.pc = pc]]
        \/ \E status \in Status :
              proc' = [proc EXCEPT ![p] = [proc[p] EXCEPT !.pc = "open", !.status = status]]
    BY <1>7 DEF AskSync, Refuse, ReadSyncPolicy, CommitMemory, PushMemory, To, Answer, Status
  <2>3. ASSUME NEW pc \in Syncing
        PROVE  [proc[p] EXCEPT !.pc = pc] \in ProcessType
               /\ Knows([proc[p] EXCEPT !.pc = pc], DirectoryType)
    BY <1>1, <2>1 DEF ProcessType, Knows
  <2>4. ASSUME NEW status \in Status
        PROVE  [proc[p] EXCEPT !.pc = "open", !.status = status] \in ProcessType
               /\ Knows([proc[p] EXCEPT !.pc = "open", !.status = status], DirectoryType)
    BY <1>1, <2>1 DEF ProcessType, Knows
  <2> QED
    BY <2>2, <2>3, <2>4
<1>8. CASE ClearBackup(p)
  BY <1>8, <1>1, RestoreEnds DEF ClearBackup, Status
<1>9. CASE \E o \in Identity, r \in Release, b \in bundles : StageRestore(p, o, r, b)
  <2> PICK o \in Identity, r \in Release, b \in bundles : StageRestore(p, o, r, b)
    BY <1>9
  <2>1. b \in Archive
    BY DEF Typed, StateTypes
  <2>2. \/ \E status \in Status : proc' = [proc EXCEPT ![p] = [proc[p] EXCEPT !.status = status]]
        \/ proc' = [proc EXCEPT ![p] = [proc[p] EXCEPT !.pc = "staged", !.bundle = b]]
    BY DEF StageRestore, Status
  <2>3. ASSUME NEW status \in Status
        PROVE  [proc[p] EXCEPT !.status = status] \in ProcessType
               /\ Knows([proc[p] EXCEPT !.status = status], DirectoryType)
    BY <1>1 DEF ProcessType, Knows
  <2>4. [proc[p] EXCEPT !.pc = "staged", !.bundle = b] \in ProcessType
        /\ Knows([proc[p] EXCEPT !.pc = "staged", !.bundle = b], DirectoryType)
    BY <1>1, <2>1 DEF ProcessType, Knows
  <2> QED
    BY <2>2, <2>3, <2>4
<1> QED
  BY <1>5, <1>6, <1>7, <1>8, <1>9

(* The renames that leave the databases alone. *)
LEMMA DirectorySteps ==
  ASSUME Typed, NEW p \in Process, MoveOut(p) \/ MoveInFails(p) \/ ClearBackupFails(p)
  PROVE  Typed' /\ FilesMove
<1> USE DEF Opening, Syncing, Restoring
<1>1. proc[p] \in ProcessType /\ Knows(proc[p], DirectoryType)
  BY DEF Typed, StateTypes, ProcessesKnow, Knows
<1>2. FilesMove /\ UNCHANGED <<files, bundles, mutations, policy, head, remote>>
  BY DEF FilesMove, MoveOut, MoveInFails, ClearBackupFails
<1>3. /\ runtime' \in {None} \union DirectoryType
      /\ \E x \in ProcessType : Knows(x, DirectoryType) /\ proc' = [proc EXCEPT ![p] = x]
  <2>1. CASE MoveOut(p) /\ runtime.config = "whole"
    <3> DEFINE x == [proc[p] EXCEPT !.pc = "moved", !.backup = runtime]
    <3>1. proc' = [proc EXCEPT ![p] = x] /\ runtime \in DirectoryType /\ runtime' = None
      BY <2>1 DEF MoveOut, Typed, StateTypes
    <3>2. x \in ProcessType /\ Knows(x, DirectoryType)
      BY <2>1, <3>1, <1>1 DEF MoveOut, ProcessType, Knows
    <3> QED
      BY <3>1, <3>2
  <2>2. CASE MoveOut(p) /\ runtime.config # "whole"
    BY <2>2, <1>1, RestoreEnds DEF MoveOut, Typed, StateTypes, Status
  <2>3. CASE MoveInFails(p)
    <3>1. proc[p].backup \in DirectoryType
      BY <2>3, <1>1 DEF MoveInFails, Knows
    <3> QED
      BY <2>3, <3>1, <1>1, RestoreEnds DEF MoveInFails, Typed, StateTypes, Status
  <2>4. CASE ClearBackupFails(p)
    <3>1. proc[p].backup \in DirectoryType
      BY <2>4, <1>1 DEF ClearBackupFails, Knows
    <3>2. runtime' \in DirectoryType
      BY <2>4, <3>1 DEF ClearBackupFails, Directory, DirectoryType
    <3> QED
      BY <2>4, <3>2, <1>1, RestoreEnds DEF ClearBackupFails, Status
  <2> QED
    BY <2>1, <2>2, <2>3, <2>4
<1> QED
  BY <1>1, <1>2, <1>3, ShapesKept DEF Typed, StateTypes

(* A process at work holds a database and a release. *)
LEMMA AtWork ==
  ASSUME Typed, NEW p \in Process, proc[p].handle # None
  PROVE  /\ proc[p].handle \in Generation /\ Held(p) \in Database
         /\ Held(p).folded \subseteq Held(p).log
         /\ proc[p].owner \in Identity /\ proc[p].release \in Release
         /\ proc[p].release \in Seq(Checksum) /\ Latest(p) \in Nat \ {0}
         /\ Metadata(p) \in [ident : Identity, fmt : Nat]
<1>1. proc[p].handle \in Generation /\ proc[p].owner \in Identity /\ proc[p].release \in Release
  BY DEF Typed, StateTypes, ProcessesKnow, ProcessType
<1>2. proc[p].release \in Seq(Checksum) /\ Latest(p) \in Nat \ {0}
  BY <1>1, ReleasesAreLists DEF Latest
<1> QED
  BY <1>1, <1>2, FilesAreDatabases DEF Held, Metadata

(* A commit on a state of the held database that goes on from the present one. *)
LEMMA CommitsKeep ==
  ASSUME Typed, NEW p \in Process, proc[p].handle # None, NEW db \in Database,
         db.folded \subseteq db.log, GoesOn(Held(p), db), Commits(p, db),
         UNCHANGED <<runtime, bundles, policy, head, remote>>
  PROVE  Typed' /\ FilesMove
<1> USE DEF Opening, Syncing, Restoring
<1>1. proc[p] \in ProcessType /\ Knows(proc[p], DirectoryType)
  BY DEF Typed, StateTypes, ProcessesKnow, Knows
<1>2. mutations' \in Mutation /\ mutations' \in 0..MaxMutations /\ mutations' \in Nat
  BY RuntimeAssumption DEF Commits, Typed, StateTypes, Mutation
<1> DEFINE new == [db EXCEPT !.log = db.log \union {mutations'}]
           x == [proc[p] EXCEPT !.pc = "syncing", !.mine = mutations']
<1>3. new \in Database /\ new.folded \subseteq new.log /\ GoesOn(Held(p), new)
  BY <1>2 DEF Database, GoesOn, Fits
<1>4. FilesMove
  BY <1>3, AtWork DEF Commits, FilesMove, Changed, Held
<1>5. x \in ProcessType /\ Knows(x, DirectoryType) /\ proc' = [proc EXCEPT ![p] = x]
  BY <1>1, <1>2 DEF ProcessType, Knows, Commits
<1> QED
  BY <1>2, <1>4, <1>5, ShapesKept DEF Typed, StateTypes

LEMMA CommittingSteps ==
  ASSUME Typed, NEW p \in Process, Bind(p) \/ UpgradeFormat(p) \/ Write(p),
         proc[p].pc = "upgrading" => Held(p).meta # None,
         proc[p].pc \in {"binding", "upgrading"} => Latest(p) <= Len(Held(p).ledger)
  PROVE  Typed' /\ FilesMove
<1> USE DEF Opening, Syncing, Restoring
<1>1. proc[p].handle # None
  BY DEF Typed, ProcessesKnow, Bind, UpgradeFormat, Write
<1>2. GoesOn(Held(p), Held(p))
  BY <1>1, AtWork DEF GoesOn, Extends, Database
<1>3. CASE Write(p)
  BY <1>3, <1>1, <1>2, AtWork, CommitsKeep DEF Write
<1>4. CASE Bind(p) /\ Held(p).meta = None
  <2> DEFINE db == [Held(p) EXCEPT !.meta = Metadata(p)]
  <2>1. db \in Database /\ db.folded \subseteq db.log /\ GoesOn(Held(p), db)
    BY <1>1, <1>2, <1>4, AtWork, NoneIsNothing DEF Database, MetaType, GoesOn, Fits, Metadata, Bind
  <2> QED
    BY <1>1, <1>4, <2>1, CommitsKeep DEF Bind
<1>5. CASE Bind(p) /\ Held(p).meta # None
  <2>1. /\ FilesMove /\ UNCHANGED <<runtime, bundles, mutations, policy, head, remote>>
        /\ proc' = [proc EXCEPT ![p] = Outside]
    BY <1>5 DEF Bind, Fails, FilesMove
  <2> QED
    BY <2>1, OutsideIsProcess, ShapesKept DEF Typed, StateTypes
<1>6. CASE UpgradeFormat(p)
  <2> DEFINE db == [Held(p) EXCEPT !.meta.fmt = Latest(p)]
  <2>1. Held(p) \in Database /\ Held(p).folded \subseteq Held(p).log /\ Latest(p) \in Nat
    BY <1>1, AtWork
  <2>2. Held(p).meta \in [ident : Identity, fmt : Nat]
    BY <1>6, <2>1 DEF UpgradeFormat, Database, MetaType
  <2>3. [Held(p).meta EXCEPT !.fmt = Latest(p)] \in [ident : Identity, fmt : Nat]
        /\ [Held(p).meta EXCEPT !.fmt = Latest(p)].ident = Held(p).meta.ident
    BY <2>1, <2>2
  <2>4. db = [Held(p) EXCEPT !.meta = [Held(p).meta EXCEPT !.fmt = Latest(p)]]
    OBVIOUS
  <2>5. db \in Database /\ db.folded \subseteq db.log
    BY <2>1, <2>3, <2>4 DEF Database, MetaType
  <2>6. db.ledger = Held(p).ledger /\ db.meta = [Held(p).meta EXCEPT !.fmt = Latest(p)]
    BY <2>1, <2>4 DEF Database
  <2>7. GoesOn(Held(p), db)
    BY <1>2, <1>6, <2>2, <2>3, <2>6, NoneIsNothing DEF GoesOn, Fits, UpgradeFormat
  <2> QED
    BY <1>1, <1>6, <2>5, <2>7, CommitsKeep DEF UpgradeFormat
<1> QED
  BY <1>3, <1>4, <1>5, <1>6

(* The other steps that reach a database. *)
LEMMA ConnectKeeps ==
  ASSUME Typed, NEW p \in Process, NEW o \in Identity, NEW r \in Release, Connect(p, o, r)
  PROVE  Typed' /\ FilesMove
<1> USE DEF Opening, Syncing, Restoring
<1>1. /\ FilesMove
      /\ runtime' \in DirectoryType'
      /\ \E g \in Generation' : proc' = [proc EXCEPT ![p] = [Outside EXCEPT
              !.pc = "migrating", !.owner = o, !.release = r,
              !.handle = g, !.seen = files'[g].ledger]]
  <2>1. CASE HasMemory
    <3>1. runtime.memory \in Generation /\ runtime \in DirectoryType
      BY <2>1 DEF HasMemory, Typed, StateTypes, DirectoryType
    <3>2. files' = files /\ runtime' = runtime
      BY <2>1 DEF Connect
    <3>3. Generation' = Generation /\ DirectoryType' = DirectoryType
      BY <3>2 DEF Generation, DirectoryType
    <3> QED
      BY <2>1, <3>1, <3>2, <3>3 DEF Connect, FilesMove
  <2>2. CASE ~HasMemory
    <3>1. files' = Append(files, Empty)
      BY <2>2 DEF Connect
    <3>2. FilesMove /\ Len(files) + 1 \in Generation'
      BY <3>1, EmptyIsDatabase DEF FilesMove, Created, Arrived, Typed, StateTypes, Generation
    <3>3. runtime' = Directory(IF runtime = None THEN "lost" ELSE runtime.config, Len(files) + 1)
      BY <2>2 DEF Connect
    <3>4. (IF runtime = None THEN "lost" ELSE runtime.config) \in {"whole", "half", "lost"}
      BY DEF Typed, StateTypes, DirectoryType
    <3>5. runtime' \in DirectoryType'
      BY <3>2, <3>3, <3>4 DEF Directory, DirectoryType
    <3> QED
      BY <2>2, <3>2, <3>5 DEF Connect
  <2> QED
    BY <2>1, <2>2
<1>2. PICK g \in Generation' : proc' = [proc EXCEPT ![p] = [Outside EXCEPT
              !.pc = "migrating", !.owner = o, !.release = r,
              !.handle = g, !.seen = files'[g].ledger]]
  BY <1>1
<1> DEFINE x == [Outside EXCEPT !.pc = "migrating", !.owner = o, !.release = r,
                                !.handle = g, !.seen = files'[g].ledger]
<1>3. files'[g].ledger \in Seq(Checksum)
  <2>1. files'[g] \in Database
    BY <1>1, MovesGoOn DEF Generation
  <2> QED
    BY <2>1 DEF Database
<1>4. Outside \in ProcessType'
  BY <1>1, MovesGoOn, TypesGrow, OutsideIsProcess
<1>5. x \in ProcessType'
  BY <1>3, <1>4 DEF ProcessType
<1>6. x.pc = "migrating" /\ x.handle = g /\ x.owner = o /\ x.release = r
  BY DEF Outside
<1>7. g # None
  <2>1. g \in Nat
    BY <1>1, MovesGoOn DEF Generation
  <2> QED
    BY <2>1, NoneIsNothing
<1>8. Knows(x, DirectoryType')
  BY <1>6, <1>7 DEF Knows
<1> HIDE DEF x
<1>9. proc' = [proc EXCEPT ![p] = x]
  BY <1>2 DEF x
<1>10. /\ bundles' \subseteq Archive /\ mutations' \in 0..MaxMutations /\ policy' = policy
       /\ head' \subseteq Nat /\ remote' \subseteq Nat
  BY DEF Connect, Typed, StateTypes
<1> QED
  BY <1>1, <1>5, <1>8, <1>9, <1>10, ShapesKept

LEMMA MigrationKeeps ==
  ASSUME Typed, NEW p \in Process, ApplyMigration(p)
  PROVE  Typed' /\ FilesMove
<1> USE DEF Opening, Syncing, Restoring
<1>1. proc[p] \in ProcessType /\ Knows(proc[p], DirectoryType)
  BY DEF Typed, StateTypes, ProcessesKnow, Knows
<1>2. proc[p].handle # None
  BY <1>1 DEF Knows, ApplyMigration
<1>3. /\ UNCHANGED <<runtime, bundles, mutations, policy, head, remote>>
      /\ runtime' \in {None} \union DirectoryType /\ bundles' \subseteq Archive
      /\ mutations' \in 0..MaxMutations /\ head' \subseteq Nat /\ remote' \subseteq Nat
  BY DEF ApplyMigration, Typed, StateTypes
<1> DEFINE v == Len(proc[p].seen) + 1
           c == proc[p].release[v]
<1>4. proc[p].seen \in Seq(Checksum) /\ v \in Nat \ {0}
  BY <1>1 DEF ProcessType
<1>5. v <= Latest(p) /\ c \in Checksum
  <2>1. v <= Latest(p)
    BY DEF ApplyMigration
  <2> QED
    BY <2>1, <1>2, <1>4, AtWork DEF Latest
<1>6. CASE Len(Held(p).ledger) >= v
  <2>1. FilesMove /\ proc' = [proc EXCEPT ![p] = Outside]
    BY <1>6 DEF ApplyMigration, Fails, FilesMove
  <2> QED
    BY <1>3, <2>1, OutsideIsProcess, ShapesKept
<1>7. CASE ~(Len(Held(p).ledger) >= v)
  <2> DEFINE db == [Held(p) EXCEPT !.ledger = Append(Held(p).ledger, c)]
             x == [proc[p] EXCEPT !.seen = Append(proc[p].seen, c)]
  <2>1. Append(Held(p).ledger, c) \in Seq(Checksum)
        /\ Extends(Held(p).ledger, Append(Held(p).ledger, c))
    BY <1>2, <1>5, AtWork DEF Database, Extends
  <2>2. db \in Database /\ db.folded \subseteq db.log /\ GoesOn(Held(p), db)
    BY <2>1, <1>2, AtWork DEF Database, GoesOn
  <2>3. files' = [files EXCEPT ![proc[p].handle] = db] /\ proc' = [proc EXCEPT ![p] = x]
    BY <1>7, <1>2, AtWork, FilesAreDatabases DEF ApplyMigration, Held
  <2>4. FilesMove
    BY <2>2, <2>3, <1>2, AtWork DEF FilesMove, Changed, Held
  <2>5. Append(proc[p].seen, c) \in Seq(Checksum)
    BY <1>4, <1>5
  <2>6. x \in ProcessType /\ Knows(x, DirectoryType)
    BY <1>1, <2>5 DEF ProcessType, Knows
  <2> QED
    BY <1>3, <2>3, <2>4, <2>6, ShapesKept
<1> QED
  BY <1>6, <1>7

LEMMA FoldingSteps ==
  ASSUME Typed, NEW p \in Process, Checkpoint(p) \/ Export(p)
  PROVE  Typed' /\ FilesMove
<1> USE DEF Opening, Syncing, Restoring
<1>1. proc[p] \in ProcessType /\ Knows(proc[p], DirectoryType)
  BY DEF Typed, StateTypes, ProcessesKnow, Knows
<1>2. proc[p].handle # None /\ proc[p].pc \in {"open", "checkpoint"}
  BY <1>1 DEF Knows, Checkpoint, Export
<1>3. HasMemory /\ runtime.memory \in Generation /\ AtPath \in Database
      /\ AtPath.folded \subseteq AtPath.log
  <2>1. HasMemory
    BY DEF Checkpoint, Export
  <2>2. runtime.memory \in Generation
    BY <2>1 DEF HasMemory, Typed, StateTypes, DirectoryType
  <2> QED
    BY <2>1, <2>2, FilesAreDatabases DEF AtPath
<1>4. FilesMove
  <2>1. \A db \in Database : GoesOn(db, [db EXCEPT !.folded = db.log])
                            /\ [db EXCEPT !.folded = db.log] \in Database
    BY DEF GoesOn, Extends, Database
  <2>2. PICK g \in Generation : files' = [files EXCEPT ![g].folded = files[g].log]
    BY <1>2, <1>3, AtWork DEF Checkpoint, Export, Held, AtPath
  <2>3. files' = [files EXCEPT ![g] = [files[g] EXCEPT !.folded = files[g].log]]
        /\ files[g] \in Database
    BY <2>2, FilesAreDatabases
  <2>4. [files[g] EXCEPT !.folded = files[g].log].folded
            \subseteq [files[g] EXCEPT !.folded = files[g].log].log
    BY <2>3 DEF Database
  <2> QED
    BY <2>1, <2>3, <2>4 DEF FilesMove, Changed
<1>5. bundles' \subseteq Archive
  <2>1. Bundle(p, AtPath) \in Archive
    BY <1>2, <1>3, AtWork DEF Bundle, Archive, Database
  <2> QED
    BY <2>1 DEF Checkpoint, Export, Typed, StateTypes
<1>6. /\ runtime' \in {None} \union DirectoryType /\ mutations' \in 0..MaxMutations
      /\ policy' = policy /\ head' \subseteq Nat /\ remote' \subseteq Nat
  BY DEF Checkpoint, Export, Typed, StateTypes
<1>7. \E x \in ProcessType : Knows(x, DirectoryType) /\ proc' = [proc EXCEPT ![p] = x]
  <2>1. CASE Checkpoint(p)
    <3>1. proc' = [proc EXCEPT ![p] = [proc[p] EXCEPT !.pc = "commit"]]
      BY <2>1 DEF Checkpoint, To
    <3>2. [proc[p] EXCEPT !.pc = "commit"] \in ProcessType
          /\ Knows([proc[p] EXCEPT !.pc = "commit"], DirectoryType)
      BY <1>1, <1>2 DEF ProcessType, Knows
    <3> QED
      BY <3>1, <3>2
  <2>2. CASE Export(p)
    <3>1. proc' = [proc EXCEPT ![p] = proc[p]]
      BY <2>2 DEF Export, Typed, StateTypes
    <3> QED
      BY <3>1, <1>1
  <2> QED
    BY <2>1, <2>2
<1> QED
  BY <1>4, <1>5, <1>6, <1>7, ShapesKept

LEMMA MoveInKeeps ==
  ASSUME Typed, NEW p \in Process, MoveIn(p)
  PROVE  Typed' /\ FilesMove
<1> USE DEF Opening, Syncing, Restoring
<1>1. proc[p] \in ProcessType /\ Knows(proc[p], DirectoryType)
  BY DEF Typed, StateTypes, ProcessesKnow, Knows
<1> DEFINE b == proc[p].bundle
           db == [ledger |-> b.ledger, meta |-> b.meta, log |-> b.log, folded |-> b.log]
<1>2. b \in Archive
  BY <1>1 DEF Knows, MoveIn
<1>3. db \in Database /\ db.folded \subseteq db.log /\ db.ledger = b.ledger /\ db.meta = b.meta
  BY <1>2 DEF Archive, Database
<1>4. files' = Append(files, db) /\ proc[p].pc = "moved"
  BY DEF MoveIn
<1> HIDE DEF db
<1>5. FilesMove
  BY <1>3, <1>4 DEF FilesMove, Created, Arrived
<1>6. Len(files) + 1 \in Generation'
  BY <1>3, <1>4 DEF Typed, StateTypes, Generation
<1>7. runtime' \in DirectoryType'
  BY <1>6 DEF MoveIn, Directory, DirectoryType
<1>8. [proc[p] EXCEPT !.pc = "installed"] \in ProcessType
      /\ Knows([proc[p] EXCEPT !.pc = "installed"], DirectoryType)
      /\ proc' = [proc EXCEPT ![p] = [proc[p] EXCEPT !.pc = "installed"]]
  BY <1>1 DEF ProcessType, Knows, MoveIn, To
<1>9. /\ bundles' \subseteq Archive /\ mutations' \in 0..MaxMutations /\ policy' = policy
      /\ head' \subseteq Nat /\ remote' \subseteq Nat
  BY DEF MoveIn, Typed, StateTypes
<1> QED
  BY <1>5, <1>7, <1>8, <1>9, ShapesKept

-----------------------------------------------------------------------------
(* What a process has seen of its database is still there, and once it has    *)
(* passed the migrations and the identity, they are its own.                  *)

Serves(x, db) ==
    /\ Extends(x.seen, db.ledger)
    /\ x.pc # "migrating" => /\ Len(x.release) <= Len(x.seen)
                             /\ \A v \in DOMAIN x.release : x.seen[v] = x.release[v]
    /\ x.pc \notin {"migrating", "binding"} => db.meta # None /\ db.meta.ident = x.owner
StoresServe == \A p \in Process : proc[p].handle # None => Serves(proc[p], Held(p))

(* Formats never run ahead, in bundles either. *)
EverythingFits ==
    /\ FormatIsNotAhead
    /\ \A b \in bundles : Fits(b)
    /\ \A p \in Process : proc[p].pc \in Restoring => Fits(proc[p].bundle)

IInv == Typed /\ StoresServe /\ EverythingFits

LEMMA InitIInv == Init => IInv
<1> SUFFICES ASSUME Init PROVE IInv
  OBVIOUS
<1>1. files \in Seq(Database) /\ Generation = {}
  BY DEF Init, Generation
<1>2. bundles \subseteq Archive /\ \A b \in bundles : Fits(b)
  BY ShippedAssumption DEF Init
<1>3. proc \in [Process -> ProcessType] /\ \A p \in Process : proc[p] = Outside
  BY OutsideIsProcess DEF Init
<1>4. runtime \in DirectoryType /\ mutations \in 0..MaxMutations
  BY RuntimeAssumption DEF Init, Directory, DirectoryType
<1>5. StateTypes
  BY <1>1, <1>2, <1>3, <1>4 DEF Init, StateTypes
<1>6. \A p \in Process : proc[p].pc = "out" /\ proc[p].handle = None
  BY <1>3 DEF Outside
<1> QED
  BY <1>1, <1>2, <1>5, <1>6
     DEF IInv, Typed, ProcessesKnow, StoresServe, EverythingFits, FormatIsNotAhead, Restoring

LEMMA ServesOn ==
  ASSUME NEW x, x.seen \in Seq(Checksum), NEW old \in Database, NEW new \in Database,
         Serves(x, old), GoesOn(old, new)
  PROVE  Serves(x, new)
  BY DEF Serves, GoesOn, Extends, Database

(* A process that has been served, and does not begin again, still is. *)
LEMMA ServedStay ==
  ASSUME NEW x, NEW y, NEW db, Serves(x, db), x.pc \notin {"migrating", "binding"},
         y.pc \notin {"migrating", "binding"}, y.seen = x.seen, y.owner = x.owner, y.release = x.release
  PROVE  Serves(y, db)
  BY DEF Serves

(* Before its identity is bound, a process has every migration of its release. *)
LEMMA ServedIsMigrated ==
  ASSUME Typed, StoresServe, NEW p \in Process, proc[p].pc \in {"binding", "upgrading"}
  PROVE  /\ Latest(p) <= Len(Held(p).ledger)
         /\ proc[p].pc = "upgrading" => Held(p).meta # None
<1>1. proc[p].handle # None
  BY DEF Typed, ProcessesKnow, Restoring
<1>2. Serves(proc[p], Held(p)) /\ Held(p) \in Database /\ Latest(p) \in Nat
  BY <1>1, AtWork DEF StoresServe
<1>3. proc[p].seen \in Seq(Checksum)
  BY DEF Typed, StateTypes, ProcessType
<1> QED
  BY <1>2, <1>3 DEF Serves, Extends, Latest, Database

LEMMA NextKeepsTypes ==
  ASSUME Typed, StoresServe, NEW p \in Process, Step(p)
  PROVE  Typed' /\ FilesMove
<1> DEFINE Staging == \E o \in Identity, r \in Release, b \in bundles : StageRestore(p, o, r, b)
<1>1. CASE \E o \in Identity, r \in Release : Connect(p, o, r)
  BY <1>1, ConnectKeeps
<1>2. CASE \/ RefuseLedger(p) \/ ReadMetadata(p) \/ Close(p) \/ AskSync(p) \/ Refuse(p)
           \/ ReadSyncPolicy(p) \/ CommitMemory(p) \/ PushMemory(p) \/ ClearBackup(p)
           \/ Staging
  BY <1>2, QuietSteps
<1>3. CASE Bind(p) \/ UpgradeFormat(p) \/ Write(p)
  BY <1>3, ServedIsMigrated, CommittingSteps
<1>4. CASE MoveOut(p) \/ MoveInFails(p) \/ ClearBackupFails(p)
  BY <1>4, DirectorySteps
<1>5. CASE ApplyMigration(p) \/ Checkpoint(p) \/ Export(p) \/ MoveIn(p)
  BY <1>5, MigrationKeeps, FoldingSteps, MoveInKeeps
<1> QED
  BY <1>1, <1>2, <1>3, <1>4, <1>5 DEF Step

(* The steps of a process that leave what it serves, and how, as it was. *)
LEMMA SameService ==
  ASSUME Typed, NEW p \in Process,
         \/ AskSync(p) \/ Refuse(p) \/ ReadSyncPolicy(p) \/ Checkpoint(p)
         \/ CommitMemory(p) \/ PushMemory(p) \/ Export(p) \/ UpgradeFormat(p) \/ Write(p)
         \/ MoveOut(p) \/ MoveIn(p) \/ MoveInFails(p) \/ ClearBackup(p) \/ ClearBackupFails(p)
         \/ \E o \in Identity, r \in Release, b \in bundles : StageRestore(p, o, r, b)
  PROVE  /\ proc[p].pc \notin {"migrating", "binding"}
         /\ proc'[p].pc \notin {"migrating", "binding"}
         /\ proc'[p].seen = proc[p].seen /\ proc'[p].owner = proc[p].owner
         /\ proc'[p].release = proc[p].release /\ proc'[p].handle = proc[p].handle
         /\ \A q \in Process \ {p} : proc'[q] = proc[q]
<1> USE DEF Opening, Syncing, Restoring, To, Answer, EndRestore, Commits
<1>1. proc[p] \in ProcessType /\ DOMAIN proc = Process
  BY DEF Typed, StateTypes
<1>2. CASE AskSync(p) \/ Refuse(p) \/ ReadSyncPolicy(p) \/ Checkpoint(p)
  BY <1>1, <1>2 DEF AskSync, Refuse, ReadSyncPolicy, Checkpoint, ProcessType, Typed, StateTypes
<1>3. CASE CommitMemory(p) \/ PushMemory(p) \/ Export(p)
  BY <1>1, <1>3 DEF CommitMemory, PushMemory, Export, ProcessType, Typed, StateTypes
<1>4. CASE UpgradeFormat(p) \/ Write(p)
  BY <1>1, <1>4 DEF UpgradeFormat, Write, ProcessType, Typed, StateTypes
<1>5. CASE MoveOut(p) \/ MoveIn(p)
  BY <1>1, <1>5 DEF MoveOut, MoveIn, ProcessType, Typed, StateTypes
<1>6. CASE MoveInFails(p) \/ ClearBackup(p) \/ ClearBackupFails(p)
  BY <1>1, <1>6 DEF MoveInFails, ClearBackup, ClearBackupFails, ProcessType, Typed, StateTypes
<1>7. CASE \E o \in Identity, r \in Release, b \in bundles : StageRestore(p, o, r, b)
  BY <1>1, <1>7 DEF StageRestore, ProcessType, Typed, StateTypes
<1> QED
  BY <1>2, <1>3, <1>4, <1>5, <1>6, <1>7

LEMMA NextServes ==
  ASSUME Typed, StoresServe, NEW p \in Process, Step(p)
  PROVE  StoresServe'
<1> USE DEF Opening, Syncing, Restoring
<1>1. Typed' /\ FilesMove
  BY NextKeepsTypes
<1>2. /\ \A g \in Generation : g \in Generation' /\ GoesOn(files[g], files'[g])
      /\ \A g \in Generation' : files'[g] \in Database
  BY <1>1, MovesGoOn DEF Generation
<1>3. \A q \in Process : proc[q] \in ProcessType /\ proc[q].seen \in Seq(Checksum)
                        /\ proc'[q] \in ProcessType' /\ proc'[q].seen \in Seq(Checksum)
  BY <1>1 DEF Typed, StateTypes, ProcessType
<1>4. ASSUME NEW q \in Process, proc[q].handle # None
      PROVE  Serves(proc[q], files'[proc[q].handle])
  <2>1. proc[q].handle \in Generation /\ Held(q) \in Database /\ Serves(proc[q], Held(q))
    BY <1>4, AtWork DEF StoresServe
  <2> QED
    BY <2>1, <1>2, <1>3, ServesOn DEF Held
<1>5. SUFFICES /\ \A q \in Process \ {p} : proc'[q] = proc[q]
               /\ proc'[p].handle # None => Serves(proc'[p], files'[proc'[p].handle])
  BY <1>4 DEF StoresServe, Held
<1>6. CASE \/ AskSync(p) \/ Refuse(p) \/ ReadSyncPolicy(p) \/ Checkpoint(p)
           \/ CommitMemory(p) \/ PushMemory(p) \/ Export(p) \/ UpgradeFormat(p) \/ Write(p)
           \/ MoveOut(p) \/ MoveIn(p) \/ MoveInFails(p) \/ ClearBackup(p) \/ ClearBackupFails(p)
           \/ \E o \in Identity, r \in Release, b \in bundles : StageRestore(p, o, r, b)
  BY <1>6, <1>4, SameService, ServedStay
<1>7. ASSUME proc' = [proc EXCEPT ![p] = Outside]
      PROVE  proc'[p].handle = None /\ \A q \in Process \ {p} : proc'[q] = proc[q]
  BY <1>7 DEF Typed, StateTypes, Outside
<1>8. CASE RefuseLedger(p) \/ Close(p)
  BY <1>8, <1>7 DEF RefuseLedger, Close, Fails
<1>9. CASE \E o \in Identity, r \in Release : Connect(p, o, r)
  <2> PICK o \in Identity, r \in Release : Connect(p, o, r)
    BY <1>9
  <2>1. /\ proc'[p].pc = "migrating"
        /\ proc'[p].seen = files'[proc'[p].handle].ledger
        /\ \A q \in Process \ {p} : proc'[q] = proc[q]
    BY DEF Connect, Typed, StateTypes, Outside
  <2> QED
    BY <2>1, <1>3 DEF Serves, Extends
<1>10. CASE ApplyMigration(p)
  <2>1. proc[p].handle # None /\ proc[p].pc = "migrating"
    BY <1>10 DEF ApplyMigration, Typed, ProcessesKnow
  <2> DEFINE v == Len(proc[p].seen) + 1
             c == proc[p].release[v]
  <2>2. CASE Len(Held(p).ledger) >= v
    BY <1>10, <1>7, <2>2 DEF ApplyMigration, Fails
  <2>3. CASE ~(Len(Held(p).ledger) >= v)
    <3>1. /\ proc'[p] = [proc[p] EXCEPT !.seen = Append(@, c)]
          /\ \A q \in Process \ {p} : proc'[q] = proc[q]
          /\ files' = [files EXCEPT ![proc[p].handle].ledger = Append(@, c)]
      BY <1>10, <2>3 DEF ApplyMigration, Typed, StateTypes
    <3>2. /\ proc'[p].seen = Append(proc[p].seen, c) /\ proc'[p].pc = "migrating"
          /\ proc'[p].handle = proc[p].handle
      BY <3>1, <2>1, <1>3 DEF ProcessType
    <3>3. files'[proc[p].handle].ledger = Append(Held(p).ledger, c)
      BY <3>1, <2>1, AtWork, FilesAreDatabases DEF Held, Database, Typed, StateTypes
    <3>4. Extends(proc[p].seen, Held(p).ledger) /\ Held(p).ledger \in Seq(Checksum)
      BY <2>1, AtWork DEF StoresServe, Serves, Database
    <3>5. Extends(Append(proc[p].seen, c), Append(Held(p).ledger, c))
      <4>1. Len(proc[p].seen) = Len(Held(p).ledger)
        BY <2>3, <3>4, <1>3 DEF Extends
      <4> QED
        BY <4>1, <3>4, <1>3 DEF Extends
    <3> QED
      BY <3>1, <3>2, <3>3, <3>5 DEF Serves
  <2> QED
    BY <2>2, <2>3
<1>11. CASE ReadMetadata(p)
  <2>1. /\ proc[p].handle # None /\ Compatible(p) /\ Len(proc[p].seen) >= Latest(p)
    BY <1>11 DEF ReadMetadata, Typed, ProcessesKnow
  <2>2. Serves(proc[p], Held(p)) /\ files' = files
    BY <1>11, <2>1 DEF ReadMetadata, StoresServe
  <2>3. CASE proc' = [proc EXCEPT ![p] = Outside]
    BY <2>3, <1>7
  <2>4. CASE /\ proc' = [proc EXCEPT ![p].pc = "binding"]
    <3>1. /\ proc'[p] = [proc[p] EXCEPT !.pc = "binding"]
          /\ \A q \in Process \ {p} : proc'[q] = proc[q]
      BY <2>4 DEF Typed, StateTypes
    <3>2. \A w \in DOMAIN proc[p].release : proc[p].seen[w] = proc[p].release[w]
      BY <2>1, <1>3, AtWork DEF Compatible, Latest
    <3> QED
      BY <3>1, <3>2, <2>1, <2>2, <1>3 DEF Serves, Latest, Held, ProcessType
  <2>5. CASE /\ \E pc \in {"upgrading", "open"} : proc' = [proc EXCEPT ![p].pc = pc]
             /\ Held(p).meta # None /\ Held(p).meta.ident = proc[p].owner
    <3> PICK pc \in {"upgrading", "open"} : proc' = [proc EXCEPT ![p].pc = pc]
      BY <2>5
    <3>1. /\ proc'[p] = [proc[p] EXCEPT !.pc = pc]
          /\ \A q \in Process \ {p} : proc'[q] = proc[q]
      BY DEF Typed, StateTypes
    <3>2. \A w \in DOMAIN proc[p].release : proc[p].seen[w] = proc[p].release[w]
      BY <2>1, <1>3, AtWork DEF Compatible, Latest
    <3> QED
      BY <3>1, <3>2, <2>1, <2>2, <2>5, <1>3 DEF Serves, Latest, Held, ProcessType
  <2> QED
    BY <1>11, <2>3, <2>4, <2>5 DEF ReadMetadata, To, Fails
<1>12. CASE Bind(p)
  <2>1. proc[p].handle # None /\ proc[p].pc = "binding"
    BY <1>12 DEF Bind, Typed, ProcessesKnow
  <2>2. CASE Held(p).meta # None
    BY <1>12, <2>2, <1>7 DEF Bind, Fails
  <2>3. CASE Held(p).meta = None
    <3>1. /\ proc'[p] = [proc[p] EXCEPT !.pc = "syncing", !.mine = mutations']
          /\ \A q \in Process \ {p} : proc'[q] = proc[q]
      BY <1>12, <2>3 DEF Bind, Commits, Typed, StateTypes
    <3>2. files'[proc[p].handle].meta = Metadata(p)
      <4>1. files' = [files EXCEPT ![proc[p].handle] =
                         [[Held(p) EXCEPT !.meta = Metadata(p)] EXCEPT !.log = @ \union {mutations'}]]
        BY <1>12, <2>3 DEF Bind, Commits
      <4>2. Held(p) \in Database /\ proc[p].handle \in DOMAIN files
        BY <2>1, AtWork DEF Generation
      <4>3. files'[proc[p].handle] =
              [[Held(p) EXCEPT !.meta = Metadata(p)] EXCEPT !.log = @ \union {mutations'}]
        BY <4>1, <4>2
      <4> QED
        BY <4>2, <4>3 DEF Database
    <3>3. Serves(proc[p], files'[proc[p].handle])
      BY <2>1, <1>4
    <3>4. Metadata(p) # None /\ Metadata(p).ident = proc[p].owner
      BY <2>1, AtWork, NoneIsNothing DEF Metadata
    <3> QED
      BY <3>1, <3>2, <3>3, <3>4, <2>1, <1>3 DEF Serves, ProcessType
  <2> QED
    BY <2>2, <2>3
<1> QED
  BY <1>6, <1>8, <1>9, <1>10, <1>11, <1>12 DEF Step

LEMMA NextFits ==
  ASSUME IInv, NEW p \in Process, Step(p)
  PROVE  EverythingFits'
<1> USE DEF Opening, Syncing, Restoring, IInv
<1>1. Typed' /\ FilesMove /\ Typed
  BY NextKeepsTypes
<1>2. \A g \in Generation' : Fits(files'[g])
  <2> TAKE g \in Generation'
  <2>1. CASE g \in Generation
    <3>1. Fits(files[g]) /\ files[g] \in Database /\ GoesOn(files[g], files'[g])
      BY <2>1, <1>1, MovesGoOn, FilesAreDatabases DEF EverythingFits, FormatIsNotAhead
    <3>2. files'[g] \in Database
      BY <1>1 DEF Typed, StateTypes, Generation
    <3>3. CASE files'[g].meta = files[g].meta /\ files'[g].meta # None
      <4>1. files[g].meta.fmt \in Nat /\ Len(files[g].ledger) \in Nat /\ Len(files'[g].ledger) \in Nat
        BY <3>1, <3>2, <3>3 DEF Database, MetaType
      <4>2. Len(files[g].ledger) <= Len(files'[g].ledger) /\ files[g].meta.fmt <= Len(files[g].ledger)
        BY <3>1, <3>3 DEF Fits, GoesOn, Extends
      <4> QED
        BY <3>3, <4>1, <4>2 DEF Fits
    <3> QED
      BY <3>1, <3>3 DEF GoesOn, Fits
  <2>2. CASE g \notin Generation
    <3>1. Arrived(files'[g])
      BY <2>2, <1>1, MovesGoOn
    <3> QED
      BY <3>1 DEF Arrived, Fits, Empty, EverythingFits
  <2> QED
    BY <2>1, <2>2
<1>3. \A b \in bundles' : Fits(b)
  <2>1. CASE bundles' = bundles
    BY <2>1 DEF EverythingFits
  <2>2. CASE Export(p)
    <3>1. runtime.memory \in Generation
      BY <1>1, <2>2 DEF Export, HasMemory, Typed, StateTypes, DirectoryType
    <3>2. Fits(Bundle(p, AtPath))
      BY <3>1 DEF EverythingFits, FormatIsNotAhead, AtPath, Bundle, Fits
    <3> QED
      BY <2>2, <3>2 DEF Export, EverythingFits
  <2> QED
    BY <2>1, <2>2 DEF Step, Connect, RefuseLedger, ApplyMigration, ReadMetadata, Bind,
       UpgradeFormat, Write, Close, AskSync, Refuse, ReadSyncPolicy, Checkpoint, CommitMemory,
       PushMemory, StageRestore, MoveOut, MoveIn, MoveInFails, ClearBackup, ClearBackupFails
<1>4. /\ \A q \in Process \ {p} : proc'[q] = proc[q]
      /\ proc'[p].pc \in Restoring => Fits(proc'[p].bundle)
  <2> USE DEF To, Answer, Fails, EndRestore, Commits
  <2>1. proc[p] \in ProcessType /\ DOMAIN proc = Process
    BY <1>1 DEF Typed, StateTypes
  <2>2. CASE \E o \in Identity, r \in Release, b \in bundles : StageRestore(p, o, r, b)
    <3>1. \A b \in bundles : Fits(b)
      BY DEF EverythingFits
    <3>2. proc[p].pc \notin Restoring
      BY <2>2 DEF StageRestore
    <3> QED
      BY <2>1, <2>2, <3>1, <3>2 DEF StageRestore, ProcessType
  <2>3. CASE MoveOut(p) \/ MoveIn(p)
    <3>1. Fits(proc[p].bundle)
      BY <2>3 DEF MoveOut, MoveIn, EverythingFits
    <3> QED
      BY <2>1, <2>3, <3>1 DEF MoveOut, MoveIn, ProcessType
  <2>4. CASE MoveInFails(p) \/ ClearBackup(p) \/ ClearBackupFails(p)
    BY <2>1, <2>4 DEF MoveInFails, ClearBackup, ClearBackupFails, ProcessType
  <2>5. CASE AskSync(p) \/ Refuse(p) \/ ReadSyncPolicy(p) \/ Checkpoint(p)
             \/ CommitMemory(p) \/ PushMemory(p) \/ Export(p)
    BY <2>1, <2>5 DEF AskSync, Refuse, ReadSyncPolicy, Checkpoint, CommitMemory, PushMemory,
       Export, ProcessType
  <2>6. CASE UpgradeFormat(p) \/ Write(p) \/ Bind(p) \/ RefuseLedger(p) \/ Close(p)
    BY <2>1, <2>6 DEF UpgradeFormat, Write, Bind, RefuseLedger, Close, Outside, ProcessType
  <2>7. CASE ReadMetadata(p) \/ ApplyMigration(p)
    BY <2>1, <2>7 DEF ReadMetadata, ApplyMigration, Outside, ProcessType
  <2>8. CASE \E o \in Identity, r \in Release : Connect(p, o, r)
    BY <2>1, <2>8 DEF Connect, Outside, ProcessType
  <2> QED
    BY <2>2, <2>3, <2>4, <2>5, <2>6, <2>7, <2>8 DEF Step
<1> QED
  BY <1>2, <1>3, <1>4 DEF EverythingFits, FormatIsNotAhead

LEMMA StepsAreObserved ==
  ASSUME NEW p \in Process, Step(p)
  PROVE  Observe
<1>1. CASE \E o \in Identity, r \in Release : Connect(p, o, r)
  BY <1>1 DEF Connect
<1>2. CASE \E o \in Identity, r \in Release, b \in bundles : StageRestore(p, o, r, b)
  BY <1>2 DEF StageRestore
<1>3. CASE \/ RefuseLedger(p) \/ ApplyMigration(p) \/ ReadMetadata(p) \/ Bind(p)
           \/ UpgradeFormat(p) \/ Write(p) \/ Close(p) \/ AskSync(p) \/ Refuse(p)
           \/ ReadSyncPolicy(p) \/ Checkpoint(p) \/ CommitMemory(p) \/ PushMemory(p)
  BY <1>3 DEF RefuseLedger, ApplyMigration, ReadMetadata, Bind, UpgradeFormat, Write, Close,
     AskSync, Refuse, ReadSyncPolicy, Checkpoint, CommitMemory, PushMemory
<1>4. CASE \/ Export(p) \/ MoveOut(p) \/ MoveIn(p)
           \/ MoveInFails(p) \/ ClearBackup(p) \/ ClearBackupFails(p)
  BY <1>4 DEF Export, MoveOut, MoveIn, MoveInFails, ClearBackup, ClearBackupFails
<1> QED
  BY <1>1, <1>2, <1>3, <1>4 DEF Step

LEMMA StutterKeeps == IInv /\ UNCHANGED vars => IInv'
  BY DEF vars, state, IInv, Typed, StateTypes, ProcessesKnow, StoresServe, EverythingFits, FormatIsNotAhead,
         Generation, DirectoryType, ProcessType, Held

LEMMA Inductive == IInv /\ [Next]_vars => IInv'
<1> SUFFICES ASSUME IInv, [Next]_vars PROVE IInv'
  OBVIOUS
<1>1. CASE UNCHANGED vars
  BY <1>1, StutterKeeps
<1>2. ASSUME NEW p \in Process, Step(p) PROVE IInv'
  BY <1>2, NextKeepsTypes, NextServes, NextFits DEF IInv
<1> QED
  BY <1>1, <1>2 DEF Next

LEMMA InvariantHolds == Spec => []IInv
  BY InitIInv, Inductive, PTL DEF Spec

-----------------------------------------------------------------------------
(* The directory, the databases, the bundles and the processes keep their     *)
(* shapes, whoever opens, writes, exports and restores at once.               *)
THEOREM TypeCorrect == Spec => []TypeOK
<1>1. Init => TypeOK
  BY InitIInv DEF Init, TypeOK, IInv, Typed
<1>2. IInv /\ TypeOK /\ [Next]_vars => TypeOK'
  <2> SUFFICES ASSUME IInv, TypeOK, [Next]_vars PROVE TypeOK'
    OBVIOUS
  <2>1. IInv' /\ StateTypes'
    BY Inductive DEF IInv, Typed
  <2>2. CASE UNCHANGED vars
    BY <2>1, <2>2 DEF vars, state, TypeOK, Generation
  <2>3. ASSUME NEW p \in Process, Step(p) PROVE TypeOK'
    <3>1. Generation \subseteq Generation'
      BY <2>3, NextKeepsTypes, MovesGoOn DEF IInv
    <3>2. Lead' \subseteq Generation'
      BY <2>1 DEF Lead, HasMemory, StateTypes, DirectoryType
    <3>3. Observe
      BY <2>3, StepsAreObserved
    <3>4. \A q \in Process : came[q] \union (Lead' \ Lead) \subseteq Generation'
      BY <3>1, <3>2 DEF TypeOK
    <3> QED
      BY <2>1, <3>3, <3>4 DEF TypeOK, Observe
  <2> QED
    BY <2>2, <2>3 DEF Next
<1> QED
  BY <1>1, <1>2, InvariantHolds, PTL DEF Spec

(* An open store has this project's identity and every migration of the       *)
(* release that opened it, for any releases and any race of openers, although *)
(* MigrationRunner.apply and _bind_identity read outside their transactions.  *)
THEOREM OpenersAreServed == Spec => []OpenStoresAreOurs
<1>1. IInv => OpenStoresAreOurs
  <2> SUFFICES ASSUME IInv, NEW p \in Process, proc[p].pc \in {"open"} \union Syncing
               PROVE  /\ Held(p).meta # None /\ Held(p).meta.ident = proc[p].owner
                      /\ \A v \in DOMAIN proc[p].release :
                            v \in DOMAIN Held(p).ledger /\ Held(p).ledger[v] = proc[p].release[v]
    BY DEF OpenStoresAreOurs
  <2>1. proc[p].handle # None /\ proc[p].pc \notin {"migrating", "binding"}
    BY DEF IInv, Typed, ProcessesKnow, Syncing, Restoring
  <2>2. Serves(proc[p], Held(p)) /\ Held(p) \in Database
    BY <2>1, AtWork DEF IInv, StoresServe
  <2>3. /\ proc[p].seen \in Seq(Checksum) /\ proc[p].release \in Seq(Checksum)
        /\ Held(p).ledger \in Seq(Checksum)
    BY <2>1, <2>2, AtWork DEF IInv, Typed, StateTypes, ProcessType, Database
  <2> QED
    BY <2>1, <2>2, <2>3 DEF Serves, Extends
<1> QED
  BY <1>1, InvariantHolds, PTL

(* No database announces a format whose migrations it does not hold, the ones  *)
(* that came in a bundle of another device included.                          *)
THEOREM FormatsAreBacked == Spec => []FormatIsNotAhead
<1>1. IInv => FormatIsNotAhead
  BY DEF IInv, EverythingFits
<1> QED
  BY <1>1, InvariantHolds, PTL

-----------------------------------------------------------------------------
(* As long as the path leads to the database a process has committed to, the   *)
(* mutation goes from it to its main file, to the branch and to origin, never  *)
(* back.                                                                      *)

Settled(x) == x.pc = "open" /\ x.status \in {"COMMITTED", "NO_CHANGES", "SYNCED"}

(* How far the last mutation of a process has come. *)
Travelled(x, db, h, r) == x.mine # None =>
    /\ x.pc \notin Opening
    /\ x.mine \in db.log
    /\ x.pc \in {"commit", "push"} \/ Settled(x) => x.mine \in db.folded
    /\ x.pc = "push" \/ Settled(x) => x.mine \in h
    /\ x.pc = "open" /\ x.status = "SYNCED" => x.mine \in r
MineTravels == \A p \in Process :
    proc[p].mine # None /\ p \notin strayed =>
        proc[p].handle \in Lead /\ Travelled(proc[p], Held(p), head, remote)

LEMMA OthersStay ==
  ASSUME Typed, NEW p \in Process, Step(p)
  PROVE  DOMAIN proc' = Process /\ \A q \in Process \ {p} : proc'[q] = proc[q]
<1> USE DEF To, Answer, Fails, EndRestore, Commits
<1>1. DOMAIN proc = Process
  BY DEF Typed, StateTypes
<1>2. CASE \E o \in Identity, r \in Release : Connect(p, o, r)
  BY <1>1, <1>2 DEF Connect
<1>6. CASE \E o \in Identity, r \in Release, b \in bundles : StageRestore(p, o, r, b)
  BY <1>1, <1>6 DEF StageRestore
<1>3. CASE RefuseLedger(p) \/ ApplyMigration(p) \/ ReadMetadata(p) \/ Bind(p) \/ UpgradeFormat(p)
           \/ Write(p) \/ Close(p)
  BY <1>1, <1>3 DEF RefuseLedger, ApplyMigration, ReadMetadata, Bind, UpgradeFormat, Write, Close
<1>4. CASE AskSync(p) \/ Refuse(p) \/ ReadSyncPolicy(p) \/ Checkpoint(p) \/ CommitMemory(p)
           \/ PushMemory(p) \/ Export(p)
  BY <1>1, <1>4 DEF AskSync, Refuse, ReadSyncPolicy, Checkpoint, CommitMemory, PushMemory, Export
<1>5. CASE MoveOut(p) \/ MoveIn(p) \/ MoveInFails(p) \/ ClearBackup(p) \/ ClearBackupFails(p)
  BY <1>1, <1>5 DEF MoveOut, MoveIn, MoveInFails, ClearBackup, ClearBackupFails
<1> QED
  BY <1>2, <1>3, <1>4, <1>5, <1>6 DEF Step

(* What is in a database, or in its main file, stays there. *)
Grows(old, new) == old.log \subseteq new.log /\ old.folded \subseteq new.folded

LEMMA LogsGrow ==
  ASSUME Typed, NEW p \in Process, Step(p)
  PROVE  \A g \in Generation : Grows(files[g], files'[g])
<1> USE FilesAreDatabases DEF Opening, Syncing, Restoring
<1>1. \A g \in Generation : Grows(files[g], files[g])
  BY DEF Grows
<1>2. ASSUME NEW db, files' = Append(files, db)
      PROVE  \A g \in Generation : Grows(files[g], files'[g])
  <2>1. \A g \in Generation : files'[g] = files[g]
    BY <1>2 DEF Typed, StateTypes
  <2> QED
    BY <2>1, <1>1
<1>3. ASSUME NEW h \in Generation, NEW db, files' = [files EXCEPT ![h] = db], Grows(files[h], db)
      PROVE  \A g \in Generation : Grows(files[g], files'[g])
  <2>1. \A g \in Generation : files'[g] = IF g = h THEN db ELSE files[g]
    BY <1>3 DEF Typed, StateTypes
  <2> QED
    BY <2>1, <1>1, <1>3
<1>4. CASE \/ RefuseLedger(p) \/ ReadMetadata(p) \/ Close(p) \/ AskSync(p) \/ Refuse(p)
           \/ ReadSyncPolicy(p) \/ CommitMemory(p) \/ PushMemory(p)
           \/ MoveOut(p) \/ MoveInFails(p) \/ ClearBackup(p) \/ ClearBackupFails(p)
           \/ \E o \in Identity, r \in Release, b \in bundles : StageRestore(p, o, r, b)
  <2>1. UNCHANGED files
    BY <1>4 DEF RefuseLedger, ReadMetadata, Close, AskSync, Refuse, ReadSyncPolicy, CommitMemory,
       PushMemory, MoveOut, MoveInFails, ClearBackup, ClearBackupFails, StageRestore
  <2> QED
    BY <2>1, <1>1
<1>5. CASE MoveIn(p) \/ \E o \in Identity, r \in Release : Connect(p, o, r)
  <2>1. UNCHANGED files \/ \E db : files' = Append(files, db)
    <3>1. CASE MoveIn(p)
      BY <3>1 DEF MoveIn
    <3>2. CASE \E o \in Identity, r \in Release : Connect(p, o, r)
      BY <3>2 DEF Connect
    <3> QED
      BY <1>5, <3>1, <3>2
  <2> QED
    BY <2>1, <1>1, <1>2
<1>6. CASE ApplyMigration(p)
  <2>1. proc[p].handle \in Generation /\ Held(p) \in Database
    BY <1>6, AtWork DEF ApplyMigration, Typed, ProcessesKnow
  <2>2. CASE UNCHANGED files
    BY <2>2, <1>1
  <2>3. CASE files' = [files EXCEPT ![proc[p].handle].ledger =
                          Append(@, proc[p].release[Len(proc[p].seen) + 1])]
    <3> DEFINE db == [Held(p) EXCEPT !.ledger = Append(@, proc[p].release[Len(proc[p].seen) + 1])]
    <3>1. Grows(Held(p), db) /\ files' = [files EXCEPT ![proc[p].handle] = db]
      BY <2>1, <2>3 DEF Grows, Database, Held
    <3> QED
      BY <2>1, <3>1, <1>3 DEF Held
  <2> QED
    BY <1>6, <2>2, <2>3 DEF ApplyMigration
<1>7. CASE Bind(p) \/ UpgradeFormat(p) \/ Write(p)
  <2>1. proc[p].handle \in Generation /\ Held(p) \in Database
    BY <1>7, AtWork DEF Bind, UpgradeFormat, Write, Typed, ProcessesKnow
  <2>2. CASE UNCHANGED files
    BY <2>2, <1>1
  <2>3. ASSUME NEW db, Commits(p, db), db.log = Held(p).log, db.folded = Held(p).folded,
               {"log", "folded"} \subseteq DOMAIN db
        PROVE  \A g \in Generation : Grows(files[g], files'[g])
    <3>1. files' = [files EXCEPT ![proc[p].handle] = [db EXCEPT !.log = db.log \union {mutations'}]]
      BY <2>3 DEF Commits
    <3>2. Grows(Held(p), [db EXCEPT !.log = db.log \union {mutations'}])
      BY <2>3 DEF Grows
    <3> QED
      BY <2>1, <3>1, <3>2, <1>3 DEF Held
  <2> QED
    BY <1>7, <2>1, <2>2, <2>3 DEF Bind, UpgradeFormat, Write, Database
<1>8. CASE Checkpoint(p) \/ Export(p)
  <2>1. PICK h \in Generation : files' = [files EXCEPT ![h].folded = files[h].log]
    <3>1. HasMemory => runtime.memory \in Generation
      BY DEF HasMemory, Typed, StateTypes, DirectoryType
    <3>2. Export(p) => proc[p].handle \in Generation
      BY AtWork DEF Export, Typed, ProcessesKnow
    <3> QED
      BY <1>8, <3>1, <3>2 DEF Checkpoint, Export, Held, AtPath
  <2>2. files' = [files EXCEPT ![h] = [files[h] EXCEPT !.folded = files[h].log]]
    BY <2>1
  <2>3. Grows(files[h], [files[h] EXCEPT !.folded = files[h].log])
    BY DEF Grows, Database
  <2> QED
    BY <2>2, <2>3, <1>3
<1> QED
  BY <1>4, <1>5, <1>6, <1>7, <1>8 DEF Step

(* A mutation that has come so far has come so far in what follows. *)
LEMMA TravelsOn ==
  ASSUME NEW x, NEW old, NEW new, NEW h, NEW r, NEW hh, NEW rr,
         Travelled(x, old, h, r), Grows(old, new), hh \in {h, new.folded}, rr \in {r, h}
  PROVE  Travelled(x, new, hh, rr)
  BY DEF Travelled, Grows, Settled

(* What the path leads to is a database. *)
LEMMA LeadIsADatabase ==
  ASSUME Typed, NEW g \in Lead
  PROVE  HasMemory /\ runtime.memory = g /\ g \in Generation /\ g # None
  BY DEF Lead, HasMemory, Typed, StateTypes, DirectoryType

(* What the branch takes is folded in the database at the path, and what origin *)
(* takes is in the branch.                                                     *)
LEMMA BranchTakes ==
  ASSUME Typed, NEW p \in Process, Step(p), NEW g \in Lead
  PROVE  head' \in {head, files'[g].folded} /\ remote' \in {remote, head}
<1>1. CASE CommitMemory(p)
  <2>1. WorkingTree = files[g].folded
    BY LeadIsADatabase DEF WorkingTree, AtPath
  <2>2. files' = files /\ head' \in {head, WorkingTree} /\ remote' = remote
    BY <1>1 DEF CommitMemory
  <2> QED
    BY <2>1, <2>2
<1>2. CASE PushMemory(p)
  BY <1>2 DEF PushMemory
<1>3. CASE UNCHANGED <<head, remote>>
  BY <1>3
<1>4. CASE \E o \in Identity, r \in Release : Connect(p, o, r)
  BY <1>4, <1>3 DEF Connect
<1>5. CASE \E o \in Identity, r \in Release, b \in bundles : StageRestore(p, o, r, b)
  BY <1>5, <1>3 DEF StageRestore
<1>6. CASE \/ RefuseLedger(p) \/ ApplyMigration(p) \/ ReadMetadata(p) \/ Bind(p)
           \/ UpgradeFormat(p) \/ Write(p) \/ Close(p) \/ AskSync(p) \/ Refuse(p)
           \/ ReadSyncPolicy(p) \/ Checkpoint(p) \/ Export(p) \/ MoveOut(p) \/ MoveIn(p)
           \/ MoveInFails(p) \/ ClearBackup(p) \/ ClearBackupFails(p)
  BY <1>6, <1>3 DEF RefuseLedger, ApplyMigration, ReadMetadata, Bind, UpgradeFormat, Write, Close,
     AskSync, Refuse, ReadSyncPolicy, Checkpoint, Export, MoveOut, MoveIn, MoveInFails,
     ClearBackup, ClearBackupFails
<1> QED
  BY <1>1, <1>2, <1>4, <1>5, <1>6 DEF Step

(* A commit is the only step that gives a process another mutation: it is in the *)
(* database, and that is all that is said of it.                                *)
LEMMA CommitTravels ==
  ASSUME Typed, NEW p \in Process, Bind(p) \/ UpgradeFormat(p) \/ Write(p)
  PROVE  \/ proc'[p].mine = None
         \/ Travelled(proc'[p], files'[proc'[p].handle], head', remote')
<1> USE DEF Opening, Syncing, Restoring
<1>1. proc[p] \in ProcessType /\ DOMAIN proc = Process /\ proc[p].handle # None
  BY DEF Typed, StateTypes, ProcessesKnow, Bind, UpgradeFormat, Write
<1>2. CASE proc' = [proc EXCEPT ![p] = Outside]
  BY <1>1, <1>2 DEF Outside
<1>3. ASSUME NEW db, Commits(p, db), {"log", "folded"} \subseteq DOMAIN db
      PROVE  Travelled(proc'[p], files'[proc'[p].handle], head', remote')
  <2>1. /\ proc'[p].pc = "syncing" /\ proc'[p].mine = mutations'
        /\ proc'[p].handle = proc[p].handle
    BY <1>1, <1>3 DEF Commits, ProcessType
  <2>2. proc[p].handle \in DOMAIN files
    BY <1>1, AtWork DEF Generation
  <2>3. mutations' \in files'[proc[p].handle].log
    BY <1>3, <2>2 DEF Commits
  <2> QED
    BY <2>1, <2>3 DEF Travelled, Settled
<1>4. DOMAIN Held(p) = {"ledger", "meta", "log", "folded"}
  BY <1>1, AtWork DEF Database
<1> QED
  BY <1>2, <1>3, <1>4 DEF Bind, UpgradeFormat, Write, Fails

LEMMA OnlyCommitsCount ==
  ASSUME Typed, NEW p \in Process, Step(p), ~Bind(p), ~UpgradeFormat(p), ~Write(p),
         proc'[p].mine # None
  PROVE  proc'[p].mine = proc[p].mine
<1>1. proc[p] \in ProcessType /\ DOMAIN proc = Process
  BY DEF Typed, StateTypes
<1>2. CASE \E o \in Identity, r \in Release : Connect(p, o, r)
  BY <1>1, <1>2 DEF Connect, Outside
<1>3. CASE \E o \in Identity, r \in Release, b \in bundles : StageRestore(p, o, r, b)
  BY <1>1, <1>3 DEF StageRestore, ProcessType
<1>4. CASE RefuseLedger(p) \/ ApplyMigration(p) \/ ReadMetadata(p) \/ Close(p)
  BY <1>1, <1>4 DEF RefuseLedger, ApplyMigration, ReadMetadata, Close, To, Fails, Outside, ProcessType
<1>5. CASE \/ AskSync(p) \/ Refuse(p) \/ ReadSyncPolicy(p) \/ Checkpoint(p) \/ CommitMemory(p)
           \/ PushMemory(p) \/ Export(p)
  BY <1>1, <1>5 DEF AskSync, Refuse, ReadSyncPolicy, Checkpoint, CommitMemory, PushMemory, Export,
     To, Answer, ProcessType
<1>6. CASE MoveOut(p) \/ MoveIn(p) \/ MoveInFails(p) \/ ClearBackup(p) \/ ClearBackupFails(p)
  BY <1>1, <1>6 DEF MoveOut, MoveIn, MoveInFails, ClearBackup, ClearBackupFails, To, EndRestore,
     ProcessType
<1> QED
  BY <1>2, <1>3, <1>4, <1>5, <1>6 DEF Step

(* The mutation a process had goes on under its own steps. *)
LEMMA OwnStepTravels ==
  ASSUME Typed, NEW p \in Process, Step(p), ~Bind(p), ~UpgradeFormat(p), ~Write(p),
         proc[p].handle \in Lead, proc'[p].mine # None,
         proc[p].mine # None => Travelled(proc[p], Held(p), head, remote),
         proc[p].mine # None =>
             Travelled(proc[p], files'[proc[p].handle], head', remote')
  PROVE  /\ proc'[p].mine = proc[p].mine /\ proc'[p].handle = proc[p].handle
         /\ Travelled(proc'[p], files'[proc'[p].handle], head', remote')
<1> USE DEF Opening, Syncing, Restoring
<1>1. /\ proc[p] \in ProcessType /\ DOMAIN proc = Process
      /\ HasMemory /\ runtime.memory = proc[p].handle
      /\ proc[p].handle # None /\ proc[p].handle \in DOMAIN files /\ Held(p) \in Database
  BY LeadIsADatabase, AtWork DEF Typed, StateTypes, Generation
<1> DEFINE db == files'[proc[p].handle]
<1>2. ASSUME proc'[p].handle = proc[p].handle, proc'[p].mine = proc[p].mine,
             \/ proc'[p].pc \in {"out", "syncing", "checkpoint"} \union Restoring
             \/ /\ proc'[p].pc = "open"
                /\ proc'[p].status \notin {"COMMITTED", "NO_CHANGES", "SYNCED"}
      PROVE  Travelled(proc'[p], db, head', remote')
  BY <1>2 DEF Travelled, Settled
<1>3. CASE AskSync(p) \/ Refuse(p) \/ ReadSyncPolicy(p)
  <2>1. CASE AskSync(p)
    BY <1>1, <1>2, <2>1 DEF AskSync, To, ProcessType
  <2>2. CASE Refuse(p) \/ ReadSyncPolicy(p)
    BY <1>1, <1>2, <2>2 DEF Refuse, ReadSyncPolicy, To, Answer, ProcessType
  <2> QED
    BY <1>3, <2>1, <2>2
<1>4. CASE RefuseLedger(p) \/ Close(p)
  BY <1>1, <1>4 DEF RefuseLedger, Close, Fails, Outside
<1>5. CASE MoveOut(p) \/ MoveIn(p) \/ MoveInFails(p) \/ ClearBackup(p) \/ ClearBackupFails(p)
  <2>1. /\ proc'[p].handle = proc[p].handle /\ proc'[p].mine = proc[p].mine
        /\ \/ proc'[p].pc \in {"out"} \union Restoring
           \/ /\ proc'[p].pc = "open"
              /\ proc'[p].status \notin {"COMMITTED", "NO_CHANGES", "SYNCED"}
    <3>1. CASE MoveOut(p)
      BY <1>1, <3>1 DEF MoveOut, EndRestore, ProcessType
    <3>2. CASE MoveIn(p)
      BY <1>1, <3>2 DEF MoveIn, To, ProcessType
    <3>3. CASE MoveInFails(p) \/ ClearBackup(p) \/ ClearBackupFails(p)
      BY <1>1, <3>3 DEF MoveInFails, ClearBackup, ClearBackupFails, EndRestore, ProcessType
    <3> QED
      BY <1>5, <3>1, <3>2, <3>3
  <2> QED
    BY <2>1, <1>2
<1>6. CASE \E o \in Identity, r \in Release : Connect(p, o, r)
  BY <1>1, <1>6 DEF Connect, Outside
<1>7. CASE ApplyMigration(p) \/ ReadMetadata(p)
  <2>1. proc[p].mine = None
    BY <1>7 DEF ApplyMigration, ReadMetadata, Travelled
  <2> QED
    BY <1>1, <1>7, <2>1 DEF ApplyMigration, ReadMetadata, To, Fails, Outside, ProcessType
<1>8. CASE Checkpoint(p)
  <2>1. /\ proc'[p].pc = "commit" /\ proc'[p].mine = proc[p].mine
        /\ proc'[p].handle = proc[p].handle
    BY <1>1, <1>8 DEF Checkpoint, To, ProcessType
  <2>2. db.folded = Held(p).log /\ db.log = Held(p).log
    BY <1>8, <1>1 DEF Checkpoint, AtPath, Held, Database
  <2>3. proc[p].mine \in Held(p).log
    BY <2>1 DEF Travelled
  <2> QED
    BY <2>1, <2>2, <2>3 DEF Travelled, Settled
<1>9. CASE CommitMemory(p)
  <2>1. WorkingTree = Held(p).folded
    BY <1>1 DEF WorkingTree, AtPath, Held
  <2>2. files' = files /\ head' = Held(p).folded /\ proc[p].pc = "commit"
    BY <1>9, <2>1 DEF CommitMemory
  <2>3. /\ proc'[p].mine = proc[p].mine /\ proc'[p].handle = proc[p].handle
        /\ proc'[p].pc \in {"open", "push"}
        /\ proc'[p].pc = "open" => proc'[p].status # "SYNCED"
    BY <1>1, <1>9 DEF CommitMemory, To, Answer, ProcessType
  <2>4. proc[p].mine \in Held(p).log /\ proc[p].mine \in Held(p).folded
    BY <2>2, <2>3 DEF Travelled
  <2> QED
    BY <2>2, <2>3, <2>4 DEF Travelled, Settled, Held
<1>10. CASE PushMemory(p)
  <2>1. proc[p].pc = "push" /\ files' = files /\ remote' = head /\ head' = head
    BY <1>10 DEF PushMemory
  <2>2. /\ proc'[p].mine = proc[p].mine /\ proc'[p].handle = proc[p].handle
        /\ proc'[p].pc = "open"
    BY <1>1, <1>10 DEF PushMemory, Answer, ProcessType
  <2> QED
    BY <2>1, <2>2 DEF Travelled, Settled, Held
<1>11. CASE Export(p)
  BY <1>11 DEF Export
<1>12. CASE \E o \in Identity, r \in Release, b \in bundles : StageRestore(p, o, r, b)
  <2> PICK o \in Identity, r \in Release, b \in bundles : StageRestore(p, o, r, b)
    BY <1>12
  <2>1. /\ proc'[p].handle = proc[p].handle /\ proc'[p].mine = proc[p].mine
        /\ proc'[p].pc = proc[p].pc
        /\ proc'[p].status \notin {"COMMITTED", "NO_CHANGES", "SYNCED"}
    BY <1>1 DEF StageRestore, ProcessType
  <2>2. proc[p].pc \in {"out", "open"}
    BY DEF StageRestore
  <2> QED
    BY <2>1, <2>2, <1>2
<1> QED
  BY <1>3, <1>4, <1>5, <1>6, <1>7, <1>8, <1>9, <1>10, <1>11, <1>12 DEF Step

LEMMA MineTravelsKept ==
  ASSUME Typed, Typed', MineTravels, NEW p \in Process, Step(p)
  PROVE  MineTravels'
<1> SUFFICES ASSUME NEW q \in Process, proc'[q].mine # None, q \notin strayed'
             PROVE  /\ proc'[q].handle \in Lead'
                    /\ Travelled(proc'[q], files'[proc'[q].handle], head', remote')
  BY DEF MineTravels, Held
<1>1. proc'[q].handle \in Lead' /\ (q \in strayed => proc'[q].mine # proc[q].mine)
  BY StepsAreObserved DEF Observe
<1>2. ASSUME proc[q].mine # None, q \notin strayed
      PROVE  /\ proc[q].handle \in Lead /\ Travelled(proc[q], Held(q), head, remote)
             /\ Travelled(proc[q], files'[proc[q].handle], head', remote')
  <2>1. proc[q].handle \in Lead /\ Travelled(proc[q], Held(q), head, remote)
    BY <1>2 DEF MineTravels
  <2>2. Grows(files[proc[q].handle], files'[proc[q].handle])
    BY <2>1, LogsGrow, LeadIsADatabase
  <2>3. head' \in {head, files'[proc[q].handle].folded} /\ remote' \in {remote, head}
    BY <2>1, BranchTakes
  <2> QED
    BY <2>1, <2>2, <2>3, TravelsOn DEF Held
<1>3. CASE q # p
  <2>1. proc'[q] = proc[q]
    BY <1>3, OthersStay
  <2> QED
    BY <1>1, <1>2, <2>1
<1>4. CASE q = p /\ (Bind(p) \/ UpgradeFormat(p) \/ Write(p))
  BY <1>1, <1>4, CommitTravels
<1>5. CASE q = p /\ ~Bind(p) /\ ~UpgradeFormat(p) /\ ~Write(p)
  <2>1. proc'[p].mine = proc[p].mine
    BY <1>5, OnlyCommitsCount
  <2>2. proc[p].mine # None /\ p \notin strayed
    BY <1>1, <1>5, <2>1
  <2> QED
    BY <1>1, <1>2, <1>5, <2>2, OwnStepTravels
<1> QED
  BY <1>3, <1>4, <1>5

LEMMA InitTravels == Init => MineTravels
  BY DEF Init, MineTravels, Outside

(* COMMITTED and NO_CHANGES say of a mutation that the branch holds it, and   *)
(* SYNCED that origin does, for any number of writers, synchronisers and      *)
(* restores at once, as long as the path has led to the database of the       *)
(* mutation since it was committed.                                          *)
THEOREM AnswersOfSyncAreTrue == Spec => []SyncAnswersTrue
<1>1. IInv /\ IInv' /\ MineTravels /\ [Next]_vars => MineTravels'
  <2> SUFFICES ASSUME IInv, IInv', MineTravels, [Next]_vars PROVE MineTravels'
    OBVIOUS
  <2>1. CASE UNCHANGED vars
    BY <2>1 DEF vars, state, MineTravels, Lead, HasMemory, Held
  <2>2. ASSUME NEW p \in Process, Step(p) PROVE MineTravels'
    BY <2>2, MineTravelsKept DEF IInv
  <2> QED
    BY <2>1, <2>2 DEF Next
<1>2. MineTravels => SyncAnswersTrue
  BY DEF MineTravels, Travelled, Settled, SyncAnswersTrue
<1> QED
  BY <1>1, <1>2, InitTravels, InvariantHolds, PTL DEF Spec

-----------------------------------------------------------------------------
(* A restore that is at work found no memory at the path: whatever is there,  *)
(* came since.                                                               *)

CameSince == \A p \in Process : proc[p].pc \in Restoring => Lead \subseteq came[p]

(* A restore begins where there is no memory. *)
LEMMA RestoresBeginWithout ==
  ASSUME Typed, NEW p \in Process, Step(p), proc[p].pc \notin Restoring, proc'[p].pc \in Restoring
  PROVE  Lead' = {}
<1> USE DEF Opening, Syncing, Restoring
<1>1. proc[p] \in ProcessType /\ DOMAIN proc = Process
  BY DEF Typed, StateTypes
<1>2. CASE \E o \in Identity, r \in Release, b \in bundles : StageRestore(p, o, r, b)
  <2> PICK o \in Identity, r \in Release, b \in bundles : StageRestore(p, o, r, b)
    BY <1>2
  <2>1. ~HasMemory /\ UNCHANGED runtime
    BY <1>1 DEF StageRestore, ProcessType
  <2> QED
    BY <2>1 DEF Lead, HasMemory
<1>3. CASE \E o \in Identity, r \in Release : Connect(p, o, r)
  BY <1>1, <1>3 DEF Connect, Outside
<1>4. CASE \/ RefuseLedger(p) \/ ApplyMigration(p) \/ ReadMetadata(p) \/ Bind(p)
           \/ UpgradeFormat(p) \/ Write(p) \/ Close(p)
  BY <1>1, <1>4 DEF RefuseLedger, ApplyMigration, ReadMetadata, Bind, UpgradeFormat, Write, Close,
     To, Fails, Commits, Outside, ProcessType
<1>5. CASE \/ AskSync(p) \/ Refuse(p) \/ ReadSyncPolicy(p) \/ Checkpoint(p) \/ CommitMemory(p)
           \/ PushMemory(p) \/ Export(p)
  BY <1>1, <1>5 DEF AskSync, Refuse, ReadSyncPolicy, Checkpoint, CommitMemory, PushMemory, Export,
     To, Answer, ProcessType
<1>6. CASE MoveOut(p) \/ MoveIn(p) \/ MoveInFails(p) \/ ClearBackup(p) \/ ClearBackupFails(p)
  BY <1>6 DEF MoveOut, MoveIn, MoveInFails, ClearBackup, ClearBackupFails
<1> QED
  BY <1>2, <1>3, <1>4, <1>5, <1>6 DEF Step

(* Only the renames of a restore take a database from the path. *)
LEMMA OnlyRestoresTake ==
  ASSUME Typed, NEW p \in Process, Step(p), Lead \ Lead' # {}
  PROVE  proc[p].pc \in Restoring /\ proc'[p] # proc[p]
<1> USE DEF Opening, Syncing, Restoring
<1>1. proc[p] \in ProcessType /\ DOMAIN proc = Process
  BY DEF Typed, StateTypes
<1>2. HasMemory /\ runtime' # runtime
  BY DEF Lead, HasMemory
<1>3. CASE MoveOut(p)
  BY <1>1, <1>3 DEF MoveOut, EndRestore, ProcessType
<1>4. CASE MoveIn(p) \/ MoveInFails(p)
  BY <1>2, <1>4 DEF MoveIn, MoveInFails, HasMemory
<1>5. CASE ClearBackupFails(p)
  BY <1>1, <1>5 DEF ClearBackupFails, EndRestore, ProcessType
<1>6. CASE \E o \in Identity, r \in Release : Connect(p, o, r)
  BY <1>2, <1>6 DEF Connect
<1>7. CASE \E o \in Identity, r \in Release, b \in bundles : StageRestore(p, o, r, b)
  BY <1>2, <1>7 DEF StageRestore
<1>8. CASE \/ RefuseLedger(p) \/ ApplyMigration(p) \/ ReadMetadata(p) \/ Bind(p)
           \/ UpgradeFormat(p) \/ Write(p) \/ Close(p) \/ AskSync(p) \/ Refuse(p)
           \/ ReadSyncPolicy(p) \/ Checkpoint(p) \/ Export(p) \/ ClearBackup(p)
           \/ CommitMemory(p) \/ PushMemory(p)
  BY <1>2, <1>8 DEF RefuseLedger, ApplyMigration, ReadMetadata, Bind, UpgradeFormat, Write, Close,
     AskSync, Refuse, ReadSyncPolicy, Checkpoint, Export, ClearBackup, CommitMemory, PushMemory
<1> QED
  BY <1>3, <1>4, <1>5, <1>6, <1>7, <1>8 DEF Step

LEMMA CameSinceKept == IInv /\ CameSince /\ [Next]_vars => CameSince'
<1> SUFFICES ASSUME IInv, CameSince, [Next]_vars PROVE CameSince'
  OBVIOUS
<1>1. CASE UNCHANGED vars
  BY <1>1 DEF vars, state, CameSince, Lead, HasMemory
<1>2. ASSUME NEW p \in Process, Step(p) PROVE CameSince'
  <2> SUFFICES ASSUME NEW q \in Process, proc'[q].pc \in Restoring PROVE Lead' \subseteq came'[q]
    BY DEF CameSince, Restoring
  <2>1. Observe
    BY <1>2, StepsAreObserved
  <2>2. CASE proc[q].pc \in Restoring
    <3>1. came'[q] = came[q] \union (Lead' \ Lead)
      BY <2>1, <2>2 DEF Observe
    <3> QED
      BY <2>2, <3>1 DEF CameSince
  <2>3. CASE proc[q].pc \notin Restoring
    <3>1. q = p
      BY <1>2, <2>3, OthersStay DEF IInv
    <3> QED
      BY <1>2, <2>3, <3>1, RestoresBeginWithout DEF IInv
  <2> QED
    BY <2>2, <2>3
<1> QED
  BY <1>1, <1>2 DEF Next

(* For any number of processes that open, write and restore at once, a memory  *)
(* leaves the path only under a restore that had found none there, and only if *)
(* it came since: nothing that a restore could see when it looked is taken.    *)
THEOREM MemoriesStay == Spec => NoMemoryIsTakenAway
<1> DEFINE Stays == \A g \in Generation :
               (g \in Lead \ Lead' /\ files[g].log # {})
                   => \E p \in Process : /\ proc[p].pc \in Restoring /\ proc'[p] # proc[p]
                                         /\ g \in came[p]
<1>1. Init => CameSince
  BY DEF Init, CameSince, Outside, Restoring
<1>2. ASSUME IInv, CameSince, [Next]_vars PROVE [Stays]_vars
  <2>1. ASSUME NEW p \in Process, Step(p) PROVE Stays
    <3> SUFFICES ASSUME NEW g \in Generation, g \in Lead \ Lead'
                 PROVE  /\ proc[p].pc \in Restoring /\ proc'[p] # proc[p]
                        /\ g \in came[p]
      OBVIOUS
    <3>1. proc[p].pc \in Restoring /\ proc'[p] # proc[p]
      BY <1>2, <2>1, OnlyRestoresTake DEF IInv
    <3> QED
      BY <1>2, <3>1 DEF CameSince
  <2> QED
    BY <1>2, <2>1 DEF Next
<1>3. Spec => [][Stays]_vars
  BY <1>1, <1>2, CameSinceKept, InvariantHolds, PTL DEF Spec
<1> QED
  BY <1>3 DEF NoMemoryIsTakenAway

=============================================================================
