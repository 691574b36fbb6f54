----------------------------- MODULE StoreRuntime -----------------------------
(***************************************************************************)
(* The runtime directory of a project and the memory in it, as several      *)
(* processes meet there: each opens the store by its own connection         *)
(* (MemoryStore.open: the migrations, then the identity), writes in         *)
(* transactions, and after each commit synchronises the memory with Git     *)
(* (automatic_memory_sync); bundles are exported from it and restored over  *)
(* it by two renames of the whole directory.                                *)
(*                                                                          *)
(* A database is a generation: a restore or a removed directory puts        *)
(* another one at the same path, while a connection keeps the file it       *)
(* opened.  A mutation is a number; what a transaction writes is left out.   *)
(* External: SQLite (a script is one transaction, a failing one leaves      *)
(* nothing; the checkpoint may find the memory busy), Git (every command     *)
(* may fail), and the file system.                                          *)
(***************************************************************************)
EXTENDS Naturals, Sequences, FiniteSets

CONSTANTS
    None,
    Process,
    Release,      \* the releases in use, each the checksums of its migrations
    Identity,     \* what the project is, one value per profile it may have
    SyncPolicies, \* what sync-policy.json and policies.yaml may allow
    Shipped,      \* sets of bundles taken on another device
    MaxMutations, \* bound on the transactions
    MaxBundles,   \* bound on the exports
    MaxGenerations\* bound on the databases

Checksum == UNION {{r[v] : v \in DOMAIN r} : r \in Release}
Mutation == 1..MaxMutations
MetaType == {None} \union [ident : Identity, fmt : Nat]
Database == [ledger : Seq(Checksum), meta : MetaType, log : SUBSET Nat, folded : SUBSET Nat]
Archive == [owner : Identity, declared : Release,
            ledger : Seq(Checksum), meta : MetaType, log : SUBSET Nat]

(* The format a database announces is one whose migrations it holds. *)
Fits(db) == db.meta # None => db.meta.fmt <= Len(db.ledger)

ASSUME RuntimeAssumption ==
    /\ Release \subseteq Seq(Checksum) \ {<< >>}
    /\ SyncPolicies \subseteq {"disabled", "commit", "push"}
    /\ MaxMutations \in Nat /\ MaxBundles \in Nat /\ MaxGenerations \in Nat

(* What another device exported is the snapshot of such a store. *)
ASSUME ShippedAssumption ==
    \A S \in Shipped : \A b \in S : b \in Archive /\ Fits(b)

ASSUME NoneAssumption ==
    /\ None \notin Identity \union Release \union Archive \union Nat
    /\ None \notin [ident : Identity, fmt : Nat]
    /\ None \notin [config : {"whole", "half", "lost"}, memory : {None} \union Nat]

VARIABLES
    runtime,  \* the directory at the runtime path, None between two renames
    files,    \* every database ever created, the ones no path leads to included
    bundles,  \* the archives that exist
    mutations,\* how many transactions have committed
    policy,   \* what the synchronisation may do
    head,     \* the memory in the last commit of the branch
    remote,   \* the memory in the branch of origin
    proc,     \* the processes
    came,     \* history, per process: memories that came to the path since its
              \* restore looked there and found none
    strayed   \* history: processes whose database the path has left since they
              \* committed to it

state == <<runtime, files, bundles, mutations, policy, head, remote, proc>>
vars == <<state, came, strayed>>

-----------------------------------------------------------------------------
(* Directories, databases, bundles. *)

Opening == {"migrating", "binding", "upgrading"}
Syncing == {"syncing", "checkpoint", "commit", "push"}
Restoring == {"staged", "moved", "installed"}

Latest(p) == Len(proc[p].release)
Empty == [ledger |-> << >>, meta |-> None, log |-> {}, folded |-> {}]
Directory(config, memory) == [config |-> config, memory |-> memory]
HasMemory == runtime # None /\ runtime.memory # None
AtPath == files[runtime.memory]
Held(p) == files[proc[p].handle]

Outside == [pc |-> "out", owner |-> None, release |-> None, handle |-> None, seen |-> << >>, mine |-> None,
            status |-> "NOT_ATTEMPTED", bundle |-> None, backup |-> None]

(* The memory the path leads to. *)
Lead == IF HasMemory THEN {runtime.memory} ELSE {}

(* The histories, written beside every step. *)
Observe ==
    /\ came' = [p \in Process |->
                    IF proc[p].pc \in Restoring /\ proc'[p].pc \in Restoring
                    THEN came[p] \union (Lead' \ Lead) ELSE {}]
    /\ strayed' = {p \in Process :
                     /\ proc'[p].mine # None
                     /\ \/ p \in strayed /\ proc'[p].mine = proc[p].mine
                        \/ proc'[p].handle \notin Lead'}

(* A new memory of the project, in a directory the profile lives in. *)
Init ==
    /\ runtime = Directory("whole", None)
    /\ files = << >>
    /\ bundles \in Shipped
    /\ mutations = 0
    /\ policy \in SyncPolicies
    /\ head = {} /\ remote = {}
    /\ proc = [p \in Process |-> Outside]
    /\ came = [p \in Process |-> {}] /\ strayed = {}

To(p, pc) == proc' = [proc EXCEPT ![p].pc = pc]
Answer(p, status) == proc' = [proc EXCEPT ![p].pc = "open", ![p].status = status]
(* An exception while opening closes the connection. *)
Fails(p) == proc' = [proc EXCEPT ![p] = Outside]

-----------------------------------------------------------------------------
(* MemoryStore.open: the migrations. *)

(* A process that has loaded a profile: the directory and the database are
   created when they are absent; the ledger is read once, outside any
   transaction. *)
Connect(p, owner, release) ==
    /\ proc[p].pc = "out"
    /\ HasMemory \/ Len(files) < MaxGenerations
    /\ LET new == ~HasMemory
           g == IF new THEN Len(files) + 1 ELSE runtime.memory
       IN /\ files' = IF new THEN Append(files, Empty) ELSE files
          /\ runtime' = IF new
                        THEN Directory(IF runtime = None THEN "lost" ELSE runtime.config, g)
                        ELSE runtime
          /\ proc' = [proc EXCEPT ![p] = [Outside EXCEPT
                         !.pc = "migrating", !.owner = owner,
                         !.release = release, !.handle = g, !.seen = files'[g].ledger]]
    /\ UNCHANGED <<bundles, mutations, policy, head, remote>>
    /\ Observe

Compatible(p) ==
    \A v \in DOMAIN proc[p].seen : v <= Latest(p) => proc[p].seen[v] = proc[p].release[v]

(* A migration whose recorded checksum is another one refuses the store. *)
RefuseLedger(p) ==
    /\ proc[p].pc = "migrating" /\ ~Compatible(p)
    /\ Fails(p)
    /\ UNCHANGED <<runtime, files, bundles, mutations, policy, head, remote>>
    /\ Observe

(* One script: BEGIN IMMEDIATE, the migration, its row in the ledger.  It
   fails when another process has applied it since the ledger was read. *)
ApplyMigration(p) ==
    LET v == Len(proc[p].seen) + 1
    IN /\ proc[p].pc = "migrating" /\ Compatible(p) /\ v <= Latest(p)
       /\ IF Len(Held(p).ledger) >= v
          THEN Fails(p) /\ UNCHANGED files
          ELSE /\ files' = [files EXCEPT ![proc[p].handle].ledger = Append(@, proc[p].release[v])]
               /\ proc' = [proc EXCEPT ![p].seen = Append(@, proc[p].release[v])]
    /\ UNCHANGED <<runtime, bundles, mutations, policy, head, remote>>
    /\ Observe

-----------------------------------------------------------------------------
(* MemoryStore.open: the identity. *)

Metadata(p) == [ident |-> proc[p].owner, fmt |-> Latest(p)]

(* How it could go wrong: the identity is bound before the migrations. *)
ReadMetadataFirst(p) ==
    /\ proc[p].pc = "migrating" /\ Compatible(p)
    /\ Held(p).meta = None
    /\ To(p, "binding")
    /\ UNCHANGED <<runtime, files, bundles, mutations, policy, head, remote>>
    /\ Observe

(* The metadata are read outside the transaction that completes them. *)
ReadMetadata(p) ==
    LET meta == Held(p).meta
    IN /\ proc[p].pc = "migrating" /\ Compatible(p) /\ Len(proc[p].seen) >= Latest(p)
       /\ \/ meta = None /\ To(p, "binding")
          \/ /\ meta # None
             /\ meta.ident # proc[p].owner \/ meta.fmt > Latest(p)
             /\ Fails(p)
          \/ /\ meta # None
             /\ meta.ident = proc[p].owner /\ meta.fmt <= Latest(p)
             /\ To(p, IF meta.fmt < Latest(p) THEN "upgrading" ELSE "open")
    /\ UNCHANGED <<runtime, files, bundles, mutations, policy, head, remote>>
    /\ Observe

(* A transaction of p on its own connection, and the synchronisation after it. *)
Commits(p, db) ==
    /\ mutations < MaxMutations
    /\ mutations' = mutations + 1
    /\ files' = [files EXCEPT ![proc[p].handle] = [db EXCEPT !.log = @ \union {mutations'}]]
    /\ proc' = [proc EXCEPT ![p].pc = "syncing", ![p].mine = mutations']

(* How it could go wrong: INSERT OR IGNORE for the rows of the metadata. *)
BindOrIgnore(p) ==
    /\ proc[p].pc = "binding"
    /\ Commits(p, IF Held(p).meta = None THEN [Held(p) EXCEPT !.meta = Metadata(p)] ELSE Held(p))
    /\ UNCHANGED <<runtime, bundles, policy, head, remote>>
    /\ Observe

(* The key of a metadata row is unique: the second of two binders fails. *)
Bind(p) ==
    /\ proc[p].pc = "binding"
    /\ IF Held(p).meta = None
       THEN Commits(p, [Held(p) EXCEPT !.meta = Metadata(p)])
       ELSE Fails(p) /\ UNCHANGED <<files, mutations>>
    /\ UNCHANGED <<runtime, bundles, policy, head, remote>>
    /\ Observe

(* The format is set to this release's, whatever it has become since. *)
UpgradeFormat(p) ==
    /\ proc[p].pc = "upgrading"
    /\ Commits(p, [Held(p) EXCEPT !.meta.fmt = Latest(p)])
    /\ UNCHANGED <<runtime, bundles, policy, head, remote>>
    /\ Observe

(* MemoryStore.transaction: any mutation of the Core. *)
Write(p) ==
    /\ proc[p].pc = "open"
    /\ Commits(p, Held(p))
    /\ UNCHANGED <<runtime, bundles, policy, head, remote>>
    /\ Observe

Close(p) ==
    /\ proc[p].pc # "out"
    /\ Fails(p)
    /\ UNCHANGED <<runtime, files, bundles, mutations, policy, head, remote>>
    /\ Observe

-----------------------------------------------------------------------------
(* memory_sync.py: after a commit, or asked for by the command, the tool or
   the desktop. *)

AskSync(p) ==
    /\ proc[p].pc = "open"
    /\ To(p, "syncing")
    /\ UNCHANGED <<runtime, files, bundles, mutations, policy, head, remote>>
    /\ Observe

Refuse(p) ==
    /\ proc[p].pc \in Syncing
    /\ Answer(p, "REFUSED")
    /\ UNCHANGED <<runtime, files, bundles, mutations, policy, head, remote>>
    /\ Observe

ReadSyncPolicy(p) ==
    /\ proc[p].pc = "syncing"
    /\ runtime # None
    /\ IF policy = "disabled" THEN Answer(p, "DISABLED") ELSE To(p, "checkpoint")
    /\ UNCHANGED <<runtime, files, bundles, mutations, policy, head, remote>>
    /\ Observe

(* How it could go wrong: a busy checkpoint counts as done. *)
CheckpointOrBusy(p) ==
    /\ proc[p].pc = "checkpoint"
    /\ HasMemory
    /\ files' \in {files, [files EXCEPT ![runtime.memory].folded = AtPath.log]}
    /\ To(p, "commit")
    /\ UNCHANGED <<runtime, bundles, mutations, policy, head, remote>>
    /\ Observe

(* The checkpoint opens the database at the path, which need not be the one
   p holds. *)
Checkpoint(p) ==
    /\ proc[p].pc = "checkpoint"
    /\ HasMemory
    /\ files' = [files EXCEPT ![runtime.memory].folded = AtPath.log]
    /\ To(p, "commit")
    /\ UNCHANGED <<runtime, bundles, mutations, policy, head, remote>>
    /\ Observe

(* What the working tree holds of the memory: the database without its WAL. *)
WorkingTree == IF HasMemory THEN AtPath.folded ELSE {}

CommitMemory(p) ==
    /\ proc[p].pc = "commit"
    /\ IF WorkingTree = head
       THEN Answer(p, "NO_CHANGES") /\ UNCHANGED head
       ELSE /\ head' = WorkingTree
            /\ IF policy = "push" THEN To(p, "push") ELSE Answer(p, "COMMITTED")
    /\ UNCHANGED <<runtime, files, bundles, mutations, policy, remote>>
    /\ Observe

PushMemory(p) ==
    /\ proc[p].pc = "push"
    /\ remote' = head
    /\ Answer(p, "SYNCED")
    /\ UNCHANGED <<runtime, files, bundles, mutations, policy, head>>
    /\ Observe

-----------------------------------------------------------------------------
(* bundles.py: export. *)

Bundle(p, db) ==
    [owner |-> proc[p].owner, declared |-> proc[p].release,
     ledger |-> db.ledger, meta |-> db.meta, log |-> db.log]

(* BundleService.export: the checkpoint and the snapshot of the database at
   the path, under the identity and the migrations of the exporter. *)
Export(p) ==
    /\ proc[p].pc = "open"
    /\ HasMemory /\ runtime.config = "whole"
    /\ Cardinality(bundles) < MaxBundles
    /\ bundles' = bundles \union {Bundle(p, AtPath)}
    /\ files' = [files EXCEPT ![proc[p].handle].folded = Held(p).log]
    /\ UNCHANGED <<runtime, mutations, policy, head, remote, proc>>
    /\ Observe

-----------------------------------------------------------------------------
(* bundles.py: restore. *)

(* The memory at the path is the bundle's, byte for byte. *)
SameMemory(b) ==
    /\ AtPath.folded = b.log
    /\ AtPath.meta = b.meta /\ AtPath.ledger = b.ledger

MayRestore(owner, b) ==
    /\ b.owner = owner
    /\ runtime # None /\ runtime.config = "whole"

(* _verify_snapshot_database: the staged copy is of this project and of the
   migrations of this release. *)
SoundSnapshot(release, owner, b) ==
    /\ b.meta # None /\ b.meta.ident = owner
    /\ b.declared = b.ledger /\ b.declared = release

(* How it could go wrong: a database at the path is not looked for. *)
StageOverMemory(p, owner, release, b) ==
    /\ proc[p].pc = "out"
    /\ MayRestore(owner, b) /\ SoundSnapshot(release, owner, b)
    /\ proc' = [proc EXCEPT ![p].pc = "staged", ![p].bundle = b]
    /\ UNCHANGED <<runtime, files, bundles, mutations, policy, head, remote>>
    /\ Observe

(* restore_bundle up to the staged copy; a process may hold a store meanwhile
   (restore_bundle_by_id) or not (the command that names an archive). *)
StageRestore(p, owner, release, b) ==
    /\ proc[p].pc = "out" \/ (proc[p].pc = "open" /\ owner = proc[p].owner /\ release = proc[p].release)
    /\ MayRestore(owner, b)
    /\ IF HasMemory
       THEN proc' = [proc EXCEPT ![p].status =
                        IF SameMemory(b) THEN "ALREADY_RESTORED" ELSE "DIVERGENT"]
       ELSE /\ SoundSnapshot(release, owner, b)
            /\ proc' = [proc EXCEPT ![p].pc = "staged", ![p].bundle = b]
    /\ UNCHANGED <<runtime, files, bundles, mutations, policy, head, remote>>
    /\ Observe

EndRestore(p, status) ==
    proc' = [proc EXCEPT ![p].pc = IF proc[p].handle = None THEN "out" ELSE "open",
                         ![p].status = status, ![p].bundle = None, ![p].backup = None]

(* The configuration is compared again, the memory is not; then the first
   rename. *)
MoveOut(p) ==
    /\ proc[p].pc = "staged"
    /\ runtime # None
    /\ IF runtime.config = "whole"
       THEN /\ proc' = [proc EXCEPT ![p].pc = "moved", ![p].backup = runtime]
            /\ runtime' = None
       ELSE EndRestore(p, "DRIFTED") /\ UNCHANGED runtime
    /\ UNCHANGED <<files, bundles, mutations, policy, head, remote>>
    /\ Observe

(* The second rename, onto a path nobody has taken. *)
MoveIn(p) ==
    /\ proc[p].pc = "moved"
    /\ runtime = None /\ Len(files) < MaxGenerations
    /\ LET b == proc[p].bundle
       IN files' = Append(files, [ledger |-> b.ledger, meta |-> b.meta,
                                  log |-> b.log, folded |-> b.log])
    /\ runtime' = Directory("whole", Len(files) + 1)
    /\ To(p, "installed")
    /\ UNCHANGED <<bundles, mutations, policy, head, remote>>
    /\ Observe

(* A rename that fails.  The handler puts the previous directory back only
   where there is none, and the cleanup removes it where there is one. *)
MoveInFails(p) ==
    /\ proc[p].pc = "moved"
    /\ runtime' = IF runtime = None THEN proc[p].backup ELSE runtime
    /\ EndRestore(p, "KEPT")
    /\ UNCHANGED <<files, bundles, mutations, policy, head, remote>>
    /\ Observe

ClearBackup(p) ==
    /\ proc[p].pc = "installed"
    /\ EndRestore(p, "RESTORED")
    /\ UNCHANGED <<runtime, files, bundles, mutations, policy, head, remote>>
    /\ Observe

(* A removal that stops halfway: the handler removes what was installed and
   puts back what is left of the previous directory. *)
ClearBackupFails(p) ==
    /\ proc[p].pc = "installed"
    /\ \E config \in {proc[p].backup.config, "half"} :
           runtime' = Directory(config, proc[p].backup.memory)
    /\ EndRestore(p, "KEPT")
    /\ UNCHANGED <<files, bundles, mutations, policy, head, remote>>
    /\ Observe

-----------------------------------------------------------------------------

Step(p) ==
    \/ \E o \in Identity, r \in Release : Connect(p, o, r)
    \/ RefuseLedger(p) \/ ApplyMigration(p)
    \/ ReadMetadata(p) \/ Bind(p) \/ UpgradeFormat(p)
    \/ Write(p) \/ Close(p)
    \/ AskSync(p) \/ Refuse(p) \/ ReadSyncPolicy(p) \/ Checkpoint(p)
    \/ CommitMemory(p) \/ PushMemory(p)
    \/ Export(p)
    \/ \E o \in Identity, r \in Release, b \in bundles : StageRestore(p, o, r, b)
    \/ MoveOut(p) \/ MoveIn(p) \/ MoveInFails(p)
    \/ ClearBackup(p) \/ ClearBackupFails(p)

Next == \E p \in Process : Step(p)

Spec == Init /\ [][Next]_vars

-----------------------------------------------------------------------------
(* Properties. *)

Generation == DOMAIN files
DirectoryType == [config : {"whole", "half", "lost"}, memory : {None} \union Generation]
Status == {"NOT_ATTEMPTED", "REFUSED", "DISABLED", "NO_CHANGES", "COMMITTED", "SYNCED",
           "ALREADY_RESTORED", "DIVERGENT", "DRIFTED", "KEPT", "RESTORED"}
ProcessType == [pc : {"out", "open"} \union Opening \union Syncing \union Restoring,
                owner : {None} \union Identity, release : {None} \union Release,
                handle : {None} \union Generation, seen : Seq(Checksum),
                mine : {None} \union Mutation, status : Status,
                bundle : {None} \union Archive, backup : {None} \union DirectoryType]

(* The state keeps its shape: what leads to a database leads to one that was
   created, and what a main file holds was written to its database. *)
StateTypes ==
    /\ runtime \in {None} \union DirectoryType
    /\ files \in Seq(Database)
    /\ \A g \in Generation : files[g].folded \subseteq files[g].log
    /\ bundles \subseteq Archive
    /\ mutations \in 0..MaxMutations
    /\ policy \in SyncPolicies
    /\ head \subseteq Nat /\ remote \subseteq Nat
    /\ proc \in [Process -> ProcessType]
TypeOK == StateTypes /\ came \in [Process -> SUBSET Generation] /\ strayed \subseteq Process

(* A store that is open is the project's own and holds every migration of the
   release that opened it, whatever other processes opened meanwhile: the
   ledger and the metadata are both read before the transactions that complete
   them (migrations.py:73, store.py:231). *)
OpenStoresAreOurs ==
    \A p \in Process :
        proc[p].pc \in {"open"} \union Syncing =>
            /\ Held(p).meta # None /\ Held(p).meta.ident = proc[p].owner
            /\ \A v \in DOMAIN proc[p].release :
                   v \in DOMAIN Held(p).ledger /\ Held(p).ledger[v] = proc[p].release[v]

(* The format a store announces is never ahead of the migrations it holds: a
   process that reads a format it knows finds every table of it.  (The converse
   does not hold when two releases open one store: UpgradeFormat may set an
   older format over a newer one.) *)
FormatIsNotAhead ==
    \A g \in Generation : Fits(files[g])

(* What the synchronisation answers after a commit is true of that commit as
   long as the path has led to the database it went to, although it folds and
   commits whatever database is at the path, other processes commit between its
   steps, and restores come and go: COMMITTED, NO_CHANGES and SYNCED mean that
   the branch holds the mutation, and SYNCED that origin does.
   (NO_CHANGES says nothing of origin: a push that failed is only tried again
   after the next change.) *)
SyncAnswersTrue ==
    \A p \in Process :
        (proc[p].pc = "open" /\ proc[p].mine # None /\ p \notin strayed) =>
            /\ proc[p].status \in {"COMMITTED", "NO_CHANGES", "SYNCED"} => proc[p].mine \in head
            /\ proc[p].status = "SYNCED" => proc[p].mine \in remote

(* A memory the project has written to leaves the runtime path only under a
   restore that had found no memory there, and only if it came there since
   (bundles.py:200 looks, 226 and 241 take away, and nothing looks between):
   installed by that restore, by another one, put back by one, or created by a
   process that opened the store meanwhile.  Nothing else ever takes a memory
   away, and no restore takes one that was there when it looked. *)
NoMemoryIsTakenAway ==
    [][\A g \in Generation :
          (g \in Lead \ Lead' /\ files[g].log # {})
              => \E p \in Process : /\ proc[p].pc \in Restoring /\ proc'[p] # proc[p]
                                    /\ g \in came[p]]_vars

(* bundles.py:245: "Restauration atomique impossible ; cible précédente
   conservée." -- the answer of a restore that failed after it had moved the
   previous runtime away. *)
RefusedRestoreKeepsTarget ==
    [][\A p \in Process :
          (proc[p].backup # None /\ proc'[p].status = "KEPT")
              => runtime' = proc[p].backup]_vars

=============================================================================
