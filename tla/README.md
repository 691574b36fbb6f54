# A verification project for VERA-MMU

VERA-MMU is a project memory: a SQLite store per project that keeps knowledge,
work items and the evidence behind them, written by several processes (command
line, desktop dashboard, MCP server, adapters of coding agents) and bound to one
Project Profile. Its claim is epistemic: nothing is called PROVEN, READY or
COMPLETED that the store cannot back, and nothing on record is lost or changed.
These modules model the part of the program that keeps that claim, check it with
TLC and prove it with TLAPS.

Source paths below are relative to `src/src/vera_mmu/`.

## 1. Inventory

### How the program runs

There is no server process that owns the store. Every process opens the SQLite
file (`store.py`), and every service writes inside `MemoryStore.transaction`,
which is `BEGIN IMMEDIATE ... COMMIT` (a savepoint when nested). SQLite admits one
writer at a time, triggers forbid UPDATE and DELETE on nearly every table, and
an exception rolls back. So the unit of interleaving is a **transaction**: an
operation that reads and writes inside one is atomic, and an operation that
reads outside, then writes inside one, is not. Files (the profile, catalogues,
journals, session state, client configuration, the runtime directory itself) are
outside any transaction: there the unit is **one file operation**.

| Component | State | Operations | Hard behaviour | What makes it correct |
|---|---|---|---|---|
| Capability registry (`capabilities`, `capability_contracts`, `capability_policies`) | three append-only tables | create, declare | calls in any order | an execution needs both a contract and ALLOW |
| Executions (`executions`, `runner_validator_compatibility`) | `execution` | four runners | two rows in one transaction | no execution without authority; a validation and its run together |
| Assets, evidence, validators (`assets`, `evidence`, `evidence_classes`, `validators`) | append-only tables | record, register, validate | a verdict is computed once from rows of others | a stored verdict still holds |
| Admission (`admission`, `admission_policies`) | one decision per evidence, one policy | declare, decide | concurrent deciders, policy declared late | one decision for ever, backed as the policy asks |
| Proofs (`proofs`, `proof_policies`) | `knowledge_proof`, one policy | declare, promote | processes with and without the secret | PROVEN is earned; all signed or none |
| Work items (`work_items`, `work_lifecycle`, `work_*_policies`, `work_readiness`) | items, lifecycle events, two policies | create, transition, declare | readiness evaluated once; hopeless items | what a completion was checked against stands |
| Gates and blockers (`gates`, `gate_*`, `work_blocker*`) | dependencies, gates, requirements, policies | add, declare, evaluate | cycles by concurrent additions, counts, freezing | acyclic graph, a frozen gate does not regress |
| Registries (`entities`, `relations`, `symbols`, `work_items`, `knowledge`, `supersession`, `provenance`) | append-only tables | register, create, append, supersede, attach | references and keys across tables, concurrent supersessions | relations respect their types, successions are lines |
| Imports (`import_batches`) | four ledgers of batches | prepare, import, replay | a long transaction over other services, refused or killed halfway | a batch is all there or not at all, and its replay is answered |
| Profile edits (`profile_rebind`, `store.rebind_identity`, `doctor`) | the profile file, the identity bound in the store, journals and backups | edit, recover | crash between two files and a database, several editors | profile and store agree, or a journal says how |
| Profile migration (`profile_migration`) | runtime directory, workspace roots, profile, journal, backup | prepare, execute, recover | every file operation may be the last, agents write meanwhile | no write is lost, the journal tells the place |
| Store and synchronisation (`store`, `migrations`, `memory_sync`) | databases, their ledger of migrations and metadata, a Git branch | open, write, close, synchronise | concurrent openers of two releases, each step may fail | an open store is the project's own and complete; an answer is true |
| Bundles (`bundles`) | archives, the runtime directory | export, restore | two renames beside processes that open the store | no memory is taken away |
| Setup and editors (`bootstrap`, `install_repair`, `policy_editor`, `capability_builder`, `gate_policy_builder`, `gate_builder`, `work_graph_config`, `profile_taxonomy`, `resume_contract_editor`, `project_catalogs`) | six files under `.vera-mmu`, previews held by a bridge, the rows declared from them | preview, confirm, apply, reload, synchronise | check and act in separate steps, stale previews | what was reviewed is what is applied; answers are true |
| Front and handoff (`front`, `handoff`) | a chain of revisions, handoffs that quote them | replace, update, prepare | current revision read outside the transaction, stores open across profile edits | history stays within a profile; the Front can always be replaced |
| Session lifecycle (`session_lifecycle`, `lifecycle_adapters`; hooks in `claude_code_local`, `claude_code_cloud`; `mmu_acknowledge_resume` in `mcp_server`) | per session a state file; the session binding, the liveness marker, the kill switch, the audit | claim, arm, check, acknowledge, release | files nobody locks, hooks and servers of several sessions, kills, a channel that dies | an acknowledgement is of the session's own last dossier; the barrier does not outlive its channel |
| Client adapters (`codex_adapter`, `gemini_adapter`, `antigravity_adapter`, `generic_mcp_adapter`, `claude_code_*`) | staged runtimes, receipts, shared configuration files of the clients | stage, preview, apply, install, trust | several files replaced one by one, entries of others in them | stages stand in order, half an installation can be completed, foreign entries survive |
| Desktop bridge (`desktop_bridge`) | previews cached per nonce | preview, apply | stale or foreign previews | an apply names a live preview |
| MCP server, APIs, command line, scans, catalogues of adapters, ARET pack, desktop shell | none of their own | dispatch, generate, read | - | not modelled (section 7) |

Components interact through shared tables and files only: an execution is referred to
by evidences, an evidence by validations, an admission, gates and proofs, a work item
by dependencies and gates; a catalogue declares rows of the registry; an adapter compiles
its plan from them. The evidence and the work graph meet in the *standing* of an
evidence, which is why it has a specification of its own (`AdmissionLedger`); readers and
writers of the registries meet in what an append-only store promises (`AppendOnlyStore`).

### Hazards

`PROJECT.json` lists them at their lines. They group as follows: verdicts and
readiness computed once and trusted for ever; policies declared late among rows
already there; references between rows of different services; concurrent
additions that are right one by one; long transactions that may end anywhere; an edit,
a migration, a restore or an installation that spans several files and databases,
interrupted anywhere or done twice at once; values read outside the transaction or before
the replacement that uses them; answers given to a caller while others write; and files
that several processes read and replace without a lock.

## 2. Modules

| Module | Models | Relation to others |
|---|---|---|
| `AdmissionLedger` | what an evidence is to the rest: absent, passing, failing, admitted, rejected | abstract specification |
| `EvidenceChain` | registry of capabilities, executions, assets, evidence, validators, admission, proofs | implements `AdmissionLedger` through the mapping `standing` |
| `WorkGraph` | work items, dependencies, gates, policies, lifecycle, readiness and reports | extends `AdmissionLedger`: the environment of the graph is any ledger step |
| `AppendOnlyStore` | what a reader of the registries may rely on: rows only appear, a key is used once, a batch appears whole | abstract specification |
| `Registry` | entities, relations, symbols, work items, knowledge, provenance, and the four kinds of import | implements `AppendOnlyStore` through the mapping `Visible`, `VisibleBatch` |
| `ProfileRebind` | edits of the Project Profile, their interruption and the Doctor's recovery | stands alone |
| `ProfileMigration` | the physical move of runtime and workspace roots, both strategies, and its recovery | stands alone |
| `StoreRuntime` | opening, migrating, writing and synchronising a store, exporting and restoring bundles | stands alone; what a transaction writes is the subject of the modules above |
| `ProjectSetup` | initialisation, repair, the editors, the builders and the synchronisation of declared capabilities | its edit of the profile is the uninterrupted one of `ProfileRebind` |
| `HostInstall` | staging, installing and trusting the seven adapters in the files of their clients | stands alone |
| `FrontHandoff` | the chain of Front revisions and the handoffs, written by stores that outlive edits of the profile | its edit of the profile is the uninterrupted one of `ProfileRebind` |
| `SessionLifecycle` | the resume guard as the hooks of Claude Code and the MCP servers drive it: binding, state files, marker, kill switch | its edit of the profile is the uninterrupted one of `ProfileRebind` |
| `MC_*` | instances for TLC: definitions for the inputs, symmetry, bounds | extend the module they check |
| `*_proofs` | theorems and their proofs; `ProjectFiles_proofs` for `ProfileMigration` and `ProjectSetup`, `UnlockedFiles_proofs` for `ProfileRebind` and `HostInstall`, the others for the module they are named after | extend the modules they prove about |

Definitions commented "how it could go wrong" belong to no specification: they are
plausible mistakes in one definition of the code, and each property is shown to be violated
under one of them.

### Correspondence with the code

*EvidenceChain.* A variable is a table, as a function from primary keys to rows;
`None` is an absent row. Primary keys and UNIQUE constraints become guards
(`evidence[e] = None`, one validator per kind, one result per validator and
evidence, one hash per asset). An action is one service method: its guard is the
method's checks inside the transaction, in any order since each of them refuses
the same way. A method that raises rolls back and is a stutter. `Admissible` is
the query on contract and policy that the four runners share. `RunEvidenceHash`
and `RunEvidenceFields` write the validation and the execution together. A content
is the set of its field names with the two fields EVIDENCE_ASSET reads; SHA-256 is
injective on the contents at hand (assumed, as everywhere in the program); an
HMAC digest is identified with the secret that made it, since the rest of the
envelope is the row itself. The PRIMARY KEY of admissions, validations and proofs is
left out next to their UNIQUE reference to an evidence, which names them as well.

*WorkGraph.* `status` folds the lifecycle events of an item, as every reader of
the code does. `Transitive` is the least closed set, which is what the recursive
CTE of `add_dependency` and the depth-first visit of `diagnose_transitive` compute.
`GatePasses` counts as `_gate_status` does; it is the same count as
`GateService.evaluate`. `checked` is a history variable: it records for a governed
COMPLETE the prerequisites and the frozen gates of that moment, which the audit
trail of the program also holds and no operation reads. The parent, priority and
assignee of an item are read by no guard of this module and left out. `DeclareGate` covers
`declare`, the case of no further requirement.

*Registry.* `db` holds one table per field, committed; `tx` is the import under way, with
the tables as its own connection sees them. A service call is one transaction and needs
that no import holds the writer's lock. The four `commit_*_import_batch` functions begin with
what they look up inside their transaction (`Begin...Import`: the ledger, the emptiness of
the target, the declared type), call the service of the target once per row
(`ImportRowStep`, where `RowFits` is that service's own check, on the tables as this
transaction sees them), and insert the ledger row last (`CommitImport`). A row that does not fit,
or the end of the process, takes back everything. A batch is its whole content, so its
fingerprint is the input itself; the inputs are what the four `_prepare` functions let
through (`PreparedBatch`). A batch that is on record is replayed or refused by the code: both
write nothing. `Follows` is the walk of `_would_create_cycle`, as the least closed set.

*ProfileRebind.* A profile content stands for its hash and its identity, an edit
for the pair of contents its preview hash names. Each action is one file
operation, one transaction, or one read that a later step relies on; an editor's
`at` is its place in `commit_profile_change`. `Raise` is an exception inside the
`try`, which runs the `finally`; `Kill` is the end of the process, which does not.
A `Kill` while the journal is written may leave it torn, since `write_text` is not
atomic; the profile is replaced by `os.replace`, which is.
`Confirm` takes the recomputed preview and the candidate content as one reading.

*ProfileMigration.* A tree (the runtime or a workspace root) has an old and a new place and its
content is the number of writes it has seen, `Half` while a copy or a removal is under way.
`exec.at` is the place in `execute_profile_physical_migration` and its handler, `recovery`
that in `recover_profile_physical_migration`. `Transitions` is the table of the code, so a
transition it does not list is an exception. `Raise` goes to the handler, `Stop` is the end of
the process, `Write` an agent of the project at any moment. The profile lies in the runtime and
moves with it. What a preparation has previewed is compared again by its runtime inventory only
(`profile_migration.py:470`), so `ReadyForExecutor` does not ask about the workspace roots. A write changes a
file that is there; one created in a directory after that directory was copied is not in
the list the comparison walks (`profile_migration.py:547`), and is not modelled. `late` and
`written` are history variables.

*StoreRuntime.* A database is a *generation*: a connection keeps the file it opened when
another takes its path. Opening is one action per reading and per transaction
(`Connect`, `ApplyMigration`, `ReadMetadata`, `Bind`, `UpgradeFormat`), so that processes of two
releases interleave. A commit is followed by the synchronisation with its refusals: the checkpoint,
the commit, the push, each of which may fail. A restore stages, moves the runtime away, installs,
removes the backup, with the handlers of `bundles.py` as actions of their own. Archives are their
contents; hashes and inventories are what they are computed from. SQLite, Git and the file system
are external: they are modelled by what the code relies on. Two history variables observe every
step: `came` holds the databases that came to the runtime path since the restore of a process has
looked there, `strayed` the processes whose database the path no longer led to at some moment since
their transaction.

*ProjectSetup.* A file is its declared content. A console previews (nothing is written), holds the
preview as the bridge does, and applies: it computes the preview again, compares, writes, and
reloads the catalogues. Between any two of these another console acts. What a founder or a repair has
yet to write is a set, `todo`, written in `InitOrder`; the rows a synchronisation has yet to look up are
a set, `rows`, looked up in the order `Before`. Six files are kept of the eight that `project_bootstrap.py:63-71`
orders: `playbook` stands also for `.gitignore`, written first, and `sync-policy.json`, written last,
which no catalogue and no editor refers to. An edit of the taxonomy counts the records of what it
removes (`_usage`), and the count may fail, in which case the code goes on as with no record. `excuse` is a
history variable of what no rule of the code excludes: two processes at work at once, somebody at
work beside an initialisation or a repair, an editor killed between its write and its reload, an
edited file that was lost, a file that was lost under anybody at work, a count that failed.

*HostInstall.* A configuration file of a client is the set of VERA's hooks and servers in it and
the entries of others. An adapter's files, their order, its plan, what it takes for its own and
what it refuses are tables by adapter, since the seven modules of code repeat one procedure with
these differences. A command reads and decides (`Compare`), replaces its files one by one (`WriteFile`) and writes
the receipt last (`WriteReceipt`); it may be killed or fail between two (`Stop`). `EditHost`, `ChangeCatalogue` and the
like are people and the host. `standalone` says in which form the local hooks are written: as a
console script or as `<binary> claude-code-local-hook` (`claude_code_local.py:647`), which the
cloud adapter does not recognise as VERA's (`claude_code_cloud.py:712`) and so neither checks nor
refuses. `mixed` says that a command wrote after anything else had changed since its reading,
be it a file, a receipt or a runtime, by another command or by the host, or that a person
cleared something.

*FrontHandoff.* A session is an open `MemoryStore`: the identity it was opened under
and, between the reading and the transaction of an operation, a draft of what it is
about to insert. Reading is one action (`Replace`, `Update`, `Prepare`), the
transaction another (`RecordFront`, `RecordHandoff`); an identifier used meanwhile is
refused by the PRIMARY KEY (`RefuseDuplicate`), and a process may stop in between
(`Close`). What is declared comes from the profile on disk, what is written goes under
the identity of the session: the two differ once a profile was edited under an open
store. A resume dossier is compiled just before `prepare` and refused when the profile
asks something else: both are one reading. The clock counts milliseconds and does not
go back. `overlapped` is a history variable: it says that an edit of the profile happened
while a store was open.

*SessionLifecycle.* A hook is a process the host waits for, so one session has one hook
at a time and different sessions interleave; `hook[s]` is its place. An action is one
reading or one `os.replace`: a hook reads the binding (`SessionStart`), writes it
(`Claim`), waits for the marker and reads the state file (`Arm`), replaces it
(`WriteArmed`) and appends the audit (`AuditArmed`). The server does the same for an
acknowledgement: the hook lets the call through (`CallAck`), the server asks the binding
whom it works for (`TargetAck`), takes the contract (`PinAck`), reads the state again and
compares (`ReadAckState`), writes (`WriteAck`) and audits (`AuditAck`). A check of a tool
changes nothing and is the operator `Denied`. A dossier is its hash, which any
compilation may change; whether the caller's sections suffice is a choice. The marker has
three ages, since the code compares its age with 90 s only. `Kill` ends host and server
of a session with the steps they had left. `EditProfile` includes the installation of the
adapter for the new profile, without which every hook refuses to run. `owed`, `taken`,
`raced` and `killed` are history variables: the last dossier armed and not acknowledged since; the
sessions that claimed the project between the moment a hook let an acknowledgement through and the
one at which the server has asked the binding; an arming that fell between the reading and
the writing of an acknowledgement; and a process that was killed.

## 3. Runs

| Run | Instance | Checks |
|---|---|---|
| `evidence_chain` | two capabilities, two executions, one evidence, asset and knowledge, every runner, validator and policy (3.04 million states) | `StrictAdmissionIsBacked`, `VerdictsStillHold`, `ProvenIsEarned`, `ImplementsLedger` |
| `work_graph` | three items, a gate, two evidences (973,000) | `Acyclic`, `GovernedCompletionStands`, `FrozenGatePassIsFinal`, `HopelessIsFinal` |
| `rebind_journal` | two editors in turn, interrupted anywhere, three profiles (153,000) | `OnlyRecoveryUncovers` |
| `front_chain` | two processes, three revisions, a handoff, two profiles that ask different fields (2.73 million) | `ChainStaysInProfile`, `QuietEditsKeepFrontWritable` |
| `session_guard` | two sessions, two dossiers, two profiles, the adapter that waits for the server (1.06 million) | `AcknowledgedOwesNothing`, `AcknowledgesWhoHeldIt`, `DeadChannelOpens` |
| `imports` | two entity types and entities, three knowledges, seven batches that agree, conflict, depend on each other or fail midway (314,000) | `TypeOK`, `ReplayAnswers`, `EmptyTargetsAreTakenOnce`, `RelationsRespectTypes`, `SuccessionsEnd`, `ImplementsStore`, `ImportsEnd` |
| `migration` | a runtime and two workspace roots, both strategies, a write to each tree (38,000) | `TypeOK`, `JournalTellsThePlace`, `WritesSurvive`, `OldProfileIsKept` |
| `store_runtime` | two processes, three releases, two identities, two transactions, an export, a bundle sent from elsewhere, restores at any step of the other process (3.04 million) | `OpenStoresAreOurs`, `FormatIsNotAhead`, `SyncAnswersTrue`, `NoMemoryIsTakenAway` |
| `restore_refused` | the same with processes that open the store during a restore | finds `RefusedRestoreKeepsTarget` violated |
| `project_setup` | two consoles, two domains, three requests of any kind (1.07 million) | `SetupTypeOK`, `BrokenCatalogsAreTold`, `NothingIsOrphaned`, `AnswersAreTrue`, `AppliedAsReviewed` |
| `required_fields` | one console | finds `SyncedFieldsAreRequired` violated |
| `host_install` | two commands, seven adapters, three catalogues, two places, both forms of the local hooks, a foreign entry, three commands and one change (1.54 million) | `HostTypeOK`, `StagesStandInOrder`, `HalfInstallsConverge`, `ForeignEntriesSurvive` |

### Where a property is conditioned

Some properties hold where something did not happen that the code does not exclude; a
history variable or a constraint says so, and what happens otherwise is listed below or under
the hazards.

- `QuietEditsKeepFrontWritable`: no profile was edited under an open store (`~overlapped`).
- `AcknowledgedOwesNothing`: no arming came between the reading and the writing of an
  acknowledgement, which overwrites it (`~raced`). Claims, stops, kills and restarts are not excepted.
- `AcknowledgesWhoHeldIt` has no condition: it says whom a server may acknowledge when the project
  changes hands between the hook and the server, its own session or one that claimed the
  project in that interval. The run does not follow a state after a race or with the kill switch on; the
  theorem `SessionsDoNotCross` does.
- `WritesSurvive`: no write came between the comparison of the copies and the removal of the
  originals (`~late`), nor did the clean-up after COMMITTED fail.
- `SyncAnswersTrue`: the path has led to the database of the transaction ever since it (`strayed`). Nothing
  is assumed of who opens, commits or restores meanwhile.
- `NoMemoryIsTakenAway` is a statement about every restore and every interleaving, and says what is
  lost at most: nothing looks at the path between `bundles.py:200` and the renames of 226 and 241,
  so what came there in that interval (`came`) may go, and nothing else ever does.
- `AppliedAsReviewed`, `NothingIsOrphaned`: no two processes were at work at once; the second also
  that no count of records failed at the apply.
- `BrokenCatalogsAreTold`: no editor was killed between its write and its reload once two
  processes had been at work at once; no initialisation or repair went beside anybody at work; no
  file was removed under anybody at work, and no edited file was removed.
- `StagesStandInOrder`: no command wrote after anything else had changed since its reading, and nobody
  cleared anything by hand (`~mixed`); `ForeignEntriesSurvive` excepts that write itself.
- `rebind_journal` and `migration` keep editors and recovery in turn (`InTurn`): nothing in the
  code guards against a Doctor that recovers the journal of an editor still at work, and the
  interleaving parts profile and store as the race of two editors does.

### Bounds

The constants of each cfg are the only bounds of the chain and the work
graph: tables are append-only and keyed by the constants, so state spaces are finite
without a cap. Three items are what a disagreement between direct and transitive
prerequisites and a cycle with an item in between need; a gate with a primary evidence
and one that is required late reaches every mode, with thresholds below and at its
count. `PoliciesThatAsk` leaves out the policies OPEN, under which nothing happens that
does not happen without one. One evidence meets every validator and every runner; what two
could add, a decision or a validation confused with another's, is covered by the proofs, which
are for any constants.

`imports` bounds the rows of the store (`MaxRows`, seven): enough for a type, two entities, a
relation type and a relation, or for three knowledges in a line with a batch beside them. Two
batches of knowledge that both ask for an empty target, two of one identifier with different
definitions, a batch of symbols the second of which is refused, and work items whose second refers
to the first are all there. `rebind_journal` bounds the traces of interrupted edits (`FewJournals`: three
journals, four backups), one more of each than changes an answer of the code, which
asks for zero, one or several journals. `migration` needs two roots, so that one has
moved and one has not, and one write to each tree before, during or after its copy.

`store_runtime` has a release, its successor and one of another history, so that a ledger is
older, newer or foreign; `MaxGenerations` allows a database and the one that replaces it,
`MaxMutations` one transaction that synchronises and one that overtakes it. Its `InScope` divides what
meets: releases and projects meet on one database, between restores and under the policy that commits;
restores meet every interleaving of opening, writing and synchronising of one release and one
project; a second database is met under the policy that pushes, whose steps contain those of the other. `project_setup` and
`host_install` bound the requests of people (`MaxRequests`, `MaxCalls`, `MaxChanges`): three is a
preview, an edit by another console in between and an apply, or an installation, one that
meets it, and the repetition of the first. In `FrontHandoff` the clock stops at `MaxNow`: two instants
let revisions share one or follow each other; three revisions make a chain with a fork or a
profile in between. In `SessionLifecycle` two sessions are what crossing them needs, two dossiers
what an acknowledgement of the wrong one needs, two profiles what a state file of another profile
needs. `InScope` does not follow a state in which a race has lost a dossier or the kill
switch is on; a second profile, a second dossier, an absent or dead channel and a kill are met by
one session alone; two sessions are not both in the middle of a hook and of an acknowledgement
at the same time, while a hook of the one meets an acknowledgement of the other at every
step. The proofs need none of it.

Symmetry is declared only over identifiers that no rule tells apart, and in no run with a
liveness property.

**Deadlock** is not checked: an append-only store whose identifiers are used up has
nothing left to do, and so has an editor, a migration or an installation that has finished.

### Fairness

Nothing in these components schedules an operation: each waits for a client, who may never
come. Two things happen by themselves. Time passes: `SessionLifecycle` assumes `WF_vars(Expire)`, by
which a marker no server touches grows older than 90 s; it is all `DeadChannelOpens` needs, so once no
server beats, a guard stops denying without any help of client or operator. And a commit
function of `import_batches` runs on, row by row, waiting for nobody: `Registry` assumes
`WF_vars(ImportStep)` for `ImportsEnd`, by which the one writer's lock of the store is given back
whether the import commits, is refused at a row or ends with its process. What the code owes about
progress elsewhere is stated as its safety side: `HopelessIsFinal` and `Acyclic` say where progress
is lost for good, `HalfInstallsConverge` that a stopped installation can be run again,
`OnlyRecoveryUncovers` where a recovery has nothing to work with.

### What the runs found

1. `restore_refused`: every OSError of a restore is answered with "cible précédente conservée"
   (`bundles.py:245`). A process that opens the store between the two renames recreates the
   directory; the second rename fails, the handler sees a runtime and leaves it, and the
   `finally` removes the backup. A removal of the backup that fails halfway ends likewise.
2. `required_fields`: a validator of declared fields that exists is skipped
   (`write_api.py:219`), although the docstring promises that the required keys of several
   capabilities are unioned: the fields of a capability declared later are required of nobody.

### Met while modelling, without a run

*Gates and profile edits.* `gate_reports._promotion` (`gate_reports.py:142`) reports a gate as
satisfiable only once it is satisfied, where the docstring promises "can still be met". An edit
killed after its journal and before the rebind of the store is completed by the Doctor for the
profile alone (`profile_rebind.py:235`): the store refuses the recovered profile and no journal is
left. `rebind_identity` compares the bound identity outside its transaction (`store.py:184`): two
editors can leave profile and store apart with no journal. An edit killed between backup and
journal is refused for ever with a request for a recovery that answers `NO_RECOVERY_REQUIRED`.

*Front and sessions.* A store open across an edit of the profile writes a Front with the new fields
under the old profile (`front.py:98`); back under that profile the Front can be neither read nor
replaced. Of two updates of different fields that read one Front, the second takes the first
back (`front.py:83`). The kill switch is read after the binding (`claude_code_local.py:510`,
`session_lifecycle.py:351`): when a session was killed without its Stop, every later session is
denied every tool and the switch opens nothing. A state file of an earlier profile denies its
session until the session is given up.

*Migration.* An exception after COMMITTED makes the handler move everything back under a journal that
stays COMMITTED. An error of a copy before SWITCHING cannot mark its journal ROLLED_BACK, which
`Transitions` does not allow there (`ENGINEERING_LOG.md:3396` says it does). A kill between the writing of the profile and the first move
ends in RECOVERY_REQUIRED, since the recovery compares the hash of canonical JSON with that of the
YAML file. A kill between EXECUTING and the backup is recovered by nothing. A journal COMMITTED or
ROLLED_BACK blocks every later preparation. Writes after the comparison of the copies are lost. The
handler of a refused copy removes a directory that was at the target before
(`profile_migration.py:975`).

*Store and bundles.* An older release that opens a store may set its format back; the migration
script of a second opener fails on what the first has created. A restore asks once whether the
database exists, and removes everything of the runtime that is not in the bundle. A restore by
identifier runs with the store open, so it never installs. NO_CHANGES is answered before the
push: a push that failed waits for the next change. The checkpoint folds whatever database is at
the path.

*Setup.* Two applies past their comparison lose one of the edits though both answer APPLIED. Two
initialisations of different domains mix their files. A repair restores the template over an edited
catalogue that was lost, which takes the edits with it. An editor of policies and one of capabilities,
each checked against the other's old file, leave catalogues that do not load; both are told. An
edited declaration never reaches the store. A locked or failing store counts as no use in `_usage`
(`profile_taxonomy.py:298`), so a type in use can be removed while the store is locked.

*Hosts.* The Doctor looks for `claude-code-local-runtime.json` (`adapter_catalog.py:23`), the
adapter writes `claude-code-local-install.json`. The path of the bridge's check for Codex and cloud is
a literal that never exists (`desktop_bridge.py:579`): they are CONFIG_ABSENT for ever. After any edit of
the host's files later applications are refused until the receipt is removed by hand. A change of the
capabilities makes a staged runtime stale until it is cleared by hand. `install_claude_code_mcp` has no
caller.

## 4. Proofs

Each theorem is for every value of the constants, under the named assumptions of the
modules: `None` is none of the rows, the inputs are of their types, `Evidence` is
finite (a gate counts it), bundles sent from elsewhere are snapshots of such a store
(`ShippedAssumption`), batches are what `_prepare` lets through (`InputsArePrepared`).

*EvidenceChain.* The safety properties are not inductive one by one: that an
admission stays backed needs that no validation changes, that a verdict still holds
needs that the evidence, its execution and the asset it was computed from do not.
The invariant is `TypeOK`, `RowsReferToRows` (the foreign keys: a row refers to
rows that exist) and the properties. Its preservation rests on two lemmas: `AppendOnly`,
by which every step keeps every row that is there, and the *writers*, one per table,
which say what a step that adds a row to it had checked. A row that was there before
keeps its property because what it refers to is still there; a new one has it from
its writer's guard. `ChainImplementsLedger` maps `RecordEvidence` and the two decisions to the
steps of the ledger and every other action to a stutter.

*WorkGraph.* `Acyclic` is inductive once the closure is taken as the least closed set:
a new arc from w to p puts no item behind itself unless w was behind p, which the guard
excludes. `GovernedCompletionStands` needs that a COMPLETED item is final, that the
requirements of a frozen gate do not change and that an admission is never withdrawn.
`FrozenGatePassIsFinal` and `HopelessIsFinal` are action properties: each follows from
how one step moves the sets of admitted and of admittable evidences, with the
cardinality theorems of the library for their counts.

*Registry.* `IInv` adds to the five invariants of the run `BatchesKeyed` (a batch is filed under its own
ledger and identifier) and `ImportStands`: the tables an import sees are the committed ones with
the rows it has inserted, whose keys were free, and the type it declares. That no other
transaction commits meanwhile is the lock of SQLite (`MayWrite`). From it `Committed` says what a commit
brings: the rows of the batch, its type, the batch, and nothing else. Every step lets the tables
grow (`Grows`), so a replay stays answered and a relation stays typed; a succession closes no
cycle because the walk of `_would_create_cycle` would have met its start. `StoreIsAppendOnly` maps every
service call to `AppendRows`, the commit of an import to `CommitBatch`, and every other step of an
import to a stutter: the long transaction is seen as one step or not at all. `RelationsStayTyped`,
`SuccessionsAreLines`, `BatchesReplay` and `EmptyTargetsGoOnce` follow from `IInv`.

*ProfileRebind.* The theorems are about editors in turn (`SpecInTurn`), as the run is. The invariant
`Orderly` is `Typed` with three facts: what an editor has read is still on disk, what the Doctor
writes is what its journal names, and who is at work is alone. `EditsStayCovered` is the action
property itself, for any number of profiles, editors and interruptions.

*StoreRuntime.* `Typed` gives databases, directories and processes their shapes. `OpenersAreServed` needs
`StoresServe`: whatever part of the ledger a process has read or completed is still there, because
`FilesMove` shows that a step leaves a database as it is, creates one, or lets its ledger grow.
`FormatsAreBacked` needs that a bundle carries its ledger with its format, and that a process writes its
format only when it has seen all its migrations applied (`EverythingFits`). `AnswersOfSyncAreTrue` and
`MemoriesStay` are about every behaviour of `Spec`, restores and openings at any step of each other. For the
first, a process that has not strayed finds its database at the path (`Lead`), so that what it folds,
commits and pushes is that database; and its last mutation has travelled as far as its place says,
from the log to the database file, to the branch, to the remote (`MineTravels`). That several
processes write and synchronise one store at once disturbs neither, because log, file, branch and
remote only grow. For the second, a restore at work has found no memory at the path, so whatever
the path leads to since is in `came`.


*ProfileMigration.* The theorems are about an executor and a recovery in turn (`SpecInTurn`), as the
run is. `IInv` has one invariant per strategy, and says where trees, profile, backup and journal are
at each place of the executor, of its handler and of the recovery: renamed, every tree is whole at one
place, in the order of the executor (`Parted`), and the profile is where the runtime is; copied, the
originals are intact while the journal prepares (`Preparing`) and have whole copies while it replaces
(`Replacing`). It is needed because a stop may come anywhere: what the recovery finds is any of
these places. `JournalIsTrue`, `NoWriteIsLost` and `ThereIsAWayBack` follow from it.

*ProjectSetup.* What a console read is used several steps later, so `SetupIInv` says what a process
holds, and the history `excuse` says from when on it need not hold any more:

- `Alone`: while `excuse` is without "overlap" one process is at work, without "initialisation" nobody is
  beside a founder or a repair;
- `FoundersKnow`: a founder has before it exactly the files it has written, a repair the profile whose
  domain it restores; `SameProject`: no preview proposes the profile of another project;
- `NothingStale`: what an apply has compared still holds when it writes, records included;
- `EditorsHaveAll`: an editor of a catalogue has all the catalogues before it;
- `CatalogsAreSound`: the catalogues *together with what a repair would restore* are sound one by one, and
  declare what their template does. Absent files are why it is stated of `Restored`: a file may be lost
  and restored between any two edits, and only a file that was never edited comes back as it was;
- `DisagreementIsTold`: capabilities and policies agree, or somebody was told, or two editors met and one of
  them has yet to reload.

`NoRecordIsOrphaned`, `BrokenCatalogsAreKnown` and `EditsAreAsReviewed` follow from it; `AnswersStayTrue` and
`SetupTypeCorrect` need its part about shapes, in which a synchronisation has on record, still before it or at
hand every row it read. The assumptions are that an input is not `Absent`, and that the declarations VERA
ships are sound (`TemplateAssumption`, `project_bootstrap.py:24-42`), which is a fact about constants
of the code.

*HostInstall.* A command reads a client's files, merges, and replaces them one by one; others do the same, and
the host edits them. `HostIInv` is `HostTyped`, `AllCurrent`, `Ordered` and `HalfInstallsConverge`. `AllCurrent`
says that as long as nothing else was changed (`fresh`), what a command decided is still right between its
own writes: what it has merged is the merge of what is there, a file it has written is as it will be, its plan fits the runtime that is staged.
`Ordered` adds to `StagesStandInOrder` that a command about to write stands on the stage before. Without
`AllCurrent` neither is inductive: a write puts into a file what was read some steps ago. `HalfInstallsConverge` rests on one
fact about the tables of the seven adapters, that an adapter accepts what it merged itself (`Fits` of a
merge), for any catalogue and place, and stays so since the form of the local hooks does not change (`FitsStay`). `HostEntriesSurvive` is the action property, from the same invariant.
`ProfileRebind` and `HostInstall` share a proof module because both are about files that are replaced one by one
without a lock, `ProfileMigration` and `ProjectSetup` because both are about the files of a project as a whole.

*FrontHandoff.* `ChainStaysInProfile` is not inductive: the predecessor is chosen in one
step and inserted in another. The invariant adds that a draft refers to rows of the
identity it will be recorded under (`DraftsFollow`) and that no row is of the future;
rows are append-only, so what a draft refers to is still there when it is recorded.
`HistoryInv` says that, unless an edit overlapped a session, every open store has the identity
of the profile on disk, from which drafts, and then rows, have the fields and contract their
profile asks. The theorems cite one lemma per way a row or a draft comes about.

*SessionLifecycle.* `GuardsAreAudited` needs only that the process that replaced a state file is
at its audit. `AcknowledgementsAreGiven` rests on `AckInv`,
conditioned on `~raced`: an acknowledgement that has read a state still finds it there, with the
dossier that is owed, and a hook that preserves an acknowledged state has seen one that owes
nothing. An arming by another process disturbs it, which is where `raced` becomes true; that
`raced` stays true carries the condition from the next state to this one. `SessionsDoNotCross` has an invariant
of its own, `CrossInv`, and no condition: while an acknowledgement has been let through and the server has not
asked yet, nobody holds the project but the server's own session or one that has claimed since
(`taken`), and the target it has found is one of these.

*Proved and not run.* Some theorems state facts TLC checked while they were proved and that now
stand on their proofs alone: the type invariants of `EvidenceChain`, `WorkGraph`, `FrontHandoff`,
`SessionLifecycle`, `ProfileRebind` and `StoreRuntime`, `OnlyAuthorisedExecutions`, `HmacPolicyIsFollowed`, `AdmissionsAreCountedOnce`,
`ReportAgrees`, `HandoffsQuoteTheirFront`, `QuietHandoffsCarryTheirContract` and `GuardsAreAudited`.

*Model-checked only.* The two liveness properties, `DeadChannelOpens` and `ImportsEnd`: liveness, ENABLED and
recursion over data are outside this prover's reach. No RECURSIVE operator is used in any module. Every
invariant and every action property of a passing run has its theorem. The two runs that expect a violation are
counterexamples, which need none.

## 5. Plan

What is left, in order:

1. What the conditions of section 3 exclude, as theorems of what is lost at most: of two applies past their
   comparison, that each wrote what it had reviewed; of a rebind beside a recovery, which of profile and store is ahead.
2. A reader of `GateService.evaluate` and of the reports statement by statement, beside decisions and
   requirements of other processes: the one composite reading of `WorkGraph` that is taken at one instant.
3. The hooks of the adapters of Codex, Gemini and Antigravity as instances of `SessionLifecycle`.

## 6. How to run

    tlc -workers 2 -config EvidenceChain_chain.cfg MC_EvidenceChain.tla
    tlc -workers 2 -config Registry_imports.cfg MC_Registry.tla
    tlapm EvidenceChain_proofs.tla
    tlapm Registry_proofs.tla

Every other run and proof is the same with the module and configuration named in
`PROJECT.json`, which also maps each definition to the lines it models and pairs each property
with a mutation of the code that breaks it. A passing run takes between seconds and three
minutes, a proof module at most a few minutes.

## 7. What is not modelled

The wording of messages, audit payloads and actors; the JSON schemas of parameters;
addresses and canonical JSON, abstracted to injective names. The adapters of Codex, Gemini and
Antigravity drive the guard of `SessionLifecycle` by a part of the same hooks and have no module of
their own for it; their installation is in `HostInstall`. Argument handling (`__main__`,
`read_api`, the rest of `write_api` and of `desktop_bridge`) and the dispatch of the MCP server keep no
state between two calls. Generators of manifests, instructions and client configuration are pure
compilations, abstracted to who, where and of which catalogue. The scan of a project tree, its import
and the recommendations are pure functions of files; the checks of the Doctor other than
the recovery read and report. The ARET domain pack and the desktop shell hold no state that the
components above depend on. Corruption of the SQLite file and writes that bypass the program are
outside: the triggers of the schema are assumed to hold, and so is what SQLite, Git and the file
system promise one operation at a time.
