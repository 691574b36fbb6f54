----------------------------- MODULE ProjectSetup -----------------------------
(***************************************************************************)
(* The declarative files of a project and the consoles that edit them: the   *)
(* initialisation that writes them, the repair that restores the missing      *)
(* ones, the editors of policies, capabilities, resume contract and taxonomy, *)
(* the builders of gates and work-graph policies, and the materialisation of  *)
(* the declared capabilities in the store.                                    *)
(*                                                                            *)
(* Every console works in two calls: a preview, which writes nothing and is   *)
(* bound by a hash to what it was computed from, and a confirmed apply, which *)
(* computes the preview again, refuses when the hash has changed, and writes. *)
(* The desktop bridge keeps previews for as long as it runs.  Nothing locks    *)
(* the files between the second computation and the write.                    *)
(*                                                                            *)
(* A file is its declared content; the wording of its lines is left out.  The  *)
(* journal around an edit of the profile is ProfileRebind's subject: here the  *)
(* profile is replaced in one step.                                           *)
(***************************************************************************)
EXTENDS Naturals, FiniteSets

CONSTANTS
    Absent,
    Process,      \* desktop bridges and command lines
    Project,      \* what an initialisation may be asked for
    Template,     \* [Project -> set of contracts]: the declarations of a domain
    DomainTypes,  \* [Project -> set of types]: the taxonomy of a domain
    Draft,        \* the contracts a person may declare
    Runner,       \* the runners policies may allow
    Host,         \* the agent profiles VERA ships
    Mode,         \* the two modes either work-graph policy has
    Evidence,     \* what a gate may require
    MaxRequests   \* bound on the requests of the persons at the consoles

ASSUME SetupAssumption ==
    /\ MaxRequests \in Nat /\ IsFiniteSet(Evidence)
    /\ \A pr \in Project : Template[pr] # {}

VARIABLES
    files,    \* the files under .vera-mmu
    store,    \* what the consoles read and write in the memory
    previews, \* the previews each process keeps
    proc,     \* the processes
    requests, \* how many requests have been made
    told,     \* somebody was told that the catalogs do not load
    excuse    \* what has happened that no rule of the code excludes

setupVars == <<files, store, previews, proc, requests, told, excuse>>

-----------------------------------------------------------------------------
(* The files. *)

(* In the order of the initialisation; playbook stands for the three files no
   catalog refers to. *)
InitOrder == [agent_profiles |-> 1, capabilities |-> 2, gates |-> 3, playbook |-> 4,
              policies |-> 5, project |-> 6]
File == {"agent_profiles", "capabilities", "gates", "playbook", "policies", "project"}
REPAIRABLE_FILES == File \ {"project"}

First(f, todo) == f \in todo /\ \A g \in todo : InitOrder[f] <= InitOrder[g]

Contract == (UNION {Template[pr] : pr \in Project}) \union Draft
Type == UNION {DomainTypes[pr] : pr \in Project}
ProjectFile == [project : Project, types : SUBSET Type, enabled : SUBSET Host]

Ids(contracts) == {c.id : c \in contracts}
Runners(contracts) == {c.runner : c \in contracts}

(* preview_project_initialization: what each file holds for a domain.  The
   runners allowed and the gates are those of the declarations. *)
Reference(pr) ==
    [f \in File |->
        CASE f = "agent_profiles" -> Host
          [] f = "capabilities"   -> Template[pr]
          [] f = "gates"          -> Ids(Template[pr])
          [] f = "playbook"       -> pr
          [] f = "policies"       -> Runners(Template[pr])
          [] OTHER -> [project |-> pr, types |-> DomainTypes[pr], enabled |-> {}]]

VALIDATOR_RUNNERS == {"EVIDENCE_FIELDS", "EVIDENCE_HASH"}

(* _validate_capabilities, of one declaration: what is not a matter of form. *)
SoundContract(c) ==
    /\ c.runner \in VALIDATOR_RUNNERS => c.validator = c.runner
    /\ c.validator = "EVIDENCE_FIELDS" => c.fields # {}

SoundCapabilities(contracts) ==
    /\ \A c \in contracts : SoundContract(c)
    /\ \A c, d \in contracts : c.id = d.id => c = d

SoundGates(gates, contracts) == gates \subseteq Ids(contracts)

RunnersAllowed(contracts, allowed) == Runners(contracts) \subseteq allowed

(* load_project_catalogs succeeds. *)
CatalogsLoad(catalogs) ==
    /\ \A f \in File \ {"playbook"} : catalogs[f] # Absent
    /\ SoundCapabilities(catalogs["capabilities"])
    /\ SoundGates(catalogs["gates"], catalogs["capabilities"])
    /\ RunnersAllowed(catalogs["capabilities"], catalogs["policies"])
    /\ catalogs["project"].enabled \subseteq catalogs["agent_profiles"]

Loadable == CatalogsLoad(files)

(* VERA ships sound declarations, and no content of a file is its absence. *)
ASSUME TemplateAssumption == \A pr \in Project : SoundCapabilities(Template[pr])
ASSUME AbsentAssumption ==
    /\ Absent \notin Project /\ Absent \notin Mode
    /\ \A written \in {Host} \union (SUBSET Contract) \union (SUBSET Ids(Contract)) \union ProjectFile
                     \union (SUBSET (Runner \union Runners(Contract))) \union (SUBSET Evidence) :
           written # Absent

Installed == \A f \in File : files[f] # Absent
Missing == {f \in REPAIRABLE_FILES : files[f] = Absent}
Edited(f) == files["project"] # Absent /\ files[f] # Reference(files["project"].project)[f]

-----------------------------------------------------------------------------

Idle == [pc |-> "idle", draft |-> Absent, todo |-> {}, rows |-> {}, row |-> Absent,
         snapshot |-> {}, status |-> "NONE"]

NoStore == [rows |-> {}, start |-> Absent, completion |-> Absent,
            gate |-> Absent, gate_policy |-> Absent, records |-> {}]

SetupInit ==
    /\ \/ files = [f \in File |-> Absent]
       \/ \E pr \in Project : files = Reference(pr)
    /\ store = NoStore
    /\ previews = [p \in Process |-> {}]
    /\ proc = [p \in Process |-> Idle]
    /\ requests = 0
    /\ told = FALSE /\ excuse = {}

Busy(p) == proc[p].pc # "idle"
Founding(p) == proc[p].pc \in {"initialising", "repairing"}

Request(p) ==
    /\ proc[p].pc = "idle"
    /\ requests < MaxRequests
    /\ requests' = requests + 1

(* Nothing stops two processes from working at once; the history says so. *)
Begins(founding, p, noted) ==
    excuse' = excuse \union noted
        \union (IF \E q \in Process \ {p} : Busy(q) THEN {"overlap"} ELSE {})
        \union (IF \E q \in Process \ {p} : (Busy(q) /\ founding) \/ Founding(q)
                THEN {"initialisation"} ELSE {})

To(p, pc) == proc' = [proc EXCEPT ![p].pc = pc]
Ends(p, status) == proc' = [proc EXCEPT ![p] = [Idle EXCEPT
                        !.status = status, !.draft = proc[p].draft, !.snapshot = proc[p].snapshot]]
(* The bridge forgets a preview only once it has been applied. *)
Applied(p) ==
    /\ Ends(p, "APPLIED")
    /\ previews' = [previews EXCEPT ![p] = @ \ {proc[p].draft}]
Refused(p) == Ends(p, "REFUSED") /\ UNCHANGED previews

-----------------------------------------------------------------------------
(* project_bootstrap.py. *)

(* apply_project_initialization: every target is compared before any is
   written. *)
StartInitialization(p, pr) ==
    /\ Request(p)
    /\ \A f \in File : files[f] \in {Absent, Reference(pr)[f]}
    /\ \E f \in File : files[f] = Absent
    /\ proc' = [proc EXCEPT ![p] = [Idle EXCEPT
                    !.pc = "initialising", !.draft = pr,
                    !.todo = {f \in File : files[f] = Absent}]]
    /\ Begins(TRUE, p, {})
    /\ UNCHANGED <<files, store, previews, told>>

WriteInitialFile(p, f) ==
    /\ proc[p].pc = "initialising" /\ First(f, proc[p].todo)
    /\ files' = [files EXCEPT ![f] = Reference(proc[p].draft)[f]]
    /\ IF proc[p].todo = {f}
       THEN Ends(p, "INITIALIZED")
       ELSE proc' = [proc EXCEPT ![p].todo = @ \ {f}]
    /\ UNCHANGED <<store, previews, requests, told, excuse>>

-----------------------------------------------------------------------------
(* Previews.  A preview keeps what it was computed from (base). *)

Keep(p, kind, base, content) ==
    /\ previews' = [previews EXCEPT ![p] = @ \union
                        {[kind |-> kind, base |-> base, content |-> content]}]
    /\ UNCHANGED <<files, store, proc, told, excuse>>

(* The reference is that of the profile's domain. *)
PreviewRepair(p) ==
    /\ Request(p)
    /\ files["project"] # Absent /\ Missing # {}
    /\ Keep(p, "repair", Missing, files["project"].project)

AllowedCandidate(allowed) == Loadable /\ RunnersAllowed(files["capabilities"], allowed)

PreviewPolicyEdit(p, allowed) ==
    /\ Request(p)
    /\ AllowedCandidate(allowed) /\ allowed # files["policies"]
    /\ Keep(p, "policy", files["policies"], allowed)

(* The refusals of the builder that are not a matter of form. *)
ContractCandidate(c) ==
    /\ Loadable
    /\ c.id \notin Ids(files["capabilities"])
    /\ c.runner \in files["policies"]
    /\ SoundContract(c)

PreviewCapability(p, c) ==
    /\ Request(p)
    /\ ContractCandidate(c)
    /\ Keep(p, "capability", files["capabilities"], c)

Available == IF Loadable THEN files["agent_profiles"] ELSE {}

ResumeCandidate(enabled) == files["project"] # Absent /\ enabled \subseteq Available

PreviewResumeEdit(p, enabled) ==
    /\ Request(p)
    /\ ResumeCandidate(enabled) /\ enabled # files["project"].enabled
    /\ Keep(p, "resume", files["project"], [files["project"] EXCEPT !.enabled = enabled])

(* _usage: the types that carry records, or none at all when the workspace does
   not resolve or SQLite refuses to count. *)
TaxonomyCandidate(types, counted) ==
    /\ files["project"] # Absent
    /\ counted => (files["project"].types \ types) \intersect store.records = {}
    /\ types # {}

PreviewTaxonomyEdit(p, types, counted) ==
    /\ Request(p)
    /\ TaxonomyCandidate(types, counted) /\ types # files["project"].types
    /\ Keep(p, "taxonomy", files["project"], [files["project"] EXCEPT !.types = types])

(* Either policy may be left unnamed, and one that is declared blocks. *)
WorkGraphCandidate(content) ==
    /\ content[1] # Absent => store.start = Absent
    /\ content[2] # Absent => store.completion = Absent

PreviewWorkGraph(p, content) ==
    /\ Request(p)
    /\ files["project"] # Absent
    /\ content # <<Absent, Absent>> /\ WorkGraphCandidate(content)
    /\ Keep(p, "work_graph", <<store.start, store.completion>>, content)

PreviewGateStructure(p, required) ==
    /\ Request(p)
    /\ files["project"] # Absent
    /\ store.gate = Absent /\ required # {}
    /\ Keep(p, "gate_structure", Absent, required)

PreviewGatePolicy(p, minimum) ==
    /\ Request(p)
    /\ files["project"] # Absent
    /\ store.gate # Absent /\ store.gate_policy = Absent
    /\ minimum \in 1..Cardinality(store.gate)
    /\ Keep(p, "gate_policy", store.gate, minimum)

-----------------------------------------------------------------------------
(* Confirmed applies: the second computation of the preview. *)

(* How it could go wrong: the hash leaves out the bytes of the file. *)
PolicyAgreesInContent(d) == AllowedCandidate(d.content)
PolicyAgrees(d) == files["policies"] = d.base /\ AllowedCandidate(d.content)
CapabilityAgrees(d) == files["capabilities"] = d.base /\ ContractCandidate(d.content)
ResumeAgrees(d) == files["project"] = d.base /\ ResumeCandidate(d.content.enabled)
(* How it could go wrong: the records are not counted again. *)
TaxonomyAgreesInFile(d, counted) == files["project"] = d.base
TaxonomyAgrees(d, counted) ==
    files["project"] = d.base /\ TaxonomyCandidate(d.content.types, counted)
RepairAgrees(d) == files["project"] # Absent /\ Missing = d.base /\ files["project"].project = d.content
WorkGraphAgrees(d) == <<store.start, store.completion>> = d.base /\ WorkGraphCandidate(d.content)
GateStructureAgrees(d) == store.gate = Absent
GatePolicyAgrees(d) == store.gate = d.base /\ store.gate_policy = Absent

ApplyNoting(p, d, kind, pc, agrees, noted) ==
    /\ proc[p].pc = "idle" /\ d.kind = kind
    /\ IF agrees
       THEN /\ proc' = [proc EXCEPT ![p] = [Idle EXCEPT !.pc = pc, !.draft = d,
                            !.todo = IF kind = "repair" THEN d.base ELSE {}]]
            /\ Begins(kind = "repair", p, noted)
       ELSE /\ proc' = [proc EXCEPT ![p] = [Idle EXCEPT !.status = "STALE", !.draft = d]]
            /\ UNCHANGED excuse
    /\ UNCHANGED <<files, store, previews, requests, told>>

Apply(p, d, kind, pc, agrees) == ApplyNoting(p, d, kind, pc, agrees, {})

ApplyPolicyEdit(p, d) == Apply(p, d, "policy", "writing", PolicyAgrees(d))
ApplyCapability(p, d) == Apply(p, d, "capability", "writing", CapabilityAgrees(d))
ApplyResumeEdit(p, d) == Apply(p, d, "resume", "writing", ResumeAgrees(d))
ApplyTaxonomyEdit(p, d, counted) ==
    ApplyNoting(p, d, "taxonomy", "writing", TaxonomyAgrees(d, counted),
                IF counted THEN {} ELSE {"uncounted"})
ApplyRepair(p, d) == Apply(p, d, "repair", "repairing", RepairAgrees(d))
ApplyWorkGraph(p, d) == Apply(p, d, "work_graph", "starting", WorkGraphAgrees(d))
ApplyGateStructure(p, d) == Apply(p, d, "gate_structure", "declaring", GateStructureAgrees(d))
ApplyGatePolicy(p, d) == Apply(p, d, "gate_policy", "declaring", GatePolicyAgrees(d))

-----------------------------------------------------------------------------
(* Confirmed applies: what is written. *)

Writes(p, kind, file, content) ==
    /\ proc[p].pc = "writing" /\ proc[p].draft.kind = kind
    /\ files' = [files EXCEPT ![file] = content]
    /\ To(p, "reloading")
    /\ UNCHANGED <<store, previews, requests, told, excuse>>

WritePolicies(p) == Writes(p, "policy", "policies", proc[p].draft.content)
WriteCatalog(p) == Writes(p, "capability", "capabilities",
                          proc[p].draft.base \union {proc[p].draft.content})
WriteResumeContract(p) == Writes(p, "resume", "project", proc[p].draft.content)
WriteTaxonomy(p) == Writes(p, "taxonomy", "project", proc[p].draft.content)

(* How it could go wrong: the written catalogs are not loaded. *)
TrustCatalogs(p) ==
    /\ proc[p].pc = "reloading" /\ proc[p].draft.kind \in {"policy", "capability"}
    /\ Applied(p) /\ UNCHANGED told
    /\ UNCHANGED <<files, store, requests, excuse>>

(* The editor loads what it wrote together with the other catalogs. *)
ReloadCatalogs(p) ==
    /\ proc[p].pc = "reloading" /\ proc[p].draft.kind \in {"policy", "capability"}
    /\ IF Loadable
       THEN Applied(p) /\ UNCHANGED told
       ELSE Refused(p) /\ told' = TRUE
    /\ UNCHANGED <<files, store, requests, excuse>>

(* An edit of the profile is followed by a load of the profile alone. *)
ReloadProfile(p) ==
    /\ proc[p].pc = "reloading" /\ proc[p].draft.kind \in {"resume", "taxonomy"}
    /\ files["project"] # Absent
    /\ Applied(p)
    /\ UNCHANGED <<files, store, requests, told, excuse>>

(* Missing files one by one, in the same order, each only where there is none. *)
RestoreFile(p, f) ==
    /\ proc[p].pc = "repairing" /\ First(f, proc[p].todo)
    /\ IF files[f] # Absent
       THEN Refused(p) /\ UNCHANGED files
       ELSE /\ files' = [files EXCEPT ![f] = Reference(proc[p].draft.content)[f]]
            /\ IF proc[p].todo = {f}
               THEN Applied(p)
               ELSE proc' = [proc EXCEPT ![p].todo = @ \ {f}] /\ UNCHANGED previews
    /\ UNCHANGED <<store, requests, told, excuse>>

(* Two transactions; each table takes one row and no other. *)
DeclareStartPolicy(p) ==
    LET mode == proc[p].draft.content[1]
    IN /\ proc[p].pc = "starting"
       /\ IF mode # Absent /\ store.start # Absent
          THEN Refused(p) /\ UNCHANGED store
          ELSE /\ store' = [store EXCEPT !.start = IF mode = Absent THEN @ ELSE mode]
               /\ To(p, "completing") /\ UNCHANGED previews
       /\ UNCHANGED <<files, requests, told, excuse>>

DeclareCompletionPolicy(p) ==
    LET mode == proc[p].draft.content[2]
    IN /\ proc[p].pc = "completing"
       /\ IF mode # Absent /\ store.completion # Absent
          THEN Refused(p) /\ UNCHANGED store
          ELSE /\ store' = [store EXCEPT !.completion = IF mode = Absent THEN @ ELSE mode]
               /\ Applied(p)
       /\ UNCHANGED <<files, requests, told, excuse>>

(* gates.py declares a gate with its requirements, or a policy whose threshold
   the requirements of that moment can meet. *)
DeclareGate(p) ==
    /\ proc[p].pc = "declaring" /\ proc[p].draft.kind = "gate_structure"
    /\ IF store.gate # Absent
       THEN Refused(p) /\ UNCHANGED store
       ELSE store' = [store EXCEPT !.gate = proc[p].draft.content] /\ Applied(p)
    /\ UNCHANGED <<files, requests, told, excuse>>

DeclareGatePolicy(p) ==
    /\ proc[p].pc = "declaring" /\ proc[p].draft.kind = "gate_policy"
    /\ IF store.gate_policy # Absent \/ proc[p].draft.content > Cardinality(store.gate)
       THEN Refused(p) /\ UNCHANGED store
       ELSE store' = [store EXCEPT !.gate_policy = proc[p].draft.content] /\ Applied(p)
    /\ UNCHANGED <<files, requests, told, excuse>>

(* A requirement added to a gate without a policy, by the tools of the server. *)
AddRequirement(p, e) ==
    /\ Request(p)
    /\ store.gate # Absent /\ store.gate_policy = Absent /\ e \notin store.gate
    /\ store' = [store EXCEPT !.gate = @ \union {e}]
    /\ UNCHANGED <<files, previews, proc, told, excuse>>

-----------------------------------------------------------------------------
(* write_api.py: the declared capabilities in the store, and a record. *)

TABLES == <<"capability", "contract", "policy">>
Row(table, key, value) == [table |-> table, key |-> key, value |-> value]
OnRecord(row) == \E r \in store.rows : r.table = row.table /\ r.key = row.key

(* Each declaration becomes three rows, each validator kind one; the fields of
   the kind EVIDENCE_FIELDS are those of every declaration. *)
RequiredKeys(contracts, kind) ==
    IF kind = "EVIDENCE_FIELDS"
    THEN UNION {c.fields : c \in {d \in contracts : d.validator = kind}} ELSE {}

DeclaredRows(contracts) ==
    {Row(TABLES[n], c.id, {}) : n \in 1..3, c \in contracts}
        \union {Row("validator", c.validator, RequiredKeys(contracts, c.validator)) : c \in contracts}

(* The rows of one declaration in order, the validators after them all. *)
Before(r, s) ==
    IF s.table = "validator" THEN r.table # "validator"
    ELSE /\ r.key = s.key
         /\ \E m, n \in 1..3 : m < n /\ TABLES[m] = r.table /\ TABLES[n] = s.table

StartSync(p) ==
    /\ Request(p)
    /\ Loadable
    /\ proc' = [proc EXCEPT ![p] = [Idle EXCEPT !.pc = "syncing",
                    !.snapshot = files["capabilities"], !.rows = DeclaredRows(files["capabilities"])]]
    /\ Begins(FALSE, p, {})
    /\ UNCHANGED <<files, store, previews, told>>

(* How it could go wrong: the rows of a capability on record are skipped. *)
LookForCapability(p, r) ==
    /\ proc[p].pc = "syncing" /\ r \in proc[p].rows
    /\ \A s \in proc[p].rows : ~Before(s, r)
    /\ IF OnRecord(r)
       THEN proc' = [proc EXCEPT ![p].rows = {s \in @ : s.key # r.key}]
       ELSE proc' = [proc EXCEPT ![p].rows = @ \ {r}, ![p].pc = "inserting", ![p].row = r]
    /\ UNCHANGED <<files, store, previews, requests, told, excuse>>

(* The row is looked up outside the transaction that inserts it. *)
LookForRow(p, r) ==
    /\ proc[p].pc = "syncing" /\ r \in proc[p].rows
    /\ \A s \in proc[p].rows : ~Before(s, r)
    /\ proc' = [proc EXCEPT ![p].rows = @ \ {r},
                            ![p].pc = IF OnRecord(r) THEN "syncing" ELSE "inserting",
                            ![p].row = IF OnRecord(r) THEN Absent ELSE r]
    /\ UNCHANGED <<files, store, previews, requests, told, excuse>>

(* How it could go wrong: a row of another process is left beside. *)
InsertRowAnyway(p) ==
    /\ proc[p].pc = "inserting"
    /\ store' = [store EXCEPT !.rows = @ \union {proc[p].row}]
    /\ proc' = [proc EXCEPT ![p].pc = "syncing", ![p].row = Absent]
    /\ UNCHANGED <<files, previews, requests, told, excuse>>

InsertRow(p) ==
    /\ proc[p].pc = "inserting"
    /\ IF OnRecord(proc[p].row)
       THEN Ends(p, "REFUSED") /\ UNCHANGED store
       ELSE /\ store' = [store EXCEPT !.rows = @ \union {proc[p].row}]
            /\ proc' = [proc EXCEPT ![p].pc = "syncing", ![p].row = Absent]
    /\ UNCHANGED <<files, previews, requests, told, excuse>>

EndSync(p) ==
    /\ proc[p].pc = "syncing" /\ proc[p].rows = {}
    /\ Ends(p, "SYNCED")
    /\ UNCHANGED <<files, store, previews, requests, told, excuse>>

(* append_knowledge: the type is resolved against the profile, then appended. *)
ResolveType(p, type) ==
    /\ Request(p)
    /\ files["project"] # Absent /\ type \in files["project"].types
    /\ proc' = [proc EXCEPT ![p] = [Idle EXCEPT !.pc = "appending", !.row = type]]
    /\ Begins(FALSE, p, {})
    /\ UNCHANGED <<files, store, previews, told>>

AppendRecord(p) ==
    /\ proc[p].pc = "appending"
    /\ store' = [store EXCEPT !.records = @ \union {proc[p].row}]
    /\ Ends(p, "APPENDED")
    /\ UNCHANGED <<files, previews, requests, told, excuse>>

-----------------------------------------------------------------------------
(* Faults. *)

(* A process ends at any point, and its previews with it. *)
Kill(p) ==
    /\ Busy(p) \/ previews[p] # {}
    /\ proc' = [proc EXCEPT ![p] = Idle]
    /\ previews' = [previews EXCEPT ![p] = {}]
    /\ excuse' = IF proc[p].pc = "reloading" THEN excuse \union {"killed"} ELSE excuse
    /\ UNCHANGED <<files, store, requests, told>>

(* A person removes a file. *)
Lose(f) ==
    /\ requests < MaxRequests
    /\ requests' = requests + 1
    /\ f \in REPAIRABLE_FILES /\ files[f] # Absent
    /\ files' = [files EXCEPT ![f] = Absent]
    /\ excuse' = excuse
        \union (IF Edited(f) THEN {"lost"} ELSE {})
        \union (IF \E p \in Process : Busy(p) THEN {"overlap", "initialisation"} ELSE {})
    /\ UNCHANGED <<store, previews, proc, told>>

-----------------------------------------------------------------------------

Asks(p) ==
    \/ \E pr \in Project : StartInitialization(p, pr)
    \/ PreviewRepair(p)
    \/ \E allowed \in SUBSET Runner : PreviewPolicyEdit(p, allowed)
    \/ \E c \in Draft : PreviewCapability(p, c)
    \/ \E enabled \in SUBSET Host : PreviewResumeEdit(p, enabled)
    \/ \E types \in SUBSET Type, counted \in BOOLEAN : PreviewTaxonomyEdit(p, types, counted)
    \/ \E s, c \in {Absent} \union Mode : PreviewWorkGraph(p, <<s, c>>)
    \/ \E required \in SUBSET Evidence : PreviewGateStructure(p, required)
    \/ \E minimum \in 1..Cardinality(Evidence) : PreviewGatePolicy(p, minimum)
    \/ \E e \in Evidence : AddRequirement(p, e)
    \/ StartSync(p)
    \/ \E type \in Type : ResolveType(p, type)

Confirms(p) ==
    \E d \in previews[p] :
        \/ ApplyPolicyEdit(p, d) \/ ApplyCapability(p, d)
        \/ ApplyResumeEdit(p, d)
        \/ \E counted \in BOOLEAN : ApplyTaxonomyEdit(p, d, counted)
        \/ ApplyRepair(p, d) \/ ApplyWorkGraph(p, d)
        \/ ApplyGateStructure(p, d) \/ ApplyGatePolicy(p, d)

Works(p) ==
    \/ \E f \in File : WriteInitialFile(p, f) \/ RestoreFile(p, f)
    \/ WritePolicies(p) \/ WriteCatalog(p) \/ ReloadCatalogs(p)
    \/ WriteResumeContract(p) \/ WriteTaxonomy(p) \/ ReloadProfile(p)
    \/ DeclareStartPolicy(p) \/ DeclareCompletionPolicy(p)
    \/ DeclareGate(p) \/ DeclareGatePolicy(p)
    \/ \E r \in proc[p].rows : LookForRow(p, r)
    \/ InsertRow(p) \/ EndSync(p)
    \/ AppendRecord(p)

SetupNext ==
    \/ \E p \in Process : Asks(p) \/ Confirms(p) \/ Works(p) \/ Kill(p)
    \/ \E f \in File : Lose(f)

SetupSpec == SetupInit /\ [][SetupNext]_setupVars

-----------------------------------------------------------------------------
(* Properties. *)

(* The files and the tables keep their shapes, and a process that works for a
   person still holds the preview it was asked to apply. *)
SetupTypeOK ==
    /\ files["agent_profiles"] \in {Absent, Host}
    /\ files["capabilities"] \in {Absent} \union SUBSET Contract
    /\ files["policies"] \in {Absent} \union SUBSET (Runner \union Runners(Contract))
    /\ files["gates"] \in {Absent} \union SUBSET Ids(Contract)
    /\ files["project"] \in {Absent} \union ProjectFile
    /\ \A r \in store.rows : r.table \in {"capability", "contract", "policy", "validator"}
    /\ \A r, s \in store.rows : (r.table = s.table /\ r.key = s.key) => r = s
    /\ \A r \in store.rows : r.table \in {"contract", "policy"} =>
           \E s \in store.rows : s.table = "capability" /\ s.key = r.key
    /\ store.start \in {Absent} \union Mode /\ store.completion \in {Absent} \union Mode
    /\ store.gate \in {Absent} \union SUBSET Evidence
    /\ store.gate_policy # Absent => store.gate_policy \in 1..Cardinality(store.gate)
    /\ store.records \subseteq Type
    /\ \A p \in Process :
           proc[p].pc \in {"writing", "reloading", "repairing", "starting", "completing", "declaring"}
               => proc[p].draft \in previews[p]

(* Catalogs that do not load are known to somebody: when nobody is at work on
   a complete installation, either its catalogs load or an editor has been
   answered that what it wrote is refused by the Core (policy_editor.py:186,
   capability_builder.py:412) -- also when two editors, of the policies and of
   the capabilities, both passed the cross-check of the other's file before
   either wrote.  Excepted: an editor killed between its write and its reload,
   once any two processes have been at work at the same time; an initialisation
   or a repair beside anybody at work; a file removed under anybody at work; and
   an edited file that was removed, to be restored from its template. *)
BrokenCatalogsAreTold ==
    (/\ Installed /\ \A p \in Process : ~Busy(p)
     /\ {"initialisation", "lost"} \intersect excuse = {}
     /\ ~({"killed", "overlap"} \subseteq excuse))
        => Loadable \/ told

(* An edit replaces the very file its reviewer saw, however long the preview
   was kept and whatever was edited, restored or reverted meanwhile, as long as
   no two processes were at work at once. *)
AppliedAsReviewed ==
    [][\A p \in Process :
          (/\ proc[p].pc = "writing" /\ proc'[p].pc = "reloading" /\ "overlap" \notin excuse)
              => CASE proc[p].draft.kind = "policy" -> files["policies"] = proc[p].draft.base
                   [] proc[p].draft.kind = "capability" -> files["capabilities"] = proc[p].draft.base
                   [] OTHER -> files["project"] = proc[p].draft.base]_setupVars

(* profile_taxonomy.py:170: no edit of the taxonomy leaves a record without its
   type, although records are written between the preview and its apply, as
   long as no two processes were at work at once and the records could be
   counted when the edit was applied: a count that fails is taken for none
   (profile_taxonomy.py:298), at the preview without consequence, at the apply
   with it. *)
NothingIsOrphaned ==
    (files["project"] # Absent /\ {"overlap", "uncounted"} \intersect excuse = {})
        => store.records \subseteq files["project"].types

(* What a console answers is so, whatever other processes write at the same
   time: after SYNCED every declared capability has its three rows and its
   kind a validator, and after APPLIED the work graph has the very policies
   that were reviewed. *)
AnswersAreTrue ==
    \A p \in Process :
        /\ proc[p].status = "SYNCED" =>
               \A r \in DeclaredRows(proc[p].snapshot) : OnRecord(r)
        /\ (proc[p].status = "APPLIED" /\ proc[p].draft.kind = "work_graph") =>
               /\ proc[p].draft.content[1] \in {Absent, store.start}
               /\ proc[p].draft.content[2] \in {Absent, store.completion}

(* write_api.py:208: "When several capabilities share `EVIDENCE_FIELDS` their
   required keys are unioned, which means evidence must then carry every
   declared field". *)
SyncedFieldsAreRequired ==
    \A p \in Process : proc[p].status = "SYNCED" =>
        \A c \in proc[p].snapshot : c.validator = "EVIDENCE_FIELDS" =>
            \E r \in store.rows : r.table = "validator" /\ r.key = c.validator /\ c.fields \subseteq r.value

=============================================================================
