---------------------------- MODULE HostInstall ----------------------------
(* Installing VERA in the agent clients of a project (codex_adapter.py,       *)
(* gemini_adapter.py, antigravity_adapter.py, generic_mcp_adapter.py,         *)
(* claude_code_local.py, claude_code_cloud.py, claude_code_installer.py).     *)
(*                                                                            *)
(* An adapter compiles a plan from the catalogue in the store and the place   *)
(* of the project, stages it under .vera-mmu, merges its hooks and its MCP    *)
(* server into the files of the host, which also hold entries of others, and  *)
(* writes a receipt last. Several adapters share .claude/settings.json and    *)
(* .mcp.json. Commands run in processes of their own, without a lock: each    *)
(* reads, decides, and replaces the files one by one; it may be killed or     *)
(* fail between two of them. The host and a person edit the same files.       *)
EXTENDS Naturals, FiniteSets

CONSTANTS
    Process,        \* commands and desktop bridges
    Catalogue,      \* contents of the capability registry
    Allowed(_),     \* the capabilities a catalogue allows
    Place,          \* where the directory of the project may stand
    Foreign,        \* entries of the host files that are not VERA's
    Nothing,        \* no staged runtime, no receipt, no answer yet
    MaxCalls,       \* bound on the commands started
    MaxChanges      \* bound on what the host and people do in between

ASSUME HostAssumption ==
    /\ \A k \in Catalogue : IsFiniteSet(Allowed(k))
    /\ MaxCalls \in Nat /\ MaxChanges \in Nat

VARIABLES
    catalogue,      \* what the store declares now
    place,          \* where the project stands now
    staged,         \* the staged runtime of each adapter
    receipt,        \* the receipt of each adapter
    file,           \* the configuration files of the host
    trust,          \* the project's server in the user's Claude settings
    call,           \* the command each process runs
    half,           \* the adapter whose last command stopped between two writes
    mixed,          \* whether a write ever followed another its command had not read,
                    \* or a person cleared something
    calls, changes,
    standalone      \* whether local hooks call the standalone CLI, not a console script

hostVars == <<catalogue, place, staged, receipt, file, trust, call, half, mixed, calls,
              changes, standalone>>

----------------------------------------------------------------------------
(* The adapters, their files, and what they put there.                       *)

Attested == {"cloud", "codex", "gemini", "antigravity", "generic"}
Adapter == Attested \cup {"local", "installer"}

HooksFile == [local |-> "settings", cloud |-> "settings", codex |-> "codex_hooks",
              gemini |-> "gemini", antigravity |-> "antigravity",
              generic |-> "none", installer |-> "none"]
ServerFile == [local |-> "mcp", cloud |-> "mcp", codex |-> "codex_config",
               gemini |-> "gemini", antigravity |-> "antigravity",
               generic |-> "mcp", installer |-> "mcp"]
File == {"settings", "mcp", "codex_hooks", "codex_config", "gemini", "antigravity"}

\* The files of an adapter.
Files(a) == {HooksFile[a], ServerFile[a]} \cap File

Anywhere == "anywhere"      \* an entry that names the project by a variable
AnyBuild == "any"           \* an entry without the hash of the manifest

\* What the host files can hold.
Entries == [by : Adapter, at : Place \cup {Anywhere}]
Servers == [by : Adapter, bound : Adapter, of : Catalogue \cup {AnyBuild},
            at : Place \cup {Anywhere}]
HostFile == [hooks : SUBSET Entries, servers : SUBSET Servers, foreign : SUBSET Foreign]
Runtimes == [allowed : {Allowed(k) : k \in Catalogue},
             of : Catalogue \cup {AnyBuild}, at : Place \cup {Anywhere}]

ASSUME NothingAssumption ==
    /\ Nothing \notin Process \cup Adapter \cup Runtimes
    /\ \A a \in Attested : Nothing \notin [Files(a) -> HostFile]

Hooks(a, at) == [by |-> a, at |-> at]
Server(a, bound, of, at) == [by |-> a, bound |-> bound, of |-> of, at |-> at]
Runtime(of, at) == [allowed |-> Allowed(catalogue), of |-> of, at |-> at]
PlanOf(a, of, at) ==
    [hooks |-> Hooks(a, at), server |-> Server(a, a, of, at), runtime |-> Runtime(of, at)]

\* The server entry of a Claude adapter carries the hash of the manifest; the
\* others carry the absolute path of the project.
LocalPlan == PlanOf("local", catalogue, Anywhere)
CloudPlan == PlanOf("cloud", catalogue, Anywhere)
CodexPlan == PlanOf("codex", AnyBuild, place)
GeminiPlan == PlanOf("gemini", AnyBuild, place)
AntigravityPlan == PlanOf("antigravity", AnyBuild, place)
GenericPlan == PlanOf("generic", AnyBuild, place)

\* The plain server of the compiled integration: its manifest was compiled for
\* the bindings of one adapter.
Integration(a, of) == Server("installer", a, of, Anywhere)

InstallerPlan ==
    [hooks |-> Nothing, server |-> Integration("local", catalogue), runtime |-> Nothing]

Plan(a) ==
    CASE a = "local" -> LocalPlan
      [] a = "cloud" -> CloudPlan
      [] a = "codex" -> CodexPlan
      [] a = "gemini" -> GeminiPlan
      [] a = "antigravity" -> AntigravityPlan
      [] a = "generic" -> GenericPlan
      [] a = "installer" -> InstallerPlan

\* A manifest exposes every capability that is allowed, and at least one.
Compiles == Allowed(catalogue) # {}

\* A staged runtime is recompiled from the store and must come out the same.
CodexLoads == Compiles /\ staged["codex"] = CodexPlan.runtime
GeminiLoads == Compiles /\ staged["gemini"] = GeminiPlan.runtime
AntigravityLoads == Compiles /\ staged["antigravity"] = AntigravityPlan.runtime
GenericLoads == Compiles /\ staged["generic"] = GenericPlan.runtime
CloudLoads == Compiles /\ staged["cloud"] = CloudPlan.runtime
\* The local adapter has no runtime to load: its state is written by the
\* installation, and one that is there must be that of the plan.
LocalLoads == Compiles /\ staged["local"] \in {Nothing, LocalPlan.runtime}

Loads(a) ==
    CASE a = "codex" -> CodexLoads
      [] a = "gemini" -> GeminiLoads
      [] a = "antigravity" -> AntigravityLoads
      [] a = "generic" -> GenericLoads
      [] a = "cloud" -> CloudLoads
      [] a = "local" -> LocalLoads
      [] a = "installer" -> Compiles

----------------------------------------------------------------------------
(* Merging a plan: what is there of others stays, what is there of VERA must  *)
(* be the same as the plan's.                                                *)

HooksIn(a, host) == IF HooksFile[a] = "none" THEN {} ELSE host[HooksFile[a]].hooks
ServersIn(a, host) == host[ServerFile[a]].servers

OnlyOwnHooks(a, plan, host) == \A h \in HooksIn(a, host) : h.by = a => h = plan.hooks
OnlyOwnServer(a, plan, host) == ServersIn(a, host) \subseteq {plan.server}
\* A Claude adapter takes over the plain server of the integration.
OwnOrPlainServer(a, plan, host) ==
    ServersIn(a, host) \subseteq {plan.server, Integration(a, plan.server.of)}

CodexFits(plan, host) == OnlyOwnHooks("codex", plan, host) /\ OnlyOwnServer("codex", plan, host)
GeminiFits(plan, host) == OnlyOwnHooks("gemini", plan, host) /\ OnlyOwnServer("gemini", plan, host)
AntigravityFits(plan, host) ==
    OnlyOwnHooks("antigravity", plan, host) /\ OnlyOwnServer("antigravity", plan, host)
GenericFits(plan, host) == OnlyOwnServer("generic", plan, host)
InstallerFits(plan, host) == OnlyOwnServer("installer", plan, host)
LocalFits(plan, host) == OnlyOwnHooks("local", plan, host) /\ OwnOrPlainServer("local", plan, host)
\* The cloud adapter knows VERA's hooks by the name of a console script, which
\* those of the local one bear unless they call the standalone CLI; the local
\* adapter does not know those of the cloud one.
CloudHooksFit(plan, host) ==
    \A h \in HooksIn("cloud", host) : (h.by = "cloud" \/ ~standalone) => h = plan.hooks
CloudServerFits(plan, host) == OwnOrPlainServer("cloud", plan, host)

Fits(a, plan, host) ==
    CASE a = "codex" -> CodexFits(plan, host)
      [] a = "gemini" -> GeminiFits(plan, host)
      [] a = "antigravity" -> AntigravityFits(plan, host)
      [] a = "generic" -> GenericFits(plan, host)
      [] a = "installer" -> InstallerFits(plan, host)
      [] a = "local" -> LocalFits(plan, host)
      [] a = "cloud" -> CloudHooksFit(plan, host) /\ CloudServerFits(plan, host)

(* How it could go wrong: the file is rebuilt from VERA's entries alone.     *)
MergedAlone(a, plan, host) ==
    [host EXCEPT ![ServerFile[a]] = [hooks |-> @.hooks, servers |-> {plan.server}, foreign |-> {}]]

(* How it could go wrong: the server is added beside the one it takes over.  *)
MergedBeside(a, plan, host) ==
    [f \in File |->
        [hooks |-> host[f].hooks \cup (IF f = HooksFile[a] THEN {plan.hooks} ELSE {}),
         servers |-> host[f].servers \cup (IF f = ServerFile[a] THEN {plan.server} ELSE {}),
         foreign |-> host[f].foreign]]

\* The files of the host with the entries of the adapter, which replace no
\* entry but that of the plain server under the same identifier.
Merged(a, plan, host) ==
    [f \in File |->
        [hooks |-> host[f].hooks \cup (IF f = HooksFile[a] THEN {plan.hooks} ELSE {}),
         servers |-> IF f = ServerFile[a] THEN {plan.server} ELSE host[f].servers,
         foreign |-> host[f].foreign]]

\* The receipt of an adapter quotes the whole text of its files.
ReceiptText(a, host) == [f \in Files(a) |-> host[f]]

----------------------------------------------------------------------------
(* Commands.                                                                 *)

Idle == [adapter |-> Nothing, step |-> "IDLE", next |-> Nothing, plan |-> Nothing,
         todo |-> {}, fresh |-> TRUE, wrote |-> FALSE, answer |-> Nothing]

EmptyFile == [hooks |-> {}, servers |-> {}, foreign |-> {}]

HostInit ==
    /\ catalogue \in Catalogue /\ place \in Place
    /\ staged = [a \in Adapter |-> Nothing]
    /\ receipt = [a \in Attested |-> Nothing]
    /\ file = [f \in File |-> EmptyFile]
    /\ trust = "ABSENT"
    /\ call = [p \in Process |-> Idle]
    /\ half = Nothing /\ mixed = FALSE
    /\ calls = 0 /\ changes = 0
    /\ standalone \in BOOLEAN

\* Somebody else changes what a command under way has read.
Outdate(except) ==
    [q \in Process |-> IF q = except THEN call[q] ELSE [call[q] EXCEPT !.fresh = FALSE]]

\* A command that starts, after the last one of its process ended or its
\* preview was put aside.
Starts(p) ==
    /\ call[p].step \in {"IDLE", "SHOWN"} /\ calls < MaxCalls /\ calls' = calls + 1
    /\ UNCHANGED <<catalogue, place, staged, receipt, file, trust, half, mixed, changes, standalone>>

Becomes(p, c) == call' = [call EXCEPT ![p] = c]
Answered(a, answer) == [Idle EXCEPT !.adapter = a, !.answer = answer]

\* Stage: the compiled plan and the staged text are compared.
StageOf(a) ==
    IF ~Compiles THEN Answered(a, "REFUSED")
    ELSE IF staged[a] = Plan(a).runtime THEN Answered(a, "UNCHANGED")
    ELSE IF staged[a] # Nothing THEN Answered(a, "REFUSED")
    ELSE [Idle EXCEPT !.adapter = a, !.step = "STAGE", !.plan = Plan(a)]

StageCodex(p) == Starts(p) /\ Becomes(p, StageOf("codex"))
StageGemini(p) == Starts(p) /\ Becomes(p, StageOf("gemini"))
StageAntigravity(p) == Starts(p) /\ Becomes(p, StageOf("antigravity"))
StageGeneric(p) == Starts(p) /\ Becomes(p, StageOf("generic"))
StageCloud(p) == Starts(p) /\ Becomes(p, StageOf("cloud"))
StageLocal(p) == Starts(p) /\ Becomes(p, StageOf("local"))

\* Preview: the merged files, shown before anything is written.
PreviewOf(a) ==
    IF Loads(a) /\ Fits(a, Plan(a), file)
    THEN [Idle EXCEPT !.adapter = a, !.step = "SHOWN", !.plan = Plan(a),
                      !.next = Merged(a, Plan(a), file)]
    ELSE Answered(a, "REFUSED")

PreviewCodex(p) == Starts(p) /\ Becomes(p, PreviewOf("codex"))
PreviewGemini(p) == Starts(p) /\ Becomes(p, PreviewOf("gemini"))
PreviewAntigravity(p) == Starts(p) /\ Becomes(p, PreviewOf("antigravity"))
PreviewGeneric(p) == Starts(p) /\ Becomes(p, PreviewOf("generic"))
PreviewCloud(p) == Starts(p) /\ Becomes(p, PreviewOf("cloud"))

(* How it could go wrong: an installation needs its hooks to be new.         *)
AcceptedOnce(a, next) ==
    /\ Loads(a) /\ Fits(a, Plan(a), file) /\ Merged(a, Plan(a), file) = next
    /\ receipt[a] \in {Nothing, ReceiptText(a, next)}
    /\ receipt[a] = Nothing => Plan(a).hooks \notin HooksIn(a, file)

\* Apply: the plan and the preview are compiled again from what is there now, and a
\* receipt that is there must be the one this installation would write.
Accepted(a, next) ==
    /\ Loads(a) /\ Fits(a, Plan(a), file) /\ Merged(a, Plan(a), file) = next
    /\ receipt[a] \in {Nothing, ReceiptText(a, next)}

Confirmed(p, a) ==
    IF Accepted(a, call[p].next)
    THEN [call[p] EXCEPT !.step = "COMPARE", !.plan = Plan(a), !.fresh = TRUE]
    ELSE Answered(a, "REFUSED")

Applies(p, a) ==
    /\ call[p].step = "SHOWN" /\ call[p].adapter = a
    /\ Becomes(p, Confirmed(p, a))
    /\ UNCHANGED <<catalogue, place, staged, receipt, file, trust, half, mixed, calls, changes, standalone>>

ApplyCodex(p) == Applies(p, "codex")
ApplyGemini(p) == Applies(p, "gemini")
ApplyAntigravity(p) == Applies(p, "antigravity")
ApplyGeneric(p) == Applies(p, "generic")
ApplyCloud(p) == Applies(p, "cloud")

(* How it could go wrong: only the file with the server is ever written.     *)
ToWriteServer(a, next) ==
    {f \in Files(a) : f = ServerFile[a] /\ file[f] # next[f]}

\* The files that differ from the merged ones.
ToWrite(a, next) == {f \in Files(a) : file[f] # next[f]}

\* The files are read once more, to write only those that differ.
Compare(p) ==
    /\ call[p].step = "COMPARE"
    /\ Becomes(p, [call[p] EXCEPT !.step = "WRITE",
                   !.todo = ToWrite(call[p].adapter, call[p].next)])
    /\ UNCHANGED <<catalogue, place, staged, receipt, file, trust, half, mixed, calls, changes, standalone>>

\* The local adapter installs in one command, from one reading of the files.
InstallLocal(p) ==
    /\ Starts(p)
    /\ Becomes(p,
        IF ~ (LocalLoads /\ LocalFits(LocalPlan, file)) THEN Answered("local", "REFUSED")
        ELSE IF Merged("local", LocalPlan, file) = file /\ staged["local"] = LocalPlan.runtime
        THEN Answered("local", "UNCHANGED")
        ELSE [Idle EXCEPT !.adapter = "local", !.step = "WRITE", !.plan = LocalPlan,
              !.next = Merged("local", LocalPlan, file),
              !.todo = ToWrite("local", Merged("local", LocalPlan, file))])

\* The plain installer knows one file and no receipt.
InstallServer(p) ==
    /\ Starts(p)
    /\ Becomes(p,
        IF ~ (Compiles /\ InstallerFits(InstallerPlan, file)) THEN Answered("installer", "REFUSED")
        ELSE IF ServersIn("installer", file) # {} THEN Answered("installer", "UNCHANGED")
        ELSE [Idle EXCEPT !.adapter = "installer", !.step = "WRITE", !.plan = InstallerPlan,
              !.next = Merged("installer", InstallerPlan, file), !.todo = {"mcp"}])

\* User scope: the receipt of the cloud installation must be that of the files
\* as they are, and a server disabled by hand stays disabled.
Trust(p) ==
    /\ Starts(p)
    /\ Becomes(p,
        IF ~ /\ CloudLoads /\ CloudHooksFit(CloudPlan, file) /\ CloudServerFits(CloudPlan, file)
             /\ receipt["cloud"] = ReceiptText("cloud", Merged("cloud", CloudPlan, file))
             /\ trust # "DISABLED"
        THEN Answered("cloud", "REFUSED")
        ELSE IF trust = "ENABLED" THEN Answered("cloud", "UNCHANGED")
        ELSE [Idle EXCEPT !.adapter = "cloud", !.step = "TRUST"])

----------------------------------------------------------------------------
(* Writes: each one replaces a file.                                         *)

WriteStaged(p) ==
    /\ call[p].step = "STAGE"
    /\ staged' = [staged EXCEPT ![call[p].adapter] = call[p].plan.runtime]
    /\ call' = [Outdate(p) EXCEPT ![p] = Answered(call[p].adapter, "STAGED")]
    /\ mixed' = (mixed \/ ~call[p].fresh) /\ half' = Nothing
    /\ UNCHANGED <<catalogue, place, receipt, file, trust, calls, changes, standalone>>

\* The file with the hooks is replaced before the file with the server.
WriteFile(p) ==
    LET a == call[p].adapter
        f == IF HooksFile[a] \in call[p].todo THEN HooksFile[a] ELSE ServerFile[a]
    IN /\ call[p].step = "WRITE" /\ f \in call[p].todo
       /\ file' = [file EXCEPT ![f] = call[p].next[f]]
       /\ call' = [Outdate(p) EXCEPT ![p] = [call[p] EXCEPT !.todo = @ \ {f}, !.wrote = TRUE]]
       /\ mixed' = (mixed \/ ~call[p].fresh) /\ half' = Nothing
       /\ UNCHANGED <<catalogue, place, staged, receipt, trust, calls, changes, standalone>>

\* What the command answers once its files are written.
Done(p, differs) ==
    [Answered(call[p].adapter, IF call[p].wrote \/ differs THEN "APPLIED" ELSE "UNCHANGED")
     EXCEPT !.wrote = call[p].wrote \/ differs]
Written(p) == call[p].step = "WRITE" /\ call[p].todo = {}

WriteReceipt(p) ==
    LET a == call[p].adapter
        text == ReceiptText(a, call[p].next)
    IN /\ Written(p) /\ a \in Attested
       /\ receipt' = [receipt EXCEPT ![a] = text]
       /\ call' = [(IF receipt[a] # text THEN Outdate(p) ELSE call)
                   EXCEPT ![p] = Done(p, receipt[a] # text)]
       /\ mixed' = (mixed \/ (receipt[a] # text /\ ~call[p].fresh))
       /\ half' = IF receipt[a] # text THEN Nothing ELSE half
       /\ UNCHANGED <<catalogue, place, staged, file, trust, calls, changes, standalone>>

\* The local adapter writes its state where none was; the installer has none.
WriteState(p) ==
    LET absent == call[p].adapter = "local" /\ staged["local"] = Nothing
    IN /\ Written(p) /\ call[p].adapter \in {"local", "installer"}
       /\ staged' = IF absent THEN [staged EXCEPT !["local"] = call[p].plan.runtime] ELSE staged
       /\ call' = [(IF absent THEN Outdate(p) ELSE call) EXCEPT ![p] = Done(p, absent)]
       /\ mixed' = (mixed \/ (absent /\ ~call[p].fresh))
       /\ half' = IF absent THEN Nothing ELSE half
       /\ UNCHANGED <<catalogue, place, receipt, file, trust, calls, changes, standalone>>

WriteTrust(p) ==
    /\ call[p].step = "TRUST"
    /\ trust' = "ENABLED"
    /\ call' = [Outdate(p) EXCEPT ![p] = Answered("cloud", "APPLIED")]
    /\ mixed' = (mixed \/ ~call[p].fresh) /\ half' = Nothing
    /\ UNCHANGED <<catalogue, place, staged, receipt, file, calls, changes, standalone>>

\* A command is killed, or one of its writes fails: what it wrote stays.
Stop(p) ==
    /\ call[p].step \in {"STAGE", "COMPARE", "WRITE", "TRUST"}
    /\ half' = IF call[p].wrote /\ call[p].fresh /\ Plan(call[p].adapter) = call[p].plan
               THEN call[p].adapter ELSE half
    /\ Becomes(p, [Answered(call[p].adapter, "FAILED") EXCEPT !.wrote = call[p].wrote])
    /\ UNCHANGED <<catalogue, place, staged, receipt, file, trust, mixed, calls, changes, standalone>>

----------------------------------------------------------------------------
(* The host, and people.                                                     *)

Changes == changes < MaxChanges /\ changes' = changes + 1 /\ half' = Nothing
           /\ UNCHANGED <<calls, standalone>>

\* The host or a person edits an entry of its own.
EditHost(f, x) ==
    /\ Changes
    /\ file' = [file EXCEPT ![f].foreign = IF x \in @ THEN @ \ {x} ELSE @ \cup {x}]
    /\ call' = Outdate(Nothing)
    /\ UNCHANGED <<catalogue, place, staged, receipt, trust, mixed>>

\* A person clears the staged runtime and the receipt of an adapter, or its
\* entries, which no command of VERA does.
ClearByHand(a) ==
    /\ Changes
    /\ \/ /\ staged' = [staged EXCEPT ![a] = Nothing]
          /\ receipt' = IF a \in Attested THEN [receipt EXCEPT ![a] = Nothing] ELSE receipt
          /\ UNCHANGED file
       \/ /\ file' = [file EXCEPT ![ServerFile[a]].servers = {}]
          /\ UNCHANGED <<staged, receipt>>
    /\ call' = Outdate(Nothing) /\ mixed' = TRUE
    /\ UNCHANGED <<catalogue, place, trust>>

DisableByHand ==
    /\ Changes /\ trust # "DISABLED" /\ trust' = "DISABLED" /\ call' = Outdate(Nothing)
    /\ UNCHANGED <<catalogue, place, staged, receipt, file, mixed>>

ChangeCatalogue(k) ==
    /\ Changes /\ k # catalogue /\ catalogue' = k
    /\ UNCHANGED <<place, staged, receipt, file, trust, call, mixed>>

Move(d) ==
    /\ Changes /\ d # place /\ place' = d
    /\ \A p \in Process : call[p].step \in {"IDLE", "SHOWN"}
    /\ UNCHANGED <<catalogue, staged, receipt, file, trust, call, mixed>>

----------------------------------------------------------------------------

Command(p) ==
    \/ StageCodex(p) \/ StageGemini(p) \/ StageAntigravity(p) \/ StageGeneric(p)
    \/ StageCloud(p) \/ StageLocal(p)
    \/ PreviewCodex(p) \/ PreviewGemini(p) \/ PreviewAntigravity(p) \/ PreviewGeneric(p)
    \/ PreviewCloud(p)
    \/ ApplyCodex(p) \/ ApplyGemini(p) \/ ApplyAntigravity(p) \/ ApplyGeneric(p) \/ ApplyCloud(p)
    \/ InstallLocal(p) \/ InstallServer(p) \/ Trust(p)

HostNext ==
    \/ \E p \in Process :
        \/ Command(p)
        \/ Compare(p) \/ WriteStaged(p) \/ WriteFile(p)
        \/ WriteReceipt(p) \/ WriteState(p) \/ WriteTrust(p) \/ Stop(p)
    \/ \E f \in File, x \in Foreign : EditHost(f, x)
    \/ \E a \in Adapter : ClearByHand(a)
    \/ DisableByHand
    \/ \E k \in Catalogue : ChangeCatalogue(k)
    \/ \E d \in Place : Move(d)

HostSpec == HostInit /\ [][HostNext]_hostVars

----------------------------------------------------------------------------
(* What must hold.                                                           *)

\* HostTypeOK: every file holds at most one server of VERA and the hooks of the
\* adapters that share it.
HostTypeOK ==
    /\ catalogue \in Catalogue /\ place \in Place
    /\ DOMAIN staged = Adapter /\ DOMAIN receipt = Attested
    /\ \A f \in File :
        /\ file[f].hooks \subseteq Entries /\ file[f].foreign \subseteq Foreign
        /\ file[f].servers \subseteq Servers /\ Cardinality(file[f].servers) <= 1
    /\ trust \in {"ABSENT", "ENABLED", "DISABLED"}
    /\ half \in Adapter \cup {Nothing} /\ mixed \in BOOLEAN /\ standalone \in BOOLEAN
    /\ calls \in 0 .. MaxCalls /\ changes \in 0 .. MaxChanges
    /\ \A p \in Process :
        /\ call[p].adapter \in Adapter \cup {Nothing}
        /\ call[p].answer \in {Nothing, "REFUSED", "UNCHANGED", "STAGED", "APPLIED", "FAILED"}

Stands(a) ==
    /\ HooksFile[a] # "none" => \E h \in HooksIn(a, file) : h.by = a
    /\ \E s \in ServersIn(a, file) : s.by = a
Touched(a) ==
    \/ \E h \in HooksIn(a, file) : h.by = a
    \/ \E s \in ServersIn(a, file) : s.by = a

\* Every stage of an installation stands on the one before it, through kills
\* and failed writes: trust on a receipt, a receipt on entries in every file of
\* the adapter, an entry on a staged runtime. Not once a command has written
\* after anything else changed since its reading, a write of another command or
\* an edit of the host alike, nor once a person has cleared something.
StagesStandInOrder ==
    ~mixed =>
        /\ trust = "ENABLED" => receipt["cloud"] # Nothing
        /\ \A a \in Attested :
            /\ receipt[a] # Nothing => Stands(a)
            /\ Touched(a) => staged[a] # Nothing

\* An installation that stopped between two of its writes can be run again: as
\* long as nothing else changes, no check refuses what it left behind.
HalfInstallsConverge ==
    half # Nothing =>
        /\ Loads(half) /\ Fits(half, Plan(half), file)
        /\ half \in Attested => Accepted(half, Merged(half, Plan(half), file))

\* A command loses no entry of another in the files of the host, except when
\* the file changed after the command read it.
ForeignEntriesSurvive ==
    [][\A f \in File : file[f].foreign \ file'[f].foreign # {} =>
        \/ changes' # changes
        \/ \E p \in Process : call'[p].todo # call[p].todo /\ ~call[p].fresh]_hostVars

=============================================================================
