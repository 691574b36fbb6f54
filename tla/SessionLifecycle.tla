--------------------------- MODULE SessionLifecycle ---------------------------
(***************************************************************************)
(* The resume guard of a project as the Claude Code adapters drive it.     *)
(* Hooks of the host, each a process of its own, claim the project for a   *)
(* session and arm its guard; the MCP server of a client acknowledges it;  *)
(* every tool the agent wants is checked against both.  Guard, binding and *)
(* liveness marker are files that nobody locks: one action is one reading  *)
(* or one atomic replacement of a file.                                    *)
(***************************************************************************)
EXTENDS Naturals

CONSTANTS Session,         \* sessions of the host, each with its MCP server
          Contract,        \* resume dossiers, by their hash
          Profile,         \* contents of the Project Profile
          WaitsForServer,  \* the cloud adapter waits for the marker, the local does not
          None

(* A HARD guard is ARMED until acknowledged, a SOFT one DEGRADED. *)
GuardRow == {row \in [mode : {"HARD", "SOFT"},
                      status : {"ARMED", "DEGRADED", "ACKNOWLEDGED"},
                      contract : Contract, profile : Profile] :
                row.status # "ACKNOWLEDGED" => (row.status = "ARMED") = (row.mode = "HARD")}

Owed == [contract : Contract, profile : Profile]

(* What a hook knows of its session; of the reasons only RESUME is told apart. *)
ClaimHook == [step : {"CLAIM"}, resume : BOOLEAN, fresh : BOOLEAN, identity : Profile]
ArmHook == [step : {"ARM"}, resume : BOOLEAN, waits : BOOLEAN, identity : Profile]
WriteHook == [step : {"WRITE"}, row : GuardRow]
AuditHook == [step : {"AUDIT"}, row : GuardRow]
ReleaseHook == [step : {"RELEASE"}]
Hook == ClaimHook \union ArmHook \union WriteHook \union AuditHook \union ReleaseHook

(* What a server knows of the acknowledgement it carries out. *)
CalledAck == [step : {"CALLED"}]
TargetedAck == [step : {"TARGETED"}, target : Session]
PinnedAck == [step : {"PINNED"}, target : Session, contract : Contract]
ReadAck == [step : {"READ", "AUDIT"}, target : Session, row : GuardRow]
Ack == CalledAck \union TargetedAck \union PinnedAck \union ReadAck

Server == [identity : Profile, beating : BOOLEAN]

ASSUME NoneAssumption ==
    None \notin Session \union GuardRow \union Owed \union Hook \union Ack \union Server
ASSUME WaitsAssumption == WaitsForServer \in BOOLEAN

VARIABLES
    profile,      \* the Project Profile on disk
    binding,      \* the session the project is claimed by
    guard,        \* per session: its state file
    audited,      \* per session: whether the audit has what its state file says
    marker,       \* the file mcp_ready: absent, recent, or older than 90 s
    barrier_off,  \* the kill switch
    running,      \* sessions in the middle of a turn
    hook,         \* per session: the hook the host waits for
    server,       \* per session: its MCP server
    ack,          \* per session: the acknowledgement its server carries out
    owed,         \* history: the last dossier armed and not acknowledged since
    taken,        \* history, per server: sessions that claimed the project since
                  \* its client was let through and before it read the binding
    raced,        \* history: an arming fell between reading and writing of an acknowledgement
    killed        \* history: a process was killed

files == <<binding, guard, audited>>
channel == <<marker, server>>
history == <<owed, taken, raced, killed>>
vars == <<profile, files, channel, barrier_off, running, hook, ack, history>>

(* Files and processes have their shapes; a guard that is not acknowledged is *)
(* ARMED when it is HARD and DEGRADED when it is SOFT.                        *)
TypeOK ==
    /\ profile \in Profile
    /\ binding \in Session \union {None}
    /\ guard \in [Session -> GuardRow \union {None}]
    /\ audited \in [Session -> BOOLEAN]
    /\ marker \in {"absent", "live", "stale"}
    /\ barrier_off \in BOOLEAN
    /\ running \subseteq Session
    /\ hook \in [Session -> Hook \union {None}]
    /\ server \in [Session -> Server \union {None}]
    /\ ack \in [Session -> Ack \union {None}]
    /\ owed \in [Session -> Owed \union {None}]
    /\ taken \in [Session -> SUBSET Session]
    /\ raced \in BOOLEAN /\ killed \in BOOLEAN

Init ==
    /\ profile \in Profile
    /\ binding = None
    /\ guard = [s \in Session |-> None]
    /\ audited = [s \in Session |-> TRUE]
    /\ marker = "absent"
    /\ barrier_off = FALSE
    /\ running = {}
    /\ hook = [s \in Session |-> None]
    /\ server = [s \in Session |-> None]
    /\ ack = [s \in Session |-> None]
    /\ owed = [s \in Session |-> None]
    /\ taken = [s \in Session |-> {}]
    /\ raced = FALSE /\ killed = FALSE

-----------------------------------------------------------------------------
(* What readers of the files find *)

(* _read_existing refuses a state file of another profile than the store's. *)
Foreign(s, identity) == guard[s] # None /\ guard[s].profile # identity

(* How it could go wrong: only a marker that never was is taken for a dead channel. *)
ChannelAbsent == marker = "absent"

ChannelStale == marker = "stale"

(* For a tool that changes something: the tools that only read are let through *)
(* an unacknowledged guard, whatever its status.                               *)
Precheck(s) ==
    CASE barrier_off -> "ALLOW_WITH_NOTICE"
      [] ~barrier_off /\ Foreign(s, profile) -> "DENY"
      [] ~barrier_off /\ ~Foreign(s, profile)
            /\ (guard[s] = None \/ guard[s].status = "ACKNOWLEDGED") -> "ALLOW"
      [] OTHER -> IF guard[s].status = "DEGRADED" \/ ChannelStale
                  THEN "ALLOW_WITH_NOTICE" ELSE "DENY"

(* The hook before a tool raises, and so denies, for a session that is not bound. *)
Denied(s) == binding # s \/ Precheck(s) = "DENY"

At(process, s, step) == process[s] # None /\ process[s].step = step

-----------------------------------------------------------------------------
(* Hooks: a session starts, its context is compacted, its turn ends *)

(* The state is replaced first, its audit a transaction of its own. *)
WriteGuard(s, row) ==
    /\ guard' = [guard EXCEPT ![s] = row]
    /\ audited' = [audited EXCEPT ![s] = FALSE]
Audit(s, row) == audited' = [audited EXCEPT ![s] = @ \/ guard[s] = row]

SetHook(s, h) == hook' = [hook EXCEPT ![s] = h]

SessionStart(s, resume) ==
    /\ hook[s] = None
    /\ running' = running \union {s}
    /\ IF binding \in {None, s}
       THEN SetHook(s, [step |-> "CLAIM", resume |-> resume,
                        fresh |-> binding = None, identity |-> profile])
       ELSE UNCHANGED hook
    /\ UNCHANGED <<profile, files, channel, barrier_off, ack, history>>

Claim(s) ==
    /\ At(hook, s, "CLAIM")
    /\ binding' = IF hook[s].fresh THEN s ELSE binding
    /\ taken' = [c \in Session |-> IF At(ack, c, "CALLED") THEN taken[c] \union {s} ELSE taken[c]]
    /\ SetHook(s, [step |-> "ARM", resume |-> hook[s].resume,
                   waits |-> WaitsForServer, identity |-> hook[s].identity])
    /\ UNCHANGED <<profile, guard, audited, channel, barrier_off, running, ack, owed, raced, killed>>

(* PreCompact and PostCompact. *)
Compact(s) ==
    /\ hook[s] = None
    /\ s \in running
    /\ binding = s
    /\ SetHook(s, [step |-> "ARM", resume |-> FALSE, waits |-> FALSE, identity |-> profile])
    /\ UNCHANGED <<profile, files, channel, barrier_off, running, ack, history>>

(* How it could go wrong: resuming preserves whatever is there. *)
ArmedUnlessResumed(s, contract) ==
    [mode |-> "HARD",
     status |-> IF hook[s].resume /\ guard[s] # None THEN "ACKNOWLEDGED" ELSE "ARMED",
     contract |-> contract, profile |-> hook[s].identity]

(* arm: what is on disk decides what is going to be written. *)
Armed(s, contract) ==
    LET hard == ~hook[s].waits \/ marker = "live"
        acknowledged == guard[s] # None /\ guard[s].status = "ACKNOWLEDGED"
    IN [mode |-> IF hard THEN "HARD" ELSE "SOFT",
        status |-> IF hook[s].resume /\ acknowledged THEN "ACKNOWLEDGED"
                   ELSE IF hard THEN "ARMED" ELSE "DEGRADED",
        contract |-> contract, profile |-> hook[s].identity]

Arm(s, contract) ==
    /\ At(hook, s, "ARM")
    /\ SetHook(s, IF Foreign(s, hook[s].identity) THEN None
                  ELSE [step |-> "WRITE", row |-> Armed(s, contract)])
    /\ UNCHANGED <<profile, files, channel, barrier_off, running, ack, history>>

(* An acknowledgement of the guard of s that has read what it will write back. *)
AckHolds(s) == \E c \in Session :
    /\ At(ack, c, "READ")
    /\ ack[c].target = s

WriteArmed(s) ==
    /\ At(hook, s, "WRITE")
    /\ LET row == hook[s].row IN
          /\ WriteGuard(s, row)
          /\ IF row.status = "ACKNOWLEDGED"
             THEN UNCHANGED <<owed, raced>>
             ELSE /\ owed' = [owed EXCEPT ![s] = [contract |-> row.contract,
                                                 profile |-> row.profile]]
                  /\ raced' = (raced \/ AckHolds(s))
          /\ SetHook(s, [step |-> "AUDIT", row |-> row])
    /\ UNCHANGED <<profile, binding, channel, barrier_off, running, ack, taken, killed>>

AuditArmed(s) ==
    /\ At(hook, s, "AUDIT")
    /\ Audit(s, hook[s].row)
    /\ SetHook(s, None)
    /\ UNCHANGED <<profile, binding, guard, channel, barrier_off, running, ack, history>>

(* Stop: a nudge, which changes nothing, and the release of the binding, also *)
(* when the host has given up on an acknowledgement that is under way.        *)
Stop(s) ==
    /\ hook[s] = None
    /\ s \in running
    /\ running' = running \ {s}
    /\ SetHook(s, IF binding = s THEN [step |-> "RELEASE"] ELSE None)
    /\ UNCHANGED <<profile, files, channel, barrier_off, ack, history>>

Release(s) ==
    /\ At(hook, s, "RELEASE")
    /\ binding' = IF binding = s THEN None ELSE binding
    /\ SetHook(s, None)
    /\ UNCHANGED <<profile, guard, audited, channel, barrier_off, running, ack, history>>

-----------------------------------------------------------------------------
(* The MCP server: the tool mmu_acknowledge_resume *)

(* An acknowledgement that ends forgets who claimed the project under it. *)
SetAck(c, a) ==
    /\ ack' = [ack EXCEPT ![c] = a]
    /\ taken' = IF a = None THEN [taken EXCEPT ![c] = {}] ELSE taken
AckStep(c, step) ==
    /\ At(ack, c, step)
    /\ UNCHANGED <<profile, binding, channel, barrier_off, running, hook>>

(* How it could go wrong: the hook lets the tool through before it looks at the binding. *)
CallAckUnbound(c) ==
    /\ c \in running /\ server[c] # None /\ ack[c] = None
    /\ SetAck(c, [step |-> "CALLED"])
    /\ UNCHANGED <<profile, files, channel, barrier_off, running, hook, owed, raced, killed>>

(* The hook before the tool looks at the binding and lets this tool through. *)
CallAck(c) ==
    /\ c \in running /\ server[c] # None /\ ack[c] = None
    /\ binding = c
    /\ SetAck(c, [step |-> "CALLED"])
    /\ UNCHANGED <<profile, files, channel, barrier_off, running, hook, owed, raced, killed>>

(* session_identity: the session that is bound now. *)
TargetAck(c) ==
    /\ AckStep(c, "CALLED")
    /\ SetAck(c, IF binding = None THEN None ELSE [step |-> "TARGETED", target |-> binding])
    /\ UNCHANGED <<guard, audited, owed, raced, killed>>

Readable(c, s) == guard[s] # None /\ ~Foreign(s, server[c].identity)

(* acknowledge_current takes the contract, *)
PinAck(c) ==
    /\ AckStep(c, "TARGETED")
    /\ LET s == ack[c].target IN
          SetAck(c, IF Readable(c, s)
                    THEN [step |-> "PINNED", target |-> s, contract |-> guard[s].contract]
                    ELSE None)
    /\ UNCHANGED <<guard, audited, owed, raced, killed>>

(* acknowledge compares it with the state, and the caller's sections with what *)
(* the state asks of them,                                                     *)
ReadAckState(c, sufficient) ==
    /\ AckStep(c, "PINNED")
    /\ LET s == ack[c].target IN
          SetAck(c, IF /\ Readable(c, s)
                       /\ guard[s].status \in {"ARMED", "DEGRADED"}
                       /\ guard[s].contract = ack[c].contract
                       /\ sufficient
                    THEN [step |-> "READ", target |-> s, row |-> guard[s]]
                    ELSE None)
    /\ UNCHANGED <<guard, audited, owed, raced, killed>>

(* and writes the state it has read, acknowledged. *)
WriteAck(c) ==
    /\ AckStep(c, "READ")
    /\ LET s == ack[c].target
            row == [ack[c].row EXCEPT !.status = "ACKNOWLEDGED"]
        IN /\ WriteGuard(s, row)
           /\ owed' = IF owed[s] = [contract |-> row.contract, profile |-> row.profile]
                      THEN [owed EXCEPT ![s] = None] ELSE owed
           /\ SetAck(c, [step |-> "AUDIT", target |-> s, row |-> row])
    /\ UNCHANGED <<raced, killed>>

AuditAck(c) ==
    /\ AckStep(c, "AUDIT")
    /\ Audit(ack[c].target, ack[c].row)
    /\ SetAck(c, None)
    /\ UNCHANGED <<guard, owed, raced, killed>>

-----------------------------------------------------------------------------
(* The processes and the operator *)

StartServer(c) ==
    /\ c \in running /\ server[c] = None
    /\ server' = [server EXCEPT ![c] = [identity |-> profile, beating |-> TRUE]]
    /\ marker' = "live"
    /\ UNCHANGED <<profile, files, barrier_off, running, hook, ack, history>>

Beating(c) == server[c] # None /\ server[c].beating

Beat(c) ==
    /\ Beating(c)
    /\ marker' = "live"
    /\ UNCHANGED <<profile, files, server, barrier_off, running, hook, ack, history>>

(* The thread of the heartbeat returns at its first error. *)
HeartbeatEnds(c) ==
    /\ Beating(c)
    /\ server' = [server EXCEPT ![c].beating = FALSE]
    /\ UNCHANGED <<profile, files, marker, barrier_off, running, hook, ack, history>>

(* 90 s pass without a beat; they beat every 20 s. *)
Expire ==
    /\ marker = "live"
    /\ \A c \in Session : ~Beating(c)
    /\ marker' = "stale"
    /\ UNCHANGED <<profile, files, server, barrier_off, running, hook, ack, history>>

(* Host and server of a session are killed: no Stop, and no step that was left. *)
Kill(s) ==
    /\ s \in running \/ server[s] # None
    /\ running' = running \ {s}
    /\ server' = [server EXCEPT ![s] = None]
    /\ SetHook(s, None)
    /\ SetAck(s, None)
    /\ killed' = TRUE
    /\ UNCHANGED <<profile, files, marker, barrier_off, owed, raced>>

SwitchBarrier ==
    /\ barrier_off' = ~barrier_off
    /\ UNCHANGED <<profile, files, channel, running, hook, ack, history>>

(* commit_profile_change, which leaves the state files alone, and the adapter *)
(* installed again for the new profile: a hook refuses to run for another.    *)
EditProfile(p) ==
    /\ p # profile
    /\ profile' = p
    /\ UNCHANGED <<files, channel, barrier_off, running, hook, ack, history>>

HookNext(s) ==
    \/ \E resume \in BOOLEAN : SessionStart(s, resume)
    \/ Claim(s)
    \/ Compact(s)
    \/ \E contract \in Contract : Arm(s, contract)
    \/ WriteArmed(s)
    \/ AuditArmed(s)
    \/ Stop(s)
    \/ Release(s)

ServerNext(c) ==
    \/ StartServer(c) \/ Beat(c) \/ HeartbeatEnds(c)
    \/ CallAck(c) \/ TargetAck(c) \/ PinAck(c)
    \/ \E sufficient \in BOOLEAN : ReadAckState(c, sufficient)
    \/ WriteAck(c) \/ AuditAck(c)

Next ==
    \/ \E s \in Session : HookNext(s) \/ ServerNext(s) \/ Kill(s)
    \/ Expire
    \/ SwitchBarrier
    \/ \E p \in Profile : EditProfile(p)

Spec == Init /\ [][Next]_vars
(* Time passes. *)
FairSpec == Spec /\ WF_vars(Expire)

-----------------------------------------------------------------------------
(* A session whose guard is acknowledged owes no acknowledgement: the dossier  *)
(* armed last, over every compaction, resumption and restart, was acknowledged *)
(* after it was armed, whichever session's server did it and whoever held the  *)
(* project meanwhile. It is lost where an arming falls between the reading and *)
(* the writing of an acknowledgement (session_lifecycle.py:291 and 314).       *)
AcknowledgedOwesNothing == \A s \in Session :
    ~raced /\ guard[s] # None /\ guard[s].status = "ACKNOWLEDGED" => owed[s] = None

(* A server asks a file for the session it works for (mcp_server.py:682), after *)
(* the hook has let its client through: what it acknowledges is the guard of    *)
(* its own client's session, or of one that claimed the project between these   *)
(* two readings. A session that held the project before the call, or takes it   *)
(* after the server has looked, is never acknowledged by it; no stop, kill,     *)
(* second claim or release is excepted.                                         *)
AcknowledgesWhoHeldIt ==
    [][\A c \in Session : WriteAck(c) => ack[c].target \in {c} \union taken[c]]_vars

(* A guard on disk has its audit, unless a process was killed before it. *)
EveryGuardIsAudited == \A s \in Session : guard[s] # None =>
    \/ audited[s]
    \/ At(hook, s, "AUDIT")
    \/ \E c \in Session : At(ack, c, "AUDIT") /\ ack[c].target = s
    \/ killed

(* Once no server beats, a guard that is armed under the present profile stops *)
(* denying: the barrier that nobody can lift does not stay.                    *)
DeadChannelOpens == \A s \in Session :
    marker = "live" /\ guard[s] # None /\ ~Foreign(s, profile)
        ~> Foreign(s, profile) \/ Precheck(s) # "DENY" \/ \E c \in Session : Beating(c)
=============================================================================
