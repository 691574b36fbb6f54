------------------------ MODULE SessionLifecycle_proofs ------------------------
(* Proofs about the resume guard, for any sessions, dossiers and profiles. *)
EXTENDS SessionLifecycle, TLAPS

USE NoneAssumption, WaitsAssumption DEF files, channel, history, At

-----------------------------------------------------------------------------
(* Type correctness *)

FileTypes ==
    /\ profile \in Profile
    /\ binding \in Session \union {None}
    /\ guard \in [Session -> GuardRow \union {None}]
    /\ marker \in {"absent", "live", "stale"}
    /\ owed \in [Session -> Owed \union {None}]
ProcessTypes ==
    /\ running \subseteq Session
    /\ hook \in [Session -> Hook \union {None}]
    /\ server \in [Session -> Server \union {None}]
    /\ ack \in [Session -> Ack \union {None}]
FlagTypes ==
    /\ audited \in [Session -> BOOLEAN]
    /\ barrier_off \in BOOLEAN
    /\ taken \in [Session -> SUBSET Session]
    /\ raced \in BOOLEAN /\ killed \in BOOLEAN

LEMMA TypeParts == TypeOK <=> FileTypes /\ ProcessTypes /\ FlagTypes
BY DEF TypeOK, FileTypes, ProcessTypes, FlagTypes

LEMMA ArmedIsARow ==
    ASSUME TypeOK, NEW s \in Session, NEW contract \in Contract, hook[s] \in ArmHook
    PROVE  Armed(s, contract) \in GuardRow
BY DEF Armed, GuardRow, ArmHook

(* What a hook or a server holds at a step is what it took there. *)
LEMMA Holds ==
    ASSUME TypeOK, NEW s \in Session
    PROVE  /\ At(hook, s, "CLAIM") => hook[s] \in ClaimHook
           /\ At(hook, s, "ARM") => hook[s] \in ArmHook
           /\ At(hook, s, "WRITE") => hook[s] \in WriteHook
           /\ At(hook, s, "AUDIT") => hook[s] \in AuditHook
           /\ At(ack, s, "TARGETED") => ack[s] \in TargetedAck
           /\ At(ack, s, "PINNED") => ack[s] \in PinnedAck
           /\ At(ack, s, "READ") => ack[s] \in ReadAck
           /\ At(ack, s, "AUDIT") => ack[s] \in ReadAck
<1>1. hook[s] \in Hook \union {None} /\ ack[s] \in Ack \union {None}
    BY DEF TypeOK
<1>2. /\ At(hook, s, "CLAIM") => hook[s] \in ClaimHook
      /\ At(hook, s, "ARM") => hook[s] \in ArmHook
      /\ At(hook, s, "WRITE") => hook[s] \in WriteHook
      /\ At(hook, s, "AUDIT") => hook[s] \in AuditHook
    BY <1>1 DEF Hook, ClaimHook, ArmHook, WriteHook, AuditHook, ReleaseHook
<1>3. /\ At(ack, s, "TARGETED") => ack[s] \in TargetedAck
      /\ At(ack, s, "PINNED") => ack[s] \in PinnedAck
      /\ At(ack, s, "READ") => ack[s] \in ReadAck
      /\ At(ack, s, "AUDIT") => ack[s] \in ReadAck
    BY <1>1 DEF Ack, CalledAck, TargetedAck, PinnedAck, ReadAck
<1> QED BY <1>2, <1>3

LEMMA TypeInit == Init => TypeOK
<1>1. Init => FileTypes
    BY DEF Init, FileTypes
<1>2. Init => ProcessTypes
    BY DEF Init, ProcessTypes
<1>3. Init => FlagTypes
    BY Zenon DEF Init, FlagTypes
<1> QED BY <1>1, <1>2, <1>3, TypeParts

LEMMA FileStep ==
    ASSUME TypeOK, [Next]_vars
    PROVE  FileTypes'
<1> USE DEF FileTypes
<1>0. FileTypes
    BY TypeParts
<1>1. CASE UNCHANGED vars
    BY <1>0, <1>1 DEF vars
<1>2. ASSUME NEW s \in Session, HookNext(s) PROVE FileTypes'
    <2>1. ASSUME NEW resume \in BOOLEAN, SessionStart(s, resume) PROVE FileTypes'
        BY <1>0, <2>1 DEF SessionStart
    <2>2. CASE Claim(s)
        BY <1>0, <2>2 DEF Claim
    <2>3. CASE Compact(s) \/ (\E contract \in Contract : Arm(s, contract)) \/ AuditArmed(s)
               \/ Stop(s) \/ Release(s)
        BY <1>0, <2>3 DEF Compact, Arm, AuditArmed, Stop, Release
    <2>4. CASE WriteArmed(s)
        <3>1. hook[s].row \in GuardRow
            BY <2>4, Holds DEF WriteArmed, WriteHook
        <3>2. guard' \in [Session -> GuardRow \union {None}]
            BY <1>0, <2>4, <3>1 DEF WriteArmed, WriteGuard
        <3>3. owed' \in [Session -> Owed \union {None}]
            BY <1>0, <2>4, <3>1 DEF WriteArmed, GuardRow, Owed
        <3> QED BY <1>0, <2>4, <3>2, <3>3 DEF WriteArmed
    <2> QED BY <1>2, <2>1, <2>2, <2>3, <2>4 DEF HookNext
<1>3. ASSUME NEW c \in Session, ServerNext(c) PROVE FileTypes'
    <2>1. CASE StartServer(c) \/ Beat(c) \/ HeartbeatEnds(c) \/ CallAck(c)
        BY <1>0, <2>1 DEF StartServer, Beat, HeartbeatEnds, CallAck
    <2>2. CASE TargetAck(c) \/ PinAck(c) \/ AuditAck(c)
               \/ \E sufficient \in BOOLEAN : ReadAckState(c, sufficient)
        BY <1>0, <2>2 DEF TargetAck, PinAck, AuditAck, ReadAckState, AckStep
    <2>3. CASE WriteAck(c)
        <3>1. ack[c].target \in Session /\ ack[c].row \in GuardRow
            BY <2>3, Holds DEF WriteAck, AckStep, ReadAck
        <3>2. [ack[c].row EXCEPT !.status = "ACKNOWLEDGED"] \in GuardRow
            BY <3>1 DEF GuardRow
        <3>3. guard' \in [Session -> GuardRow \union {None}]
            BY <1>0, <2>3, <3>1, <3>2 DEF WriteAck, WriteGuard
        <3>4. owed' \in [Session -> Owed \union {None}]
            BY <1>0, <2>3, <3>1 DEF WriteAck
        <3> QED BY <1>0, <2>3, <3>3, <3>4 DEF WriteAck, AckStep
    <2> QED BY <1>3, <2>1, <2>2, <2>3 DEF ServerNext
<1>4. CASE (\E s \in Session : Kill(s)) \/ Expire \/ SwitchBarrier
           \/ \E p \in Profile : EditProfile(p)
    BY <1>0, <1>4 DEF Kill, Expire, SwitchBarrier, EditProfile
<1> QED BY <1>1, <1>2, <1>3, <1>4 DEF Next

LEMMA HookTypeStep ==
    ASSUME TypeOK, [Next]_vars
    PROVE  hook' \in [Session -> Hook \union {None}]
<1> DEFINE T == hook' \in [Session -> Hook \union {None}]
<1>0. hook \in [Session -> Hook \union {None}]
    BY DEF TypeOK
<1>1. CASE UNCHANGED hook
    BY <1>0, <1>1
<1>2. ASSUME NEW s \in Session, NEW h \in Hook \union {None}, SetHook(s, h) PROVE T
    BY <1>0, <1>2 DEF SetHook
<1>3. ASSUME NEW s \in Session, HookNext(s) PROVE T
    <2>1. ASSUME NEW resume \in BOOLEAN, SessionStart(s, resume) PROVE T
        <3>1. [step |-> "CLAIM", resume |-> resume, fresh |-> binding = None,
               identity |-> profile] \in Hook
            BY DEF Hook, ClaimHook, TypeOK
        <3> QED BY <1>1, <1>2, <2>1, <3>1 DEF SessionStart
    <2>2. CASE Claim(s)
        <3>1. [step |-> "ARM", resume |-> hook[s].resume,
               waits |-> WaitsForServer, identity |-> hook[s].identity] \in Hook
            BY <2>2, Holds DEF Claim, Hook, ClaimHook, ArmHook
        <3> QED BY <1>2, <2>2, <3>1 DEF Claim
    <2>3. CASE Compact(s)
        <3>1. [step |-> "ARM", resume |-> FALSE, waits |-> FALSE, identity |-> profile] \in Hook
            BY DEF Hook, ArmHook, TypeOK
        <3> QED BY <1>2, <2>3, <3>1 DEF Compact
    <2>4. ASSUME NEW contract \in Contract, Arm(s, contract) PROVE T
        <3>1. [step |-> "WRITE", row |-> Armed(s, contract)] \in Hook
            BY <2>4, ArmedIsARow, Holds DEF Arm, Hook, WriteHook
        <3> QED BY <1>2, <2>4, <3>1 DEF Arm
    <2>5. CASE WriteArmed(s)
        <3>1. [step |-> "AUDIT", row |-> hook[s].row] \in Hook
            BY <2>5, Holds DEF WriteArmed, Hook, WriteHook, AuditHook
        <3> QED BY <1>2, <2>5, <3>1 DEF WriteArmed
    <2>6. CASE AuditArmed(s) \/ Release(s)
        BY <1>2, <2>6 DEF AuditArmed, Release
    <2>7. CASE Stop(s)
        <3>1. [step |-> "RELEASE"] \in Hook
            BY DEF Hook, ReleaseHook
        <3> QED BY <1>2, <2>7, <3>1 DEF Stop
    <2> QED BY <1>3, <2>1, <2>2, <2>3, <2>4, <2>5, <2>6, <2>7 DEF HookNext
<1>4. ASSUME NEW c \in Session, ServerNext(c) PROVE T
    BY <1>1, <1>4 DEF ServerNext, StartServer, Beat, HeartbeatEnds, CallAck, TargetAck, PinAck,
                      AuditAck, ReadAckState, WriteAck, AckStep
<1>5. ASSUME NEW s \in Session, Kill(s) PROVE T
    BY <1>2, <1>5 DEF Kill
<1>6. CASE Expire \/ SwitchBarrier \/ (\E p \in Profile : EditProfile(p)) \/ UNCHANGED vars
    BY <1>1, <1>6 DEF Expire, SwitchBarrier, EditProfile, vars
<1> QED BY <1>3, <1>4, <1>5, <1>6 DEF Next

LEMMA AckTypeStep ==
    ASSUME TypeOK, [Next]_vars
    PROVE  ack' \in [Session -> Ack \union {None}]
<1> DEFINE T == ack' \in [Session -> Ack \union {None}]
<1>0. ack \in [Session -> Ack \union {None}]
    BY DEF TypeOK
<1>1. CASE UNCHANGED ack
    BY <1>0, <1>1
<1>2. ASSUME NEW c \in Session, NEW a \in Ack \union {None}, SetAck(c, a) PROVE T
    BY <1>0, <1>2 DEF SetAck
<1>3. ASSUME NEW s \in Session, HookNext(s) PROVE T
    BY <1>1, <1>3 DEF HookNext, SessionStart, Claim, Compact, Arm, WriteArmed, AuditArmed, Stop,
                      Release
<1>4. ASSUME NEW c \in Session, ServerNext(c) PROVE T
    <2>1. CASE StartServer(c) \/ Beat(c) \/ HeartbeatEnds(c)
        BY <1>1, <2>1 DEF StartServer, Beat, HeartbeatEnds
    <2>2. CASE CallAck(c)
        <3>1. [step |-> "CALLED"] \in Ack
            BY DEF Ack, CalledAck
        <3> QED BY <1>2, <2>2, <3>1 DEF CallAck
    <2>3. CASE TargetAck(c)
        <3>1. binding # None => [step |-> "TARGETED", target |-> binding] \in Ack
            BY DEF Ack, TargetedAck, TypeOK
        <3> QED BY <1>2, <2>3, <3>1 DEF TargetAck
    <2>4. CASE PinAck(c)
        <3>1. ack[c].target \in Session
            BY <2>4, Holds DEF PinAck, AckStep, TargetedAck
        <3>2. Readable(c, ack[c].target) => guard[ack[c].target].contract \in Contract
            BY <3>1 DEF Readable, TypeOK, GuardRow
        <3>3. Readable(c, ack[c].target) =>
                 [step |-> "PINNED", target |-> ack[c].target,
                  contract |-> guard[ack[c].target].contract] \in Ack
            BY <3>1, <3>2 DEF Ack, PinnedAck
        <3> QED BY <1>2, <2>4, <3>3 DEF PinAck
    <2>5. ASSUME NEW sufficient \in BOOLEAN, ReadAckState(c, sufficient) PROVE T
        <3>1. ack[c].target \in Session
            BY <2>5, Holds DEF ReadAckState, AckStep, PinnedAck
        <3>2. Readable(c, ack[c].target) => guard[ack[c].target] \in GuardRow
            BY <3>1 DEF Readable, TypeOK
        <3>3. Readable(c, ack[c].target) =>
                 [step |-> "READ", target |-> ack[c].target, row |-> guard[ack[c].target]] \in Ack
            BY <3>1, <3>2 DEF Ack, ReadAck
        <3> QED BY <1>2, <2>5, <3>3 DEF ReadAckState
    <2>6. CASE WriteAck(c)
        <3>1. ack[c].target \in Session /\ ack[c].row \in GuardRow
            BY <2>6, Holds DEF WriteAck, AckStep, ReadAck
        <3>2. [ack[c].row EXCEPT !.status = "ACKNOWLEDGED"] \in GuardRow
            BY <3>1 DEF GuardRow
        <3>3. [step |-> "AUDIT", target |-> ack[c].target,
               row |-> [ack[c].row EXCEPT !.status = "ACKNOWLEDGED"]] \in Ack
            BY <3>1, <3>2 DEF Ack, ReadAck
        <3> QED BY <1>2, <2>6, <3>3 DEF WriteAck
    <2>7. CASE AuditAck(c)
        BY <1>2, <2>7 DEF AuditAck
    <2> QED BY <1>4, <2>1, <2>2, <2>3, <2>4, <2>5, <2>6, <2>7 DEF ServerNext
<1>5. ASSUME NEW s \in Session, Kill(s) PROVE T
    BY <1>2, <1>5 DEF Kill
<1>6. CASE Expire \/ SwitchBarrier \/ (\E p \in Profile : EditProfile(p)) \/ UNCHANGED vars
    BY <1>1, <1>6 DEF Expire, SwitchBarrier, EditProfile, vars
<1> QED BY <1>3, <1>4, <1>5, <1>6 DEF Next

LEMMA ServerTypeStep ==
    ASSUME TypeOK, [Next]_vars
    PROVE  running' \subseteq Session /\ server' \in [Session -> Server \union {None}]
<1> DEFINE T == running' \subseteq Session /\ server' \in [Session -> Server \union {None}]
<1>0. running \subseteq Session /\ server \in [Session -> Server \union {None}]
      /\ profile \in Profile
    BY DEF TypeOK
<1>1. ASSUME NEW s \in Session, HookNext(s) PROVE T
    BY <1>0, <1>1 DEF HookNext, SessionStart, Claim, Compact, Arm, WriteArmed, AuditArmed, Stop,
                      Release
<1>2. ASSUME NEW c \in Session, ServerNext(c) PROVE T
    <2>1. CASE StartServer(c)
        BY <1>0, <2>1 DEF StartServer, Server
    <2>2. CASE HeartbeatEnds(c)
        <3>1. server[c] \in Server
            BY <1>0, <2>2 DEF HeartbeatEnds, Beating
        <3>2. [server[c] EXCEPT !.beating = FALSE] \in Server
            BY <3>1 DEF Server
        <3> QED BY <1>0, <2>2, <3>2 DEF HeartbeatEnds
    <2>3. CASE ~StartServer(c) /\ ~HeartbeatEnds(c)
        BY <1>0, <1>2, <2>3 DEF ServerNext, Beat, CallAck, TargetAck, PinAck, AuditAck,
                                ReadAckState, WriteAck, AckStep
    <2> QED BY <2>1, <2>2, <2>3
<1>3. CASE (\E s \in Session : Kill(s)) \/ Expire \/ SwitchBarrier
           \/ (\E p \in Profile : EditProfile(p)) \/ UNCHANGED vars
    BY <1>0, <1>3 DEF Kill, Expire, SwitchBarrier, EditProfile, vars
<1> QED BY <1>1, <1>2, <1>3 DEF Next

LEMMA TakenStep ==
    ASSUME TypeOK, [Next]_vars
    PROVE  taken' \in [Session -> SUBSET Session]
<1> USE DEF TypeOK, SetAck
<1>1. ASSUME NEW s \in Session, HookNext(s) PROVE taken' \in [Session -> SUBSET Session]
    <2>1. CASE Claim(s)
        BY <2>1 DEF Claim
    <2>2. CASE ~Claim(s)
        <3>1. UNCHANGED taken
            BY <1>1, <2>2 DEF HookNext, SessionStart, Compact, Arm, WriteArmed, AuditArmed, Stop,
                              Release
        <3> QED BY <3>1
    <2> QED BY <2>1, <2>2
<1>2. ASSUME NEW c \in Session, ServerNext(c) PROVE taken' \in [Session -> SUBSET Session]
    BY <1>2 DEF ServerNext, StartServer, Beat, HeartbeatEnds, CallAck, TargetAck, PinAck,
                AuditAck, ReadAckState, WriteAck, AckStep
<1>3. CASE (\E s \in Session : Kill(s)) \/ Expire \/ SwitchBarrier
           \/ (\E p \in Profile : EditProfile(p)) \/ UNCHANGED vars
    BY <1>3 DEF Kill, Expire, SwitchBarrier, EditProfile, vars
<1> QED BY <1>1, <1>2, <1>3 DEF Next

LEMMA FlagStep ==
    ASSUME TypeOK, [Next]_vars
    PROVE  FlagTypes'
<1>0. FlagTypes
    BY TypeParts
<1>1. audited' \in [Session -> BOOLEAN]
    <2>1. \/ audited' = audited
          \/ \E s \in Session : audited' = [audited EXCEPT ![s] = FALSE]
          \/ \E s \in Session : \E row : audited' = [audited EXCEPT ![s] = @ \/ guard[s] = row]
        <3>1. ASSUME NEW c \in Session, WriteAck(c) \/ AuditAck(c)
              PROVE  ack[c].target \in Session
            BY <3>1, Holds DEF WriteAck, AuditAck, AckStep, ReadAck
        <3>2. ASSUME NEW s \in Session, HookNext(s)
              PROVE  \/ audited' = audited
                     \/ audited' = [audited EXCEPT ![s] = FALSE]
                     \/ audited' = [audited EXCEPT ![s] = @ \/ guard[s] = hook[s].row]
            BY <3>2 DEF HookNext, SessionStart, Claim, Compact, Arm, WriteArmed, AuditArmed, Stop,
                        Release, WriteGuard, Audit
        <3>3. ASSUME NEW c \in Session, ServerNext(c)
              PROVE  \/ audited' = audited
                     \/ WriteAck(c) /\ audited' = [audited EXCEPT ![ack[c].target] = FALSE]
                     \/ AuditAck(c) /\ audited' = [audited EXCEPT ![ack[c].target] =
                                                   @ \/ guard[ack[c].target] = ack[c].row]
            BY <3>3 DEF ServerNext, StartServer, Beat, HeartbeatEnds, CallAck, TargetAck, PinAck,
                        AuditAck, ReadAckState, WriteAck, AckStep, WriteGuard, Audit
        <3>4. CASE (\E s \in Session : Kill(s)) \/ Expire \/ SwitchBarrier
                   \/ (\E p \in Profile : EditProfile(p)) \/ UNCHANGED vars
            BY <3>4 DEF Kill, Expire, SwitchBarrier, EditProfile, vars
        <3> QED BY <3>1, <3>2, <3>3, <3>4 DEF Next
    <2> QED BY <1>0, <2>1 DEF FlagTypes
<1>2. barrier_off' \in BOOLEAN /\ raced' \in BOOLEAN /\ killed' \in BOOLEAN
    <2>1. /\ barrier_off' = barrier_off \/ barrier_off' = ~barrier_off
          /\ killed' = killed \/ killed' = TRUE
        BY Zenon DEF Next, HookNext, ServerNext, SessionStart, Claim, Compact, Arm, WriteArmed,
               AuditArmed, Stop, Release, StartServer, Beat, HeartbeatEnds, CallAck, TargetAck,
               PinAck, AuditAck, ReadAckState, WriteAck, AckStep, Kill, Expire, SwitchBarrier,
               EditProfile, vars
    <2>2. raced' \in BOOLEAN
        BY <1>0 DEF FlagTypes, Next, HookNext, ServerNext, SessionStart, Claim, Compact, Arm, WriteArmed,
               AuditArmed, Stop, Release, StartServer, Beat, HeartbeatEnds, CallAck, TargetAck,
               PinAck, AuditAck, ReadAckState, WriteAck, AckStep, Kill, Expire, SwitchBarrier,
               EditProfile, vars
    <2> QED BY <1>0, <2>1, <2>2 DEF FlagTypes
<1>3. taken' \in [Session -> SUBSET Session]
    BY TakenStep
<1> QED BY <1>1, <1>2, <1>3 DEF FlagTypes

LEMMA TypeStep == TypeOK /\ [Next]_vars => TypeOK'
<1> SUFFICES ASSUME TypeOK, [Next]_vars PROVE TypeOK'
    OBVIOUS
<1>1. FileTypes' /\ FlagTypes'
    BY FileStep, FlagStep
<1>2. ProcessTypes'
    BY HookTypeStep, AckTypeStep, ServerTypeStep DEF ProcessTypes
<1> QED BY <1>1, <1>2 DEF TypeOK, FileTypes, FlagTypes, ProcessTypes

(* Files and processes keep their shapes, for any sessions, dossiers and *)
(* profiles, and whatever process is killed.                             *)
THEOREM TypeCorrect == Spec => []TypeOK
BY TypeInit, TypeStep, PTL DEF Spec

-----------------------------------------------------------------------------
(* Audits *)

AuditPending(s) ==
    \/ At(hook, s, "AUDIT") /\ hook[s].row = guard[s]
    \/ \E c \in Session : At(ack, c, "AUDIT") /\ ack[c].target = s /\ ack[c].row = guard[s]

(* What waits to be audited is what is on disk: a writer that was overtaken by *)
(* another audits its own row, and the other one's is still to come.           *)
AuditInv == /\ TypeOK
            /\ \A s \in Session : guard[s] # None => audited[s] \/ AuditPending(s) \/ killed

LEMMA AuditStep ==
    ASSUME AuditInv, [Next]_vars, NEW s \in Session, guard'[s] # None
    PROVE  audited'[s] \/ AuditPending(s)' \/ killed'
<1> USE DEF AuditPending, SetHook, SetAck, TypeOK
<1>0. TypeOK /\ (guard[s] # None => audited[s] \/ AuditPending(s) \/ killed)
    BY DEF AuditInv
<1>1. ASSUME NEW t \in Session, HookNext(t) PROVE audited'[s] \/ AuditPending(s)' \/ killed'
    <2>1. CASE WriteArmed(t)
        <3>1. CASE t = s
            <4>1. guard'[s] = hook[s].row
                BY <1>0, <2>1, <3>1 DEF WriteArmed, WriteGuard
            <4>2. hook'[s] = [step |-> "AUDIT", row |-> hook[s].row]
                BY <1>0, <2>1, <3>1 DEF WriteArmed
            <4>3. hook'[s] # None
                <5>1. hook[s].row \in GuardRow
                    BY <1>0, <2>1, <3>1, Holds DEF WriteArmed, WriteHook
                <5>2. hook'[s] \in Hook
                    BY <4>2, <5>1 DEF Hook, AuditHook
                <5> QED BY <5>2
            <4> QED BY <4>1, <4>2, <4>3
        <3>2. CASE t # s
            BY <1>0, <2>1, <3>2 DEF WriteArmed, WriteGuard
        <3> QED BY <3>1, <3>2
    <2>2. CASE AuditArmed(t)
        BY <1>0, <2>2 DEF AuditArmed, Audit
    <2>3. CASE ~WriteArmed(t) /\ ~AuditArmed(t)
        BY <1>0, <1>1, <2>3 DEF HookNext, SessionStart, Claim, Compact, Arm, Stop, Release
    <2> QED BY <2>1, <2>2, <2>3
<1>2. ASSUME NEW c \in Session, ServerNext(c) PROVE audited'[s] \/ AuditPending(s)' \/ killed'
    <2>1. CASE WriteAck(c)
        <3>1. ack[c].target \in Session
            BY <1>0, <2>1, Holds DEF WriteAck, AckStep, ReadAck
        <3>2. CASE ack[c].target = s
            <4> DEFINE row == [ack[c].row EXCEPT !.status = "ACKNOWLEDGED"]
            <4>1. guard'[s] = row
                BY <1>0, <2>1, <3>2 DEF WriteAck, WriteGuard
            <4>2. ack'[c] = [step |-> "AUDIT", target |-> s, row |-> row]
                BY <1>0, <2>1, <3>2 DEF WriteAck
            <4>3. ack'[c] # None
                <5>1. row \in GuardRow
                    BY <1>0, <2>1, Holds DEF WriteAck, AckStep, ReadAck, GuardRow
                <5>2. ack'[c] \in Ack
                    BY <4>2, <5>1 DEF Ack, ReadAck
                <5> QED BY <5>2
            <4> QED BY <4>1, <4>2, <4>3
        <3>3. CASE ack[c].target # s
            BY <1>0, <2>1, <3>1, <3>3 DEF WriteAck, WriteGuard, AckStep
        <3> QED BY <3>2, <3>3
    <2>2. CASE AuditAck(c)
        BY <1>0, <2>2 DEF AuditAck, Audit, AckStep
    <2>3. CASE ~WriteAck(c) /\ ~AuditAck(c)
        BY <1>0, <1>2, <2>3 DEF ServerNext, StartServer, Beat, HeartbeatEnds, CallAck, TargetAck,
                                PinAck, ReadAckState, AckStep
    <2> QED BY <2>1, <2>2, <2>3
<1>3. CASE \E t \in Session : Kill(t)
    BY <1>3 DEF Kill
<1>4. CASE Expire \/ SwitchBarrier \/ (\E p \in Profile : EditProfile(p)) \/ UNCHANGED vars
    BY <1>0, <1>4 DEF Expire, SwitchBarrier, EditProfile, vars
<1> QED BY <1>1, <1>2, <1>3, <1>4 DEF Next

(* The state on disk has its audit, unless a writer is about to append it or was *)
(* killed before it could.                                                       *)
THEOREM GuardsAreAudited == Spec => []EveryGuardIsAudited
<1>1. Init => AuditInv
    BY TypeInit DEF Init, AuditInv
<1>2. AuditInv /\ [Next]_vars => AuditInv'
    BY TypeStep, AuditStep DEF AuditInv
<1>3. AuditInv => EveryGuardIsAudited
    BY DEF AuditInv, AuditPending, EveryGuardIsAudited
<1> QED BY <1>1, <1>2, <1>3, PTL DEF Spec

-----------------------------------------------------------------------------
(* Acknowledgements *)

(* What a guard says and what is owed agree; *)
Agrees(s) ==
    /\ guard[s] # None /\ guard[s].status = "ACKNOWLEDGED" => owed[s] = None
    /\ guard[s] # None /\ guard[s].status # "ACKNOWLEDGED" =>
          owed[s] = [contract |-> guard[s].contract, profile |-> guard[s].profile]

(* what a hook preserves and what a server will write back are still on disk, *)
(* or another server has acknowledged the same state meanwhile.               *)
Preserved(s) ==
    At(hook, s, "WRITE") /\ hook[s].row.status = "ACKNOWLEDGED" =>
        guard[s] # None /\ guard[s].status = "ACKNOWLEDGED"
StillThere(c) ==
    At(ack, c, "READ") =>
        /\ ack[c].row.status # "ACKNOWLEDGED"
        /\ guard[ack[c].target] # None
        /\ guard[ack[c].target] = ack[c].row \/ guard[ack[c].target].status = "ACKNOWLEDGED"

AckInv == /\ TypeOK
          /\ ~raced => \A s \in Session : Agrees(s) /\ Preserved(s) /\ StillThere(s)

LEMMA RacedStays ==
    ASSUME TypeOK, [Next]_vars, ~raced'
    PROVE  ~raced
BY Zenon DEF Next, HookNext, ServerNext, SessionStart, Claim, Compact, Arm, WriteArmed,
       AuditArmed, Stop, Release, StartServer, Beat, HeartbeatEnds, CallAck, TargetAck,
       PinAck, AuditAck, ReadAckState, WriteAck, AckStep, Kill, Expire, SwitchBarrier,
       EditProfile, vars

LEMMA AgreesStep ==
    ASSUME AckInv, [Next]_vars, ~raced', NEW s \in Session
    PROVE  Agrees(s)' /\ Preserved(s)'
<1> USE DEF Agrees, Preserved, SetHook, SetAck, TypeOK
<1>0. TypeOK /\ \A t \in Session : Agrees(t) /\ Preserved(t) /\ StillThere(t)
    BY RacedStays DEF AckInv
<1>1. ASSUME NEW t \in Session, HookNext(t) PROVE Agrees(s)' /\ Preserved(s)'
    <2>1. CASE WriteArmed(t) /\ t = s
        <3>1. hook[s].row \in GuardRow
            BY <1>0, <2>1, Holds DEF WriteArmed, WriteHook
        <3>2. guard'[s] = hook[s].row /\ ~At(hook, s, "WRITE")'
            BY <1>0, <2>1 DEF WriteArmed, WriteGuard
        <3>3. CASE hook[s].row.status = "ACKNOWLEDGED"
            BY <1>0, <2>1, <3>1, <3>2, <3>3 DEF WriteArmed, GuardRow
        <3>4. CASE hook[s].row.status # "ACKNOWLEDGED"
            <4>1. owed'[s] = [contract |-> guard'[s].contract, profile |-> guard'[s].profile]
                BY <1>0, <2>1, <3>2, <3>4 DEF WriteArmed
            <4> QED BY <3>1, <3>2, <3>4, <4>1 DEF GuardRow
        <3> QED BY <3>3, <3>4
    <2>2. CASE WriteArmed(t) /\ t # s
        BY <1>0, <2>2 DEF WriteArmed, WriteGuard
    <2>3. ASSUME NEW contract \in Contract, Arm(t, contract) PROVE Agrees(s)' /\ Preserved(s)'
        BY <1>0, <2>3 DEF Arm, Armed
    <2>4. CASE ~WriteArmed(t) /\ ~\E contract \in Contract : Arm(t, contract)
        BY <1>0, <1>1, <2>4 DEF HookNext, SessionStart, Claim, Compact, AuditArmed, Stop, Release
    <2> QED BY <2>1, <2>2, <2>3, <2>4
<1>2. ASSUME NEW c \in Session, ServerNext(c) PROVE Agrees(s)' /\ Preserved(s)'
    <2>1. CASE WriteAck(c)
        <3> DEFINE t == ack[c].target
                   row == [ack[c].row EXCEPT !.status = "ACKNOWLEDGED"]
        <3>1. t \in Session /\ ack[c].row \in GuardRow /\ At(ack, c, "READ")
            BY <1>0, <2>1, Holds DEF WriteAck, AckStep, ReadAck
        <3>2. row \in GuardRow /\ row.status = "ACKNOWLEDGED"
              /\ row.contract = ack[c].row.contract /\ row.profile = ack[c].row.profile
            BY <3>1 DEF GuardRow
        <3>3. guard' = [guard EXCEPT ![t] = row] /\ hook' = hook
            BY <2>1 DEF WriteAck, WriteGuard, AckStep
        <3>4. owed' = IF owed[t] = [contract |-> row.contract, profile |-> row.profile]
                      THEN [owed EXCEPT ![t] = None] ELSE owed
            BY <2>1 DEF WriteAck
        <3>5. CASE t = s
            <4>1. guard'[s] = row
                BY <1>0, <3>1, <3>3, <3>5
            <4>2. owed'[s] = None
                BY <1>0, <3>1, <3>2, <3>4, <3>5 DEF StillThere
            <4> QED BY <3>2, <4>1, <4>2
        <3>6. CASE t # s
            BY <1>0, <3>1, <3>3, <3>4, <3>6
        <3> QED BY <3>5, <3>6
    <2>2. CASE ~WriteAck(c)
        BY <1>0, <1>2, <2>2 DEF ServerNext, StartServer, Beat, HeartbeatEnds, CallAck, TargetAck,
                                PinAck, ReadAckState, AuditAck, AckStep
    <2> QED BY <2>1, <2>2
<1>3. CASE \E t \in Session : Kill(t)
    BY <1>0, <1>3 DEF Kill
<1>4. CASE Expire \/ SwitchBarrier \/ (\E p \in Profile : EditProfile(p)) \/ UNCHANGED vars
    BY <1>0, <1>4 DEF Expire, SwitchBarrier, EditProfile, vars
<1> QED BY <1>1, <1>2, <1>3, <1>4 DEF Next

LEMMA StillThereStep ==
    ASSUME AckInv, [Next]_vars, ~raced', NEW s \in Session
    PROVE  StillThere(s)'
<1> USE DEF StillThere, SetHook, SetAck, TypeOK
<1>0. TypeOK /\ \A t \in Session : Preserved(t) /\ StillThere(t)
    BY RacedStays DEF AckInv
<1>1. ASSUME NEW t \in Session, HookNext(t) PROVE StillThere(s)'
    <2>1. CASE WriteArmed(t)
        <3>1. hook[t].row \in GuardRow
            BY <1>0, <2>1, Holds DEF WriteArmed, WriteHook
        <3>2. guard' = [guard EXCEPT ![t] = hook[t].row] /\ ack' = ack
            BY <2>1 DEF WriteArmed, WriteGuard
        <3>3. At(ack, s, "READ") => ack[s].target \in Session
            BY <1>0, Holds DEF ReadAck
        <3>4. hook[t].row.status = "ACKNOWLEDGED" \/ ~AckHolds(t)
            BY <2>1 DEF WriteArmed
        <3>5. At(ack, s, "READ") /\ ack[s].target = t => hook[t].row.status = "ACKNOWLEDGED"
            BY <3>4 DEF AckHolds
        <3> QED BY <1>0, <3>1, <3>2, <3>3, <3>5
    <2>2. CASE ~WriteArmed(t)
        BY <1>0, <1>1, <2>2 DEF HookNext, SessionStart, Claim, Compact, Arm, AuditArmed, Stop, Release
    <2> QED BY <2>1, <2>2
<1>2. ASSUME NEW c \in Session, ServerNext(c) PROVE StillThere(s)'
    <2>1. CASE WriteAck(c)
        <3> DEFINE row == [ack[c].row EXCEPT !.status = "ACKNOWLEDGED"]
        <3>1. ack[c].target \in Session /\ ack[c].row \in GuardRow
            BY <1>0, <2>1, Holds DEF WriteAck, AckStep, ReadAck
        <3>2. row # None /\ row.status = "ACKNOWLEDGED"
            BY <3>1 DEF GuardRow
        <3>3. guard' = [guard EXCEPT ![ack[c].target] = row]
            BY <2>1 DEF WriteAck, WriteGuard
        <3>4. ack' = [ack EXCEPT ![c] = [step |-> "AUDIT", target |-> ack[c].target, row |-> row]]
            BY <2>1 DEF WriteAck
        <3>5. At(ack, s, "READ") => ack[s].target \in Session
            BY <1>0, Holds DEF ReadAck
        <3>6. CASE c = s
            BY <1>0, <3>4, <3>6
        <3>7. CASE c # s
            <4>1. ack'[s] = ack[s]
                BY <1>0, <3>4, <3>7
            <4> QED BY <1>0, <3>1, <3>2, <3>3, <3>5, <4>1
        <3> QED BY <3>6, <3>7
    <2>2. ASSUME NEW sufficient \in BOOLEAN, ReadAckState(c, sufficient) PROVE StillThere(s)'
        BY <1>0, <2>2 DEF ReadAckState, AckStep, Readable
    <2>3. CASE ~WriteAck(c) /\ ~\E sufficient \in BOOLEAN : ReadAckState(c, sufficient)
        BY <1>0, <1>2, <2>3 DEF ServerNext, StartServer, Beat, HeartbeatEnds, CallAck, TargetAck,
                                PinAck, AuditAck, AckStep
    <2> QED BY <2>1, <2>2, <2>3
<1>3. CASE \E t \in Session : Kill(t)
    BY <1>0, <1>3 DEF Kill
<1>4. CASE Expire \/ SwitchBarrier \/ (\E p \in Profile : EditProfile(p)) \/ UNCHANGED vars
    BY <1>0, <1>4 DEF Expire, SwitchBarrier, EditProfile, vars
<1> QED BY <1>1, <1>2, <1>3, <1>4 DEF Next

LEMMA AckInvHolds == Spec => []AckInv
<1>1. Init => AckInv
    BY TypeInit DEF Init, AckInv, Agrees, Preserved, StillThere
<1>2. AckInv /\ [Next]_vars => AckInv'
    BY TypeStep, AgreesStep, StillThereStep DEF AckInv
<1> QED BY <1>1, <1>2, PTL DEF Spec

(* Where no arming met an acknowledgement, a guard is acknowledged only if the  *)
(* dossier that was armed last was acknowledged after it, over any number of    *)
(* resumptions, compactions, restarts, edits of the profile, stops and claims   *)
(* under an acknowledgement, and servers that acknowledge the same session.     *)
THEOREM AcknowledgementsAreGiven == Spec => []AcknowledgedOwesNothing
<1>1. AckInv => AcknowledgedOwesNothing
    BY DEF AckInv, Agrees, AcknowledgedOwesNothing
<1> QED BY <1>1, AckInvHolds, PTL

-----------------------------------------------------------------------------
(* Sessions *)

(* Until a server has looked, the project is free, its client's, or claimed    *)
(* since; what it works for when it has looked is of the same.                 *)
HeldIt(c) ==
    /\ At(ack, c, "CALLED") => binding \in {None, c} \union taken[c]
    /\ ack[c] # None /\ ~At(ack, c, "CALLED") => ack[c].target \in {c} \union taken[c]
CrossInv == TypeOK /\ \A c \in Session : HeldIt(c)

LEMMA HeldItStep ==
    ASSUME CrossInv, [Next]_vars, NEW s \in Session
    PROVE  HeldIt(s)'
<1> USE DEF HeldIt, SetHook, SetAck, TypeOK
<1>0. TypeOK /\ HeldIt(s)
    BY DEF CrossInv
<1>1. ASSUME NEW t \in Session, HookNext(t) PROVE HeldIt(s)'
    <2>1. CASE Claim(t)
        BY <1>0, <2>1 DEF Claim
    <2>2. CASE Release(t)
        BY <1>0, <2>2 DEF Release
    <2>3. CASE ~Claim(t) /\ ~Release(t)
        BY <1>0, <1>1, <2>3 DEF HookNext, SessionStart, Compact, Arm, WriteArmed, AuditArmed, Stop
    <2> QED BY <2>1, <2>2, <2>3
<1>2. ASSUME NEW c \in Session, ServerNext(c) PROVE HeldIt(s)'
    BY <1>0, <1>2 DEF ServerNext, StartServer, Beat, HeartbeatEnds, CallAck, TargetAck,
                      PinAck, ReadAckState, WriteAck, AuditAck, AckStep
<1>3. CASE \E t \in Session : Kill(t)
    BY <1>0, <1>3 DEF Kill
<1>4. CASE Expire \/ SwitchBarrier \/ (\E p \in Profile : EditProfile(p)) \/ UNCHANGED vars
    BY <1>0, <1>4 DEF Expire, SwitchBarrier, EditProfile, vars
<1> QED BY <1>1, <1>2, <1>3, <1>4 DEF Next

(* Whatever stops, claims, releases, kills and other acknowledgements fall into *)
(* an acknowledgement, it is written to the guard of the caller's own session   *)
(* or of one that claimed the project between the hook's look at the binding    *)
(* and the server's, never of one that held it before or takes it afterwards.   *)
THEOREM SessionsDoNotCross == Spec => AcknowledgesWhoHeldIt
<1>1. Init => CrossInv
    BY TypeInit DEF Init, CrossInv, HeldIt
<1>2. CrossInv /\ [Next]_vars => CrossInv'
    BY TypeStep, HeldItStep DEF CrossInv
<1>3. CrossInv => [\A c \in Session : WriteAck(c) => ack[c].target \in {c} \union taken[c]]_vars
    BY DEF CrossInv, HeldIt, WriteAck, AckStep
<1> QED BY <1>1, <1>2, <1>3, PTL DEF Spec, AcknowledgesWhoHeldIt
=============================================================================
