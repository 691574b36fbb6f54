----------------------------- MODULE FrontHandoff -----------------------------
(***************************************************************************)
(* The Front of a project is a chain of full snapshots, each written on    *)
(* top of the current one, and a handoff quotes the Front that is current. *)
(* A process opens the store under the profile of that moment and may keep *)
(* it open for long (the MCP server does) while the profile is edited.     *)
(* What it writes next it reads before its transaction: one action reads,  *)
(* a later one is the transaction.                                         *)
(***************************************************************************)
EXTENDS Naturals

CONSTANTS Session,         \* processes that may open the store
          Revision,        \* identifiers of Front revisions, in their order
          HandoffId,       \* identifiers of handoffs, in their order
          Profile,         \* contents of the Project Profile
          Field, Value,
          DeclaredFields,  \* front.fields of each profile
          ResumeContract,  \* resume sections each profile requires
          MaxNow,          \* bound on the wall clock, in milliseconds
          None             \* an absent row, or nothing pending

ASSUME IdentifiersAreOrdered == Revision \subseteq Nat /\ HandoffId \subseteq Nat
ASSUME ProfilesDeclare ==
    /\ DeclaredFields \in [Profile -> (SUBSET Field) \ {{}}]
    /\ DOMAIN ResumeContract = Profile
    /\ MaxNow \in Nat

Contract == {ResumeContract[p] : p \in Profile}
Fields == UNION {[D -> Value] : D \in SUBSET Field}

FrontRevision == [previous : Revision \union {None}, profile : Profile,
                  fields : Fields, at : Nat]
Handoff == [front : Revision, profile : Profile, contract : Contract, at : Nat]

(* What a session has read and is about to insert. *)
FrontDraft == [kind : {"FRONT"}, id : Revision, previous : Revision \union {None},
               fields : Fields, patch : SUBSET Field]
HandoffDraft == [kind : {"HANDOFF"}, id : HandoffId, front : Revision, contract : Contract]

SessionState == [identity : Profile, draft : FrontDraft \union HandoffDraft \union {None}]

ASSUME NoneAssumption ==
    None \notin Nat \union FrontRevision \union Handoff
                    \union FrontDraft \union HandoffDraft \union SessionState

VARIABLES
    profile,   \* the Project Profile on disk, which the store is bound to
    now,       \* the wall clock
    revision,  \* rows of front_revision
    handoff,   \* rows of handoff
    session,   \* per process: the identity it opened the store under, its draft
    overlapped \* history: an edit of the profile met an open store

project == <<profile, overlapped>>
tables == <<revision, handoff>>
vars == <<project, now, tables, session>>

(* Rows, sessions and drafts have their shapes, and rows refer to rows: the *)
(* foreign keys of migration 039.                                           *)
TypeOK ==
    /\ profile \in Profile
    /\ now \in 0..MaxNow
    /\ revision \in [Revision -> FrontRevision \union {None}]
    /\ handoff \in [HandoffId -> Handoff \union {None}]
    /\ session \in [Session -> SessionState \union {None}]
    /\ overlapped \in BOOLEAN

Init ==
    /\ profile \in Profile
    /\ now = 0
    /\ revision = [f \in Revision |-> None]
    /\ handoff = [h \in HandoffId |-> None]
    /\ session = [s \in Session |-> None]
    /\ overlapped = FALSE

-----------------------------------------------------------------------------
(* What a process reads *)

(* ORDER BY created_at DESC, id DESC LIMIT 1 *)
Latest(table, S) ==
    LET top == {x \in S : \A y \in S :
                   table[y].at < table[x].at \/ (table[y].at = table[x].at /\ y <= x)}
    IN IF top = {} THEN None ELSE CHOOSE x \in top : TRUE

Revisions == {f \in Revision : revision[f] # None}
Handoffs == {h \in HandoffId : handoff[h] # None}

(* How it could go wrong: the latest row of any profile is taken, *)
LatestOfAnyProfile(p) == Latest(revision, Revisions)

(* FrontService.current: the revision, or none; *)
Current(p) == Latest(revision, {f \in Revisions : revision[f].profile = p})

(* or an exception, where _from_row refuses what it finds: the row must be of  *)
(* the identity of the session and have the fields the profile on disk asks.   *)
Readable(f, p) ==
    /\ revision[f].profile = p
    /\ DOMAIN revision[f].fields = DeclaredFields[profile]
CurrentAnswers(p) == Current(p) # None => Readable(Current(p), p)

Idle(s) == session[s] # None /\ session[s].draft = None
Identity(s) == session[s].identity
Draft(s, draft) == session' = [session EXCEPT ![s].draft = draft]

-----------------------------------------------------------------------------
(* Sessions *)

Open(s) ==
    /\ session[s] = None
    /\ session' = [session EXCEPT ![s] = [identity |-> profile, draft |-> None]]
    /\ UNCHANGED <<project, now, tables>>

Close(s) ==
    /\ session[s] # None
    /\ session' = [session EXCEPT ![s] = None]
    /\ UNCHANGED <<project, now, tables>>

-----------------------------------------------------------------------------
(* Front *)

(* How it could go wrong: the chain is continued from any latest revision. *)
ReplaceLatestOfAll(s, id, fields) ==
    /\ Idle(s)
    /\ DOMAIN fields = DeclaredFields[profile]
    /\ CurrentAnswers(Identity(s))
    /\ Draft(s, [kind |-> "FRONT", id |-> id, previous |-> LatestOfAnyProfile(Identity(s)),
                 fields |-> fields, patch |-> DOMAIN fields])
    /\ UNCHANGED <<project, now, tables>>

Replace(s, id, fields) ==
    /\ Idle(s)
    /\ DOMAIN fields = DeclaredFields[profile]
    /\ CurrentAnswers(Identity(s))
    /\ Draft(s, [kind |-> "FRONT", id |-> id, previous |-> Current(Identity(s)),
                 fields |-> fields, patch |-> DOMAIN fields])
    /\ UNCHANGED <<project, now, tables>>

Merged(fields, patch) ==
    [x \in DOMAIN fields |-> IF x \in DOMAIN patch THEN patch[x] ELSE fields[x]]

Update(s, id, patch) ==
    LET previous == Current(Identity(s)) IN
    /\ Idle(s)
    /\ previous # None
    /\ Readable(previous, Identity(s))
    /\ DOMAIN patch # {} /\ DOMAIN patch \subseteq DeclaredFields[profile]
    /\ Draft(s, [kind |-> "FRONT", id |-> id, previous |-> previous,
                 fields |-> Merged(revision[previous].fields, patch),
                 patch |-> DOMAIN patch])
    /\ UNCHANGED <<project, now, tables>>

(* The transaction of _record. *)
RecordFront(s) ==
    /\ session[s] # None /\ session[s].draft \in FrontDraft
    /\ LET draft == session[s].draft IN
          /\ revision[draft.id] = None
          /\ revision' = [revision EXCEPT ![draft.id] =
                [previous |-> draft.previous, profile |-> Identity(s),
                 fields |-> draft.fields, at |-> now]]
    /\ Draft(s, None)
    /\ UNCHANGED <<project, now, handoff>>

-----------------------------------------------------------------------------
(* Handoffs *)

(* The dossier is compiled from the profile on disk just before, and refused if *)
(* the profile asks something else by now: it carries what the profile asks.    *)
Prepare(s, id) ==
    LET front == Current(Identity(s)) IN
    /\ Idle(s)
    /\ front # None
    /\ Readable(front, Identity(s))
    /\ Draft(s, [kind |-> "HANDOFF", id |-> id, front |-> front,
                 contract |-> ResumeContract[profile]])
    /\ UNCHANGED <<project, now, tables>>

RecordHandoff(s) ==
    /\ session[s] # None /\ session[s].draft \in HandoffDraft
    /\ LET draft == session[s].draft IN
          /\ handoff[draft.id] = None
          /\ handoff' = [handoff EXCEPT ![draft.id] =
                [front |-> draft.front, profile |-> Identity(s),
                 contract |-> draft.contract, at |-> now]]
    /\ Draft(s, None)
    /\ UNCHANGED <<project, now, revision>>

(* The PRIMARY KEY refuses an identifier that was used meanwhile. *)
RefuseDuplicate(s) ==
    /\ session[s] # None
    /\ \/ session[s].draft \in FrontDraft /\ revision[session[s].draft.id] # None
       \/ session[s].draft \in HandoffDraft /\ handoff[session[s].draft.id] # None
    /\ Draft(s, None)
    /\ UNCHANGED <<project, now, tables>>

-----------------------------------------------------------------------------
(* The project around them *)

(* commit_profile_change, where nothing interrupts it: profile and store move. *)
EditProfile(p) ==
    /\ p # profile
    /\ profile' = p
    /\ overlapped' = (overlapped \/ \E s \in Session : session[s] # None)
    /\ UNCHANGED <<now, tables, session>>

(* A millisecond passes; several transactions may share one. *)
Tick ==
    /\ now < MaxNow
    /\ now' = now + 1
    /\ UNCHANGED <<project, tables, session>>

SessionNext == \E s \in Session :
    \/ Open(s)
    \/ Close(s)
    \/ \E id \in Revision, fields \in [DeclaredFields[profile] -> Value] :
          Replace(s, id, fields)
    \/ \E id \in Revision, D \in SUBSET DeclaredFields[profile] : \E patch \in [D -> Value] :
          Update(s, id, patch)
    \/ \E id \in HandoffId : Prepare(s, id)
    \/ RecordFront(s)
    \/ RecordHandoff(s)
    \/ RefuseDuplicate(s)

Next ==
    \/ SessionNext
    \/ \E p \in Profile : EditProfile(p)
    \/ Tick

Spec == Init /\ [][Next]_vars

-----------------------------------------------------------------------------
(* A revision follows one of its own profile that is not younger: the history  *)
(* of a profile is never mixed with that of another, whoever writes under it.  *)
ChainStaysInProfile == \A f \in Revisions : revision[f].previous # None =>
        LET previous == revision[f].previous IN
        /\ revision[previous] # None
        /\ revision[previous].profile = revision[f].profile
        /\ revision[previous].at <= revision[f].at

(* A handoff quotes a Front of the profile it is bound to, recorded before it. *)
HandoffQuotesItsFront == \A h \in Handoffs :
    LET front == handoff[h].front IN
    /\ revision[front] # None
    /\ revision[front].profile = handoff[h].profile
    /\ revision[front].at <= handoff[h].at

(* A process that opens the store now can read the Front, and so replace it: a *)
(* revision that its own profile refuses would lock the Front for good.        *)
FrontStaysWritable == CurrentAnswers(profile)

(* It stays so through any edits and edits back that meet no open store, *)
QuietEditsKeepFrontWritable == ~overlapped => FrontStaysWritable

(* and then a handoff carries the resume contract of the profile it is bound to. *)
HandoffCarriesItsContract == ~overlapped => \A h \in Handoffs :
    handoff[h].contract = ResumeContract[handoff[h].profile]

=============================================================================
