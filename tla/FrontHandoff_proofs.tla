-------------------------- MODULE FrontHandoff_proofs --------------------------
(* Theorems about FrontHandoff, for any processes, profiles and identifiers. *)
EXTENDS FrontHandoff, TLAPS

USE IdentifiersAreOrdered, ProfilesDeclare, NoneAssumption DEF tables, project

-----------------------------------------------------------------------------
(* What reading the current Front returns *)

LEMMA CurrentIsARow ==
    ASSUME NEW p, Current(p) # None
    PROVE  Current(p) \in Revisions /\ revision[Current(p)].profile = p
BY DEF Current, Latest

LEMMA MergedKeepsFields ==
    ASSUME NEW D \in SUBSET Field, NEW fields \in [D -> Value],
           NEW E \in SUBSET D, NEW patch \in [E -> Value]
    PROVE  Merged(fields, patch) \in [D -> Value] /\ Merged(fields, patch) \in Fields
BY DEF Merged, Fields

-----------------------------------------------------------------------------
(* Type correctness *)

LEMMA TypeInit == Init => TypeOK
<1>1. Init => now \in 0..MaxNow
    BY DEF Init
<1>2. Init => /\ profile \in Profile
              /\ revision \in [Revision -> FrontRevision \union {None}]
              /\ handoff \in [HandoffId -> Handoff \union {None}]
              /\ session \in [Session -> SessionState \union {None}]
    BY Zenon DEF Init
<1>3. Init => overlapped \in BOOLEAN
    BY Zenon DEF Init
<1> QED BY <1>1, <1>2, <1>3 DEF TypeOK

ReplaceDraft(s, id, fields) ==
    [kind |-> "FRONT", id |-> id, previous |-> Current(Identity(s)),
     fields |-> fields, patch |-> DOMAIN fields]
UpdateDraft(s, id, patch) ==
    [kind |-> "FRONT", id |-> id, previous |-> Current(Identity(s)),
     fields |-> Merged(revision[Current(Identity(s))].fields, patch),
     patch |-> DOMAIN patch]
PrepareDraft(s, id) ==
    [kind |-> "HANDOFF", id |-> id, front |-> Current(Identity(s)),
     contract |-> ResumeContract[profile]]

LEMMA ReplaceDraftType ==
    ASSUME TypeOK, NEW s \in Session, NEW id \in Revision,
           NEW fields \in [DeclaredFields[profile] -> Value]
    PROVE  ReplaceDraft(s, id, fields) \in FrontDraft
<1>1. fields \in Fields /\ DOMAIN fields \in SUBSET Field
    BY DEF TypeOK, Fields
<1>2. Current(Identity(s)) \in Revision \union {None}
    BY CurrentIsARow DEF Revisions
<1> QED BY <1>1, <1>2 DEF FrontDraft, ReplaceDraft

LEMMA UpdateDraftType ==
    ASSUME TypeOK, NEW s \in Session, NEW id \in Revision,
           NEW D \in SUBSET DeclaredFields[profile], NEW patch \in [D -> Value],
           Update(s, id, patch)
    PROVE  /\ UpdateDraft(s, id, patch) \in FrontDraft
           /\ DOMAIN UpdateDraft(s, id, patch).fields = DeclaredFields[profile]
<1> DEFINE previous == Current(Identity(s))
<1>1. previous \in Revision /\ revision[previous] \in FrontRevision
    <2>1. previous # None
        BY DEF Update
    <2>2. previous \in Revisions
        BY <2>1, CurrentIsARow
    <2> QED BY <2>2 DEF Revisions, TypeOK
<1>2. /\ revision[previous].fields \in [DeclaredFields[profile] -> Value]
      /\ DeclaredFields[profile] \in SUBSET Field
    BY <1>1 DEF Update, Readable, FrontRevision, Fields, TypeOK
<1>3. /\ Merged(revision[previous].fields, patch) \in [DeclaredFields[profile] -> Value]
      /\ Merged(revision[previous].fields, patch) \in Fields
    BY <1>2, MergedKeepsFields
<1> QED BY <1>1, <1>2, <1>3 DEF FrontDraft, UpdateDraft

LEMMA PrepareDraftType ==
    ASSUME TypeOK, NEW s \in Session, NEW id \in HandoffId, Prepare(s, id)
    PROVE  PrepareDraft(s, id) \in HandoffDraft
<1>1. Current(Identity(s)) \in Revision
    BY CurrentIsARow DEF Prepare, Revisions
<1> QED BY <1>1 DEF HandoffDraft, PrepareDraft, Contract, TypeOK

(* The three ways a session comes to a draft, and what they have in common. *)
Drafting(s, draft) ==
    /\ session[s] # None
    /\ draft \in FrontDraft \union HandoffDraft
    /\ session' = [session EXCEPT ![s].draft = draft]
    /\ UNCHANGED <<project, now, tables>>

LEMMA ReplaceDrafts ==
    ASSUME TypeOK, NEW s \in Session, NEW id \in Revision,
           NEW fields \in [DeclaredFields[profile] -> Value], Replace(s, id, fields)
    PROVE  Drafting(s, ReplaceDraft(s, id, fields))
BY ReplaceDraftType DEF Drafting, Replace, Idle, Draft, ReplaceDraft

LEMMA UpdateDrafts ==
    ASSUME TypeOK, NEW s \in Session, NEW id \in Revision,
           NEW D \in SUBSET DeclaredFields[profile], NEW patch \in [D -> Value],
           Update(s, id, patch)
    PROVE  Drafting(s, UpdateDraft(s, id, patch))
BY UpdateDraftType DEF Drafting, Update, Idle, Draft, UpdateDraft

LEMMA PrepareDrafts ==
    ASSUME TypeOK, NEW s \in Session, NEW id \in HandoffId, Prepare(s, id)
    PROVE  Drafting(s, PrepareDraft(s, id))
BY PrepareDraftType DEF Drafting, Prepare, Idle, Draft, PrepareDraft

LEMMA DraftingType ==
    ASSUME TypeOK, NEW s \in Session, NEW draft, Drafting(s, draft)
    PROVE  TypeOK'
BY DEF TypeOK, Drafting, SessionState

LEMMA RecordType ==
    ASSUME TypeOK, NEW s \in Session,
           RecordFront(s) \/ RecordHandoff(s) \/ RefuseDuplicate(s)
    PROVE  TypeOK'
<1>1. session[s] \in SessionState
    BY DEF TypeOK, RecordFront, RecordHandoff, RefuseDuplicate
<1>2. session' \in [Session -> SessionState \union {None}]
    BY <1>1 DEF TypeOK, RecordFront, RecordHandoff, RefuseDuplicate, Draft, SessionState
<1>3. CASE RecordFront(s)
    BY <1>1, <1>2, <1>3
       DEF TypeOK, RecordFront, FrontRevision, FrontDraft, Identity, SessionState
<1>4. CASE RecordHandoff(s)
    BY <1>1, <1>2, <1>4
       DEF TypeOK, RecordHandoff, Handoff, HandoffDraft, Identity, SessionState
<1>5. CASE RefuseDuplicate(s)
    BY <1>2, <1>5 DEF TypeOK, RefuseDuplicate
<1> QED BY <1>3, <1>4, <1>5

LEMMA TypeStep == TypeOK /\ [Next]_vars => TypeOK'
<1> SUFFICES ASSUME TypeOK, [Next]_vars PROVE TypeOK'
    OBVIOUS
<1>1. CASE UNCHANGED vars
    BY <1>1 DEF vars, TypeOK
<1>2. ASSUME NEW p \in Profile, EditProfile(p) PROVE TypeOK'
    BY <1>2 DEF EditProfile, TypeOK
<1>3. CASE Tick
    BY <1>3 DEF Tick, TypeOK
<1>4. ASSUME NEW s \in Session, Open(s) \/ Close(s) PROVE TypeOK'
    BY <1>4 DEF Open, Close, TypeOK, SessionState
<1> QED BY <1>1, <1>2, <1>3, <1>4, ReplaceDrafts, UpdateDrafts, PrepareDrafts,
           DraftingType, RecordType
        DEF Next, SessionNext

(* Rows, drafts and sessions keep their shapes, and the chain and the handoffs *)
(* refer to revisions only.                                                    *)
THEOREM TypeCorrect == Spec => []TypeOK
BY TypeInit, TypeStep, PTL DEF Spec

-----------------------------------------------------------------------------
(* What steps do to the tables and to the sessions *)

LEMMA AppendOnly ==
    ASSUME TypeOK, [Next]_vars
    PROVE  /\ now <= now'
           /\ \A f \in Revision : revision[f] # None => revision'[f] = revision[f]
           /\ \A h \in HandoffId : handoff[h] # None => handoff'[h] = handoff[h]
<1>1. CASE UNCHANGED vars
    BY <1>1 DEF vars, TypeOK
<1>2. ASSUME NEW s \in Session, RecordFront(s)
      PROVE /\ \A f \in Revision : revision[f] # None => revision'[f] = revision[f]
            /\ UNCHANGED <<now, handoff>>
    BY <1>2 DEF RecordFront, TypeOK
<1>3. ASSUME NEW s \in Session, RecordHandoff(s)
      PROVE /\ \A h \in HandoffId : handoff[h] # None => handoff'[h] = handoff[h]
            /\ UNCHANGED <<now, revision>>
    BY <1>3 DEF RecordHandoff, TypeOK
<1>4. ASSUME NEW s \in Session, Open(s) \/ Close(s) \/ RefuseDuplicate(s)
      PROVE UNCHANGED <<now, tables>>
    BY <1>4 DEF Open, Close, RefuseDuplicate
<1>5. ASSUME NEW s \in Session, NEW draft, Drafting(s, draft) PROVE UNCHANGED <<now, tables>>
    BY <1>5 DEF Drafting
<1>6. ASSUME NEW p \in Profile, EditProfile(p) PROVE UNCHANGED <<now, tables>>
    BY <1>6 DEF EditProfile
<1>7. CASE Tick
    BY <1>7 DEF Tick, TypeOK
<1>8. ASSUME UNCHANGED <<now, tables>> PROVE now <= now' /\ UNCHANGED <<revision, handoff>>
    BY <1>8 DEF TypeOK
<1>9. now <= now
    BY DEF TypeOK
<1>10. CASE SessionNext
    BY <1>10, <1>2, <1>3, <1>4, <1>5, <1>8, <1>9, ReplaceDrafts, UpdateDrafts, PrepareDrafts
       DEF SessionNext
<1> QED BY <1>1, <1>6, <1>7, <1>8, <1>10 DEF Next

(* The writer of a row is a session that held it as a draft. *)
LEMMA RevisionWriter ==
    ASSUME TypeOK, [Next]_vars, NEW f \in Revision, revision'[f] # revision[f]
    PROVE  \E s \in Session : /\ session[s] # None /\ session[s].draft \in FrontDraft
                              /\ revision'[f] = [previous |-> session[s].draft.previous,
                                                 profile |-> session[s].identity,
                                                 fields |-> session[s].draft.fields,
                                                 at |-> now]
<1>1. PICK s \in Session : RecordFront(s)
    BY DEF Next, SessionNext, vars, Open, Close, Replace, Update, Prepare,
           RecordHandoff, RefuseDuplicate, EditProfile, Tick
<1> QED BY <1>1 DEF RecordFront, Identity, TypeOK

LEMMA HandoffWriter ==
    ASSUME TypeOK, [Next]_vars, NEW h \in HandoffId, handoff'[h] # handoff[h]
    PROVE  \E s \in Session : /\ session[s] # None /\ session[s].draft \in HandoffDraft
                              /\ handoff'[h] = [front |-> session[s].draft.front,
                                                profile |-> session[s].identity,
                                                contract |-> session[s].draft.contract,
                                                at |-> now]
<1>1. PICK s \in Session : RecordHandoff(s)
    BY DEF Next, SessionNext, vars, Open, Close, Replace, Update, Prepare,
           RecordFront, RefuseDuplicate, EditProfile, Tick
<1> QED BY <1>1 DEF RecordHandoff, Identity, TypeOK

(* A draft is one that was there, or is made from the current Front. *)
NewFrontDraft(identity, draft) ==
    /\ draft \in FrontDraft
    /\ draft.previous = Current(identity)
    /\ DOMAIN draft.fields = DeclaredFields[profile]
NewHandoffDraft(identity, draft) ==
    /\ draft \in HandoffDraft
    /\ draft.front = Current(identity)
    /\ draft.front # None
    /\ draft.contract = ResumeContract[profile]

LEMMA DraftWriter ==
    ASSUME TypeOK, [Next]_vars, NEW s \in Session, session'[s] # None,
           session'[s] # session[s]
    PROVE  \/ session[s] = None /\ session'[s] = [identity |-> profile, draft |-> None]
           \/ /\ session[s] # None
              /\ session'[s].identity = session[s].identity
              /\ \/ session'[s].draft = None
                 \/ NewFrontDraft(session[s].identity, session'[s].draft)
                 \/ NewHandoffDraft(session[s].identity, session'[s].draft)
<1> DEFINE Goal ==
           \/ session[s] = None /\ session'[s] = [identity |-> profile, draft |-> None]
           \/ /\ session[s] # None
              /\ session'[s].identity = session[s].identity
              /\ \/ session'[s].draft = None
                 \/ NewFrontDraft(session[s].identity, session'[s].draft)
                 \/ NewHandoffDraft(session[s].identity, session'[s].draft)
<1>1. SessionNext
    BY DEF Next, vars, EditProfile, Tick
<1>2. ASSUME NEW z \in Session, Open(z) \/ Close(z) PROVE Goal
    BY <1>2 DEF Open, Close, TypeOK
<1>3. ASSUME NEW z \in Session, RecordFront(z) \/ RecordHandoff(z) \/ RefuseDuplicate(z)
      PROVE Goal
    BY <1>3 DEF RecordFront, RecordHandoff, RefuseDuplicate, Draft, TypeOK, SessionState
<1>4. ASSUME NEW z \in Session, NEW draft, Drafting(z, draft),
             \/ NewFrontDraft(session[z].identity, draft)
             \/ NewHandoffDraft(session[z].identity, draft)
      PROVE Goal
    <2>1. z = s /\ session[s] \in SessionState
        BY <1>4 DEF Drafting, TypeOK
    <2>2. session'[s].draft = draft /\ session'[s].identity = session[s].identity
        BY <1>4, <2>1 DEF Drafting, TypeOK, SessionState
    <2> QED BY <1>4, <2>1, <2>2
<1>5. ASSUME NEW z \in Session, NEW id \in Revision,
             NEW fields \in [DeclaredFields[profile] -> Value], Replace(z, id, fields)
      PROVE Goal
    <2>1. NewFrontDraft(session[z].identity, ReplaceDraft(z, id, fields))
        BY ReplaceDraftType DEF NewFrontDraft, ReplaceDraft, Identity
    <2> QED BY <1>4, <1>5, <2>1, ReplaceDrafts
<1>6. ASSUME NEW z \in Session, NEW id \in Revision,
             NEW D \in SUBSET DeclaredFields[profile], NEW patch \in [D -> Value],
             Update(z, id, patch)
      PROVE Goal
    <2>1. NewFrontDraft(session[z].identity, UpdateDraft(z, id, patch))
        BY <1>6, UpdateDraftType DEF NewFrontDraft, UpdateDraft, Identity
    <2> QED BY <1>4, <1>6, <2>1, UpdateDrafts
<1>7. ASSUME NEW z \in Session, NEW id \in HandoffId, Prepare(z, id) PROVE Goal
    <2>1. NewHandoffDraft(session[z].identity, PrepareDraft(z, id))
        BY <1>7, PrepareDraftType DEF Prepare, NewHandoffDraft, PrepareDraft, Identity
    <2> QED BY <1>4, <1>7, <2>1, PrepareDrafts
<1> QED BY <1>1, <1>2, <1>3, <1>5, <1>6, <1>7 DEF SessionNext

-----------------------------------------------------------------------------
(* The chain and the handoffs *)

IsRowOf(f, p) == f \in Revisions /\ revision[f].profile = p

RowsAreInThePast == \A f \in Revisions : revision[f].at <= now

(* A draft refers to rows of the identity it will be recorded under: the check *)
(* was made before the transaction, and rows are never changed since.          *)
DraftsFollow == \A s \in Session : session[s] # None =>
    LET draft == session[s].draft IN
    /\ draft \in FrontDraft /\ draft.previous # None =>
          IsRowOf(draft.previous, session[s].identity)
    /\ draft \in HandoffDraft => IsRowOf(draft.front, session[s].identity)

ChainInv == /\ TypeOK
            /\ RowsAreInThePast
            /\ DraftsFollow
            /\ ChainStaysInProfile
            /\ HandoffQuotesItsFront

WillBeRowOf(f, p) == f \in Revision /\ revision'[f] # None /\ revision'[f].profile = p

LEMMA RowsStay ==
    ASSUME TypeOK, [Next]_vars, NEW f, NEW p, IsRowOf(f, p)
    PROVE  WillBeRowOf(f, p)
<1>1. f \in Revision /\ revision[f] # None
    BY DEF IsRowOf, Revisions
<1>2. revision'[f] = revision[f]
    BY <1>1, AppendOnly
<1> QED BY <1>1, <1>2 DEF IsRowOf, WillBeRowOf

LEMMA DraftsFollowStep ==
    ASSUME ChainInv, [Next]_vars
    PROVE  DraftsFollow'
<1> SUFFICES ASSUME NEW s \in Session, session'[s] # None
             PROVE  LET draft == session'[s].draft IN
                    /\ draft \in FrontDraft /\ draft.previous # None =>
                          WillBeRowOf(draft.previous, session'[s].identity)
                    /\ draft \in HandoffDraft => WillBeRowOf(draft.front, session'[s].identity)
    BY DEF DraftsFollow, IsRowOf, WillBeRowOf, Revisions
<1> DEFINE draft == session'[s].draft
           identity == session'[s].identity
<1>1. /\ draft \in FrontDraft /\ draft.previous # None => IsRowOf(draft.previous, identity)
      /\ draft \in HandoffDraft => IsRowOf(draft.front, identity)
    <2>1. CASE session'[s] = session[s]
        BY <2>1 DEF ChainInv, DraftsFollow
    <2>2. CASE session'[s] # session[s]
        <3>1. CASE draft = None
            BY <3>1
        <3>2. CASE draft # None
            <4>1. \/ NewFrontDraft(identity, draft)
                  \/ NewHandoffDraft(identity, draft)
                BY <2>2, <3>2, DraftWriter DEF ChainInv
            <4>2. CASE NewFrontDraft(identity, draft)
                BY <4>2, CurrentIsARow DEF NewFrontDraft, IsRowOf, FrontDraft, HandoffDraft
            <4>3. CASE NewHandoffDraft(identity, draft)
                BY <4>3, CurrentIsARow DEF NewHandoffDraft, IsRowOf, FrontDraft, HandoffDraft
            <4> QED BY <4>1, <4>2, <4>3
        <3> QED BY <3>1, <3>2
    <2> QED BY <2>1, <2>2
<1>2. ASSUME draft \in FrontDraft, draft.previous # None
      PROVE  WillBeRowOf(draft.previous, identity)
    BY <1>1, <1>2, RowsStay DEF ChainInv
<1>3. ASSUME draft \in HandoffDraft
      PROVE  WillBeRowOf(draft.front, identity)
    BY <1>1, <1>3, RowsStay DEF ChainInv
<1> QED BY <1>2, <1>3

LEMMA RowsAreInThePastStep ==
    ASSUME ChainInv, [Next]_vars
    PROVE  RowsAreInThePast'
<1> SUFFICES ASSUME NEW f \in Revision, revision'[f] # None
             PROVE  revision'[f].at <= now'
    BY DEF RowsAreInThePast, Revisions
<1>1. TypeOK /\ TypeOK' /\ now <= now'
    BY TypeStep, AppendOnly DEF ChainInv
<1>2. CASE revision'[f] = revision[f]
    BY <1>1, <1>2 DEF ChainInv, RowsAreInThePast, Revisions, TypeOK, FrontRevision
<1>3. CASE revision'[f] # revision[f]
    <2>1. PICK s \in Session :
              revision'[f] = [previous |-> session[s].draft.previous,
                              profile |-> session[s].identity,
                              fields |-> session[s].draft.fields,
                              at |-> now]
        BY <1>1, <1>3, RevisionWriter
    <2>2. revision'[f].at = now
        BY <2>1
    <2> QED BY <1>1, <2>2
<1> QED BY <1>2, <1>3

LEMMA ChainStep ==
    ASSUME ChainInv, [Next]_vars
    PROVE  ChainStaysInProfile'
<1> SUFFICES ASSUME NEW f \in Revision, revision'[f] # None, revision'[f].previous # None
             PROVE  LET previous == revision'[f].previous IN
                    /\ revision'[previous] # None
                    /\ revision'[previous].profile = revision'[f].profile
                    /\ revision'[previous].at <= revision'[f].at
    BY DEF ChainStaysInProfile, Revisions
<1> DEFINE previous == revision'[f].previous
<1>1. /\ previous \in Revision
      /\ revision[previous] # None
      /\ revision[previous].profile = revision'[f].profile
      /\ revision[previous].at <= revision'[f].at
    <2>1. CASE revision'[f] = revision[f]
        BY <2>1 DEF ChainInv, ChainStaysInProfile, Revisions, TypeOK, FrontRevision
    <2>2. CASE revision'[f] # revision[f]
        <3>1. PICK s \in Session :
                  /\ session[s] # None /\ session[s].draft \in FrontDraft
                  /\ revision'[f] = [previous |-> session[s].draft.previous,
                                     profile |-> session[s].identity,
                                     fields |-> session[s].draft.fields,
                                     at |-> now]
            BY <2>2, RevisionWriter DEF ChainInv
        <3>2. IsRowOf(previous, session[s].identity)
            BY <3>1 DEF ChainInv, DraftsFollow
        <3>3. revision'[f].profile = session[s].identity /\ revision'[f].at = now
            BY <3>1
        <3>4. revision[previous].at <= now
            BY <3>2 DEF ChainInv, RowsAreInThePast, IsRowOf
        <3> QED BY <3>2, <3>3, <3>4 DEF IsRowOf, Revisions
    <2> QED BY <2>1, <2>2
<1>2. revision'[previous] = revision[previous]
    BY <1>1, AppendOnly DEF ChainInv
<1> QED BY <1>1, <1>2

LEMMA QuoteStep ==
    ASSUME ChainInv, [Next]_vars
    PROVE  HandoffQuotesItsFront'
<1> SUFFICES ASSUME NEW h \in HandoffId, handoff'[h] # None
             PROVE  LET front == handoff'[h].front IN
                    /\ revision'[front] # None
                    /\ revision'[front].profile = handoff'[h].profile
                    /\ revision'[front].at <= handoff'[h].at
    BY DEF HandoffQuotesItsFront, Handoffs
<1> DEFINE front == handoff'[h].front
<1>1. /\ front \in Revision
      /\ revision[front] # None
      /\ revision[front].profile = handoff'[h].profile
      /\ revision[front].at <= handoff'[h].at
    <2>1. CASE handoff'[h] = handoff[h]
        BY <2>1 DEF ChainInv, HandoffQuotesItsFront, Handoffs, TypeOK, Handoff
    <2>2. CASE handoff'[h] # handoff[h]
        <3>1. PICK s \in Session :
                  /\ session[s] # None /\ session[s].draft \in HandoffDraft
                  /\ handoff'[h] = [front |-> session[s].draft.front,
                                    profile |-> session[s].identity,
                                    contract |-> session[s].draft.contract,
                                    at |-> now]
            BY <2>2, HandoffWriter DEF ChainInv
        <3>2. IsRowOf(front, session[s].identity)
            BY <3>1 DEF ChainInv, DraftsFollow
        <3>3. handoff'[h].profile = session[s].identity /\ handoff'[h].at = now
            BY <3>1
        <3>4. revision[front].at <= now
            BY <3>2 DEF ChainInv, RowsAreInThePast, IsRowOf
        <3> QED BY <3>2, <3>3, <3>4 DEF IsRowOf, Revisions
    <2> QED BY <2>1, <2>2
<1>2. revision'[front] = revision[front]
    BY <1>1, AppendOnly DEF ChainInv
<1> QED BY <1>1, <1>2

LEMMA ChainInvHolds == Spec => []ChainInv
<1>1. Init => ChainInv
    BY TypeInit DEF Init, ChainInv, RowsAreInThePast, DraftsFollow, ChainStaysInProfile,
                    HandoffQuotesItsFront, Revisions, Handoffs
<1>2. ChainInv /\ [Next]_vars => ChainInv'
    BY TypeStep, DraftsFollowStep, RowsAreInThePastStep, ChainStep, QuoteStep DEF ChainInv
<1> QED BY <1>1, <1>2, PTL DEF Spec

(* A revision is chained onto one of its own profile that is not younger,    *)
(* however many processes write, under whatever profiles, and although the   *)
(* predecessor is chosen before the transaction that inserts the successor.  *)
THEOREM ChainNeverMixesProfiles == Spec => []ChainStaysInProfile
<1>1. ChainInv => ChainStaysInProfile
    BY DEF ChainInv
<1> QED BY <1>1, ChainInvHolds, PTL

(* A handoff never quotes a Front of another profile than the one it is bound *)
(* to, nor one that was recorded after it.                                    *)
THEOREM HandoffsQuoteTheirFront == Spec => []HandoffQuotesItsFront
<1>1. ChainInv => HandoffQuotesItsFront
    BY DEF ChainInv
<1> QED BY <1>1, ChainInvHolds, PTL

-----------------------------------------------------------------------------
(* Profiles edited while no process holds the store open *)

OpenUnderTheProfile == \A s \in Session :
    session[s] # None => session[s].identity = profile

DraftsAsAsked == \A s \in Session : session[s] # None =>
    LET draft == session[s].draft IN
    /\ draft \in FrontDraft => DOMAIN draft.fields = DeclaredFields[session[s].identity]
    /\ draft \in HandoffDraft => draft.contract = ResumeContract[session[s].identity]

RevisionsAsAsked == \A f \in Revisions :
    DOMAIN revision[f].fields = DeclaredFields[revision[f].profile]

(* An edit that meets no open store. *)
NoSession == \A s \in Session : session[s] = None
QuietEdit == profile' # profile => NoSession

HandoffsAsAsked == \A h \in Handoffs :
    handoff[h].contract = ResumeContract[handoff[h].profile]

QuietInv == /\ TypeOK
            /\ OpenUnderTheProfile
            /\ DraftsAsAsked
            /\ RevisionsAsAsked
            /\ HandoffsAsAsked

LEMMA OnlyEditMovesTheProfile ==
    ASSUME TypeOK, [Next]_vars, profile' # profile
    PROVE  \E p \in Profile : EditProfile(p)
BY ReplaceDrafts, UpdateDrafts, PrepareDrafts
   DEF Next, SessionNext, vars, Open, Close, Drafting, RecordFront, RecordHandoff,
       RefuseDuplicate, Tick

LEMMA QuietSessionStep ==
    ASSUME QuietInv, [Next /\ QuietEdit]_vars, NEW s \in Session, session'[s] # None
    PROVE  profile' = profile /\ session'[s].identity = profile
<1>1. TypeOK /\ [Next]_vars
    BY DEF QuietInv
<1>2. profile' = profile
    <2> SUFFICES ASSUME profile' # profile PROVE FALSE
        OBVIOUS
    <2>1. session' = session
        BY <1>1, OnlyEditMovesTheProfile DEF EditProfile
    <2>2. session[s] = None
        BY DEF QuietEdit, NoSession, vars
    <2> QED BY <2>1, <2>2
<1>3. session'[s].identity = profile
    <2>1. CASE session'[s] = session[s]
        BY <2>1 DEF QuietInv, OpenUnderTheProfile
    <2>2. CASE session'[s] # session[s]
        BY <1>1, <2>2, DraftWriter DEF QuietInv, OpenUnderTheProfile
    <2> QED BY <2>1, <2>2
<1> QED BY <1>2, <1>3

LEMMA DraftsAsAskedStep ==
    ASSUME QuietInv, [Next /\ QuietEdit]_vars
    PROVE  DraftsAsAsked'
<1> SUFFICES ASSUME NEW s \in Session, session'[s] # None
             PROVE  LET draft == session'[s].draft
                        identity == session'[s].identity
                    IN
                    /\ draft \in FrontDraft => DOMAIN draft.fields = DeclaredFields[identity]
                    /\ draft \in HandoffDraft => draft.contract = ResumeContract[identity]
    BY DEF DraftsAsAsked
<1> DEFINE draft == session'[s].draft
           identity == session'[s].identity
<1>1. TypeOK /\ [Next]_vars /\ identity = profile
    BY QuietSessionStep DEF QuietInv
<1>2. CASE session'[s] = session[s]
    BY <1>2 DEF QuietInv, DraftsAsAsked
<1>3. CASE session'[s] # session[s]
    <2>1. \/ draft = None
          \/ NewFrontDraft(identity, draft)
          \/ NewHandoffDraft(identity, draft)
        BY <1>1, <1>3, DraftWriter
    <2> QED BY <1>1, <2>1 DEF NewFrontDraft, NewHandoffDraft, FrontDraft, HandoffDraft
<1> QED BY <1>2, <1>3

LEMMA RevisionsAsAskedStep ==
    ASSUME QuietInv, [Next /\ QuietEdit]_vars
    PROVE  RevisionsAsAsked'
<1> SUFFICES ASSUME NEW f \in Revision, revision'[f] # None
             PROVE  DOMAIN revision'[f].fields = DeclaredFields[revision'[f].profile]
    BY DEF RevisionsAsAsked, Revisions
<1>1. TypeOK /\ [Next]_vars
    BY DEF QuietInv
<1>2. CASE revision'[f] = revision[f]
    BY <1>2 DEF QuietInv, RevisionsAsAsked, Revisions
<1>3. CASE revision'[f] # revision[f]
    <2>1. PICK s \in Session :
              /\ session[s] # None /\ session[s].draft \in FrontDraft
              /\ revision'[f] = [previous |-> session[s].draft.previous,
                                 profile |-> session[s].identity,
                                 fields |-> session[s].draft.fields,
                                 at |-> now]
        BY <1>1, <1>3, RevisionWriter
    <2>2. /\ revision'[f].fields = session[s].draft.fields
          /\ revision'[f].profile = session[s].identity
        BY <2>1
    <2> QED BY <2>1, <2>2 DEF QuietInv, DraftsAsAsked
<1> QED BY <1>2, <1>3

LEMMA ContractStep ==
    ASSUME QuietInv, [Next /\ QuietEdit]_vars
    PROVE  HandoffsAsAsked'
<1> SUFFICES ASSUME NEW h \in HandoffId, handoff'[h] # None
             PROVE  handoff'[h].contract = ResumeContract[handoff'[h].profile]
    BY DEF HandoffsAsAsked, Handoffs
<1>1. TypeOK /\ [Next]_vars
    BY DEF QuietInv
<1>2. CASE handoff'[h] = handoff[h]
    BY <1>2 DEF QuietInv, HandoffsAsAsked, Handoffs
<1>3. CASE handoff'[h] # handoff[h]
    <2>1. PICK s \in Session :
              /\ session[s] # None /\ session[s].draft \in HandoffDraft
              /\ handoff'[h] = [front |-> session[s].draft.front,
                                profile |-> session[s].identity,
                                contract |-> session[s].draft.contract,
                                at |-> now]
        BY <1>1, <1>3, HandoffWriter
    <2>2. /\ handoff'[h].contract = session[s].draft.contract
          /\ handoff'[h].profile = session[s].identity
        BY <2>1
    <2> QED BY <2>1, <2>2 DEF QuietInv, DraftsAsAsked
<1> QED BY <1>2, <1>3

(* What holds while no edit met an open store. *)
HistoryInv == /\ TypeOK
              /\ ~overlapped => QuietInv

LEMMA QuietStep ==
    ASSUME TypeOK, [Next]_vars, ~overlapped'
    PROVE  ~overlapped /\ [Next /\ QuietEdit]_vars
<1>1. CASE profile' = profile
    <2>1. overlapped' = overlapped
        BY <1>1, ReplaceDrafts, UpdateDrafts, PrepareDrafts
           DEF Next, SessionNext, vars, Open, Close, Drafting, RecordFront, RecordHandoff,
               RefuseDuplicate, Tick, EditProfile
    <2> QED BY <1>1, <2>1 DEF QuietEdit
<1>2. CASE profile' # profile
    <2>1. PICK p \in Profile : EditProfile(p)
        BY <1>2, OnlyEditMovesTheProfile
    <2> QED BY <2>1 DEF EditProfile, QuietEdit, NoSession, TypeOK
<1> QED BY <1>1, <1>2

LEMMA HistoryInvHolds == Spec => []HistoryInv
<1>1. Init => HistoryInv
    BY TypeInit DEF Init, HistoryInv, QuietInv, OpenUnderTheProfile, DraftsAsAsked,
                    RevisionsAsAsked, HandoffsAsAsked, Revisions, Handoffs
<1>2. HistoryInv /\ [Next]_vars => HistoryInv'
    <2> SUFFICES ASSUME HistoryInv, [Next]_vars PROVE HistoryInv'
        OBVIOUS
    <2>1. TypeOK'
        BY TypeStep DEF HistoryInv
    <2>2. ASSUME ~overlapped' PROVE QuietInv'
        <3>1. QuietInv /\ [Next /\ QuietEdit]_vars
            BY <2>2, QuietStep DEF HistoryInv
        <3>2. OpenUnderTheProfile'
            BY <3>1, QuietSessionStep DEF OpenUnderTheProfile
        <3> QED BY <2>1, <3>1, <3>2, DraftsAsAskedStep, RevisionsAsAskedStep, ContractStep
                DEF QuietInv
    <2> QED BY <2>1, <2>2 DEF HistoryInv
<1> QED BY <1>1, <1>2, PTL DEF Spec

(* As long as every edit of the profile met no open store, the Front recorded  *)
(* under a profile can be read, and so replaced, whenever that profile is the  *)
(* project's: no edit locks it.                                                *)
THEOREM QuietFrontStaysWritable == Spec => []QuietEditsKeepFrontWritable
<1>1. HistoryInv => QuietEditsKeepFrontWritable
    BY CurrentIsARow DEF HistoryInv, QuietInv, RevisionsAsAsked, QuietEditsKeepFrontWritable,
                         FrontStaysWritable, CurrentAnswers, Readable
<1> QED BY <1>1, HistoryInvHolds, PTL

(* And every handoff carries the resume contract of the profile it names. *)
THEOREM QuietHandoffsCarryTheirContract == Spec => []HandoffCarriesItsContract
<1>1. HistoryInv => HandoffCarriesItsContract
    BY DEF HistoryInv, QuietInv, HandoffsAsAsked, HandoffCarriesItsContract
<1> QED BY <1>1, HistoryInvHolds, PTL
=============================================================================
