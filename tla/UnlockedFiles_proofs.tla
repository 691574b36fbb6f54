------------------------- MODULE UnlockedFiles_proofs -------------------------
(***************************************************************************)
(* Two parts of the system replace files of the project one by one and     *)
(* without a lock: an edit of the profile, and the installation of VERA in *)
(* the clients of the project. What each of them keeps through kills and   *)
(* failed writes, for any processes, editors, profiles and entries.        *)
(***************************************************************************)
EXTENDS ProfileRebind, HostInstall, FiniteSetTheorems, TLAPS

-----------------------------------------------------------------------------
(* Edits of the profile: the files and the processes stay in the states     *)
(* below, and editors in turn do not part profile and store without a      *)
(* journal.                                                                *)

(* Who is at work knows its edit, and who is about to journal it what to name. *)
EditorsKnow == \A e \in Editor :
    /\ editor[e].at # "IDLE" => editor[e].edit \in Edit
    /\ editor[e].at \in {"BEGUN", "BACKED_UP"} => editor[e].old \in Profile
DoctorKnows == doctor.at # "IDLE" => doctor.edit \in Edit
Typed == TypeOK /\ EditorsKnow /\ DoctorKnows

LEMMA NewOfAnEdit == \A edit \in Edit : OldOf(edit) \in Profile /\ NewOf(edit) \in Profile
  BY DEF Edit, OldOf, NewOf

LEMMA InitTyped == Init => Typed
  BY DEF Init, Typed, TypeOK, EditorsKnow, DoctorKnows, EditorState, DoctorState,
         NotEditing, NotRecovering, Step, RecoveryStep

(* An editor that goes on from step to step keeps what it knows. *)
LEMMA EditorMoves ==
  ASSUME Typed, NEW e \in Editor, editor' \in [Editor -> EditorState],
         \A f \in Editor \ {e} : editor'[f] = editor[f],
         editor'[e].at # "IDLE" => editor'[e].edit \in Edit,
         editor'[e].at \in {"BEGUN", "BACKED_UP"} => editor'[e].old \in Profile
  PROVE  EditorsKnow'
  BY DEF Typed, EditorsKnow

LEMMA EditorStepsKeepTypes ==
  ASSUME Typed, NEW e \in Editor,
         \/ \E new \in Profile : Confirm(e, new)
         \/ Begin(e) \/ WriteBackup(e) \/ WriteJournal(e)
         \/ OpenStore(e) \/ VerifyIdentity(e) \/ RebindStore(e)
         \/ WriteProfile(e) \/ ClearJournal(e) \/ ClearBackup(e)
         \/ Kill(e) \/ Raise(e)
  PROVE  Typed'
<1> USE DEF Typed, TypeOK
<1>1. editor[e] \in EditorState
  OBVIOUS
<1>2. ASSUME doctor' = doctor, EditorsKnow' PROVE EditorsKnow' /\ DoctorKnows'
  BY <1>2 DEF DoctorKnows
<1>3. CASE \E new \in Profile : Confirm(e, new)
  <2> PICK new \in Profile : Confirm(e, new)
    BY <1>3
  <2>1. <<profile, new>> \in Edit
    BY DEF Edit
  <2>2. TypeOK' /\ editor' \in [Editor -> EditorState]
    BY <2>1 DEF Confirm, EditorState, Step
  <2>3. EditorsKnow'
    BY <2>1, <2>2, EditorMoves DEF Confirm
  <2> QED
    BY <2>2, <2>3, <1>2 DEF Confirm
<1>4. CASE Begin(e)
  <2>1. TypeOK' /\ editor' \in [Editor -> EditorState]
    BY <1>4, <1>1 DEF Begin, Leave, EditorState, Step, NotEditing
  <2>2. EditorsKnow'
    BY <1>4, <1>1, <2>1, EditorMoves DEF Begin, Leave, EditorState, EditorsKnow, NotEditing
  <2> QED
    BY <2>1, <2>2, <1>2, <1>4 DEF Begin
<1>5. CASE WriteBackup(e)
  <2>1. EditOf(e) \in Edit
    BY <1>5 DEF WriteBackup, EditorsKnow, EditOf
  <2>2. TypeOK' /\ editor' \in [Editor -> EditorState]
    BY <1>5, <1>1, <2>1 DEF WriteBackup, Goto, EditorState, Step
  <2>3. EditorsKnow'
    BY <1>5, <1>1, <2>2, EditorMoves DEF WriteBackup, Goto, EditorState, EditorsKnow
  <2> QED
    BY <2>2, <2>3, <1>2, <1>5 DEF WriteBackup
<1>6. CASE WriteJournal(e)
  <2>1. TypeOK' /\ editor' \in [Editor -> EditorState]
    BY <1>6, <1>1 DEF WriteJournal, Goto, EditorState, Step, EditorsKnow
  <2>2. EditorsKnow'
    BY <1>6, <1>1, <2>1, EditorMoves DEF WriteJournal, Goto, EditorState, EditorsKnow
  <2> QED
    BY <2>1, <2>2, <1>2, <1>6 DEF WriteJournal
<1>7. CASE OpenStore(e) \/ VerifyIdentity(e)
  <2>1. TypeOK' /\ editor' \in [Editor -> EditorState]
    BY <1>7, <1>1 DEF OpenStore, VerifyIdentity, Goto, EditorState, Step
  <2>2. EditorsKnow'
    BY <1>7, <1>1, <2>1, EditorMoves DEF OpenStore, VerifyIdentity, Goto, EditorState, EditorsKnow
  <2> QED
    BY <2>1, <2>2, <1>2, <1>7 DEF OpenStore, VerifyIdentity
<1>8. CASE RebindStore(e) \/ WriteProfile(e)
  <2>1. EditOf(e) \in Edit
    BY <1>8 DEF RebindStore, WriteProfile, EditorsKnow, EditOf
  <2>2. TypeOK' /\ editor' \in [Editor -> EditorState]
    BY <1>8, <1>1, <2>1, NewOfAnEdit DEF RebindStore, WriteProfile, Goto, EditorState, Step
  <2>3. EditorsKnow'
    BY <1>8, <1>1, <2>2, EditorMoves DEF RebindStore, WriteProfile, Goto, EditorState, EditorsKnow
  <2> QED
    BY <2>2, <2>3, <1>2, <1>8 DEF RebindStore, WriteProfile
<1>9. CASE ClearJournal(e)
  <2>1. TypeOK' /\ editor' \in [Editor -> EditorState]
    BY <1>9, <1>1 DEF ClearJournal, Goto, Leave, EditorState, Step, NotEditing
  <2>2. EditorsKnow'
    BY <1>9, <1>1, <2>1, EditorMoves DEF ClearJournal, Goto, Leave, EditorState, EditorsKnow, NotEditing
  <2> QED
    BY <2>1, <2>2, <1>2, <1>9 DEF ClearJournal
<1>10. CASE ClearBackup(e) \/ Kill(e)
  <2>1. TypeOK' /\ editor' \in [Editor -> EditorState]
    BY <1>10, <1>1 DEF ClearBackup, Kill, Leave, EditorState, Step, NotEditing
  <2>2. EditorsKnow'
    BY <1>10, <1>1, <2>1, EditorMoves DEF ClearBackup, Kill, Leave, EditorState, NotEditing
  <2> QED
    BY <2>1, <2>2, <1>2, <1>10 DEF ClearBackup, Kill
<1>11. CASE Raise(e)
  <2>1. editor[e].at # "IDLE"
    BY <1>11 DEF Raise, Guarded
  <2>2. TypeOK' /\ editor' \in [Editor -> EditorState]
    BY <1>11, <1>1 DEF Raise, Goto, EditorState, Step
  <2>3. EditorsKnow'
    BY <1>11, <1>1, <2>1, <2>2, EditorMoves DEF Raise, Goto, EditorState, EditorsKnow
  <2> QED
    BY <2>2, <2>3, <1>2, <1>11 DEF Raise
<1> QED
  BY <1>3, <1>4, <1>5, <1>6, <1>7, <1>8, <1>9, <1>10, <1>11

LEMMA OtherStepsKeepTypes ==
  ASSUME Typed, DoctorNext \/ CreateStore
  PROVE  Typed'
<1> USE DEF Typed, TypeOK
<1>1. CASE \E edit \in Edit : StartRecovery(edit)
  BY <1>1 DEF StartRecovery, DoctorState, RecoveryStep, DoctorKnows, EditorsKnow
<1>2. CASE RecoverProfile
  BY <1>2, NewOfAnEdit DEF RecoverProfile, DoctorState, RecoveryStep, DoctorKnows, EditorsKnow
<1>3. CASE RecoverJournal \/ RecoverBackup \/ KillRecovery
  BY <1>3 DEF RecoverJournal, RecoverBackup, KillRecovery, NotRecovering, DoctorState,
              RecoveryStep, DoctorKnows, EditorsKnow
<1>4. CASE CreateStore
  BY <1>4 DEF CreateStore, DoctorKnows, EditorsKnow
<1> QED
  BY <1>1, <1>2, <1>3, <1>4 DEF DoctorNext

LEMMA NextTyped == Typed /\ [Next]_vars => Typed'
<1> SUFFICES ASSUME Typed, [Next]_vars PROVE Typed'
  OBVIOUS
<1>1. CASE EditorNext
  BY <1>1, EditorStepsKeepTypes DEF EditorNext
<1>2. CASE DoctorNext \/ CreateStore
  BY <1>2, OtherStepsKeepTypes
<1>3. CASE UNCHANGED vars
  BY <1>3 DEF vars, Typed, TypeOK, EditorsKnow, DoctorKnows
<1> QED
  BY <1>1, <1>2, <1>3 DEF Next

(* Files, store and processes keep their shapes, whatever is interrupted and   *)
(* however many editors race: profile_rebind.py:99.                            *)
THEOREM TypeCorrect == Spec => []TypeOK
<1>1. Typed => TypeOK
  BY DEF Typed
<1> QED
  BY <1>1, InitTyped, NextTyped, PTL DEF Spec

-----------------------------------------------------------------------------
(* Editors in turn: what each step has read still holds when it is used. *)
Reads == \A e \in Editor :
    /\ editor[e].at \in {"BEGUN", "BACKED_UP"} =>
          editor[e].old = profile /\ journal[editor[e].edit] = None
    /\ editor[e].at \in Guarded => journal[editor[e].edit] = profile
    /\ editor[e].at = "REBOUND" => store = NewOf(editor[e].edit)
DoctorWrote == doctor.at = "WRITTEN" => profile = NewOf(doctor.edit)
Orderly == Typed /\ InTurn /\ Reads /\ DoctorWrote

LEMMA InitOrderly == Init => Orderly
  BY InitTyped DEF Init, Orderly, InTurn, Reads, DoctorWrote, NotEditing, NotRecovering, Guarded

EditorStep(e) ==
    \/ \E new \in Profile : Confirm(e, new)
    \/ Begin(e) \/ WriteBackup(e) \/ WriteJournal(e)
    \/ OpenStore(e) \/ VerifyIdentity(e) \/ RebindStore(e)
    \/ WriteProfile(e) \/ ClearJournal(e) \/ ClearBackup(e)
    \/ Kill(e) \/ Raise(e)

(* An editor that takes a step is the only process at work, before and after. *)
LEMMA OneAtWork ==
  ASSUME Orderly, InTurn', NEW e \in Editor, EditorStep(e)
  PROVE  /\ doctor = NotRecovering /\ doctor' = doctor
         /\ \A f \in Editor \ {e} : editor[f] = NotEditing /\ editor'[f] = NotEditing
<1> USE DEF Orderly, Typed, TypeOK
<1>1. doctor' = doctor /\ \A f \in Editor \ {e} : editor'[f] = editor[f]
  BY DEF EditorStep, Confirm, Begin, WriteBackup, WriteJournal, OpenStore, VerifyIdentity,
         RebindStore, WriteProfile, ClearJournal, ClearBackup, Kill, Raise, Goto, Leave
<1>2. CASE \E new \in Profile : Confirm(e, new)
  <2>1. editor'[e] # NotEditing
    BY <1>2 DEF Confirm, NotEditing
  <2> QED
    BY <1>1, <2>1 DEF InTurn
<1>3. CASE ~ \E new \in Profile : Confirm(e, new)
  <2>1. editor[e].at # "IDLE"
    BY <1>3 DEF EditorStep, Begin, WriteBackup, WriteJournal, OpenStore, VerifyIdentity,
                RebindStore, WriteProfile, ClearJournal, ClearBackup, Kill, Raise, Guarded
  <2>2. editor[e] # NotEditing
    BY <2>1 DEF NotEditing
  <2> QED
    BY <1>1, <2>2 DEF InTurn
<1> QED
  BY <1>2, <1>3

LEMMA EditorStepsKeepOrder ==
  ASSUME Orderly, InTurn', NEW e \in Editor, EditorStep(e)
  PROVE  Orderly'
<1>1. Typed'
  BY EditorStepsKeepTypes DEF Orderly, EditorStep
<1>2. DoctorWrote'
  BY OneAtWork DEF DoctorWrote, NotRecovering
<1>3. SUFFICES ASSUME Typed, Typed', Reads
               PROVE  Reads'
  BY <1>1, <1>2 DEF Orderly
<1>4. SUFFICES
         /\ editor'[e].at \in {"BEGUN", "BACKED_UP"} =>
               editor'[e].old = profile' /\ journal'[editor'[e].edit] = None
         /\ editor'[e].at \in Guarded => journal'[editor'[e].edit] = profile'
         /\ editor'[e].at = "REBOUND" => store' = NewOf(editor'[e].edit)
  BY OneAtWork DEF Reads, NotEditing, Guarded
<1> USE <1>3 DEF Typed, TypeOK, Guarded
<1>5. editor[e] \in EditorState
  OBVIOUS
<1>6. CASE \E new \in Profile : Confirm(e, new)
  BY <1>6 DEF Confirm
<1>7. CASE Begin(e)
  BY <1>7, <1>5 DEF Begin, Leave, EditorState, EditOf, NotEditing
<1>8. CASE WriteBackup(e)
  BY <1>8, <1>5 DEF WriteBackup, Goto, EditorState, Reads
<1>9. CASE WriteJournal(e)
  <2>1. EditOf(e) \in Edit
    BY <1>9 DEF WriteJournal, EditorsKnow, EditOf
  <2> QED
    BY <1>9, <1>5, <2>1 DEF WriteJournal, Goto, EditorState, Reads, EditOf
<1>10. CASE OpenStore(e) \/ VerifyIdentity(e)
  BY <1>10, <1>5 DEF OpenStore, VerifyIdentity, Goto, EditorState, Reads
<1>11. CASE RebindStore(e)
  BY <1>11, <1>5 DEF RebindStore, Goto, EditorState, Reads, EditOf
<1>12. CASE WriteProfile(e) \/ Raise(e)
  BY <1>12, <1>5 DEF WriteProfile, Raise, Goto, EditorState
<1>13. CASE ClearJournal(e) \/ ClearBackup(e) \/ Kill(e)
  BY <1>13, <1>5 DEF ClearJournal, ClearBackup, Kill, Goto, Leave, EditorState, NotEditing
<1> QED
  BY <1>6, <1>7, <1>8, <1>9, <1>10, <1>11, <1>12, <1>13 DEF EditorStep

(* While the Doctor is at work nobody edits. *)
LEMMA DoctorStepsKeepOrder ==
  ASSUME Orderly, InTurn', DoctorNext
  PROVE  Orderly' /\ \A e \in Editor : editor[e] = NotEditing /\ editor'[e] = NotEditing
<1>1. Typed'
  BY OtherStepsKeepTypes DEF Orderly
<1>2. \A e \in Editor : editor[e] = NotEditing /\ editor'[e] = NotEditing
  <2>1. CASE \E edit \in Edit : StartRecovery(edit)
    <3>1. doctor'.at # "IDLE" /\ editor' = editor
      BY <2>1 DEF StartRecovery
    <3> QED
      BY <3>1 DEF InTurn, NotRecovering
  <2>2. CASE RecoverProfile \/ RecoverJournal \/ RecoverBackup \/ KillRecovery
    <3>1. doctor.at # "IDLE" /\ editor' = editor
      BY <2>2 DEF RecoverProfile, RecoverJournal, RecoverBackup, KillRecovery
    <3> QED
      BY <3>1 DEF Orderly, InTurn, NotRecovering
  <2> QED
    BY <2>1, <2>2 DEF DoctorNext
<1>3. Reads'
  BY <1>2 DEF Reads, NotEditing, Guarded
<1>4. DoctorWrote'
  <2> USE DEF Orderly, Typed, TypeOK, DoctorWrote
  <2>1. CASE \E edit \in Edit : StartRecovery(edit)
    BY <2>1 DEF StartRecovery
  <2>2. CASE RecoverProfile
    BY <2>2 DEF RecoverProfile, DoctorState
  <2>3. CASE RecoverJournal \/ RecoverBackup \/ KillRecovery
    BY <2>3 DEF RecoverJournal, RecoverBackup, KillRecovery, NotRecovering, DoctorState
  <2> QED
    BY <2>1, <2>2, <2>3 DEF DoctorNext
<1> QED
  BY <1>1, <1>2, <1>3, <1>4 DEF Orderly

(* No store is created under a store that has just been rebound. *)
LEMMA CreateStoreKeepsOrder ==
  ASSUME Orderly, InTurn', CreateStore
  PROVE  Orderly'
<1>1. Typed'
  BY OtherStepsKeepTypes DEF Orderly
<1>2. \A e \in Editor : editor[e].at # "REBOUND"
  BY NewOfAnEdit, NoneAssumption DEF CreateStore, Orderly, Typed, EditorsKnow, Reads
<1>3. Reads' /\ DoctorWrote'
  BY <1>2 DEF CreateStore, Orderly, Reads, DoctorWrote
<1> QED
  BY <1>1, <1>3 DEF Orderly

LEMMA NextOrderly == Orderly /\ [Next /\ InTurn']_vars => Orderly'
<1> SUFFICES ASSUME Orderly, [Next /\ InTurn']_vars PROVE Orderly'
  OBVIOUS
<1>1. CASE EditorNext /\ InTurn'
  BY <1>1, EditorStepsKeepOrder DEF EditorNext, EditorStep
<1>2. CASE DoctorNext /\ InTurn'
  BY <1>2, DoctorStepsKeepOrder
<1>3. CASE CreateStore /\ InTurn'
  BY <1>3, CreateStoreKeepsOrder
<1>4. CASE UNCHANGED vars
  BY <1>4, NextTyped DEF vars, Orderly, InTurn, Reads, DoctorWrote
<1> QED
  BY <1>1, <1>2, <1>3, <1>4 DEF Next

(* A journal that is cleared named what is aligned now; one that is written  *)
(* or torn named nothing before.                                             *)
LEMMA CoverSurvivesJournal ==
  ASSUME Typed, Covered, NEW edit \in Edit, NEW record,
         journal' = [journal EXCEPT ![edit] = record],
         profile' = profile, store' = store,
         journal[edit] = None \/ profile = NewOf(edit)
  PROVE  Covered'
<1>1. CASE Aligned
  BY <1>1 DEF Covered, Aligned
<1>2. CASE ~Aligned
  <2>1. PICK other \in Edit : journal[other] = profile /\ NewOf(other) = store
    BY <1>2 DEF Covered
  <2>2. other # edit
    BY <1>2, <2>1, NoneAssumption DEF Aligned, Typed, TypeOK
  <2>3. journal'[other] = profile' /\ NewOf(other) = store'
    BY <2>1, <2>2 DEF Typed, TypeOK
  <2> QED
    BY <2>3 DEF Covered
<1> QED
  BY <1>1, <1>2

LEMMA StepsUncover ==
  ASSUME Orderly, Next, InTurn', Covered
  PROVE  \/ Covered'
         \/ RecoverProfile
         \/ \E e \in Editor : editor[e].at = "NO_STORE" /\ WriteProfile(e)
<1>1. ASSUME profile' = profile, store' = store, journal' = journal
      PROVE  Covered'
  BY <1>1 DEF Covered, Aligned
<1>2. ASSUME NEW e \in Editor, EditorStep(e)
      PROVE  Covered' \/ (editor[e].at = "NO_STORE" /\ WriteProfile(e))
  <2>1. CASE \/ \E new \in Profile : Confirm(e, new)
             \/ Begin(e) \/ WriteBackup(e) \/ OpenStore(e) \/ VerifyIdentity(e)
             \/ ClearBackup(e) \/ Raise(e)
    BY <2>1, <1>1 DEF Confirm, Begin, WriteBackup, OpenStore, VerifyIdentity, ClearBackup, Raise
  <2>2. CASE WriteJournal(e)
    <3>1. EditOf(e) \in Edit /\ journal[EditOf(e)] = None
      BY <2>2 DEF WriteJournal, Orderly, Typed, EditorsKnow, Reads, EditOf
    <3> QED
      BY <2>2, <3>1, CoverSurvivesJournal DEF WriteJournal, Orderly
  <2>3. CASE RebindStore(e)
    <3>1. EditOf(e) \in Edit /\ journal[EditOf(e)] = profile
      BY <2>3 DEF RebindStore, Orderly, Typed, EditorsKnow, Reads, EditOf, Guarded
    <3> QED
      BY <2>3, <3>1 DEF RebindStore, Covered
  <2>4. CASE WriteProfile(e)
    <3>1. CASE editor[e].at = "REBOUND"
      BY <2>4, <3>1 DEF WriteProfile, Orderly, Reads, EditOf, Covered, Aligned
    <3> QED
      BY <2>4, <3>1 DEF WriteProfile
  <2>5. CASE ClearJournal(e)
    <3>1. EditOf(e) \in Edit
      BY <2>5 DEF ClearJournal, Orderly, Typed, EditorsKnow, EditOf
    <3>2. CASE profile = NewOf(EditOf(e))
      BY <2>5, <3>1, <3>2, CoverSurvivesJournal DEF ClearJournal, Orderly
    <3> QED
      BY <2>5, <3>2, <1>1 DEF ClearJournal
  <2>6. CASE Kill(e)
    <3>1. CASE editor[e].at = "BACKED_UP" /\ journal' = [journal EXCEPT ![EditOf(e)] = "TORN"]
      <4>1. EditOf(e) \in Edit /\ journal[EditOf(e)] = None
        BY <3>1 DEF Orderly, Typed, EditorsKnow, Reads, EditOf
      <4> QED
        BY <2>6, <3>1, <4>1, CoverSurvivesJournal DEF Kill, Orderly
    <3> QED
      BY <2>6, <3>1, <1>1 DEF Kill
  <2> QED
    BY <1>2, <2>1, <2>2, <2>3, <2>4, <2>5, <2>6 DEF EditorStep
<1>3. ASSUME DoctorNext PROVE Covered' \/ RecoverProfile
  <2>1. CASE RecoverJournal
    <3>1. doctor.edit \in Edit /\ profile = NewOf(doctor.edit)
      BY <2>1 DEF RecoverJournal, Orderly, Typed, DoctorKnows, DoctorWrote
    <3> QED
      BY <2>1, <3>1, CoverSurvivesJournal DEF RecoverJournal, Orderly
  <2>2. CASE (\E edit \in Edit : StartRecovery(edit)) \/ RecoverBackup \/ KillRecovery
    BY <2>2, <1>1 DEF StartRecovery, RecoverBackup, KillRecovery
  <2> QED
    BY <1>3, <2>1, <2>2 DEF DoctorNext
<1>4. ASSUME CreateStore PROVE Covered'
  BY <1>4 DEF CreateStore, Covered, Aligned
<1> QED
  BY <1>2, <1>3, <1>4 DEF Next, EditorNext, EditorStep

(* The promise of the journal for any number of editors in turn, any profiles  *)
(* and interruptions at any steps: profile_rebind.py:112.                      *)
THEOREM EditsStayCovered == SpecInTurn => OnlyRecoveryUncovers
<1>1. Orderly /\ [Next /\ InTurn']_vars =>
        [Covered => \/ Covered'
                    \/ RecoverProfile
                    \/ \E e \in Editor : editor[e].at = "NO_STORE" /\ WriteProfile(e)]_vars
  BY StepsUncover
<1> QED
  BY <1>1, InitOrderly, NextOrderly, PTL DEF SpecInTurn, OnlyRecoveryUncovers

-----------------------------------------------------------------------------
(* Installation in the clients of the project: what its calls and files     *)
(* hold, and that an installation that stopped can be finished.            *)

(* What a file of the host may hold: at most one server of VERA.               *)
OneServer(x) == x.servers = {} \/ \E s \in Servers : x.servers = {s}
HostFiles == {host \in [File -> HostFile] : \A f \in File : OneServer(host[f])}

(* A compiled plan holds entries of its adapter, and a manifest that exposes   *)
(* something.                                                                *)
Plans == [hooks : Entries \cup {Nothing}, server : Servers, runtime : Runtimes \cup {Nothing}]
Compiled(a, plan) ==
    /\ plan.server.by = a
    /\ a = "installer" => Allowed(plan.server.of) # {}
    /\ a # "installer" => /\ plan.hooks \in Entries /\ plan.hooks.by = a
                          /\ plan.runtime \in Runtimes /\ plan.runtime.allowed # {}

Answers == {Nothing, "REFUSED", "UNCHANGED", "STAGED", "APPLIED", "FAILED"}
Steps == {"IDLE", "SHOWN", "STAGE", "COMPARE", "WRITE", "TRUST"}
Calls == [adapter : Adapter \cup {Nothing}, step : Steps, next : HostFiles \cup {Nothing},
          plan : Plans \cup {Nothing}, todo : SUBSET File, fresh : BOOLEAN, wrote : BOOLEAN,
          answer : Answers]

(* What a command knows at each of its steps. *)
Knows(c) ==
    /\ c.step \in {"SHOWN", "COMPARE"} => c.adapter \in Attested
    /\ c.step = "STAGE" => c.adapter \in Adapter \ {"installer"}
    /\ c.step = "WRITE" => c.adapter \in Adapter /\ c.todo \subseteq Files(c.adapter)
    /\ c.step \in {"SHOWN", "STAGE", "COMPARE", "WRITE"} =>
        c.plan \in Plans /\ Compiled(c.adapter, c.plan)
    /\ c.step \in {"SHOWN", "COMPARE", "WRITE"} => c.next \in HostFiles
    /\ c.step \in {"SHOWN", "STAGE", "COMPARE", "TRUST"} => ~c.wrote

Stores ==
    /\ catalogue \in Catalogue /\ place \in Place
    /\ staged \in [Adapter -> Runtimes \cup {Nothing}]
    /\ DOMAIN receipt = Attested
    /\ \A a \in Attested : receipt[a] \in [Files(a) -> HostFile] \cup {Nothing}
    /\ receipt = [a \in Attested |-> receipt[a]]
    /\ file \in HostFiles
    /\ trust \in {"ABSENT", "ENABLED", "DISABLED"}
    /\ half \in Adapter \cup {Nothing} /\ mixed \in BOOLEAN
    /\ calls \in 0 .. MaxCalls /\ changes \in 0 .. MaxChanges
Callers == call \in [Process -> Calls] /\ \A p \in Process : Knows(call[p])
HostTyped == Stores /\ Callers

(* While nobody changes what a command has read, what it decided still holds, *)
(* between its own writes too.                                               *)
Backed(a, plan, runtimes) ==
    /\ a \in Attested => runtimes[a] = plan.runtime
    /\ a = "local" => runtimes[a] \in {Nothing, plan.runtime}
MergedInto(a, plan, host, next) ==
    \A f \in File :
        /\ next[f].hooks = host[f].hooks \cup (IF f = HooksFile[a] THEN {plan.hooks} ELSE {})
        /\ next[f].servers = IF f = ServerFile[a] THEN {plan.server} ELSE host[f].servers
        /\ next[f].foreign = host[f].foreign
Current(c, host, runtimes, receipts) ==
    (c.fresh /\ c.step \in {"COMPARE", "WRITE"}) =>
        /\ MergedInto(c.adapter, c.plan, host, c.next)
        /\ Fits(c.adapter, c.plan, host)
        /\ Backed(c.adapter, c.plan, runtimes)
        /\ c.adapter \in Attested =>
            receipts[c.adapter] \in {Nothing, ReceiptText(c.adapter, c.next)}
        /\ c.step = "WRITE" => \A f \in Files(c.adapter) : f \in c.todo \/ host[f] = c.next[f]
AllCurrent == \A p \in Process : Current(call[p], file, staged, receipt)

(* A command that may write stands on the stage before. *)
Founded(c, runtimes, receipts) ==
    /\ c.step = "TRUST" => receipts["cloud"] # Nothing
    /\ c.step \in {"COMPARE", "WRITE"} /\ c.adapter \in Attested => runtimes[c.adapter] # Nothing
Ordered == StagesStandInOrder /\ (~mixed => \A p \in Process : Founded(call[p], staged, receipt))

HostIInv == HostTyped /\ AllCurrent /\ Ordered /\ HalfInstallsConverge

-----------------------------------------------------------------------------
(* The adapters and their plans. *)

LEMMA AdapterFiles ==
  ASSUME NEW a \in Adapter
  PROVE  /\ ServerFile[a] \in File /\ ServerFile[a] \in Files(a)
         /\ HooksFile[a] \in File \cup {"none"} /\ "none" \notin File
         /\ HooksFile[a] \in File => HooksFile[a] \in Files(a)
         /\ Files(a) = {HooksFile[a], ServerFile[a]} \cap File
<1>1. ServerFile[a] \in File
  BY DEF Adapter, Attested, ServerFile, File
<1>2. HooksFile[a] \in File \cup {"none"}
  BY DEF Adapter, Attested, HooksFile, File
<1>3. "none" \notin File
  BY DEF File
<1> QED
  BY <1>1, <1>2, <1>3 DEF Files

LEMMA NothingIsDistinct ==
  /\ Nothing \notin Process /\ Nothing \notin Adapter /\ Nothing \notin Runtimes
  /\ \A a \in Attested : Nothing \notin [Files(a) -> HostFile]
  /\ Attested \subseteq Adapter /\ "local" \in Adapter \ Attested
  /\ "installer" \in Adapter \ Attested /\ Adapter = Attested \cup {"local", "installer"}
  BY NothingAssumption DEF Adapter, Attested

LEMMA PlansAreCompiled ==
  ASSUME Stores, NEW a \in Adapter
  PROVE  /\ Plan(a) \in Plans /\ Plan(a).server.by = a
         /\ a = "installer" => Plan(a).server.of = catalogue
         /\ a \in {"local", "cloud"} => Plan(a).server.of = catalogue
         /\ a # "installer" => /\ Plan(a).hooks \in Entries /\ Plan(a).hooks.by = a
                               /\ Plan(a).runtime \in Runtimes
                               /\ Plan(a).runtime.allowed = Allowed(catalogue)
         /\ Compiles => Compiled(a, Plan(a))
<1> USE DEF Stores
<1>1. \A of \in Catalogue \cup {AnyBuild}, at \in Place \cup {Anywhere} :
         /\ Runtime(of, at) \in Runtimes /\ Runtime(of, at).allowed = Allowed(catalogue)
         /\ Hooks(a, at) \in Entries /\ Hooks(a, at).by = a
         /\ Server(a, a, of, at) \in Servers /\ Server(a, a, of, at).by = a
         /\ Server(a, a, of, at).of = of
  BY DEF Runtime, Runtimes, Hooks, Entries, Server, Servers
<1>2. CASE a = "installer"
  <2>1. Plan(a) = [hooks |-> Nothing, server |-> Integration("local", catalogue),
                   runtime |-> Nothing]
    BY <1>2 DEF Plan, InstallerPlan
  <2>2. Integration("local", catalogue) \in Servers /\ Integration("local", catalogue).by = a
        /\ Integration("local", catalogue).of = catalogue
    BY <1>2 DEF Integration, Server, Servers, Adapter, Attested
  <2> QED
    BY <1>2, <2>1, <2>2 DEF Plans, Compiled, Compiles
<1>3. ASSUME NEW of \in Catalogue \cup {AnyBuild}, NEW at \in Place \cup {Anywhere},
             Plan(a) = PlanOf(a, of, at), a # "installer",
             a \in {"local", "cloud"} => of = catalogue
      PROVE  /\ Plan(a) \in Plans /\ Plan(a).server.by = a
             /\ a \in {"local", "cloud"} => Plan(a).server.of = catalogue
             /\ Plan(a).hooks \in Entries /\ Plan(a).hooks.by = a
             /\ Plan(a).runtime \in Runtimes /\ Plan(a).runtime.allowed = Allowed(catalogue)
  <2>1. /\ Plan(a).hooks = Hooks(a, at) /\ Plan(a).server = Server(a, a, of, at)
        /\ Plan(a).runtime = Runtime(of, at)
    BY <1>3 DEF PlanOf
  <2>2. Plan(a) \in Plans
    BY <1>3, <1>1 DEF PlanOf, Plans
  <2>3. /\ Runtime(of, at) \in Runtimes /\ Runtime(of, at).allowed = Allowed(catalogue)
        /\ Hooks(a, at) \in Entries /\ Hooks(a, at).by = a
        /\ Server(a, a, of, at).by = a /\ Server(a, a, of, at).of = of
    BY <1>1, <1>3
  <2> HIDE DEF Stores
  <2> QED
    BY <2>1, <2>2, <2>3, <1>3
<1>4. CASE a \in {"local", "cloud"}
  <2>1. Plan(a) = PlanOf(a, catalogue, Anywhere)
    BY <1>4 DEF Plan, LocalPlan, CloudPlan
  <2> QED
    BY <2>1, <1>3, <1>4 DEF Compiled, Compiles
<1>5. CASE a \in {"codex", "gemini", "antigravity", "generic"}
  <2>1. Plan(a) = PlanOf(a, AnyBuild, place)
    BY <1>5 DEF Plan, CodexPlan, GeminiPlan, AntigravityPlan, GenericPlan
  <2> QED
    BY <2>1, <1>3, <1>5 DEF Compiled, Compiles
<1> QED
  BY <1>2, <1>4, <1>5 DEF Adapter, Attested

(* What loading an adapter comes to. *)
LEMMA LoadsIs ==
  ASSUME NEW a \in Adapter
  PROVE  Loads(a) <=> Compiles /\ Backed(a, Plan(a), staged)
<1> USE DEF Adapter, Attested, Backed, Loads, Plan
<1>1. CASE a \in {"codex", "gemini", "antigravity"}
  BY <1>1 DEF CodexLoads, GeminiLoads, AntigravityLoads
<1>2. CASE a \in {"generic", "cloud"}
  BY <1>2 DEF GenericLoads, CloudLoads
<1>3. CASE a \in {"local", "installer"}
  BY <1>3 DEF LocalLoads
<1> QED
  BY <1>1, <1>2, <1>3

(* What fitting comes to: every hook that is VERA's own is the plan's, and the *)
(* server is the plan's, or the plain one that a Claude adapter takes over.   *)
HooksFit(a, plan, host) ==
    \A h \in HooksIn(a, host) : (a = "cloud" /\ ~standalone) \/ h.by = a => h = plan.hooks
ServersFit(a, plan, host) ==
    \A s \in ServersIn(a, host) :
        s = plan.server \/ (a \in {"local", "cloud"} /\ s = Integration(a, plan.server.of))

LEMMA FitsIs ==
  ASSUME NEW a \in Adapter, NEW plan, NEW host
  PROVE  Fits(a, plan, host) <=> HooksFit(a, plan, host) /\ ServersFit(a, plan, host)
<1> USE DEF Adapter, Attested, Fits, HooksFit, ServersFit, OnlyOwnHooks, OnlyOwnServer,
           OwnOrPlainServer
<1>1. CASE a \in {"codex", "gemini", "antigravity"}
  BY <1>1 DEF CodexFits, GeminiFits, AntigravityFits
<1>2. CASE a \in {"generic", "installer"}
  <2>1. HooksIn(a, host) = {}
    BY <1>2 DEF HooksIn, HooksFile
  <2> QED
    BY <1>2, <2>1 DEF GenericFits, InstallerFits
<1>3. CASE a = "local"
  BY <1>3 DEF LocalFits
<1>4. CASE a = "cloud"
  BY <1>4 DEF CloudHooksFit, CloudServerFits
<1> QED
  BY <1>1, <1>2, <1>3, <1>4

-----------------------------------------------------------------------------
(* Merging. *)

LEMMA MergedIsMergedInto ==
  ASSUME NEW a \in Adapter, NEW plan, NEW host
  PROVE  MergedInto(a, plan, host, Merged(a, plan, host))
  BY DEF Merged, MergedInto

LEMMA MergedTyped ==
  ASSUME NEW a \in Adapter, NEW plan \in Plans, NEW host \in HostFiles,
         a # "installer" => plan.hooks \in Entries
  PROVE  Merged(a, plan, host) \in HostFiles
<1>1. host \in [File -> HostFile] /\ \A f \in File : OneServer(host[f])
  BY DEF HostFiles
<1>2. HooksFile[a] \in File => plan.hooks \in Entries
  BY AdapterFiles DEF HooksFile, File
<1>3. plan.server \in Servers
  BY DEF Plans
<1> DEFINE next == Merged(a, plan, host)
<1>4. \A f \in File : next[f] \in HostFile /\ OneServer(next[f])
  <2> TAKE f \in File
  <2> DEFINE hooks == host[f].hooks \cup (IF f = HooksFile[a] THEN {plan.hooks} ELSE {})
             servers == IF f = ServerFile[a] THEN {plan.server} ELSE host[f].servers
  <2>1. next[f] = [hooks |-> hooks, servers |-> servers, foreign |-> host[f].foreign]
    BY DEF Merged
  <2>2. host[f] \in HostFile /\ OneServer(host[f])
    BY <1>1
  <2>3. hooks \subseteq Entries /\ host[f].foreign \subseteq Foreign
    BY <2>2, <1>2 DEF HostFile
  <2>4. servers \subseteq Servers /\ (servers = {} \/ \E s \in Servers : servers = {s})
    BY <2>2, <1>3 DEF HostFile, OneServer
  <2> QED
    BY <2>1, <2>3, <2>4 DEF HostFile, OneServer
<1>5. next \in [File -> HostFile]
  BY <1>4 DEF Merged
<1> QED
  BY <1>4, <1>5 DEF HostFiles

(* Merging is determined by what it does to each file. *)
LEMMA MergedIsOne ==
  ASSUME NEW a \in Adapter, NEW plan, NEW host \in HostFiles, NEW next \in HostFiles,
         MergedInto(a, plan, host, next)
  PROVE  next = Merged(a, plan, host)
<1> DEFINE m == Merged(a, plan, host)
<1>1. \A f \in File : next[f] = m[f]
  <2> TAKE f \in File
  <2>1. next[f] \in [hooks : SUBSET Entries, servers : SUBSET Servers, foreign : SUBSET Foreign]
    BY DEF HostFiles, HostFile
  <2>2. next[f] = [hooks |-> next[f].hooks, servers |-> next[f].servers,
                   foreign |-> next[f].foreign]
    BY <2>1
  <2>3. m[f] = [hooks |-> m[f].hooks, servers |-> m[f].servers, foreign |-> m[f].foreign]
    BY DEF Merged
  <2>4. /\ next[f].hooks = m[f].hooks /\ next[f].servers = m[f].servers
        /\ next[f].foreign = m[f].foreign
    <3>1. MergedInto(a, plan, host, m)
      BY MergedIsMergedInto
    <3> HIDE DEF m
    <3>2. /\ m[f].hooks = host[f].hooks \cup (IF f = HooksFile[a] THEN {plan.hooks} ELSE {})
          /\ m[f].servers = IF f = ServerFile[a] THEN {plan.server} ELSE host[f].servers
          /\ m[f].foreign = host[f].foreign
      BY <3>1 DEF MergedInto
    <3>3. /\ next[f].hooks = host[f].hooks \cup (IF f = HooksFile[a] THEN {plan.hooks} ELSE {})
          /\ next[f].servers = IF f = ServerFile[a] THEN {plan.server} ELSE host[f].servers
          /\ next[f].foreign = host[f].foreign
      BY DEF MergedInto
    <3> QED
      BY <3>2, <3>3
  <2> QED
    BY <2>2, <2>3, <2>4
<1>2. next = [f \in File |-> next[f]]
  BY DEF HostFiles
<1>3. m = [f \in File |-> m[f]]
  BY DEF Merged
<1> QED
  BY <1>1, <1>2, <1>3

(* Files of the host that are as they were, or as merged, still fit and merge  *)
(* into the same.                                                            *)
LEMMA MergingGoesOn ==
  ASSUME NEW a \in Adapter, NEW plan, NEW host, NEW next, NEW new,
         MergedInto(a, plan, host, next),
         \A f \in File : new[f] = host[f] \/ new[f] = next[f]
  PROVE  /\ MergedInto(a, plan, new, next)
         /\ Fits(a, plan, host) => Fits(a, plan, new)
<1>1. MergedInto(a, plan, new, next)
  BY DEF MergedInto
<1>2. \A s \in ServersIn(a, new) : s \in ServersIn(a, host) \/ s = plan.server
  BY AdapterFiles DEF ServersIn, MergedInto
<1>3. \A h \in HooksIn(a, new) : h \in HooksIn(a, host) \/ h = plan.hooks
  BY AdapterFiles DEF HooksIn, MergedInto
<1> QED
  BY <1>1, <1>2, <1>3, FitsIs DEF HooksFit, ServersFit

LEMMA ReceiptsAreTexts ==
  ASSUME NEW a \in Attested, NEW next \in HostFiles
  PROVE  ReceiptText(a, next) \in [Files(a) -> HostFile] /\ ReceiptText(a, next) # Nothing
<1>1. next \in [File -> HostFile] /\ Files(a) \subseteq File
  BY DEF HostFiles, Files
<1>2. ReceiptText(a, next) \in [Files(a) -> HostFile]
  BY <1>1 DEF ReceiptText
<1> QED
  BY <1>2, NothingIsDistinct

-----------------------------------------------------------------------------
(* Calls. *)

Stale(c) == [c EXCEPT !.fresh = FALSE]
(* A call moves; the others may be outdated by it. *)
Moved(p, c) == Becomes(p, c) \/ call' = [Outdate(p) EXCEPT ![p] = c]
SameCall(c, d) ==
    /\ d.adapter = c.adapter /\ d.step = c.step /\ d.next = c.next /\ d.plan = c.plan
    /\ d.todo = c.todo /\ d.wrote = c.wrote /\ d.answer = c.answer

LEMMA StaleIsCall ==
  ASSUME NEW c \in Calls, Knows(c)
  PROVE  /\ Stale(c) \in Calls /\ Stale(c).fresh = FALSE /\ SameCall(c, Stale(c)) /\ Knows(Stale(c))
<1>1. Stale(c) \in Calls /\ Stale(c).fresh = FALSE /\ SameCall(c, Stale(c))
  BY DEF Stale, Calls, SameCall
<1> QED
  BY <1>1 DEF SameCall, Knows

LEMMA CallsMove ==
  ASSUME Callers, NEW p \in Process, NEW c \in Calls, Knows(c), Moved(p, c)
  PROVE  /\ Callers' /\ call'[p] = c
         /\ \A q \in Process \ {p} : call'[q] \in {call[q], Stale(call[q])}
         /\ ~Becomes(p, c) => \A q \in Process \ {p} : call'[q] = Stale(call[q])
<1>1. call \in [Process -> Calls]
  BY DEF Callers
<1>2. CASE Becomes(p, c)
  <2>1. call'[p] = c /\ \A q \in Process \ {p} : call'[q] = call[q]
    BY <1>1, <1>2 DEF Becomes
  <2>2. call' \in [Process -> Calls]
    BY <1>1, <1>2 DEF Becomes
  <2> QED
    BY <1>2, <2>1, <2>2 DEF Callers
<1>3. CASE call' = [Outdate(p) EXCEPT ![p] = c]
  <2>1. Outdate(p) = [q \in Process |-> IF q = p THEN call[q] ELSE Stale(call[q])]
    BY DEF Outdate, Stale
  <2>2. call'[p] = c /\ \A q \in Process \ {p} : call'[q] = Stale(call[q])
    BY <1>3, <2>1
  <2>3. DOMAIN call' = Process /\ call' = [q \in Process |-> call'[q]]
    BY <1>3, <2>1
  <2>4. \A q \in Process : call'[q] \in Calls /\ Knows(call'[q])
    BY <2>2, StaleIsCall DEF Callers
  <2> QED
    BY <2>2, <2>3, <2>4 DEF Callers
<1> QED
  BY <1>2, <1>3 DEF Moved

(* Somebody who is no command outdates every call. *)
LEMMA AllOutdated ==
  ASSUME Callers, call' = Outdate(Nothing)
  PROVE  Callers' /\ \A q \in Process : call'[q] = Stale(call[q])
<1>1. Outdate(Nothing) = [q \in Process |-> Stale(call[q])]
  BY NothingIsDistinct DEF Outdate, Stale
<1>2. \A q \in Process : call'[q] = Stale(call[q])
  BY <1>1
<1>3. call' = [q \in Process |-> call'[q]]
  BY <1>1
<1>4. \A q \in Process : call'[q] \in Calls /\ Knows(call'[q])
  BY <1>2, StaleIsCall DEF Callers
<1> QED
  BY <1>2, <1>3, <1>4 DEF Callers

LEMMA StaleKeeps ==
  ASSUME NEW c \in Calls, Knows(c), NEW host, NEW runtimes, NEW receipts
  PROVE  /\ Current(Stale(c), host, runtimes, receipts)
         /\ Founded(c, runtimes, receipts) => Founded(Stale(c), runtimes, receipts)
  BY StaleIsCall DEF Current, Founded, SameCall

LEMMA AnsweredIsCall ==
  ASSUME NEW a \in Adapter \cup {Nothing}, NEW answer \in Answers, NEW wrote \in BOOLEAN,
         NEW host, NEW runtimes, NEW receipts
  PROVE  LET c == [Answered(a, answer) EXCEPT !.wrote = wrote]
         IN /\ c \in Calls /\ Knows(c) /\ Current(c, host, runtimes, receipts)
            /\ Founded(c, runtimes, receipts)
<1> DEFINE c == [Answered(a, answer) EXCEPT !.wrote = wrote]
<1>1. c \in Calls /\ c.step = "IDLE"
  BY DEF Answered, Idle, Calls, Steps, Answers
<1> QED
  BY <1>1 DEF Knows, Current, Founded

LEMMA AnsweredIsIdle ==
  ASSUME NEW a \in Adapter \cup {Nothing}, NEW answer \in Answers,
         NEW host, NEW runtimes, NEW receipts
  PROVE  LET c == Answered(a, answer)
         IN /\ c \in Calls /\ Knows(c) /\ Current(c, host, runtimes, receipts)
            /\ Founded(c, runtimes, receipts)
<1> DEFINE c == Answered(a, answer)
<1>1. c \in Calls /\ c.step = "IDLE"
  BY DEF Answered, Idle, Calls, Steps, Answers
<1> QED
  BY <1>1 DEF Knows, Current, Founded

-----------------------------------------------------------------------------
(* Commands that start. *)

(* What every step that writes nothing leaves. *)
Quiet == UNCHANGED <<catalogue, place, staged, receipt, file, trust, mixed, changes, standalone>>
(* A call that stands on what is there. *)
Sound(c) ==
    /\ c \in Calls /\ Knows(c)
    /\ Current(c, file, staged, receipt) /\ Founded(c, staged, receipt)

LEMMA StageIsSound ==
  ASSUME HostTyped, NEW a \in Adapter \ {"installer"}
  PROVE  Sound(StageOf(a))
<1>1. CASE StageOf(a) = [Idle EXCEPT !.adapter = a, !.step = "STAGE", !.plan = Plan(a)] /\ Compiles
  <2>1. Plan(a) \in Plans /\ Compiled(a, Plan(a))
    BY <1>1, PlansAreCompiled DEF HostTyped
  <2> DEFINE c == [Idle EXCEPT !.adapter = a, !.step = "STAGE", !.plan = Plan(a)]
  <2>2. c \in Calls
    BY <2>1 DEF Idle, Calls, Steps, Answers
  <2>3. c.adapter = a /\ c.step = "STAGE" /\ c.plan = Plan(a) /\ c.wrote = FALSE
    BY DEF Idle
  <2>4. Knows(c)
    BY <2>1, <2>3 DEF Knows
  <2>5. Current(c, file, staged, receipt) /\ Founded(c, staged, receipt)
    BY <2>3 DEF Current, Founded
  <2> QED
    BY <1>1, <2>2, <2>4, <2>5 DEF Sound
<1>2. CASE \E answer \in Answers : StageOf(a) = Answered(a, answer)
  BY <1>2, AnsweredIsIdle DEF Sound
<1> QED
  BY <1>1, <1>2 DEF StageOf, Answers

LEMMA PreviewIsSound ==
  ASSUME HostTyped, NEW a \in Attested
  PROVE  Sound(PreviewOf(a))
<1>0. a \in Adapter /\ a # "installer"
  BY NothingIsDistinct
<1> DEFINE c == [Idle EXCEPT !.adapter = a, !.step = "SHOWN", !.plan = Plan(a),
                             !.next = Merged(a, Plan(a), file)]
<1>1. CASE PreviewOf(a) = c /\ Loads(a)
  <2>1. Plan(a) \in Plans /\ Compiled(a, Plan(a))
    BY <1>0, <1>1, PlansAreCompiled, LoadsIs DEF HostTyped
  <2>2. Merged(a, Plan(a), file) \in HostFiles
    BY <1>0, <2>1, MergedTyped DEF Compiled, HostTyped, Stores
  <2>3. c \in Calls
    BY <1>0, <2>1, <2>2 DEF Idle, Calls, Steps, Answers
  <2>4. /\ c.adapter = a /\ c.step = "SHOWN" /\ c.plan = Plan(a) /\ c.wrote = FALSE
        /\ c.next = Merged(a, Plan(a), file)
    BY DEF Idle
  <2>5. Knows(c)
    BY <2>1, <2>2, <2>4 DEF Knows
  <2>6. Current(c, file, staged, receipt) /\ Founded(c, staged, receipt)
    BY <2>4 DEF Current, Founded
  <2> QED
    BY <1>1, <2>3, <2>5, <2>6 DEF Sound
<1>2. CASE PreviewOf(a) = Answered(a, "REFUSED")
  BY <1>0, <1>2, AnsweredIsIdle DEF Sound, Answers
<1> QED
  BY <1>1, <1>2 DEF PreviewOf

(* A command that writes what it has just merged. *)
Writing(a, next, todo) ==
    [Idle EXCEPT !.adapter = a, !.step = "WRITE", !.plan = Plan(a), !.next = next, !.todo = todo]

LEMMA WriteIsSound ==
  ASSUME HostTyped, NEW a \in {"local", "installer"}, Loads(a), Fits(a, Plan(a), file),
         NEW todo \in SUBSET File, todo \subseteq Files(a),
         \A f \in Files(a) : f \in todo \/ file[f] = Merged(a, Plan(a), file)[f]
  PROVE  Sound(Writing(a, Merged(a, Plan(a), file), todo))
<1>0. a \in Adapter \ Attested
  BY NothingIsDistinct
<1> DEFINE next == Merged(a, Plan(a), file)
           c == Writing(a, next, todo)
<1>1. Plan(a) \in Plans /\ Compiled(a, Plan(a)) /\ Backed(a, Plan(a), staged)
  BY <1>0, PlansAreCompiled, LoadsIs DEF HostTyped
<1>2. next \in HostFiles
  BY <1>0, <1>1, MergedTyped DEF Compiled, HostTyped, Stores
<1>3. MergedInto(a, Plan(a), file, next)
  BY <1>0, MergedIsMergedInto
<1> HIDE DEF next
<1>4. c \in Calls
  BY <1>0, <1>1, <1>2 DEF Writing, Idle, Calls, Steps, Answers
<1>5. /\ c.adapter = a /\ c.step = "WRITE" /\ c.plan = Plan(a) /\ c.next = next /\ c.todo = todo
  BY DEF Writing, Idle
<1> HIDE DEF c
<1>6. Knows(c)
  BY <1>0, <1>1, <1>2, <1>5 DEF Knows
<1>7. \A f \in Files(a) : f \in todo \/ file[f] = next[f]
  BY DEF next
<1>8. Current(c, file, staged, receipt) /\ Founded(c, staged, receipt)
  BY <1>0, <1>1, <1>3, <1>5, <1>7 DEF Current, Founded
<1> QED
  BY <1>4, <1>6, <1>8 DEF Sound, c, next

LEMMA ConfirmedIsSound ==
  ASSUME HostTyped, NEW p \in Process, NEW a \in Attested, Applies(p, a)
  PROVE  Sound(Confirmed(p, a))
<1>0. a \in Adapter
  BY NothingIsDistinct
<1> DEFINE c == [call[p] EXCEPT !.step = "COMPARE", !.plan = Plan(a), !.fresh = TRUE]
<1>1. CASE Accepted(a, call[p].next) /\ Confirmed(p, a) = c
  <2>1. call[p] \in Calls /\ Knows(call[p]) /\ call[p].step = "SHOWN" /\ call[p].adapter = a
    BY DEF HostTyped, Callers, Applies
  <2>2. Loads(a) /\ Fits(a, Plan(a), file) /\ call[p].next = Merged(a, Plan(a), file)
        /\ receipt[a] \in {Nothing, ReceiptText(a, call[p].next)}
    BY <1>1 DEF Accepted
  <2>3. Plan(a) \in Plans /\ Compiled(a, Plan(a)) /\ Backed(a, Plan(a), staged)
    BY <1>0, <2>2, PlansAreCompiled, LoadsIs DEF HostTyped
  <2>4. c \in Calls
    BY <2>1, <2>3 DEF Calls, Steps
  <2>5. /\ c.adapter = a /\ c.step = "COMPARE" /\ c.plan = Plan(a) /\ c.next = call[p].next
        /\ c.wrote = call[p].wrote
    BY <2>1 DEF Calls
  <2> HIDE DEF c
  <2>6. Knows(c)
    BY <1>0, <2>1, <2>3, <2>5 DEF Knows
  <2>7. MergedInto(a, Plan(a), file, c.next)
    BY <1>0, <2>2, <2>5, MergedIsMergedInto
  <2>8. Current(c, file, staged, receipt)
    BY <2>2, <2>3, <2>5, <2>7 DEF Current
  <2>9. staged[a] # Nothing
    BY <1>0, <2>3, NothingIsDistinct DEF Backed, Compiled
  <2>10. Founded(c, staged, receipt)
    BY <2>5, <2>9 DEF Founded
  <2> QED
    BY <1>1, <2>4, <2>6, <2>8, <2>10 DEF Sound
<1>2. CASE Confirmed(p, a) = Answered(a, "REFUSED")
  BY <1>0, <1>2, AnsweredIsIdle DEF Sound, Answers
<1> QED
  BY <1>1, <1>2 DEF Confirmed

LEMMA TrustIsSound ==
  ASSUME HostTyped, receipt["cloud"] # Nothing
  PROVE  Sound([Idle EXCEPT !.adapter = "cloud", !.step = "TRUST"])
<1> DEFINE c == [Idle EXCEPT !.adapter = "cloud", !.step = "TRUST"]
<1>1. c \in Calls /\ c.step = "TRUST" /\ c.wrote = FALSE
  BY DEF Idle, Calls, Steps, Answers, Adapter, Attested
<1> QED
  BY <1>1 DEF Sound, Knows, Current, Founded

(* Every command moves its process to a call that stands on what is there. *)
LEMMA CommandsAreSound ==
  ASSUME HostTyped, NEW p \in Process, Command(p)
  PROVE  /\ Quiet /\ UNCHANGED half /\ calls' \in 0 .. MaxCalls
         /\ \E c : Sound(c) /\ Becomes(p, c)
<1>0. /\ {"codex", "gemini", "antigravity", "generic", "cloud"} = Attested
      /\ Attested \subseteq Adapter \ {"installer"} /\ "local" \in Adapter \ {"installer"}
      /\ "installer" \in Adapter
  BY DEF Attested, Adapter
<1>1. ASSUME Starts(p) PROVE Quiet /\ UNCHANGED half /\ calls' \in 0 .. MaxCalls
  BY <1>1, HostAssumption DEF Starts, Quiet, HostTyped, Stores
<1>2. CASE StageCodex(p) \/ StageGemini(p) \/ StageAntigravity(p) \/ StageGeneric(p)
           \/ StageCloud(p) \/ StageLocal(p)
  <2>1. Starts(p) /\ \E a \in Adapter \ {"installer"} : Becomes(p, StageOf(a))
    BY <1>0, <1>2
       DEF StageCodex, StageGemini, StageAntigravity, StageGeneric, StageCloud, StageLocal
  <2> QED
    BY <2>1, <1>1, StageIsSound
<1>3. CASE PreviewCodex(p) \/ PreviewGemini(p) \/ PreviewAntigravity(p) \/ PreviewGeneric(p)
           \/ PreviewCloud(p)
  <2>1. Starts(p) /\ \E a \in Attested : Becomes(p, PreviewOf(a))
    BY <1>0, <1>3 DEF PreviewCodex, PreviewGemini, PreviewAntigravity, PreviewGeneric, PreviewCloud
  <2> QED
    BY <2>1, <1>1, PreviewIsSound
<1>4. CASE ApplyCodex(p) \/ ApplyGemini(p) \/ ApplyAntigravity(p) \/ ApplyGeneric(p)
           \/ ApplyCloud(p)
  <2>1. PICK a \in Attested : Applies(p, a)
    BY <1>0, <1>4 DEF ApplyCodex, ApplyGemini, ApplyAntigravity, ApplyGeneric, ApplyCloud
  <2>2. Sound(Confirmed(p, a))
    BY <2>1, ConfirmedIsSound
  <2> QED
    BY <2>1, <2>2 DEF Applies, Quiet, HostTyped, Stores
<1>5. CASE InstallLocal(p)
  <2> DEFINE m == Merged("local", LocalPlan, file)
             c == [Idle EXCEPT !.adapter = "local", !.step = "WRITE", !.plan = LocalPlan,
                               !.next = m, !.todo = ToWrite("local", m)]
  <2>1. Starts(p)
    BY <1>5 DEF InstallLocal
  <2>2. CASE LocalLoads /\ LocalFits(LocalPlan, file) /\ Becomes(p, c)
    <3>1. Plan("local") = LocalPlan /\ Loads("local") /\ Fits("local", LocalPlan, file)
      BY <2>2 DEF Plan, Loads, Fits
    <3>2. ToWrite("local", m) \subseteq Files("local") /\ ToWrite("local", m) \in SUBSET File
          /\ \A f \in Files("local") : f \in ToWrite("local", m) \/ file[f] = m[f]
      BY DEF ToWrite, Files
    <3>3. m = Merged("local", Plan("local"), file)
      BY <3>1
    <3> HIDE DEF m
    <3>4. Sound(Writing("local", m, ToWrite("local", m)))
      BY <3>1, <3>2, <3>3, WriteIsSound
    <3> QED
      BY <2>1, <2>2, <3>1, <3>4, <1>1 DEF Writing
  <2>3. CASE \E answer \in Answers : Becomes(p, Answered("local", answer))
    BY <2>1, <2>3, <1>0, <1>1, AnsweredIsIdle DEF Sound
  <2> QED
    BY <1>5, <2>2, <2>3 DEF InstallLocal, Answers
<1>6. CASE InstallServer(p)
  <2> DEFINE m == Merged("installer", InstallerPlan, file)
             c == [Idle EXCEPT !.adapter = "installer", !.step = "WRITE", !.plan = InstallerPlan,
                               !.next = m, !.todo = {"mcp"}]
  <2>1. Starts(p)
    BY <1>6 DEF InstallServer
  <2>2. CASE Compiles /\ InstallerFits(InstallerPlan, file) /\ Becomes(p, c)
    <3>1. /\ Plan("installer") = InstallerPlan /\ Loads("installer")
          /\ Fits("installer", InstallerPlan, file)
      BY <2>2 DEF Plan, Loads, Fits
    <3>2. Files("installer") = {"mcp"} /\ {"mcp"} \in SUBSET File
      BY DEF Files, HooksFile, ServerFile, File
    <3>3. {"mcp"} \subseteq Files("installer")
          /\ \A f \in Files("installer") : f \in {"mcp"} \/ file[f] = m[f]
      BY <3>2
    <3>4. Sound(Writing("installer", m, {"mcp"}))
      BY <3>1, <3>2, <3>3, WriteIsSound
    <3> HIDE DEF m
    <3> QED
      BY <2>1, <2>2, <3>1, <3>4, <1>1 DEF Writing
  <2>3. CASE \E answer \in Answers : Becomes(p, Answered("installer", answer))
    BY <2>1, <2>3, <1>0, <1>1, AnsweredIsIdle DEF Sound
  <2> QED
    BY <1>6, <2>2, <2>3 DEF InstallServer, Answers
<1>7. CASE Trust(p)
  <2> DEFINE m == Merged("cloud", CloudPlan, file)
             c == [Idle EXCEPT !.adapter = "cloud", !.step = "TRUST"]
  <2>1. Starts(p)
    BY <1>7 DEF Trust
  <2>2. CASE CloudLoads /\ receipt["cloud"] = ReceiptText("cloud", m) /\ Becomes(p, c)
    <3>1. Plan("cloud") = CloudPlan /\ Loads("cloud") /\ "cloud" \in Attested
      BY <2>2, <1>0 DEF Plan, Loads
    <3>2. CloudPlan \in Plans /\ Compiled("cloud", CloudPlan)
      BY <3>1, <1>0, PlansAreCompiled, LoadsIs DEF HostTyped
    <3>3. m \in HostFiles
      BY <3>2, <1>0, MergedTyped DEF Compiled, HostTyped, Stores
    <3>4. receipt["cloud"] # Nothing
      BY <2>2, <3>1, <3>3, ReceiptsAreTexts
    <3> QED
      BY <2>1, <2>2, <3>4, <1>1, TrustIsSound
  <2>3. CASE \E answer \in Answers : Becomes(p, Answered("cloud", answer))
    BY <2>1, <2>3, <1>0, <1>1, AnsweredIsIdle DEF Sound
  <2> QED
    BY <1>7, <2>2, <2>3 DEF Trust, Answers
<1> QED
  BY <1>2, <1>3, <1>4, <1>5, <1>6, <1>7 DEF Command

-----------------------------------------------------------------------------
(* What is kept of the calls. *)

(* What fits depends on the form of the local hooks, which no step changes. *)
LEMMA FitsStay ==
  ASSUME standalone' = standalone, NEW a, NEW plan, NEW host
  PROVE  Fits(a, plan, host)' <=> Fits(a, plan, host)
  BY DEF Fits, CodexFits, GeminiFits, AntigravityFits, GenericFits, InstallerFits, LocalFits,
         CloudHooksFit, CloudServerFits, OnlyOwnHooks, OnlyOwnServer, OwnOrPlainServer,
         Integration, Server

LEMMA CurrentStays ==
  ASSUME standalone' = standalone, NEW c, NEW host, NEW runtimes, NEW receipts
  PROVE  Current(c, host, runtimes, receipts)' <=> Current(c, host, runtimes, receipts)
<1>1. \A a, plan : Fits(a, plan, host)' <=> Fits(a, plan, host)
  BY FitsStay
<1> QED
  BY <1>1 DEF Current, MergedInto, Backed, ReceiptText

LEMMA AllCurrentNext ==
  ASSUME standalone' = standalone,
         \A q \in Process : Current(call'[q], file', staged', receipt')
  PROVE  AllCurrent'
<1>1. \A c, host, runtimes, receipts :
        Current(c, host, runtimes, receipts)' <=> Current(c, host, runtimes, receipts)
  BY CurrentStays
<1> QED
  BY <1>1 DEF AllCurrent

LEMMA CurrentKept ==
  ASSUME Callers, AllCurrent, standalone' = standalone, NEW p \in Process, NEW c \in Calls, Knows(c), Moved(p, c),
         Current(c, file', staged', receipt'),
         Becomes(p, c) => UNCHANGED <<file, staged, receipt>>
  PROVE  Callers' /\ AllCurrent'
<1>1. Callers' /\ call'[p] = c
  BY CallsMove
<1>2. ASSUME NEW q \in Process \ {p} PROVE Current(call'[q], file', staged', receipt')
  <2>1. call[q] \in Calls /\ Knows(call[q]) /\ Current(call[q], file, staged, receipt)
    BY DEF Callers, AllCurrent
  <2>2. CASE call'[q] = Stale(call[q])
    BY <2>1, <2>2, StaleKeeps
  <2>3. CASE call'[q] = call[q] /\ Becomes(p, c)
    BY <2>1, <2>3
  <2> QED
    BY <2>2, <2>3, CallsMove
<1> QED
  BY <1>1, <1>2, AllCurrentNext

(* No stage is taken away. *)
StagesStay ==
    /\ \A a \in Attested : staged[a] # Nothing => staged'[a] # Nothing
    /\ receipt["cloud"] # Nothing => receipt'["cloud"] # Nothing

LEMMA FoundedKept ==
  ASSUME Callers, Ordered, NEW p \in Process, NEW c \in Calls, Knows(c), Moved(p, c),
         ~mixed', ~mixed, StagesStay, Founded(c, staged', receipt')
  PROVE  \A q \in Process : Founded(call'[q], staged', receipt')
<1>1. call'[p] = c
  BY CallsMove
<1>2. ASSUME NEW q \in Process \ {p} PROVE Founded(call'[q], staged', receipt')
  <2>1. call[q] \in Calls /\ Knows(call[q]) /\ Founded(call[q], staged, receipt)
    BY DEF Callers, Ordered
  <2>2. Founded(call[q], staged', receipt')
    BY <2>1 DEF Founded, StagesStay
  <2> QED
    BY <2>1, <2>2, StaleKeeps, CallsMove
<1> QED
  BY <1>1, <1>2

LEMMA PlansStay ==
  ASSUME UNCHANGED <<catalogue, place>>, NEW a
  PROVE  Plan(a)' = Plan(a)
  BY DEF Plan, LocalPlan, CloudPlan, CodexPlan, GeminiPlan, AntigravityPlan, GenericPlan,
         InstallerPlan,
         PlanOf, Hooks, Server, Runtime, Integration

LEMMA LoadsStay ==
  ASSUME UNCHANGED <<catalogue, place, staged>>, NEW a
  PROVE  Loads(a)' = Loads(a)
  BY DEF Loads, CodexLoads, GeminiLoads, AntigravityLoads, GenericLoads, CloudLoads, LocalLoads,
         Compiles, LocalPlan, CloudPlan, CodexPlan, GeminiPlan, AntigravityPlan, GenericPlan,
         PlanOf, Hooks, Server, Runtime

LEMMA HalfKept ==
  ASSUME HalfInstallsConverge,
         UNCHANGED <<catalogue, place, staged, receipt, file, half, standalone>>
  PROVE  HalfInstallsConverge'
<1>1. Plan(half)' = Plan(half) /\ Loads(half)' = Loads(half)
  <2>1. \A a : Plan(a)' = Plan(a) /\ Loads(a)' = Loads(a)
    BY PlansStay, LoadsStay
  <2> QED
    BY <2>1
<1>2. Fits(half, Plan(half), file)' <=> Fits(half, Plan(half), file)
  <2>1. \A a, plan, host : Fits(a, plan, host)' <=> Fits(a, plan, host)
    BY FitsStay
  <2> QED
    BY <1>1, <2>1
<1> QED
  BY <1>1, <1>2 DEF HalfInstallsConverge, Accepted

(* Nothing is written. *)
LEMMA QuietStep ==
  ASSUME HostIInv, NEW p \in Process, NEW c, Sound(c), Becomes(p, c),
         Quiet, half' \in Adapter \cup {Nothing}, HalfInstallsConverge', calls' \in 0 .. MaxCalls
  PROVE  HostIInv'
<1> USE DEF HostIInv, HostTyped, Quiet, Sound
<1>1. Stores'
  BY DEF Stores
<1>2. Moved(p, c)
  BY DEF Moved
<1>3. Callers' /\ AllCurrent'
  BY <1>2, CurrentKept
<1>4. StagesStandInOrder'
  BY DEF Ordered, StagesStandInOrder, Stands, Touched, HooksIn, ServersIn
<1>5. ~mixed' => \A q \in Process : Founded(call'[q], staged', receipt')
  BY <1>2, FoundedKept DEF StagesStay
<1> QED
  BY <1>1, <1>3, <1>4, <1>5 DEF Ordered

LEMMA QuietKeeps ==
  ASSUME HostIInv, NEW p \in Process, NEW c, Sound(c), Becomes(p, c),
         Quiet, UNCHANGED half, calls' \in 0 .. MaxCalls
  PROVE  HostIInv'
<1>1. HalfInstallsConverge' /\ half' \in Adapter \cup {Nothing}
  BY HalfKept DEF Quiet, HostIInv, HostTyped, Stores
<1> QED
  BY <1>1, QuietStep

LEMMA CompareKeeps ==
  ASSUME HostIInv, NEW p \in Process, Compare(p)
  PROVE  HostIInv'
<1> DEFINE a == call[p].adapter
           todo == ToWrite(a, call[p].next)
           c == [call[p] EXCEPT !.step = "WRITE", !.todo = todo]
<1>1. call[p] \in Calls /\ Knows(call[p]) /\ call[p].step = "COMPARE"
  BY DEF HostIInv, HostTyped, Callers, Compare
<1>2. a \in Attested /\ a \in Adapter
  BY <1>1, NothingIsDistinct DEF Knows
<1>3. todo \subseteq Files(a) /\ todo \in SUBSET File
      /\ \A f \in Files(a) : f \in todo \/ file[f] = call[p].next[f]
  BY DEF ToWrite, Files
<1> HIDE DEF todo
<1>4. c \in Calls
  BY <1>1, <1>3 DEF Calls, Steps
<1>5. /\ c.adapter = a /\ c.step = "WRITE" /\ c.plan = call[p].plan /\ c.next = call[p].next
      /\ c.fresh = call[p].fresh /\ c.todo = todo
  BY <1>1 DEF Calls
<1> HIDE DEF c
<1>6. Knows(c)
  BY <1>1, <1>2, <1>3, <1>5 DEF Knows
<1>7. Current(call[p], file, staged, receipt) /\ (~mixed => Founded(call[p], staged, receipt))
  BY DEF HostIInv, AllCurrent, Ordered
<1>8. Current(c, file, staged, receipt)
  BY <1>1, <1>3, <1>5, <1>7 DEF Current
<1>9. ~mixed => Founded(c, staged, receipt)
  BY <1>1, <1>5, <1>7 DEF Founded
<1>10. Becomes(p, c) /\ Moved(p, c) /\ Quiet /\ UNCHANGED <<half, calls>>
  BY DEF Compare, Quiet, Moved, c, todo
<1> USE DEF HostIInv, HostTyped, Quiet
<1>11. Stores'
  BY <1>10 DEF Stores
<1>12. Callers' /\ AllCurrent'
  BY <1>4, <1>6, <1>8, <1>10, CurrentKept
<1>13. StagesStandInOrder'
  BY <1>10 DEF Ordered, StagesStandInOrder, Stands, Touched, HooksIn, ServersIn
<1>14. ~mixed' => \A q \in Process : Founded(call'[q], staged', receipt')
  BY <1>4, <1>6, <1>9, <1>10, FoundedKept DEF StagesStay
<1>15. HalfInstallsConverge'
  BY <1>10, HalfKept
<1> QED
  BY <1>11, <1>12, <1>13, <1>14, <1>15 DEF Ordered

-----------------------------------------------------------------------------
(* Writes. *)

(* A write outdates every other call. *)
LEMMA CurrentAfterWrite ==
  ASSUME Callers, standalone' = standalone, NEW p \in Process, NEW c \in Calls, Knows(c),
         call' = [Outdate(p) EXCEPT ![p] = c], Current(c, file', staged', receipt')
  PROVE  Callers' /\ AllCurrent'
<1>1. Moved(p, c)
  BY DEF Moved
<1>2. Callers' /\ call'[p] = c
  BY <1>1, CallsMove
<1>3. ASSUME NEW q \in Process \ {p} PROVE Current(call'[q], file', staged', receipt')
  <2>1. call'[q] = Stale(call[q])
    BY DEF Outdate, Stale
  <2> QED
    BY <2>1, StaleKeeps DEF Callers
<1> QED
  BY <1>2, <1>3, AllCurrentNext

LEMMA WriteStagedKeeps ==
  ASSUME HostIInv, NEW p \in Process, WriteStaged(p)
  PROVE  HostIInv'
<1> USE DEF HostIInv, HostTyped
<1> DEFINE a == call[p].adapter
           c == Answered(a, "STAGED")
<1>1. /\ call[p] \in Calls /\ Knows(call[p]) /\ call[p].step = "STAGE"
      /\ a \in Adapter \ {"installer"} /\ call[p].plan.runtime \in Runtimes
  BY DEF Callers, WriteStaged, Knows, Compiled
<1>2. /\ c \in Calls /\ Knows(c) /\ Current(c, file', staged', receipt')
      /\ Founded(c, staged', receipt')
  BY <1>1, AnsweredIsIdle DEF Answers
<1>3. /\ staged' = [staged EXCEPT ![a] = call[p].plan.runtime]
      /\ call' = [Outdate(p) EXCEPT ![p] = c] /\ half' = Nothing
      /\ mixed' = (mixed \/ ~call[p].fresh)
      /\ UNCHANGED <<catalogue, place, receipt, file, trust, calls, changes, standalone>>
  BY DEF WriteStaged
<1> HIDE DEF c
<1>4. Moved(p, c)
  BY <1>3 DEF Moved
<1>6. staged' \in [Adapter -> Runtimes \cup {Nothing}] /\ staged'[a] # Nothing
      /\ \A b \in Adapter : staged[b] # Nothing => staged'[b] # Nothing
  BY <1>1, <1>3, NothingIsDistinct DEF Stores
<1>7. Stores'
  <2>1. mixed' \in BOOLEAN
    BY <1>3
  <2> QED
    BY <1>3, <1>6, <2>1 DEF Stores
<1>8. StagesStay /\ (~mixed' => ~mixed)
  BY <1>3, <1>6, NothingIsDistinct DEF StagesStay
<1>9. Callers' /\ AllCurrent'
  BY <1>2, <1>3, CurrentAfterWrite
<1>10. StagesStandInOrder'
  BY <1>3, <1>6, <1>8, NothingIsDistinct
     DEF Ordered, StagesStandInOrder, Stands, Touched, HooksIn, ServersIn
<1>11. ~mixed' => \A q \in Process : Founded(call'[q], staged', receipt')
  BY <1>2, <1>4, <1>8, FoundedKept
<1>12. HalfInstallsConverge'
  BY <1>3 DEF HalfInstallsConverge
<1> QED
  BY <1>7, <1>9, <1>10, <1>11, <1>12 DEF Ordered

(* A file is replaced by what was merged into it. *)
LEMMA WriteFileKeeps ==
  ASSUME HostIInv, NEW p \in Process, WriteFile(p)
  PROVE  HostIInv'
<1> USE DEF HostIInv, HostTyped
<1> DEFINE a == call[p].adapter
           plan == call[p].plan
           next == call[p].next
           f == IF HooksFile[a] \in call[p].todo THEN HooksFile[a] ELSE ServerFile[a]
           c == [call[p] EXCEPT !.todo = call[p].todo \ {f}, !.wrote = TRUE]
<1>1. /\ call[p] \in Calls /\ Knows(call[p]) /\ call[p].step = "WRITE"
      /\ a \in Adapter /\ plan \in Plans /\ Compiled(a, plan) /\ next \in HostFiles
      /\ call[p].todo \subseteq Files(a)
      /\ Current(call[p], file, staged, receipt) /\ (~mixed => Founded(call[p], staged, receipt))
  BY DEF Callers, WriteFile, Knows, AllCurrent, Ordered
<1>2. /\ f \in call[p].todo
      /\ file' = [file EXCEPT ![f] = next[f]]
      /\ call' = [Outdate(p) EXCEPT ![p] = [call[p] EXCEPT !.todo = @ \ {f}, !.wrote = TRUE]]
      /\ half' = Nothing /\ mixed' = (mixed \/ ~call[p].fresh)
      /\ UNCHANGED <<catalogue, place, staged, receipt, trust, calls, changes, standalone>>
  BY DEF WriteFile
<1>3. f \in File /\ f \in {HooksFile[a], ServerFile[a]}
  BY <1>1, <1>2, AdapterFiles
<1> HIDE DEF f
<1>4. call' = [Outdate(p) EXCEPT ![p] = c]
  BY <1>2
<1>5. /\ c \in Calls /\ c.adapter = a /\ c.plan = plan /\ c.next = next /\ c.step = "WRITE"
      /\ c.fresh = call[p].fresh /\ c.todo = call[p].todo \ {f}
  BY <1>1 DEF Calls
<1> HIDE DEF c
<1>6. Knows(c) /\ Moved(p, c)
  BY <1>1, <1>4, <1>5 DEF Knows, Moved
<1>7. /\ file \in [File -> HostFile] /\ next \in [File -> HostFile]
      /\ file'[f] = next[f] /\ \A g \in File : g # f => file'[g] = file[g]
      /\ \A g \in File : OneServer(file[g]) /\ OneServer(next[g])
  BY <1>1, <1>2, <1>3 DEF Stores, HostFiles
<1>8. file' \in HostFiles
  <2>1. file' \in [File -> HostFile]
    BY <1>2, <1>3, <1>7
  <2>2. \A g \in File : OneServer(file'[g])
    BY <1>7
  <2> QED
    BY <2>1, <2>2 DEF HostFiles
<1>9. Stores'
  <2>1. mixed' \in BOOLEAN
    BY <1>2
  <2> QED
    BY <1>2, <1>8, <2>1 DEF Stores
<1>10. Current(c, file', staged', receipt')
  <2> SUFFICES ASSUME c.fresh
               PROVE  /\ MergedInto(a, plan, file', next) /\ Fits(a, plan, file')
                      /\ Backed(a, plan, staged')
                      /\ a \in Attested => receipt'[a] \in {Nothing, ReceiptText(a, next)}
                      /\ \A g \in Files(a) : g \in c.todo \/ file'[g] = next[g]
    BY <1>5 DEF Current
  <2>1. /\ MergedInto(a, plan, file, next) /\ Fits(a, plan, file) /\ Backed(a, plan, staged)
        /\ a \in Attested => receipt[a] \in {Nothing, ReceiptText(a, next)}
        /\ \A g \in Files(a) : g \in call[p].todo \/ file[g] = next[g]
    BY <1>1, <1>5 DEF Current
  <2>2. \A g \in File : file'[g] = file[g] \/ file'[g] = next[g]
    BY <1>7
  <2>3. MergedInto(a, plan, file', next) /\ Fits(a, plan, file')
    BY <1>1, <2>1, <2>2, MergingGoesOn
  <2>4. \A g \in Files(a) : g \in c.todo \/ file'[g] = next[g]
    BY <1>1, <1>3, <1>5, <1>7, <2>1, AdapterFiles
  <2> QED
    BY <1>2, <2>1, <2>3, <2>4
<1>11. StagesStay /\ (~mixed' => ~mixed /\ call[p].fresh)
  BY <1>2 DEF StagesStay
<1>12. Founded(c, staged', receipt') \/ mixed'
  BY <1>1, <1>2, <1>5, <1>11 DEF Founded
<1>13. Callers' /\ AllCurrent'
  BY <1>2, <1>4, <1>5, <1>6, <1>10, CurrentAfterWrite
<1>14. StagesStandInOrder'
  <2> SUFFICES ASSUME ~mixed'
               PROVE  \A b \in Attested : /\ receipt[b] # Nothing => Stands(b)'
                                          /\ Touched(b)' => staged[b] # Nothing
    BY <1>2, <1>11 DEF Ordered, StagesStandInOrder
  <2> TAKE b \in Attested
  <2>1. /\ receipt[b] # Nothing => Stands(b)
        /\ Touched(b) => staged[b] # Nothing
    BY <1>11 DEF Ordered, StagesStandInOrder
  <2>2. /\ MergedInto(a, plan, file, next) /\ Fits(a, plan, file)
        /\ a \in Attested => staged[a] # Nothing
    BY <1>1, <1>11 DEF Current, Founded
  <2>3. b \in Adapter /\ ServerFile[b] \in File /\ HooksFile[b] \in File \cup {"none"}
    BY NothingIsDistinct, AdapterFiles
  <2>4. HooksFile[b] # "none" =>
            /\ HooksIn(b, file) \subseteq HooksIn(b, file')
            /\ \A h \in HooksIn(b, file') :
                h \in HooksIn(b, file) \/ (h = plan.hooks /\ HooksFile[a] \in File)
    BY <2>2, <2>3, <1>7 DEF HooksIn, MergedInto
  <2>5. \A s \in ServersIn(b, file') : s \in ServersIn(b, file) \/ s = plan.server
    BY <2>2, <2>3, <1>7 DEF ServersIn, MergedInto
  <2>6. \A s \in ServersIn(b, file) : s.by = b =>
            s \in ServersIn(b, file') \/ (a = b /\ plan.server \in ServersIn(b, file'))
    <3> TAKE s \in ServersIn(b, file)
    <3> HAVE s.by = b
    <3>1. CASE ServerFile[b] = f /\ f = ServerFile[a]
      <4>1. ServersIn(b, file') = {plan.server}
        BY <3>1, <2>2, <1>7, <1>3 DEF ServersIn, MergedInto
      <4>2. s = plan.server \/ s = Integration(a, plan.server.of)
        BY <3>1, <2>2, <1>1, FitsIs DEF ServersFit, ServersIn
      <4>3. Integration(a, plan.server.of).by = "installer"
        BY DEF Integration, Server
      <4>4. b # "installer" /\ plan.server.by = a
        BY <1>1, NothingIsDistinct DEF Compiled
      <4> QED
        BY <4>1, <4>2, <4>3, <4>4
    <3>2. CASE ServerFile[b] = f /\ f # ServerFile[a]
      BY <3>2, <2>2, <1>7, <1>3 DEF ServersIn, MergedInto
    <3>3. CASE ServerFile[b] # f
      BY <3>3, <2>3, <1>7 DEF ServersIn
    <3> QED
      BY <3>1, <3>2, <3>3
  <2>7. HooksFile[a] \in File => plan.hooks.by = a
    <3>1. "none" \notin File /\ HooksFile["installer"] = "none"
      BY DEF File, HooksFile
    <3> QED
      BY <1>1, <3>1 DEF Compiled
  <2>8. receipt[b] # Nothing => Stands(b)'
    <3>1. Stands(b) => Stands(b)'
      <4>1. plan.server.by = a
        BY <1>1 DEF Compiled
      <4> QED
        BY <2>4, <2>6, <4>1 DEF Stands
    <3> QED
      BY <2>1, <3>1
  <2>9. Touched(b)' => staged[b] # Nothing
    <3>1. ASSUME Touched(b)' PROVE Touched(b) \/ a = b
      <4>1. plan.server.by = a
        BY <1>1 DEF Compiled
      <4>2. ASSUME NEW h \in HooksIn(b, file'), h.by = b PROVE Touched(b) \/ a = b
        <5>1. HooksFile[b] # "none"
          BY <4>2 DEF HooksIn
        <5> QED
          BY <4>2, <5>1, <2>4, <2>7 DEF Touched
      <4>3. ASSUME NEW s \in ServersIn(b, file'), s.by = b PROVE Touched(b) \/ a = b
        BY <4>1, <4>3, <2>5 DEF Touched
      <4> QED
        BY <3>1, <4>2, <4>3 DEF Touched
    <3> QED
      BY <2>1, <2>2, <3>1
  <2> QED
    BY <2>8, <2>9
<1>15. ~mixed' => \A q \in Process : Founded(call'[q], staged', receipt')
  BY <1>5, <1>6, <1>11, <1>12, FoundedKept
<1>16. HalfInstallsConverge'
  BY <1>2 DEF HalfInstallsConverge
<1> QED
  BY <1>9, <1>13, <1>14, <1>15, <1>16 DEF Ordered

(* The answer of a command that has written its files. *)
LEMMA DoneIsCall ==
  ASSUME NEW p \in Process, call[p] \in Calls, NEW differs \in BOOLEAN,
         NEW host, NEW runtimes, NEW receipts
  PROVE  /\ Done(p, differs) \in Calls /\ Knows(Done(p, differs))
         /\ Current(Done(p, differs), host, runtimes, receipts)
         /\ Founded(Done(p, differs), runtimes, receipts)
<1> DEFINE answer == IF call[p].wrote \/ differs THEN "APPLIED" ELSE "UNCHANGED"
           wrote == call[p].wrote \/ differs
<1>1. call[p].adapter \in Adapter \cup {Nothing} /\ answer \in Answers /\ wrote \in BOOLEAN
  BY DEF Calls, Answers
<1>2. Done(p, differs) = [Answered(call[p].adapter, answer) EXCEPT !.wrote = wrote]
  BY DEF Done
<1> HIDE DEF answer, wrote
<1> QED
  BY <1>1, <1>2, AnsweredIsCall

LEMMA WriteReceiptKeeps ==
  ASSUME HostIInv, NEW p \in Process, WriteReceipt(p)
  PROVE  HostIInv'
<1> USE DEF HostIInv, HostTyped
<1> DEFINE a == call[p].adapter
           plan == call[p].plan
           next == call[p].next
           text == ReceiptText(a, next)
           differs == receipt[a] # text
           c == Done(p, differs)
<1>1. /\ call[p] \in Calls /\ Knows(call[p]) /\ call[p].step = "WRITE" /\ call[p].todo = {}
      /\ a \in Attested /\ Compiled(a, plan) /\ next \in HostFiles
      /\ Current(call[p], file, staged, receipt)
  BY DEF Callers, WriteReceipt, Written, Knows, AllCurrent
<1>2. /\ receipt' = [receipt EXCEPT ![a] = text]
      /\ call' = [(IF differs THEN Outdate(p) ELSE call) EXCEPT ![p] = c]
      /\ mixed' = (mixed \/ (differs /\ ~call[p].fresh))
      /\ half' = IF differs THEN Nothing ELSE half
      /\ UNCHANGED <<catalogue, place, staged, file, trust, calls, changes, standalone>>
  BY DEF WriteReceipt
<1>3. text \in [Files(a) -> HostFile] /\ text # Nothing
  BY <1>1, ReceiptsAreTexts
<1>4. /\ c \in Calls /\ Knows(c)
      /\ Current(c, file, staged, receipt) /\ Current(c, file', staged', receipt')
      /\ Founded(c, staged, receipt) /\ Founded(c, staged', receipt')
  BY <1>1, DoneIsCall
<1> HIDE DEF c, text
<1>5. CASE ~differs
  <2>1. receipt' = receipt
    BY <1>1, <1>2, <1>5 DEF Stores
  <2>2. Becomes(p, c) /\ Quiet /\ UNCHANGED half /\ calls' \in 0 .. MaxCalls
    BY <1>2, <1>5, <2>1 DEF Becomes, Quiet, Stores
  <2> QED
    BY <1>4, <2>2, QuietKeeps DEF Sound
<1>6. CASE differs
  <2>1. /\ call' = [Outdate(p) EXCEPT ![p] = c]
        /\ half' = Nothing /\ mixed' = (mixed \/ ~call[p].fresh)
    BY <1>2, <1>6
  <2>2. /\ DOMAIN receipt' = Attested /\ receipt' = [b \in Attested |-> receipt'[b]]
        /\ receipt'[a] = text /\ \A b \in Attested \ {a} : receipt'[b] = receipt[b]
    BY <1>1, <1>2 DEF Stores
  <2>3. Stores'
    <3>1. \A b \in Attested : receipt'[b] \in [Files(b) -> HostFile] \cup {Nothing}
      BY <1>3, <2>2 DEF Stores
    <3>2. mixed' \in BOOLEAN
      BY <2>1
    <3> QED
      BY <1>2, <2>1, <2>2, <3>1, <3>2 DEF Stores
  <2>4. Callers' /\ AllCurrent'
    BY <1>2, <1>4, <2>1, CurrentAfterWrite
  <2>5. StagesStay /\ (~mixed' => ~mixed /\ call[p].fresh)
    BY <1>2, <1>3, <2>1, <2>2, NothingIsDistinct DEF StagesStay, Attested
  <2>6. StagesStandInOrder'
    <3> SUFFICES ASSUME ~mixed' PROVE StagesStandInOrder'
      BY DEF StagesStandInOrder
    <3>1. /\ UNCHANGED <<staged, file, trust>>
          /\ \A b \in Attested : Stands(b)' = Stands(b) /\ Touched(b)' = Touched(b)
      BY <1>2 DEF Stands, Touched, HooksIn, ServersIn
    <3>2. Stands(a)
      <4>1. /\ MergedInto(a, plan, file, next)
            /\ \A f \in Files(a) : file[f] = next[f]
        BY <1>1, <2>5 DEF Current
      <4>2. a \in Adapter /\ a # "installer"
        BY <1>1, NothingIsDistinct
      <4>3. HooksFile[a] # "none" => plan.hooks \in HooksIn(a, file)
        BY <4>1, <4>2, AdapterFiles DEF HooksIn, MergedInto
      <4>4. plan.server \in ServersIn(a, file)
        BY <4>1, <4>2, AdapterFiles DEF ServersIn, MergedInto
      <4> QED
        BY <1>1, <4>2, <4>3, <4>4 DEF Stands, Compiled
    <3> QED
      BY <2>2, <2>5, <3>1, <3>2 DEF Ordered, StagesStandInOrder, StagesStay
  <2>7. ~mixed' => \A q \in Process : Founded(call'[q], staged', receipt')
    BY <1>4, <2>1, <2>5, FoundedKept DEF Moved
  <2>8. HalfInstallsConverge'
    BY <2>1 DEF HalfInstallsConverge
  <2> QED
    BY <2>3, <2>4, <2>6, <2>7, <2>8 DEF Ordered
<1> QED
  BY <1>5, <1>6

LEMMA WriteStateKeeps ==
  ASSUME HostIInv, NEW p \in Process, WriteState(p)
  PROVE  HostIInv'
<1> USE DEF HostIInv, HostTyped
<1> DEFINE absent == call[p].adapter = "local" /\ staged["local"] = Nothing
           runtime == call[p].plan.runtime
           c == Done(p, absent)
<1>1. /\ call[p] \in Calls /\ Knows(call[p]) /\ call[p].step = "WRITE"
      /\ call[p].adapter = "local" => runtime \in Runtimes
  BY DEF Callers, WriteState, Written, Knows, Compiled
<1>2. /\ staged' = IF absent THEN [staged EXCEPT !["local"] = runtime] ELSE staged
      /\ call' = [(IF absent THEN Outdate(p) ELSE call) EXCEPT ![p] = c]
      /\ mixed' = (mixed \/ (absent /\ ~call[p].fresh))
      /\ half' = IF absent THEN Nothing ELSE half
      /\ UNCHANGED <<catalogue, place, receipt, file, trust, calls, changes, standalone>>
  BY DEF WriteState
<1>3. /\ c \in Calls /\ Knows(c)
      /\ Current(c, file, staged, receipt) /\ Current(c, file', staged', receipt')
      /\ Founded(c, staged, receipt) /\ Founded(c, staged', receipt')
  BY <1>1, DoneIsCall
<1> HIDE DEF c, runtime
<1>4. CASE ~absent
  <2>1. Becomes(p, c) /\ Quiet /\ UNCHANGED half /\ calls' \in 0 .. MaxCalls
    BY <1>2, <1>4 DEF Becomes, Quiet, Stores
  <2> QED
    BY <1>3, <2>1, QuietKeeps DEF Sound
<1>5. CASE absent
  <2>1. /\ call' = [Outdate(p) EXCEPT ![p] = c] /\ half' = Nothing
        /\ mixed' = (mixed \/ ~call[p].fresh) /\ staged' = [staged EXCEPT !["local"] = runtime]
    BY <1>2, <1>5
  <2>2. /\ staged' \in [Adapter -> Runtimes \cup {Nothing}]
        /\ \A b \in Attested : staged'[b] = staged[b]
    BY <1>1, <1>5, <2>1, NothingIsDistinct DEF Stores
  <2>3. Stores'
    <3>1. mixed' \in BOOLEAN
      BY <2>1
    <3> QED
      BY <1>2, <2>1, <2>2, <3>1 DEF Stores
  <2>4. Callers' /\ AllCurrent'
    BY <1>2, <1>3, <2>1, CurrentAfterWrite
  <2>5. StagesStay /\ (~mixed' => ~mixed)
    BY <1>2, <2>1, <2>2 DEF StagesStay
  <2>6. StagesStandInOrder'
    BY <1>2, <2>2, <2>5 DEF Ordered, StagesStandInOrder, Stands, Touched, HooksIn, ServersIn
  <2>7. ~mixed' => \A q \in Process : Founded(call'[q], staged', receipt')
    BY <1>3, <2>1, <2>5, FoundedKept DEF Moved
  <2>8. HalfInstallsConverge'
    BY <2>1 DEF HalfInstallsConverge
  <2> QED
    BY <2>3, <2>4, <2>6, <2>7, <2>8 DEF Ordered
<1> QED
  BY <1>4, <1>5

LEMMA WriteTrustKeeps ==
  ASSUME HostIInv, NEW p \in Process, WriteTrust(p)
  PROVE  HostIInv'
<1> USE DEF HostIInv, HostTyped
<1> DEFINE c == Answered("cloud", "APPLIED")
<1>1. /\ call[p].step = "TRUST" /\ (~mixed => Founded(call[p], staged, receipt))
      /\ trust' = "ENABLED" /\ call' = [Outdate(p) EXCEPT ![p] = c]
      /\ mixed' = (mixed \/ ~call[p].fresh) /\ half' = Nothing
      /\ UNCHANGED <<catalogue, place, staged, receipt, file, calls, changes, standalone>>
  BY DEF WriteTrust, Ordered
<1>2. /\ c \in Calls /\ Knows(c) /\ Current(c, file', staged', receipt')
      /\ Founded(c, staged', receipt')
  BY AnsweredIsIdle DEF Answers, Adapter, Attested
<1> HIDE DEF c
<1>3. Stores'
  <2>1. mixed' \in BOOLEAN
    BY <1>1
  <2> QED
    BY <1>1, <2>1 DEF Stores
<1>4. Callers' /\ AllCurrent'
  BY <1>1, <1>2, CurrentAfterWrite
<1>5. StagesStay /\ (~mixed' => ~mixed)
  BY <1>1 DEF StagesStay
<1>6. StagesStandInOrder'
  BY <1>1, <1>5 DEF Founded, Ordered, StagesStandInOrder, Stands, Touched, HooksIn, ServersIn
<1>7. ~mixed' => \A q \in Process : Founded(call'[q], staged', receipt')
  BY <1>1, <1>2, <1>5, FoundedKept DEF Moved
<1>8. HalfInstallsConverge'
  BY <1>1 DEF HalfInstallsConverge
<1> QED
  BY <1>3, <1>4, <1>6, <1>7, <1>8 DEF Ordered

(* What a command leaves between two of its writes can be installed again: its *)
(* plan is still the one compiled now, and the files are on the way to what it *)
(* merged.                                                                    *)
LEMMA HalfWrittenConverges ==
  ASSUME HostIInv, NEW p \in Process, call[p].wrote, call[p].fresh,
         call[p].step \in {"STAGE", "COMPARE", "WRITE", "TRUST"},
         Plan(call[p].adapter) = call[p].plan
  PROVE  LET a == call[p].adapter
         IN /\ a \in Adapter /\ Loads(a) /\ Fits(a, Plan(a), file)
            /\ a \in Attested => receipt[a] \in {Nothing, ReceiptText(a, Merged(a, Plan(a), file))}
<1> DEFINE a == call[p].adapter
           plan == call[p].plan
           next == call[p].next
<1>1. /\ call[p] \in Calls /\ Knows(call[p]) /\ Current(call[p], file, staged, receipt)
      /\ Stores /\ file \in HostFiles
  BY DEF HostIInv, HostTyped, Callers, AllCurrent, Stores
<1>2. call[p].step = "WRITE"
  BY <1>1 DEF Knows
<1>3. /\ a \in Adapter /\ Compiled(a, plan) /\ next \in HostFiles
      /\ MergedInto(a, plan, file, next) /\ Fits(a, plan, file) /\ Backed(a, plan, staged)
      /\ a \in Attested => receipt[a] \in {Nothing, ReceiptText(a, next)}
  BY <1>1, <1>2 DEF Knows, Current
<1>4. Compiles
  <2>1. CASE a = "installer"
    BY <2>1, <1>1, <1>3, PlansAreCompiled DEF Compiled, Compiles
  <2>2. CASE a # "installer"
    BY <2>2, <1>1, <1>3, PlansAreCompiled DEF Compiled, Compiles
  <2> QED
    BY <2>1, <2>2
<1>5. next = Merged(a, plan, file)
  BY <1>1, <1>3, MergedIsOne
<1> QED
  BY <1>3, <1>4, <1>5, LoadsIs

LEMMA StopKeeps ==
  ASSUME HostIInv, NEW p \in Process, Stop(p)
  PROVE  HostIInv'
<1> DEFINE a == call[p].adapter
           c == [Answered(a, "FAILED") EXCEPT !.wrote = call[p].wrote]
<1>1. call[p] \in Calls /\ a \in Adapter \cup {Nothing} /\ call[p].wrote \in BOOLEAN
  BY DEF HostIInv, HostTyped, Callers, Calls
<1>2. Sound(c)
  BY <1>1, AnsweredIsCall DEF Sound, Answers
<1>3. Becomes(p, c) /\ Quiet /\ calls' \in 0 .. MaxCalls
  BY DEF Stop, Quiet, HostIInv, HostTyped, Stores
<1> HIDE DEF c
<1>4. CASE UNCHANGED half
  BY <1>2, <1>3, <1>4, QuietKeeps
<1>5. CASE half' = a /\ call[p].wrote /\ call[p].fresh /\ Plan(a) = call[p].plan
  <2>1. /\ a \in Adapter /\ Loads(a) /\ Fits(a, Plan(a), file)
        /\ a \in Attested => receipt[a] \in {Nothing, ReceiptText(a, Merged(a, Plan(a), file))}
    BY <1>5, HalfWrittenConverges DEF Stop
  <2>2. /\ Plan(half)' = Plan(a) /\ Loads(half)' = Loads(a)
    <3>1. \A b : Plan(b)' = Plan(b) /\ Loads(b)' = Loads(b)
      BY <1>3, PlansStay, LoadsStay DEF Quiet
    <3> QED
      BY <1>5, <3>1
  <2>3. Fits(half, Plan(half), file)' <=> Fits(a, Plan(a), file)
    <3>1. \A b, plan, host : Fits(b, plan, host)' <=> Fits(b, plan, host)
      BY <1>3, FitsStay DEF Quiet
    <3> QED
      BY <1>3, <1>5, <2>2, <3>1 DEF Quiet
  <2>4. HalfInstallsConverge'
    BY <1>3, <1>5, <2>1, <2>2, <2>3 DEF HalfInstallsConverge, Accepted, Quiet
  <2> QED
    BY <1>2, <1>3, <1>5, <2>1, <2>4, QuietStep
<1> QED
  BY <1>4, <1>5 DEF Stop

-----------------------------------------------------------------------------
(* The host, and people. *)

LEMMA ChangesKeep ==
  ASSUME HostIInv, Changes, Stores',
         call' = Outdate(Nothing) \/ UNCHANGED <<call, file, staged, receipt>>,
         mixed' \/ /\ mixed' = mixed /\ UNCHANGED <<staged, receipt>>
                   /\ trust' = "ENABLED" => trust = "ENABLED"
                   /\ \A a \in Attested : Stands(a)' = Stands(a) /\ Touched(a)' = Touched(a)
  PROVE  HostIInv'
<1> USE DEF HostIInv, HostTyped
<1>1. Callers' /\ AllCurrent'
  <2>1. CASE call' = Outdate(Nothing)
    <3>1. Callers' /\ \A q \in Process : call'[q] = Stale(call[q])
      BY <2>1, AllOutdated
    <3>2. \A q \in Process : Current(call'[q], file', staged', receipt')
      BY <3>1, StaleKeeps DEF Callers
    <3> QED
      BY <3>1, <3>2, AllCurrentNext DEF Changes
  <2>2. CASE UNCHANGED <<call, file, staged, receipt>>
    <3>1. \A q \in Process : Current(call'[q], file', staged', receipt')
      BY <2>2 DEF AllCurrent
    <3> QED
      BY <2>2, <3>1, AllCurrentNext DEF Callers, Changes
  <2> QED
    BY <2>1, <2>2
<1>2. ASSUME ~mixed'
      PROVE  \A q \in Process : Founded(call'[q], staged', receipt')
  <2>1. ~mixed /\ UNCHANGED <<staged, receipt>>
    BY <1>2
  <2>2. \A q \in Process : call[q] \in Calls /\ Knows(call[q]) /\ Founded(call[q], staged, receipt)
    BY <2>1 DEF Callers, Ordered
  <2>3. \A q \in Process : call'[q] \in {call[q], Stale(call[q])}
    BY AllOutdated
  <2> QED
    BY <2>1, <2>2, <2>3, StaleKeeps
<1>3. StagesStandInOrder'
  BY DEF Ordered, StagesStandInOrder
<1>4. HalfInstallsConverge'
  BY DEF Changes, HalfInstallsConverge
<1> QED
  BY <1>1, <1>2, <1>3, <1>4 DEF Ordered

LEMMA ChangesAreBounded ==
  ASSUME Stores, Changes
  PROVE  changes' \in 0 .. MaxChanges /\ half' = Nothing /\ calls' = calls /\ changes' # changes
  BY HostAssumption DEF Stores, Changes

LEMMA EditHostKeeps ==
  ASSUME HostIInv, NEW f \in File, NEW x \in Foreign, EditHost(f, x)
  PROVE  HostIInv'
<1> USE DEF HostIInv, HostTyped
<1> DEFINE foreign == IF x \in file[f].foreign THEN file[f].foreign \ {x}
                      ELSE file[f].foreign \cup {x}
<1>1. /\ file' = [file EXCEPT ![f].foreign = foreign] /\ Changes /\ call' = Outdate(Nothing)
      /\ UNCHANGED <<catalogue, place, staged, receipt, trust, mixed>>
  BY DEF EditHost
<1>2. file \in [File -> HostFile] /\ \A g \in File : OneServer(file[g])
  BY DEF Stores, HostFiles
<1>3. foreign \subseteq Foreign
  BY <1>2 DEF HostFile
<1> HIDE DEF foreign
<1>4. \A g \in File : file'[g] = IF g = f THEN [file[f] EXCEPT !.foreign = foreign] ELSE file[g]
  BY <1>1, <1>2
<1>5. \A g \in File : /\ file'[g] \in HostFile
                      /\ file'[g].hooks = file[g].hooks /\ file'[g].servers = file[g].servers
  BY <1>2, <1>3, <1>4 DEF HostFile
<1>6. file' \in HostFiles
  <2>1. file' = [g \in File |-> file'[g]]
    BY <1>1, <1>2
  <2> QED
    BY <1>2, <1>5, <2>1 DEF HostFiles, OneServer
<1>7. Stores'
  BY <1>1, <1>6, ChangesAreBounded DEF Stores
<1>8. \A a \in Attested : Stands(a)' = Stands(a) /\ Touched(a)' = Touched(a)
  <2> TAKE a \in Attested
  <2>1. ServerFile[a] \in File /\ HooksFile[a] \in File \cup {"none"}
    BY AdapterFiles, NothingIsDistinct
  <2>2. ServersIn(a, file') = ServersIn(a, file) /\ HooksIn(a, file') = HooksIn(a, file)
    BY <1>5, <2>1 DEF ServersIn, HooksIn
  <2> QED
    BY <2>2 DEF Stands, Touched
<1> QED
  BY <1>1, <1>7, <1>8, ChangesKeep

LEMMA ClearByHandKeeps ==
  ASSUME HostIInv, NEW a \in Adapter, ClearByHand(a)
  PROVE  HostIInv'
<1> USE DEF HostIInv, HostTyped
<1>1. /\ Changes /\ call' = Outdate(Nothing) /\ mixed' = TRUE /\ UNCHANGED <<catalogue, place, trust>>
  BY DEF ClearByHand
<1>2. CASE /\ staged' = [staged EXCEPT ![a] = Nothing]
           /\ receipt' = IF a \in Attested THEN [receipt EXCEPT ![a] = Nothing] ELSE receipt
           /\ UNCHANGED file
  <2>1. staged' \in [Adapter -> Runtimes \cup {Nothing}]
    BY <1>2 DEF Stores
  <2>2. /\ DOMAIN receipt' = Attested /\ receipt' = [b \in Attested |-> receipt'[b]]
        /\ \A b \in Attested : receipt'[b] \in {Nothing, receipt[b]}
    BY <1>2 DEF Stores
  <2>3. Stores'
    BY <1>1, <1>2, <2>1, <2>2, ChangesAreBounded DEF Stores
  <2> QED
    BY <1>1, <2>3, ChangesKeep
<1>3. CASE /\ file' = [file EXCEPT ![ServerFile[a]].servers = {}]
           /\ UNCHANGED <<staged, receipt>>
  <2>1. file \in [File -> HostFile] /\ \A g \in File : OneServer(file[g])
    BY DEF Stores, HostFiles
  <2>2. \A g \in File : file'[g] = IF g = ServerFile[a] THEN [file[g] EXCEPT !.servers = {}] ELSE file[g]
    BY <1>3, <2>1
  <2>3. \A g \in File : file'[g] \in HostFile /\ OneServer(file'[g])
    <3>1. \A x \in HostFile : [x EXCEPT !.servers = {}] \in HostFile /\ OneServer([x EXCEPT !.servers = {}])
      BY DEF HostFile, OneServer
    <3> QED
      BY <2>1, <2>2, <3>1
  <2>4. file' = [g \in File |-> file'[g]]
    BY <1>3, <2>1
  <2>5. file' \in HostFiles
    BY <2>3, <2>4 DEF HostFiles
  <2>6. Stores'
    BY <1>1, <1>3, <2>5, ChangesAreBounded DEF Stores
  <2> QED
    BY <1>1, <2>6, ChangesKeep
<1> QED
  BY <1>2, <1>3 DEF ClearByHand

LEMMA OtherChangesKeep ==
  ASSUME HostIInv,
         DisableByHand \/ (\E k \in Catalogue : ChangeCatalogue(k)) \/ (\E d \in Place : Move(d))
  PROVE  HostIInv'
<1> USE DEF HostIInv, HostTyped
<1>1. /\ Changes /\ UNCHANGED <<staged, receipt, file, mixed>>
      /\ catalogue' \in Catalogue /\ place' \in Place
      /\ trust' \in {trust, "DISABLED"}
      /\ call' = Outdate(Nothing) \/ UNCHANGED call
  BY DEF DisableByHand, ChangeCatalogue, Move, Stores
<1>2. Stores'
  BY <1>1, ChangesAreBounded DEF Stores
<1>3. \A a \in Attested : Stands(a)' = Stands(a) /\ Touched(a)' = Touched(a)
  BY <1>1 DEF Stands, Touched, HooksIn, ServersIn
<1> QED
  BY <1>1, <1>2, <1>3, ChangesKeep

-----------------------------------------------------------------------------
(* The invariant. *)

LEMMA HostInitIsSound == HostInit => HostIInv
<1> SUFFICES ASSUME HostInit PROVE HostIInv
  OBVIOUS
<1>1. EmptyFile \in HostFile /\ OneServer(EmptyFile)
  BY DEF EmptyFile, HostFile, OneServer
<1>2. file \in HostFiles
  BY <1>1 DEF HostInit, HostFiles
<1>3. Stores
  <2>1. staged \in [Adapter -> Runtimes \cup {Nothing}] /\ receipt = [a \in Attested |-> receipt[a]]
        /\ DOMAIN receipt = Attested /\ \A a \in Attested : receipt[a] = Nothing
    BY DEF HostInit
  <2>2. calls \in 0 .. MaxCalls /\ changes \in 0 .. MaxChanges
    BY HostAssumption DEF HostInit
  <2> QED
    BY <1>2, <2>1, <2>2 DEF HostInit, Stores
<1>4. Idle \in Calls /\ Idle.step = "IDLE"
  BY DEF Idle, Calls, Steps, Answers
<1>5. \A p \in Process : call[p] = Idle
  BY DEF HostInit
<1>6. Callers
  BY <1>4, <1>5 DEF HostInit, Callers, Knows
<1>7. AllCurrent /\ \A p \in Process : Founded(call[p], staged, receipt)
  BY <1>4, <1>5 DEF AllCurrent, Current, Founded
<1>8. StagesStandInOrder
  <2>1. trust # "ENABLED" /\ \A a \in Attested : receipt[a] = Nothing
    BY DEF HostInit
  <2>2. ASSUME NEW a \in Attested PROVE ~Touched(a)
    <3>1. a \in Adapter /\ ServerFile[a] \in File /\ HooksFile[a] \in File \cup {"none"}
      BY NothingIsDistinct, AdapterFiles
    <3>2. \A f \in File : file[f].hooks = {} /\ file[f].servers = {}
      BY DEF HostInit, EmptyFile
    <3> QED
      BY <3>1, <3>2 DEF Touched, HooksIn, ServersIn
  <2> QED
    BY <2>1, <2>2 DEF StagesStandInOrder
<1>9. HalfInstallsConverge
  BY DEF HostInit, HalfInstallsConverge
<1> QED
  BY <1>3, <1>6, <1>7, <1>8, <1>9 DEF HostIInv, HostTyped, Ordered

LEMMA CommandKeeps ==
  ASSUME HostIInv, NEW p \in Process, Command(p)
  PROVE  HostIInv'
<1>1. /\ Quiet /\ UNCHANGED half /\ calls' \in 0 .. MaxCalls
      /\ \E c : Sound(c) /\ Becomes(p, c)
  BY CommandsAreSound DEF HostIInv
<1> QED
  BY <1>1, QuietKeeps

LEMMA HostIInvIsInductive == HostIInv /\ [HostNext]_hostVars => HostIInv'
<1> SUFFICES ASSUME HostIInv, [HostNext]_hostVars PROVE HostIInv'
  OBVIOUS
<1>1. ASSUME NEW p \in Process,
             \/ Command(p)
             \/ Compare(p) \/ WriteStaged(p) \/ WriteFile(p)
             \/ WriteReceipt(p) \/ WriteState(p) \/ WriteTrust(p) \/ Stop(p)
      PROVE  HostIInv'
  BY <1>1, CommandKeeps, CompareKeeps, WriteStagedKeeps, WriteFileKeeps, WriteReceiptKeeps,
     WriteStateKeeps, WriteTrustKeeps, StopKeeps
<1>2. ASSUME NEW f \in File, NEW x \in Foreign, EditHost(f, x) PROVE HostIInv'
  BY <1>2, EditHostKeeps
<1>3. ASSUME NEW a \in Adapter, ClearByHand(a) PROVE HostIInv'
  BY <1>3, ClearByHandKeeps
<1>4. CASE DisableByHand \/ (\E k \in Catalogue : ChangeCatalogue(k)) \/ (\E d \in Place : Move(d))
  BY <1>4, OtherChangesKeep
<1>5. CASE UNCHANGED hostVars
  <2> USE DEF HostIInv
  <2>1. (HostTyped /\ Ordered)'
    BY <1>5 DEF hostVars, HostTyped, Stores, Callers, Ordered, StagesStandInOrder, Stands, Touched,
                HooksIn, ServersIn
  <2>2. AllCurrent'
    <3>1. \A q \in Process : Current(call'[q], file', staged', receipt')
      BY <1>5 DEF hostVars, AllCurrent
    <3> QED
      BY <1>5, <3>1, AllCurrentNext DEF hostVars
  <2>3. HalfInstallsConverge'
    BY <1>5, HalfKept DEF hostVars
  <2> QED
    BY <2>1, <2>2, <2>3
<1> QED
  BY <1>1, <1>2, <1>3, <1>4, <1>5 DEF HostNext

(* What the invariant is an invariant of. *)
LEMMA HostInvariant == HostSpec => []HostIInv
  BY HostInitIsSound, HostIInvIsInductive, PTL DEF HostSpec

(* The form of the local hooks is one or the other, and stays. *)
LEMMA OneForm == HostSpec => [](standalone \in BOOLEAN)
<1>1. HostInit => standalone \in BOOLEAN
  BY DEF HostInit
<1>2. [HostNext]_hostVars => standalone' = standalone
  BY DEF HostNext, hostVars, Command, StageCodex, StageGemini, StageAntigravity, StageGeneric,
         StageCloud, StageLocal, PreviewCodex, PreviewGemini, PreviewAntigravity, PreviewGeneric,
         PreviewCloud, ApplyCodex, ApplyGemini, ApplyAntigravity, ApplyGeneric, ApplyCloud,
         Starts, Applies, InstallLocal, InstallServer, Trust, Compare, WriteStaged, WriteFile,
         WriteReceipt, WriteState, WriteTrust, Stop, Changes, EditHost, ClearByHand,
         DisableByHand, ChangeCatalogue, Move
<1>3. standalone \in BOOLEAN /\ [HostNext]_hostVars => (standalone \in BOOLEAN)'
  BY <1>2
<1> QED
  BY <1>1, <1>3, PTL DEF HostSpec

(* Every file of the host holds at most one server of VERA and entries of its  *)
(* adapters only, whoever installs, fails, edits or clears.                   *)
THEOREM HostTypeCorrect == HostSpec => []HostTypeOK
<1>1. HostIInv /\ standalone \in BOOLEAN => HostTypeOK
  <2> SUFFICES ASSUME HostIInv PROVE standalone \in BOOLEAN => HostTypeOK
    OBVIOUS
  <2> USE DEF HostIInv, HostTyped
  <2>1. ASSUME NEW f \in File
        PROVE  /\ file[f].hooks \subseteq Entries /\ file[f].foreign \subseteq Foreign
               /\ file[f].servers \subseteq Servers /\ Cardinality(file[f].servers) <= 1
    <3>1. file[f] \in HostFile /\ OneServer(file[f])
      BY DEF Stores, HostFiles
    <3>2. Cardinality(file[f].servers) <= 1
      <4>1. Cardinality({}) = 0 /\ \A s : Cardinality({s}) = 1
        BY FS_EmptySet, FS_Singleton
      <4> QED
        BY <3>1, <4>1 DEF OneServer
    <3> QED
      BY <3>1, <3>2 DEF HostFile
  <2>2. ASSUME NEW p \in Process
        PROVE  /\ call[p].adapter \in Adapter \cup {Nothing}
               /\ call[p].answer \in {Nothing, "REFUSED", "UNCHANGED", "STAGED", "APPLIED", "FAILED"}
    BY DEF Callers, Calls, Answers
  <2>3. DOMAIN staged = Adapter /\ DOMAIN receipt = Attested
    BY DEF Stores
  <2> QED
    BY <2>1, <2>2, <2>3 DEF HostTypeOK, Stores
<1> QED
  BY <1>1, HostInvariant, OneForm, PTL

(* Trust stands on a receipt, a receipt on entries in every file of its        *)
(* adapter, and an entry on a staged runtime, through kills and failed writes.  *)
THEOREM InstallationsStandInOrder == HostSpec => []StagesStandInOrder
<1>1. HostIInv => StagesStandInOrder
  BY DEF HostIInv, Ordered
<1> QED
  BY <1>1, HostInvariant, PTL

(* No check refuses what an installation that stopped between two writes left. *)
THEOREM HalfInstallsCanBeFinished == HostSpec => []HalfInstallsConverge
<1>1. HostIInv => HalfInstallsConverge
  BY DEF HostIInv
<1> QED
  BY <1>1, HostInvariant, PTL

(* The entries of others are lost only to their owners, or to a command that    *)
(* writes what it read before they changed.                                   *)
THEOREM HostEntriesSurvive == HostSpec => ForeignEntriesSurvive
<1> DEFINE Lost == \E f \in File : file[f].foreign \ file'[f].foreign # {}
           Excused == \/ changes' # changes
                      \/ \E p \in Process : call'[p].todo # call[p].todo /\ ~call[p].fresh
<1>1. HostIInv /\ [HostNext]_hostVars => (Lost => Excused)
  <2> SUFFICES ASSUME HostIInv, [HostNext]_hostVars PROVE Lost => Excused
    OBVIOUS
  <2>1. CASE UNCHANGED file
    BY <2>1
  <2>2. ASSUME NEW p \in Process, WriteFile(p) PROVE Lost => Excused
    <3> DEFINE a == call[p].adapter
               next == call[p].next
               g == IF HooksFile[a] \in call[p].todo THEN HooksFile[a] ELSE ServerFile[a]
    <3>1. /\ g \in call[p].todo /\ file' = [file EXCEPT ![g] = next[g]]
          /\ call' = [Outdate(p) EXCEPT ![p] = [call[p] EXCEPT !.todo = call[p].todo \ {g}, !.wrote = TRUE]]
      BY <2>2 DEF WriteFile
    <3>2. /\ call[p] \in Calls /\ call[p].step = "WRITE" /\ Current(call[p], file, staged, receipt)
          /\ file \in [File -> HostFile] /\ call[p].todo \subseteq File
      BY <2>2 DEF HostIInv, HostTyped, Stores, HostFiles, Callers, Calls, AllCurrent, WriteFile
    <3> HIDE DEF g
    <3>3. call'[p].todo = call[p].todo \ {g}
      <4>1. p \in DOMAIN Outdate(p)
        BY DEF Outdate
      <4>2. call'[p] = [call[p] EXCEPT !.todo = call[p].todo \ {g}, !.wrote = TRUE]
        BY <3>1, <4>1
      <4> QED
        BY <3>2, <4>2 DEF Calls
    <3>4. call'[p].todo # call[p].todo
      BY <3>1, <3>3
    <3>5. call[p].fresh => \A f \in File : file'[f].foreign = file[f].foreign
      BY <3>1, <3>2 DEF Current, MergedInto
    <3> QED
      BY <3>4, <3>5
  <2>3. ASSUME Changes PROVE Lost => Excused
    BY <2>3, ChangesAreBounded DEF HostIInv, HostTyped
  <2>4. ASSUME NEW p \in Process, Command(p) PROVE UNCHANGED file
    BY <2>4, CommandsAreSound DEF HostIInv, Quiet
  <2>5. ASSUME NEW p \in Process,
               Compare(p) \/ WriteStaged(p) \/ WriteReceipt(p) \/ WriteState(p) \/ WriteTrust(p) \/ Stop(p)
        PROVE  UNCHANGED file
    BY <2>5 DEF Compare, WriteStaged, WriteReceipt, WriteState, WriteTrust, Stop
  <2>6. ASSUME NEW f \in File, NEW x \in Foreign, EditHost(f, x) PROVE Changes
    BY <2>6 DEF EditHost
  <2>7. ASSUME NEW a \in Adapter, ClearByHand(a) PROVE Changes
    BY <2>7 DEF ClearByHand
  <2>8. ASSUME DisableByHand \/ (\E k \in Catalogue : ChangeCatalogue(k)) \/ (\E d \in Place : Move(d))
        PROVE  Changes
    BY <2>8 DEF DisableByHand, ChangeCatalogue, Move
  <2>9. CASE UNCHANGED hostVars
    BY <2>9, <2>1 DEF hostVars
  <2> HIDE DEF Lost, Excused
  <2> QED
    BY <2>1, <2>2, <2>3, <2>4, <2>5, <2>6, <2>7, <2>8, <2>9 DEF HostNext
<1>2. (Lost => Excused) =>
        [\A f \in File : file[f].foreign \ file'[f].foreign # {} => Excused]_hostVars
  OBVIOUS
<1> QED
  BY <1>1, <1>2, HostInvariant, PTL DEF HostSpec, ForeignEntriesSurvive

=============================================================================
