----------------------------- MODULE ProfileRebind -----------------------------
(***************************************************************************)
(* An edit of the Project Profile moves two things that no transaction     *)
(* holds together: the file, and the identity that the SQLite store is     *)
(* bound to and without which it refuses to open.  commit_profile_change   *)
(* journals the edit beside the profile first; the Doctor completes a      *)
(* journal left by an interruption.  An action is one file operation or    *)
(* one transaction, so that processes interleave and stop between any two. *)
(***************************************************************************)
EXTENDS FiniteSets

CONSTANTS Editor,        \* processes that may edit the profile
          Profile,       \* contents of the profile, each with its own identity
          None,          \* an absent file
          Interruptions  \* steps of an editor an interruption may hit

(* A preview hash names the content previewed from and the content wanted; it *)
(* is the name of the journal and of the backup.                              *)
Edit == Profile \X Profile
OldOf(edit) == edit[1]
NewOf(edit) == edit[2]

Step == {"IDLE", "CONFIRMED", "BEGUN", "BACKED_UP", "JOURNALLED", "OPENED", "VERIFIED",
         "REBOUND", "NO_STORE", "LEAVING", "CLEARED"}
Guarded == {"JOURNALLED", "OPENED", "VERIFIED", "REBOUND", "NO_STORE"}  \* inside try ... finally
RecoveryStep == {"IDLE", "WRITING", "WRITTEN", "CLEARED"}

ASSUME InterruptionsAssumption == Interruptions \subseteq Step
ASSUME NoneAssumption == None \notin Profile \union Edit /\ "TORN" \notin Profile

VARIABLES
    profile,  \* content of the Project Profile, replaced atomically
    store,    \* identity the SQLite store is bound to; None: no store file
    journal,  \* per edit: None, "TORN", or the old content the record names
    backup,   \* edits whose backup file exists
    editor,   \* each editor: its step, its edit and the content it read
    doctor    \* the recovery: its step and the edit of its journal

vars == <<profile, store, journal, backup, editor, doctor>>

EditorState == [at : Step, edit : Edit \union {None}, old : Profile \union {None}]
DoctorState == [at : RecoveryStep, edit : Edit \union {None}]

(* Every file and every process is in one of the states above. *)
TypeOK ==
    /\ profile \in Profile
    /\ store \in Profile \union {None}
    /\ journal \in [Edit -> Profile \union {"TORN", None}]
    /\ backup \in SUBSET Edit
    /\ editor \in [Editor -> EditorState]
    /\ doctor \in DoctorState

NotEditing == [at |-> "IDLE", edit |-> None, old |-> None]
NotRecovering == [at |-> "IDLE", edit |-> None]

Init ==
    /\ profile \in Profile
    /\ store \in {profile, None}
    /\ journal = [edit \in Edit |-> None]
    /\ backup = {}
    /\ editor = [e \in Editor |-> NotEditing]
    /\ doctor = NotRecovering

Goto(e, step) == editor' = [editor EXCEPT ![e].at = step]
Leave(e) == editor' = [editor EXCEPT ![e] = NotEditing]
EditOf(e) == editor[e].edit

-----------------------------------------------------------------------------
(* apply_project_profile_rebind and its like, up to commit_profile_change: the *)
(* preview was computed again from the profile and found fresh.                *)
Confirm(e, new) ==
    /\ editor[e].at = "IDLE"
    /\ editor' = [editor EXCEPT ![e] =
                     [at |-> "CONFIRMED", edit |-> <<profile, new>>, old |-> None]]
    /\ UNCHANGED <<profile, store, journal, backup, doctor>>

(* A journal or a backup of the same edit refuses it: the Doctor must recover. *)
Begin(e) ==
    /\ editor[e].at = "CONFIRMED"
    /\ IF EditOf(e) \in backup \/ journal[EditOf(e)] # None
       THEN Leave(e)
       ELSE editor' = [editor EXCEPT ![e].at = "BEGUN", ![e].old = profile]
    /\ UNCHANGED <<profile, store, journal, backup, doctor>>

WriteBackup(e) ==
    /\ editor[e].at = "BEGUN"
    /\ backup' = backup \union {EditOf(e)}
    /\ Goto(e, "BACKED_UP")
    /\ UNCHANGED <<profile, store, journal, doctor>>

WriteJournal(e) ==
    /\ editor[e].at = "BACKED_UP"
    /\ journal' = [journal EXCEPT ![EditOf(e)] = editor[e].old]
    /\ Goto(e, "JOURNALLED")
    /\ UNCHANGED <<profile, store, backup, doctor>>

(* MemoryStore.open binds to the old profile or raises; no store, no rebind. *)
OpenStore(e) ==
    /\ editor[e].at = "JOURNALLED"
    /\ Goto(e, IF store = None THEN "NO_STORE"
               ELSE IF store = editor[e].old THEN "OPENED" ELSE "LEAVING")
    /\ UNCHANGED <<profile, store, journal, backup, doctor>>

(* rebind_identity reads the bound identity before its transaction begins. *)
VerifyIdentity(e) ==
    /\ editor[e].at = "OPENED"
    /\ Goto(e, IF store = editor[e].old THEN "VERIFIED" ELSE "LEAVING")
    /\ UNCHANGED <<profile, store, journal, backup, doctor>>

RebindStore(e) ==
    /\ editor[e].at = "VERIFIED"
    /\ store' = NewOf(EditOf(e))
    /\ Goto(e, "REBOUND")
    /\ UNCHANGED <<profile, journal, backup, doctor>>

WriteProfile(e) ==
    /\ editor[e].at \in {"REBOUND", "NO_STORE"}
    /\ profile' = NewOf(EditOf(e))
    /\ Goto(e, "LEAVING")
    /\ UNCHANGED <<store, journal, backup, doctor>>

(* How the finally could go wrong: it clears the journal of a failed edit. *)
AlwaysClearJournal(e) ==
    /\ editor[e].at = "LEAVING"
    /\ journal' = [journal EXCEPT ![EditOf(e)] = None]
    /\ Goto(e, "CLEARED")
    /\ UNCHANGED <<profile, store, backup, doctor>>

(* The finally, after success and exception alike: the journal goes away when *)
(* the profile on disk is the wanted one.                                      *)
ClearJournal(e) ==
    /\ editor[e].at = "LEAVING"
    /\ IF profile = NewOf(EditOf(e))
       THEN journal' = [journal EXCEPT ![EditOf(e)] = None] /\ Goto(e, "CLEARED")
       ELSE UNCHANGED journal /\ Leave(e)
    /\ UNCHANGED <<profile, store, backup, doctor>>

ClearBackup(e) ==
    /\ editor[e].at = "CLEARED"
    /\ backup' = backup \ {EditOf(e)}
    /\ Leave(e)
    /\ UNCHANGED <<profile, store, journal, doctor>>

(* The process is killed; one killed while it writes the journal tears it. *)
Kill(e) ==
    /\ editor[e].at \in Interruptions \ {"IDLE"}
    /\ Leave(e)
    /\ \/ UNCHANGED journal
       \/ editor[e].at = "BACKED_UP" /\ journal' = [journal EXCEPT ![EditOf(e)] = "TORN"]
    /\ UNCHANGED <<profile, store, backup, doctor>>

(* An OSError or a locked store: the exception goes through the finally. *)
Raise(e) ==
    /\ editor[e].at \in Interruptions \intersect Guarded
    /\ Goto(e, "LEAVING")
    /\ UNCHANGED <<profile, store, journal, backup, doctor>>

(* Any process that opens the memory of a project without one creates it. *)
CreateStore ==
    /\ store = None
    /\ store' = profile
    /\ UNCHANGED <<profile, journal, backup, editor, doctor>>

-----------------------------------------------------------------------------
(* recover_project_profile_rebind *)

Journals == {edit \in Edit : journal[edit] # None}

(* The only journal, readable, of a profile that is the old or the new one. *)
StartRecovery(edit) ==
    /\ doctor.at = "IDLE"
    /\ Journals = {edit}
    /\ journal[edit] # "TORN"
    /\ profile \in {journal[edit], NewOf(edit)}
    /\ doctor' = [at |-> IF profile = journal[edit] THEN "WRITING" ELSE "WRITTEN",
                  edit |-> edit]
    /\ UNCHANGED <<profile, store, journal, backup, editor>>

RecoverProfile ==
    /\ doctor.at = "WRITING"
    /\ profile' = NewOf(doctor.edit)
    /\ doctor' = [doctor EXCEPT !.at = "WRITTEN"]
    /\ UNCHANGED <<store, journal, backup, editor>>

RecoverJournal ==
    /\ doctor.at = "WRITTEN"
    /\ journal' = [journal EXCEPT ![doctor.edit] = None]
    /\ doctor' = [doctor EXCEPT !.at = "CLEARED"]
    /\ UNCHANGED <<profile, store, backup, editor>>

RecoverBackup ==
    /\ doctor.at = "CLEARED"
    /\ backup' = backup \ {doctor.edit}
    /\ doctor' = NotRecovering
    /\ UNCHANGED <<profile, store, journal, editor>>

KillRecovery ==
    /\ doctor.at # "IDLE"
    /\ Interruptions # {}
    /\ doctor' = NotRecovering
    /\ UNCHANGED <<profile, store, journal, backup, editor>>

-----------------------------------------------------------------------------
EditorNext == \E e \in Editor :
    \/ \E new \in Profile : Confirm(e, new)
    \/ Begin(e) \/ WriteBackup(e) \/ WriteJournal(e)
    \/ OpenStore(e) \/ VerifyIdentity(e) \/ RebindStore(e)
    \/ WriteProfile(e) \/ ClearJournal(e) \/ ClearBackup(e)
    \/ Kill(e) \/ Raise(e)

DoctorNext ==
    \/ \E edit \in Edit : StartRecovery(edit)
    \/ RecoverProfile \/ RecoverJournal \/ RecoverBackup \/ KillRecovery

Next == EditorNext \/ DoctorNext \/ CreateStore

Spec == Init /\ [][Next]_vars

-----------------------------------------------------------------------------
Aligned == store \in {profile, None}

(* The profile and the store agree, or a readable journal names the two. *)
Covered == Aligned \/ \E edit \in Edit : journal[edit] = profile /\ NewOf(edit) = store

(* Nobody edits beside another editor or beside the Doctor. *)
InTurn ==
    /\ \A e, f \in Editor : e # f => NotEditing \in {editor[e], editor[f]}
    /\ doctor = NotRecovering \/ \A e \in Editor : editor[e] = NotEditing
SpecInTurn == Init /\ [][Next /\ InTurn']_vars

(* The promise of the journal, with editors in turn, interrupted anywhere, and *)
(* a Doctor that does not run beside them: no step parts the profile from the *)
(* store, or leaves them apart, without a journal that names both, but two: the *)
(* Doctor, which completes the edit of a journal for the profile alone, and the *)
(* write of an edit that found no store where another process creates one.     *)
OnlyRecoveryUncovers ==
    [][Covered => \/ Covered'
                  \/ RecoverProfile
                  \/ \E e \in Editor : editor[e].at = "NO_STORE" /\ WriteProfile(e)]_vars
=============================================================================
