--------------------------- MODULE ProfileMigration ---------------------------
(***************************************************************************)
(* The physical migration of a project: its runtime directory, the profile *)
(* in it and its workspace roots go from an old to a new place, by renaming *)
(* on one filesystem or by copying, verifying and removing across two.     *)
(* A journal outside the runtime says how far it came.  Every action is    *)
(* one file operation; an exception or the end of the process may come     *)
(* between any two, and the project may be written to meanwhile.           *)
(***************************************************************************)
EXTENDS Naturals

CONSTANTS Root,        \* workspace roots that change their place
          Runtime,     \* the runtime directory, which holds the profile
          Half,        \* a tree of which a part is there
          Foreign,     \* a tree that is not of this migration
          None,
          MaxWrites    \* bound on the writes to a tree

ASSUME RuntimeIsNoRoot == Runtime \notin Root /\ MaxWrites \in Nat

Tree == Root \union {Runtime}
Version == 0..MaxWrites     \* the content of a whole tree: the writes it has seen

ASSUME TreesAreTold == /\ Half # Foreign /\ Half # None /\ Foreign # None
                       /\ {Half, Foreign, None} \intersect Version = {}

Strategy == {"RENAME_ATOMIC", "COPY_VERIFY_SWITCH"}

(* _MIGRATION_TRANSITIONS *)
Transitions == [
    PLANNED |-> {"COPYING", "EXECUTING", "RECOVERY_REQUIRED"},
    COPYING |-> {"VERIFIED", "COPYING", "DIVERGED", "RECOVERY_REQUIRED"},
    VERIFIED |-> {"SWITCHING", "DIVERGED", "RECOVERY_REQUIRED"},
    SWITCHING |-> {"PLANNED", "COMMITTED", "ROLLED_BACK", "DIVERGED", "RECOVERY_REQUIRED"},
    EXECUTING |-> {"PLANNED", "SWITCHING", "COMMITTED", "ROLLED_BACK", "DIVERGED",
                   "RECOVERY_REQUIRED"},
    DIVERGED |-> {"RECOVERY_REQUIRED", "ROLLED_BACK"},
    RECOVERY_REQUIRED |-> {"PLANNED", "ROLLED_BACK", "COMMITTED"},
    COMMITTED |-> {},
    ROLLED_BACK |-> {}]
State == DOMAIN Transitions

VARIABLES
    strategy,   \* what the devices of the places ask for
    tree,       \* per tree what is at its old and at its new place
    profile,    \* the content of the profile in the runtime at either place
    journal,    \* the journal of the migration, or None
    backup,     \* the backup of the profile: "none", "torn" or "whole"
    exec,       \* where execute_profile_physical_migration is, and the trees it did
    recovery,   \* where recover_profile_physical_migration is
    written,    \* history: the writes each tree was given
    late        \* history: one came after the copies had been compared
vars == <<strategy, tree, profile, journal, backup, exec, recovery, written, late>>

ExecStep == {"idle", "name", "execute", "backup", "copying", "copy", "profile", "verified",
             "validate", "switch", "move", "remove", "commit", "clear_backup",
             "clear_journal", "undo", "undo_move", "undo_profile", "undo_state", "undo_backup"}
RecoveryStep == {"idle", "roots", "profile", "plan", "unname", "drop",
                 "finish_backup", "finish_journal"}

JournalRecord == [state : State, named : BOOLEAN, seen : [Tree -> Version],
                  verified : SUBSET Tree]
ASSUME NoneAssumption == None \notin JournalRecord \union {"old", "new"}

(* The journal names what it inventoried, and only trees that are copied *)
(* across filesystems are ever verified.                                  *)
TypeOK ==
    /\ strategy \in Strategy
    /\ tree \in [Tree -> [old : Version \union {Half, None},
                          new : Version \union {Half, Foreign, None}]]
    /\ profile \in [old : {"old", "new", None}, new : {"old", "new", None}]
    /\ journal \in JournalRecord \union {None}
    /\ backup \in {"none", "torn", "whole"}
    /\ exec \in [at : ExecStep, done : SUBSET Tree]
    /\ recovery \in RecoveryStep
    /\ written \in [Tree -> Version]
    /\ late \in BOOLEAN
    /\ journal # None /\ strategy = "RENAME_ATOMIC" => journal.verified = {}

(* A directory may be there already where a workspace root is to go. *)
Init ==
    /\ strategy \in Strategy
    /\ \E occupied \in SUBSET Root : tree = [t \in Tree |->
           [old |-> 0, new |-> IF t \in occupied THEN Foreign ELSE None]]
    /\ profile = [old |-> "old", new |-> None]
    /\ journal = None
    /\ backup = "none"
    /\ exec = [at |-> "idle", done |-> {}]
    /\ recovery = "idle"
    /\ written = [t \in Tree |-> 0]
    /\ late = FALSE

Renaming == strategy = "RENAME_ATOMIC"
Copying == strategy = "COPY_VERIFY_SWITCH"

At(step) == exec.at = step
Goto(step) == exec' = [exec EXCEPT !.at = step]
Done(t) == exec' = [exec EXCEPT !.done = @ \union {t}]
StartOf(step) == exec' = [at |-> step, done |-> {}]

MayTransition(state) == journal # None /\ state \in Transitions[journal.state]
(* transition_profile_migration_state, where it does not raise *)
Transition(state) == MayTransition(state) /\ journal' = [journal EXCEPT !.state = state]

-----------------------------------------------------------------------------
(* Preparation and the checks before an execution *)

(* A process of the project writes to what it has open. *)
Write(t) ==
    /\ tree[t].old \in Version /\ written[t] < MaxWrites
    /\ written' = [written EXCEPT ![t] = @ + 1]
    /\ tree' = [tree EXCEPT ![t].old = written[t] + 1]
    /\ late' = (late \/ (Copying /\ exec.at \in {"switch", "remove"}))
    /\ UNCHANGED <<strategy, profile, journal, backup, exec, recovery>>

(* How it could go wrong: the inventory is of the targets. *)
PrepareFromTargets ==
    /\ journal = None /\ profile.old # None
    /\ \A t \in Tree : tree[t].old \in Version
    /\ journal' = [state |-> "PLANNED", named |-> FALSE,
                   seen |-> [t \in Tree |-> tree[t].new], verified |-> {}]
    /\ UNCHANGED <<strategy, tree, profile, backup, exec, recovery, written, late>>

(* prepare_profile_migration_journal: the journal holds a fresh preview. *)
Prepare ==
    /\ journal = None /\ profile.old # None
    /\ \A t \in Tree : tree[t].old \in Version
    /\ journal' = [state |-> "PLANNED", named |-> FALSE,
                   seen |-> [t \in Tree |-> tree[t].old], verified |-> {}]
    /\ UNCHANGED <<strategy, tree, profile, backup, exec, recovery, written, late>>

(* inspect_profile_migration_journal: no file of the runtime diverged from the *)
(* inventory in the journal.  The inventory of the roots is not looked at.     *)
ReadyForExecutor ==
    /\ journal # None /\ journal.state = "PLANNED"
    /\ tree[Runtime].old = journal.seen[Runtime]
    /\ tree[Runtime].new = None

(* The caller's preview is a fresh one, which need not be that of the journal; *)
(* the journal is ready for an executor and, to rename, every target is free.  *)
Execute ==
    /\ At("idle") /\ profile.old = "old"
    /\ \A r \in Root : tree[r].old # None
    /\ ReadyForExecutor
    /\ Renaming => \A r \in Root : tree[r].new = None
    /\ StartOf(IF Renaming THEN "name" ELSE "backup")
    /\ UNCHANGED <<strategy, tree, profile, journal, backup, recovery, written, late>>

-----------------------------------------------------------------------------
(* What both strategies do *)

WriteBackup ==
    /\ At("backup")
    /\ backup' = "whole"
    /\ Goto(IF Renaming THEN "switch" ELSE "copying")
    /\ UNCHANGED <<strategy, tree, profile, journal, recovery, written, late>>

(* A rename edits the profile where it is, a copy the copy of it. *)
WriteProfile ==
    /\ At("profile")
    /\ IF Renaming THEN profile' = [profile EXCEPT !.old = "new"]
                   ELSE profile' = [profile EXCEPT !.new = "new"]
    /\ Goto(IF Renaming THEN "move" ELSE "verified")
    /\ UNCHANGED <<strategy, tree, journal, backup, recovery, written, late>>

Switch ==
    /\ At("switch")
    /\ Transition("SWITCHING")
    /\ StartOf(IF Renaming THEN "profile" ELSE "remove")
    /\ UNCHANGED <<strategy, tree, profile, backup, recovery, written, late>>

Commit ==
    /\ At("commit")
    /\ Transition("COMMITTED")
    /\ Goto("clear_backup")
    /\ UNCHANGED <<strategy, tree, profile, backup, recovery, written, late>>

ClearBackup ==
    /\ At("clear_backup")
    /\ backup' = "none"
    /\ Goto("clear_journal")
    /\ UNCHANGED <<strategy, tree, profile, journal, recovery, written, late>>

ClearJournal ==
    /\ At("clear_journal")
    /\ journal' = None
    /\ StartOf("idle")
    /\ UNCHANGED <<strategy, tree, profile, backup, recovery, written, late>>

-----------------------------------------------------------------------------
(* RENAME_ATOMIC: runtime and roots change their names one by one *)

NameBackup ==
    /\ At("name")
    /\ journal' = [journal EXCEPT !.named = TRUE]
    /\ Goto("execute")
    /\ UNCHANGED <<strategy, tree, profile, backup, recovery, written, late>>

EnterExecuting ==
    /\ At("execute")
    /\ Transition("EXECUTING")
    /\ Goto("backup")
    /\ UNCHANGED <<strategy, tree, profile, backup, recovery, written, late>>

(* The profile is in the runtime and moves with it. *)
Moved(t, from, to) ==
    /\ tree' = [tree EXCEPT ![t][to] = tree[t][from], ![t][from] = None]
    /\ profile' = IF t = Runtime THEN [profile EXCEPT ![to] = profile[from], ![from] = None]
                                 ELSE profile

MoveTree(t) ==
    /\ At("move") /\ t \notin exec.done
    /\ t # Runtime => Runtime \in exec.done
    /\ tree[t].new = None
    /\ Moved(t, "old", "new")
    /\ Done(t)
    /\ UNCHANGED <<strategy, journal, backup, recovery, written, late>>

(* The schema of the database is compared with what it was. *)
CheckMoved ==
    /\ At("move") /\ exec.done = Tree
    /\ Goto("commit")
    /\ UNCHANGED <<strategy, tree, profile, journal, backup, recovery, written, late>>

UndoMove(t) ==
    /\ At("undo_move") /\ t \in exec.done
    /\ t # Runtime => Runtime \notin exec.done
    /\ IF tree[t].new # None /\ tree[t].old = None THEN Moved(t, "new", "old")
                                                   ELSE UNCHANGED <<tree, profile>>
    /\ exec' = [exec EXCEPT !.done = @ \ {t}]
    /\ UNCHANGED <<strategy, journal, backup, recovery, written, late>>

(* How it could go wrong: the backup is dropped before it is used. *)
EndUndoMoveWithoutBackup ==
    /\ At("undo_move") /\ exec.done = {}
    /\ Goto("undo_profile")
    /\ backup' = "none"
    /\ UNCHANGED <<strategy, tree, profile, journal, recovery, written, late>>

EndUndoMove ==
    /\ At("undo_move") /\ exec.done = {}
    /\ Goto(IF backup = "none" THEN "undo_state" ELSE "undo_profile")
    /\ UNCHANGED <<strategy, tree, profile, journal, backup, recovery, written, late>>

UndoProfile ==
    /\ At("undo_profile")
    /\ tree[Runtime].old # None
    /\ profile' = [profile EXCEPT !.old = "old"]
    /\ Goto("undo_state")
    /\ UNCHANGED <<strategy, tree, journal, backup, recovery, written, late>>

-----------------------------------------------------------------------------
(* COPY_VERIFY_SWITCH: copies, compared, replace what they are copies of *)

EnterCopying ==
    /\ At("copying")
    /\ Transition("COPYING")
    /\ StartOf("copy")
    /\ UNCHANGED <<strategy, tree, profile, backup, recovery, written, late>>

(* _copy_tree_verified: refused when something is at the target. *)
CopyPart(t) ==
    /\ At("copy") /\ t \notin exec.done
    /\ t # Runtime => Runtime \in exec.done
    /\ tree[t].new = None
    /\ tree' = [tree EXCEPT ![t].new = Half]
    /\ UNCHANGED <<strategy, profile, journal, backup, exec, recovery, written, late>>

RecordCopyProgress(t) == journal' = [journal EXCEPT !.verified = @ \union {t}]
CopyRest(t) ==
    /\ At("copy") /\ t \notin exec.done
    /\ tree[t].new = Half
    /\ tree' = [tree EXCEPT ![t].new = tree[t].old]
    /\ profile' = IF t = Runtime THEN [profile EXCEPT !.new = profile.old] ELSE profile
    /\ RecordCopyProgress(t)
    /\ exec' = [at |-> IF exec.done \union {t} = Tree THEN "profile" ELSE "copy",
                done |-> exec.done \union {t}]
    /\ UNCHANGED <<strategy, backup, recovery, written, late>>

EnterVerified ==
    /\ At("verified")
    /\ Transition("VERIFIED")
    /\ Goto("validate")
    /\ UNCHANGED <<strategy, tree, profile, backup, recovery, written, late>>

(* How it could go wrong: the copies are compared with the inventory alone. *)
TargetsAsInventoried ==
    /\ journal.state = "VERIFIED" /\ profile.new = "new"
    /\ \A t \in Tree : t \in journal.verified /\ tree[t].new = journal.seen[t]

(* validate_profile_migration_inventory has no issue. *)
ReadyForSwitch ==
    /\ journal.state = "VERIFIED" /\ profile.new = "new"
    /\ \A t \in Tree : t \in journal.verified /\ tree[t].new = journal.seen[t]
                                              /\ tree[t].old = journal.seen[t]

Validate ==
    /\ At("validate")
    /\ ReadyForSwitch
    /\ Goto("switch")
    /\ UNCHANGED <<strategy, tree, profile, journal, backup, recovery, written, late>>

(* rmtree: the roots first, and the runtime with the profile in it last. *)
RemovePart(t) ==
    /\ At("remove") /\ t \notin exec.done
    /\ t = Runtime => Root \subseteq exec.done
    /\ tree[t].old # None
    /\ tree' = [tree EXCEPT ![t].old = Half]
    /\ profile' = IF t = Runtime THEN [profile EXCEPT !.old = None] ELSE profile
    /\ UNCHANGED <<strategy, journal, backup, exec, recovery, written, late>>

RemoveRest(t) ==
    /\ At("remove") /\ t \notin exec.done
    /\ tree[t].old = Half
    /\ tree' = [tree EXCEPT ![t].old = None]
    /\ exec' = [at |-> IF exec.done \union {t} = Tree THEN "commit" ELSE "remove",
                done |-> exec.done \union {t}]
    /\ UNCHANGED <<strategy, profile, journal, backup, recovery, written, late>>

(* Whatever is at the target is removed, errors ignored. *)
UndoCopy(t) ==
    /\ At("undo") /\ t \notin exec.done
    /\ \E left \in {None, Half} : tree' = [tree EXCEPT ![t].new = IF @ = None THEN @ ELSE left]
    /\ profile' = IF t = Runtime THEN [profile EXCEPT !.new = None] ELSE profile
    /\ Done(t)
    /\ UNCHANGED <<strategy, journal, backup, recovery, written, late>>

EndUndoCopy ==
    /\ At("undo") /\ exec.done = Tree
    /\ Goto("undo_state")
    /\ UNCHANGED <<strategy, tree, profile, journal, backup, recovery, written, late>>

-----------------------------------------------------------------------------
(* Exceptions and the end of the process *)

Handled == {"copying", "copy", "profile", "verified", "validate", "switch", "move",
            "remove", "commit", "clear_backup", "clear_journal"}

(* An exception in the try, a refusal of a step included, goes to the handler. *)
Raise ==
    /\ exec.at \in Handled
    /\ IF Renaming THEN Goto("undo_move") /\ UNCHANGED journal
       ELSE IF journal.state = "SWITCHING"
       THEN Transition("RECOVERY_REQUIRED") /\ StartOf("idle")
       ELSE StartOf("undo") /\ UNCHANGED journal
    /\ UNCHANGED <<strategy, tree, profile, backup, recovery, written, late>>

UndoState ==
    /\ At("undo_state")
    /\ Transition("ROLLED_BACK")
    /\ Goto("undo_backup")
    /\ UNCHANGED <<strategy, tree, profile, backup, recovery, written, late>>

UndoBackup ==
    /\ At("undo_backup")
    /\ backup' = "none"
    /\ StartOf("idle")
    /\ UNCHANGED <<strategy, tree, profile, journal, recovery, written, late>>

(* The process ends, or an exception nothing handles: what is there stays.  *)
(* A transition that is refused is such an exception.                       *)
Stop ==
    /\ ~At("idle")
    /\ StartOf("idle")
    /\ backup' \in IF At("backup") THEN {backup, "torn"} ELSE {backup}
    /\ UNCHANGED <<strategy, tree, profile, journal, recovery, written, late>>

-----------------------------------------------------------------------------
(* recover_profile_physical_migration *)

RecoveryRefuses == Transition("RECOVERY_REQUIRED") /\ recovery' = "idle"

Exists(t, place) == tree[t][place] # None
AtOldOnly(t) == Exists(t, "old") /\ ~Exists(t, "new")
AtNewOnly(t) == Exists(t, "new") /\ ~Exists(t, "old")

NothingMoved == AtOldOnly(Runtime) /\ profile.old # None
AllMoved == (\A t \in Tree : AtNewOnly(t)) /\ profile.new = "new"

StartRecovery ==
    /\ recovery = "idle"
    /\ journal # None /\ journal.state \in {"EXECUTING", "SWITCHING"}
    /\ journal.named /\ backup # "none"
    /\ \/ NothingMoved /\ recovery' = "roots" /\ UNCHANGED journal
       \/ AllMoved /\ recovery' = "finish_backup" /\ UNCHANGED journal
       \/ ~NothingMoved /\ ~AllMoved /\ RecoveryRefuses
    /\ UNCHANGED <<strategy, tree, profile, backup, exec, written, late>>

(* A workspace root goes back; one at both places or at none is ambiguous. *)
RecoverRoot(r) ==
    /\ recovery = "roots"
    /\ \/ AtNewOnly(r) /\ Moved(r, "new", "old") /\ UNCHANGED <<journal, recovery>>
       \/ Exists(r, "old") = Exists(r, "new") /\ RecoveryRefuses /\ UNCHANGED <<tree, profile>>
    /\ UNCHANGED <<strategy, backup, exec, written, late>>

EndRecoverRoots ==
    /\ recovery = "roots" /\ \A r \in Root : AtOldOnly(r)
    /\ recovery' = "profile"
    /\ UNCHANGED <<strategy, tree, profile, journal, backup, exec, written, late>>

(* How it could go wrong: a profile that was written is taken for the old one. *)
RecoverAnyProfile ==
    /\ recovery = "profile"
    /\ recovery' = "plan"
    /\ UNCHANGED <<strategy, tree, profile, journal, backup, exec, written, late>>

(* The hash of the new profile is of its canonical JSON while the executor   *)
(* writes YAML: a profile that was written is neither the new nor the old.   *)
RecoverProfile ==
    /\ recovery = "profile"
    /\ \/ profile.old = "old" /\ recovery' = "plan" /\ UNCHANGED journal
       \/ profile.old # "old" /\ RecoveryRefuses
    /\ UNCHANGED <<strategy, tree, profile, backup, exec, written, late>>

RecoverPlan ==
    /\ recovery = "plan"
    /\ Transition("PLANNED")
    /\ recovery' = "unname"
    /\ UNCHANGED <<strategy, tree, profile, backup, exec, written, late>>

Unname ==
    /\ recovery = "unname"
    /\ journal' = [journal EXCEPT !.named = FALSE]
    /\ recovery' = "drop"
    /\ UNCHANGED <<strategy, tree, profile, backup, exec, written, late>>

RecoverBackup ==
    /\ recovery \in {"drop", "finish_backup"}
    /\ backup' = "none"
    /\ recovery' = IF recovery = "drop" THEN "idle" ELSE "finish_journal"
    /\ UNCHANGED <<strategy, tree, profile, journal, exec, written, late>>

RecoverJournal ==
    /\ recovery = "finish_journal"
    /\ journal' = None
    /\ recovery' = "idle"
    /\ UNCHANGED <<strategy, tree, profile, backup, exec, written, late>>

StopRecovery ==
    /\ recovery # "idle"
    /\ recovery' = "idle"
    /\ UNCHANGED <<strategy, tree, profile, journal, backup, exec, written, late>>

-----------------------------------------------------------------------------
ExecutorStep ==
    \/ WriteBackup \/ WriteProfile \/ Switch \/ Commit \/ ClearBackup \/ ClearJournal
    \/ NameBackup \/ EnterExecuting \/ CheckMoved \/ EndUndoMove \/ UndoProfile
    \/ EnterCopying \/ EnterVerified \/ Validate \/ EndUndoCopy
    \/ Raise \/ UndoState \/ UndoBackup \/ Stop
    \/ \E t \in Tree :
          \/ MoveTree(t) \/ UndoMove(t) \/ CopyPart(t) \/ CopyRest(t)
          \/ RemovePart(t) \/ RemoveRest(t) \/ UndoCopy(t)

RecoveryStepTaken ==
    \/ StartRecovery \/ EndRecoverRoots \/ RecoverProfile \/ RecoverPlan \/ Unname
    \/ RecoverBackup \/ RecoverJournal \/ StopRecovery
    \/ \E r \in Root : RecoverRoot(r)

Next ==
    \/ Prepare \/ Execute \/ ExecutorStep \/ RecoveryStepTaken
    \/ \E t \in Tree : Write(t)

Spec == Init /\ [][Next]_vars

(* Nobody recovers a migration whose executor is at work: nothing in the code *)
(* excludes it, and two that move the same tree undo each other.              *)
InTurn == At("idle") \/ recovery = "idle"
SpecInTurn == Init /\ [][Next /\ InTurn']_vars

-----------------------------------------------------------------------------
(* Properties *)

AllAt(place, other) == \A t \in Tree : tree[t][place] \in Version
                                       /\ tree[t][other] \notin Version

(* What the journal says is so: none, or a planned or rolled back one, means *)
(* that runtime, profile and every root are at one place, whatever was       *)
(* interrupted and recovered before.                                         *)
JournalTellsThePlace ==
    LET AllOld == AllAt("old", "new") /\ profile.old = "old"
        AllNew == AllAt("new", "old") /\ profile.new = "new"
    IN /\ journal = None => AllOld \/ AllNew
       /\ journal # None /\ journal.state \in {"PLANNED", "ROLLED_BACK"} => AllOld

(* Every tree is whole somewhere with all that was written to it, unless the  *)
(* write came between the comparison of the copies and the removal of the    *)
(* originals, or the clean-up after the commit failed.                       *)
Survives(t) == \E place \in {"old", "new"} : tree[t][place] = written[t]
Committed == journal # None /\ journal.state = "COMMITTED"
WritesSurvive == ~late /\ ~Committed => \A t \in Tree : Survives(t)

(* Until the migration is complete the old profile can be had: it is at one  *)
(* of the places or in the backup, unless the clean-up after the commit failed. *)
OldProfileIsKept ==
    \/ "old" \in {profile.old, profile.new} \/ backup = "whole"
    \/ AllAt("new", "old") /\ profile.new = "new"
    \/ Committed
=============================================================================
