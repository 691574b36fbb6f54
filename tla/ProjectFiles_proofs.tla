-------------------------- MODULE ProjectFiles_proofs --------------------------
(***************************************************************************)
(* The declarative files of a project, in two parts.                       *)
(*                                                                         *)
(* A migration that may stop at any file operation, for any roots and any  *)
(* number of writes: where trees, profile, backup and journal are at every *)
(* place of the executor and of the recovery, in either strategy.          *)
(*                                                                         *)
(* The consoles that edit the files in place, for any processes, drafts,   *)
(* templates and requests: what a preview was computed from, what a        *)
(* confirmed apply has compared and still holds, what the catalogs declare *)
(* together with what a repair would restore, and who is still to read     *)
(* them.                                                                   *)
(***************************************************************************)
EXTENDS ProfileMigration, ProjectSetup, FiniteSetTheorems, TLAPS

InState(S) == journal # None /\ journal.state \in S
Backed == backup = "whole"

-----------------------------------------------------------------------------
(* RENAME_ATOMIC *)

AtOld(t) == tree[t].old = written[t] /\ tree[t].new = None
AtNew(t) == tree[t].old = None /\ tree[t].new = written[t]
(* Something else is where a root is to go: then nothing ever moves. *)
Occupied(t) == tree[t].old = written[t] /\ tree[t].new = Foreign /\ t # Runtime

AllAtOld == \A t \in Tree : AtOld(t)
AllAtNew == \A t \in Tree : AtNew(t)
Unmoved == AllAtOld /\ profile.old = "old"
Complete == AllAtNew /\ profile.new = "new"
Untouched == profile.old = "old" /\ \A t \in Tree : AtOld(t) \/ Occupied(t)
Parted == \A t \in Tree : IF t \in exec.done THEN AtNew(t) ELSE AtOld(t)
InFlight == InState({"EXECUTING", "SWITCHING", "RECOVERY_REQUIRED"})

(* Every tree is whole at one place, and the profile is where the runtime is. *)
RenamedPlaces ==
    /\ \A t \in Tree : AtOld(t) \/ AtNew(t) \/ Occupied(t)
    /\ (\E t \in Tree : Occupied(t)) =>
          /\ At("idle") /\ recovery = "idle" /\ Untouched
          /\ journal = None \/ InState({"PLANNED"})
    /\ AtOld(Runtime) => profile.new = None /\ profile.old # None
    /\ AtNew(Runtime) => profile.old = None /\ profile.new # None

(* What the journal says of them. *)
RenamedJournal ==
    /\ journal # None => /\ journal.verified = {}
                         /\ journal.state \notin {"COPYING", "VERIFIED", "DIVERGED"}
    /\ journal = None => At("idle") /\ recovery = "idle" /\ (Untouched \/ Complete)
    /\ InState({"PLANNED", "ROLLED_BACK"}) => Untouched
    /\ InFlight => Backed \/ "old" \in {profile.old, profile.new} \/ Complete

(* Where the executor is, in its order and in that of its handler. *)
RenamingForth ==
    /\ exec.at \notin {"copying", "copy", "verified", "validate", "remove", "undo"}
    /\ exec.at \in {"name", "execute"} => InState({"PLANNED"}) /\ Unmoved
    /\ exec.at \in {"backup", "switch", "profile"} => InFlight /\ Unmoved
    /\ exec.at \in {"switch", "profile", "move", "commit"} => Backed
    /\ exec.at \in {"name", "execute", "backup", "switch", "profile"} => exec.done = {}
    /\ exec.at \in {"move", "commit"} => InFlight
    /\ exec.at = "move" => Parted /\ "new" \in {profile.old, profile.new}
    /\ exec.at \in {"commit", "clear_backup", "clear_journal"} => Complete /\ exec.done = Tree
    /\ exec.at \in {"clear_backup", "clear_journal"} => InState({"COMMITTED"})
RenamingBack ==
    /\ exec.at = "undo_move" => Parted
    /\ exec.at \in {"undo_move", "undo_profile"} =>
          InState({"COMMITTED"}) \/ (InFlight /\ Backed)
    /\ exec.at = "undo_profile" => AllAtOld
    /\ exec.at = "undo_state" => InState({"COMMITTED"}) \/ (InFlight /\ Unmoved)
    /\ exec.at = "undo_backup" => InState({"ROLLED_BACK"})

(* Where the recovery is. *)
Recovering ==
    /\ recovery \in {"roots", "profile", "plan", "finish_backup", "finish_journal"} => InFlight
    /\ recovery = "roots" => AtOld(Runtime)
    /\ recovery \in {"profile", "plan"} => AllAtOld
    /\ recovery = "plan" => profile.old = "old"
    /\ recovery \in {"unname", "drop"} => InState({"PLANNED"})
    /\ recovery \in {"finish_backup", "finish_journal"} => Complete
    /\ At("idle") \/ recovery = "idle"

RenameInv == RenamedPlaces /\ RenamedJournal /\ RenamingForth /\ RenamingBack /\ Recovering

-----------------------------------------------------------------------------
(* COPY_VERIFY_SWITCH *)

Intact == profile.old = "old" /\ \A t \in Tree : tree[t].old = written[t]
Copied(t) == tree[t].new \in Version /\ (~late => tree[t].new = written[t])
Swapped == profile.old = None /\ profile.new = "new"
           /\ \A t \in Tree : tree[t].old = None /\ Copied(t)
Preparing == InState({"PLANNED", "COPYING", "VERIFIED"})
Replacing == InState({"SWITCHING", "RECOVERY_REQUIRED"})

(* The originals are whole until their copies are, and the journal says which. *)
CopiedPlaces ==
    /\ journal = None => \/ Swapped
                         \/ Intact /\ \A t \in Tree : tree[t].new \notin Version
    /\ InState({"PLANNED"}) => \A t \in Tree : tree[t].new \notin Version
    /\ Preparing => Intact
    /\ Replacing => /\ Backed
                    /\ \A t \in Tree : \/ tree[t].old = written[t]
                                       \/ tree[t].old \notin Version /\ Copied(t)

CopiedJournal ==
    /\ journal # None => ~journal.named
    /\ journal = None \/ Preparing \/ Replacing \/ InState({"COMMITTED"})
    /\ journal = None => At("idle")
    /\ recovery = "idle"

CopyingForth ==
    /\ exec.at \notin {"name", "execute", "move", "undo_move", "undo_profile", "undo_backup"}
    /\ exec.at \in {"copying", "copy", "profile", "verified", "validate", "switch"} =>
          Preparing /\ Backed
    /\ exec.at = "copy" => InState({"COPYING"})
    /\ exec.at = "backup" => Preparing
    /\ exec.at \in {"switch", "remove"} => profile.new = "new" /\ \A t \in Tree : Copied(t)
    /\ exec.at \in {"remove", "commit"} => InState({"SWITCHING"})
    /\ exec.at = "remove" => /\ \A t \in exec.done : tree[t].old = None
                             /\ tree[Runtime].old \notin Version => profile.old = None
    /\ exec.at \in {"commit", "clear_backup", "clear_journal"} => Swapped
    /\ exec.at \in {"clear_backup", "clear_journal"} => InState({"COMMITTED"})
    /\ exec.at \in {"undo", "undo_state"} => Preparing \/ InState({"COMMITTED"})

CopyInv == CopiedPlaces /\ CopiedJournal /\ CopyingForth

IInv == TypeOK /\ (Renaming => RenameInv) /\ (Copying => CopyInv)

-----------------------------------------------------------------------------
(* The invariant is kept by every operation, as long as nobody recovers a  *)
(* migration whose executor is at work.                                    *)

LEMMA PrepareKeeps ==
  ASSUME IInv, Prepare, InTurn'
  PROVE  IInv'
<1>1. TypeOK'
  BY DEF IInv, Prepare, Transitions, TypeOK, JournalRecord, State
<1>2. Renaming' => RenameInv'
  BY DEF IInv, Prepare, InState, Renaming, At, Tree, RenameInv, RenamedPlaces,
     RenamedJournal, RenamingForth, RenamingBack, Recovering, AtOld, AtNew, Occupied,
     AllAtNew, Complete, Untouched
<1>3. Copying' => CopyInv'
  BY DEF IInv, Prepare, InState, Copying, At, CopyInv, CopiedPlaces, CopiedJournal,
     CopyingForth, Intact, Swapped, Preparing, Replacing
<1> QED
  BY <1>1, <1>2, <1>3 DEF IInv

LEMMA ExecuteKeeps ==
  ASSUME IInv, Execute, InTurn'
  PROVE  IInv'
<1>1. TypeOK'
  BY DEF IInv, Execute, StartOf, TypeOK, ExecStep
<1>2. Renaming' => RenameInv'
  BY TreesAreTold DEF IInv, InTurn, Execute, ReadyForExecutor, InState, Renaming, At,
     StartOf, Tree, RenameInv, RenamedPlaces, RenamedJournal, RenamingForth,
     RenamingBack, Recovering, AtOld, AtNew, Occupied, AllAtOld, Unmoved, Untouched
<1>3. Copying' => CopyInv'
  BY DEF IInv, Execute, ReadyForExecutor, InState, Renaming, Copying, StartOf, CopyInv,
     CopiedPlaces, CopiedJournal, CopyingForth, Intact, Preparing, Replacing
<1> QED
  BY <1>1, <1>2, <1>3 DEF IInv

LEMMA WriteBackupKeeps ==
  ASSUME IInv, WriteBackup, InTurn'
  PROVE  IInv'
<1>1. TypeOK'
  BY DEF IInv, WriteBackup, Goto, TypeOK, ExecStep
<1>2. Renaming' => RenameInv'
  BY DEF IInv, WriteBackup, InState, Backed, Renaming, At, Goto, RenameInv,
     RenamedPlaces, RenamedJournal, RenamingForth, RenamingBack, Recovering, AtOld,
     AtNew, Occupied, AllAtOld, Unmoved, InFlight
<1>3. Copying' => CopyInv'
  BY DEF IInv, WriteBackup, InState, Backed, Renaming, Copying, At, Goto, CopyInv,
     CopiedPlaces, CopiedJournal, CopyingForth, Intact, Preparing
<1> QED
  BY <1>1, <1>2, <1>3 DEF IInv

LEMMA WriteProfileKeeps ==
  ASSUME IInv, WriteProfile, InTurn'
  PROVE  IInv'
<1>1. TypeOK'
  BY DEF IInv, WriteProfile, Goto, TypeOK, ExecStep
<1>2. Renaming' => RenameInv'
  <2>1. Renaming' => RenamedPlaces'
    BY NoneAssumption DEF IInv, WriteProfile, Renaming, At, TypeOK, RenameInv,
       RenamedPlaces, RenamingForth, AtOld, AtNew, Occupied, Unmoved
  <2>2. Renaming' => RenamedJournal'
    BY DEF IInv, WriteProfile, InState, Backed, Renaming, At, RenameInv, RenamedJournal,
       RenamingForth, InFlight
  <2>3. Renaming' => RenamingForth'
    BY DEF IInv, WriteProfile, InState, Backed, Renaming, At, Goto, TypeOK, RenameInv,
       RenamingForth, AtOld, AllAtOld, Unmoved, Parted, InFlight
  <2>4. Renaming' => RenamingBack'
    BY DEF WriteProfile, Goto, RenamingBack
  <2>5. Renaming' => Recovering'
    BY DEF InTurn, WriteProfile, At, Goto, Recovering
  <2> QED
    BY <2>1, <2>2, <2>3, <2>4, <2>5 DEF RenameInv
<1>3. Copying' => CopyInv'
  BY DEF IInv, WriteProfile, InState, Backed, Renaming, Copying, At, Goto, TypeOK,
     CopyInv, CopiedPlaces, CopiedJournal, CopyingForth, Intact, Preparing
<1> QED
  BY <1>1, <1>2, <1>3 DEF IInv

LEMMA SwitchKeeps ==
  ASSUME IInv, Switch, InTurn'
  PROVE  IInv'
<1>1. TypeOK'
  BY DEF IInv, Switch, StartOf, Transition, MayTransition, Transitions, TypeOK,
     JournalRecord, State, ExecStep
<1>2. Renaming' => RenameInv'
  BY NoneAssumption DEF IInv, Switch, InState, Backed, Renaming, At, StartOf,
     Transition, Transitions, TypeOK, JournalRecord, State, RenameInv, RenamedPlaces,
     RenamedJournal, RenamingForth, RenamingBack, Recovering, AtOld, AtNew, Occupied,
     AllAtOld, Unmoved, InFlight
<1>3. Copying' => CopyInv'
  BY NoneAssumption DEF IInv, Switch, InState, Backed, Renaming, Copying, At, StartOf,
     Transition, Transitions, TypeOK, JournalRecord, State, Tree, CopyInv, CopiedPlaces,
     CopiedJournal, CopyingForth, Intact, Copied, Replacing
<1> QED
  BY <1>1, <1>2, <1>3 DEF IInv

LEMMA CommitKeeps ==
  ASSUME IInv, Commit, InTurn'
  PROVE  IInv'
<1>1. TypeOK'
  BY DEF IInv, Commit, Goto, Transition, MayTransition, Transitions, TypeOK,
     JournalRecord, State, ExecStep
<1>2. Renaming' => RenameInv'
  BY NoneAssumption DEF IInv, Commit, InState, Renaming, At, Goto, Transition,
     Transitions, TypeOK, JournalRecord, State, RenameInv, RenamedPlaces,
     RenamedJournal, RenamingForth, RenamingBack, Recovering, AtOld, AtNew, Occupied,
     AllAtNew, Complete
<1>3. Copying' => CopyInv'
  BY NoneAssumption, RuntimeIsNoRoot DEF IInv, Commit, InState, Backed, Copying, At,
     Goto, Transition, Transitions, TypeOK, JournalRecord, State, CopyInv, CopiedPlaces,
     CopiedJournal, CopyingForth, Intact, Copied, Swapped, Preparing
<1> QED
  BY <1>1, <1>2, <1>3 DEF IInv

LEMMA ClearBackupKeeps ==
  ASSUME IInv, ClearBackup, InTurn'
  PROVE  IInv'
<1>1. TypeOK'
  BY DEF IInv, ClearBackup, Goto, TypeOK, ExecStep
<1>2. Renaming' => RenameInv'
  BY DEF IInv, ClearBackup, InState, Renaming, At, Goto, RenameInv, RenamedPlaces,
     RenamedJournal, RenamingForth, RenamingBack, Recovering, AtOld, AtNew, Occupied,
     AllAtNew, Complete
<1>3. Copying' => CopyInv'
  BY DEF IInv, ClearBackup, InState, Copying, At, Goto, CopyInv, CopiedPlaces,
     CopiedJournal, CopyingForth, Copied, Swapped, Preparing, Replacing
<1> QED
  BY <1>1, <1>2, <1>3 DEF IInv

LEMMA ClearJournalKeeps ==
  ASSUME IInv, ClearJournal, InTurn'
  PROVE  IInv'
<1>1. TypeOK'
  BY DEF IInv, ClearJournal, StartOf, TypeOK, ExecStep
<1>2. Renaming' => RenameInv'
  BY DEF IInv, ClearJournal, InState, Renaming, At, StartOf, RenameInv, RenamedPlaces,
     RenamedJournal, RenamingForth, RenamingBack, Recovering, AtOld, AtNew, Occupied,
     AllAtNew, Complete
<1>3. Copying' => CopyInv'
  BY DEF IInv, ClearJournal, InState, Copying, At, StartOf, CopyInv, CopiedPlaces,
     CopiedJournal, CopyingForth, Copied, Swapped, Preparing, Replacing
<1> QED
  BY <1>1, <1>2, <1>3 DEF IInv

LEMMA NameBackupKeeps ==
  ASSUME IInv, NameBackup, InTurn'
  PROVE  IInv'
<1>1. TypeOK'
  BY TreesAreTold, NoneAssumption, RuntimeIsNoRoot DEF IInv, NameBackup, InState,
     Backed, Renaming, Copying, At, Goto, StartOf, Done, Transition, MayTransition,
     Transitions, TypeOK, JournalRecord, State, Strategy, Tree, ExecStep, RecoveryStep,
     RenameInv, RenamedPlaces, RenamedJournal, RenamingForth, RenamingBack, Recovering,
     AtOld, AtNew, Occupied, AllAtOld, AllAtNew, Unmoved, Complete, Untouched, Parted,
     InFlight, CopyInv, CopiedPlaces, CopiedJournal, CopyingForth, Intact, Copied,
     Swapped, Preparing, Replacing
<1>2. Renaming' => RenameInv'
  BY TreesAreTold, NoneAssumption, RuntimeIsNoRoot DEF IInv, InTurn, NameBackup,
     InState, Backed, Renaming, Copying, At, Goto, StartOf, Done, Transition,
     MayTransition, Transitions, TypeOK, JournalRecord, State, Strategy, Tree, ExecStep,
     RecoveryStep, RenameInv, RenamedPlaces, RenamedJournal, RenamingForth,
     RenamingBack, Recovering, AtOld, AtNew, Occupied, AllAtOld, AllAtNew, Unmoved,
     Complete, Untouched, Parted, InFlight
<1>3. Copying' => CopyInv'
  BY DEF IInv, NameBackup, Copying, At, CopyInv, CopyingForth
<1> QED
  BY <1>1, <1>2, <1>3 DEF IInv

LEMMA EnterExecutingKeeps ==
  ASSUME IInv, EnterExecuting, InTurn'
  PROVE  IInv'
<1>1. TypeOK'
  BY DEF IInv, EnterExecuting, Goto, Transition, MayTransition, Transitions, TypeOK,
     JournalRecord, State, ExecStep
<1>2. Renaming' => RenameInv'
  BY NoneAssumption DEF IInv, EnterExecuting, InState, Renaming, At, Goto, Transition,
     Transitions, TypeOK, JournalRecord, State, RenameInv, RenamedPlaces,
     RenamedJournal, RenamingForth, RenamingBack, Recovering, AtOld, AtNew, Occupied,
     AllAtOld, Unmoved, InFlight
<1>3. Copying' => CopyInv'
  BY DEF IInv, EnterExecuting, Copying, At, CopyInv, CopyingForth
<1> QED
  BY <1>1, <1>2, <1>3 DEF IInv

LEMMA CheckMovedKeeps ==
  ASSUME IInv, CheckMoved, InTurn'
  PROVE  IInv'
<1>1. TypeOK'
  BY DEF IInv, CheckMoved, Goto, TypeOK, ExecStep
<1>2. Renaming' => RenameInv'
  <2>1. Renaming' => RenamedPlaces'
    BY DEF IInv, CheckMoved, Renaming, At, RenameInv, RenamedPlaces, AtOld, AtNew,
       Occupied
  <2>2. Renaming' => RenamedJournal'
    BY DEF IInv, CheckMoved, InState, Backed, Renaming, At, RenameInv, RenamedPlaces,
       RenamedJournal, RenamingForth, AtOld, Untouched
  <2>3. Renaming' => RenamingForth'
    BY NoneAssumption DEF IInv, CheckMoved, InState, Backed, Renaming, At, Goto, Tree,
       RenameInv, RenamedPlaces, RenamingForth, AtNew, AllAtNew, Complete, Parted,
       InFlight
  <2>4. Renaming' => RenamingBack'
    BY DEF CheckMoved, Goto, RenamingBack
  <2>5. Renaming' => Recovering'
    BY DEF InTurn, CheckMoved, At, Goto, Recovering
  <2> QED
    BY <2>1, <2>2, <2>3, <2>4, <2>5 DEF RenameInv
<1>3. Copying' => CopyInv'
  BY DEF IInv, CheckMoved, Copying, At, CopyInv, CopyingForth
<1> QED
  BY <1>1, <1>2, <1>3 DEF IInv

LEMMA EndUndoMoveKeeps ==
  ASSUME IInv, EndUndoMove, InTurn'
  PROVE  IInv'
<1>1. TypeOK'
  BY DEF IInv, EndUndoMove, Goto, TypeOK, ExecStep
<1>2. Renaming' => RenameInv'
  BY DEF IInv, EndUndoMove, InState, Backed, Renaming, At, Goto, RenameInv,
     RenamedPlaces, RenamedJournal, RenamingForth, RenamingBack, Recovering, AtOld,
     AtNew, Occupied, AllAtOld, Parted, InFlight
<1>3. Copying' => CopyInv'
  BY DEF IInv, EndUndoMove, Copying, At, CopyInv, CopyingForth
<1> QED
  BY <1>1, <1>2, <1>3 DEF IInv

LEMMA UndoProfileKeeps ==
  ASSUME IInv, UndoProfile, InTurn'
  PROVE  IInv'
<1>1. TypeOK'
  BY DEF IInv, UndoProfile, Goto, TypeOK, ExecStep
<1>2. Renaming' => RenameInv'
  <2>1. Renaming' => RenamedPlaces'
    BY NoneAssumption DEF IInv, UndoProfile, Renaming, At, RenameInv, RenamedPlaces,
       AtOld, AtNew, Occupied
  <2>2. Renaming' => RenamedJournal'
    BY DEF IInv, UndoProfile, InState, Renaming, At, RenameInv, RenamedPlaces,
       RenamedJournal, AtOld, Untouched
  <2>3. Renaming' => RenamingForth'
    BY DEF UndoProfile, Goto, RenamingForth
  <2>4. Renaming' => RenamingBack'
    BY DEF IInv, UndoProfile, InState, Renaming, At, Goto, RenameInv, RenamingBack,
       AtOld, AllAtOld, Unmoved, InFlight
  <2>5. Renaming' => Recovering'
    BY DEF InTurn, UndoProfile, At, Goto, Recovering
  <2> QED
    BY <2>1, <2>2, <2>3, <2>4, <2>5 DEF RenameInv
<1>3. Copying' => CopyInv'
  BY DEF IInv, UndoProfile, Copying, At, CopyInv, CopyingForth
<1> QED
  BY <1>1, <1>2, <1>3 DEF IInv

LEMMA EnterCopyingKeeps ==
  ASSUME IInv, EnterCopying, InTurn'
  PROVE  IInv'
<1>1. TypeOK'
  BY DEF IInv, EnterCopying, StartOf, Transition, MayTransition, Transitions, TypeOK,
     JournalRecord, State, ExecStep
<1>2. Renaming' => RenameInv'
  BY DEF IInv, EnterCopying, Renaming, At, RenameInv, RenamingForth
<1>3. Copying' => CopyInv'
  BY NoneAssumption DEF IInv, EnterCopying, InState, Backed, Copying, At, StartOf,
     Transition, Transitions, TypeOK, JournalRecord, State, CopyInv, CopiedPlaces,
     CopiedJournal, CopyingForth, Intact, Preparing
<1> QED
  BY <1>1, <1>2, <1>3 DEF IInv

LEMMA EnterVerifiedKeeps ==
  ASSUME IInv, EnterVerified, InTurn'
  PROVE  IInv'
<1>1. TypeOK'
  BY DEF IInv, EnterVerified, Goto, Transition, MayTransition, Transitions, TypeOK,
     JournalRecord, State, ExecStep
<1>2. Renaming' => RenameInv'
  BY DEF IInv, EnterVerified, Renaming, At, RenameInv, RenamingForth
<1>3. Copying' => CopyInv'
  BY NoneAssumption DEF IInv, InTurn, EnterVerified, InState, Backed, Copying, At, Goto,
     Transition, Transitions, TypeOK, JournalRecord, State, CopyInv, CopiedPlaces,
     CopiedJournal, CopyingForth, Intact, Preparing
<1> QED
  BY <1>1, <1>2, <1>3 DEF IInv

LEMMA ValidateKeeps ==
  ASSUME IInv, Validate, InTurn'
  PROVE  IInv'
<1>1. TypeOK'
  BY DEF IInv, Validate, Goto, TypeOK, ExecStep
<1>2. Renaming' => RenameInv'
  BY DEF IInv, Validate, ReadyForSwitch, Renaming, Tree, RenameInv, RenamedPlaces,
     AtOld, AtNew, Occupied
<1>3. Copying' => CopyInv'
  BY DEF IInv, Validate, ReadyForSwitch, InState, Backed, Copying, At, Goto, TypeOK,
     CopyInv, CopiedPlaces, CopiedJournal, CopyingForth, Intact, Copied, Preparing
<1> QED
  BY <1>1, <1>2, <1>3 DEF IInv

LEMMA EndUndoCopyKeeps ==
  ASSUME IInv, EndUndoCopy, InTurn'
  PROVE  IInv'
<1>1. TypeOK'
  BY DEF IInv, EndUndoCopy, Goto, TypeOK, ExecStep
<1>2. Renaming' => RenameInv'
  BY DEF IInv, EndUndoCopy, Renaming, At, RenameInv, RenamingForth
<1>3. Copying' => CopyInv'
  BY DEF IInv, EndUndoCopy, InState, Copying, At, Goto, CopyInv, CopiedPlaces,
     CopiedJournal, CopyingForth, Intact, Preparing, Replacing
<1> QED
  BY <1>1, <1>2, <1>3 DEF IInv

LEMMA RaiseKeeps ==
  ASSUME IInv, Raise, InTurn'
  PROVE  IInv'
<1>1. TypeOK'
  BY DEF IInv, Raise, Goto, StartOf, Transition, MayTransition, Transitions, TypeOK,
     JournalRecord, State, ExecStep, RecoveryStep
<1>2. Renaming' => RenameInv'
  BY DEF IInv, InTurn, Raise, Handled, InState, Backed, Renaming, Goto, TypeOK,
     RenameInv, RenamedPlaces, RenamedJournal, RenamingForth, RenamingBack, Recovering,
     AtOld, AtNew, Occupied, AllAtOld, AllAtNew, Unmoved, Complete, Parted, InFlight
<1>3. Copying' => CopyInv'
  BY NoneAssumption DEF IInv, Raise, Handled, InState, Backed, Renaming, Copying,
     StartOf, Transition, Transitions, TypeOK, JournalRecord, State, CopyInv,
     CopiedPlaces, CopiedJournal, CopyingForth, Intact, Copied, Preparing, Replacing
<1> QED
  BY <1>1, <1>2, <1>3 DEF IInv

LEMMA UndoStateKeeps ==
  ASSUME IInv, UndoState, InTurn'
  PROVE  IInv'
<1>1. TypeOK'
  BY DEF IInv, UndoState, Goto, Transition, MayTransition, Transitions, TypeOK,
     JournalRecord, State, ExecStep
<1>2. Renaming' => RenameInv'
  BY NoneAssumption DEF IInv, UndoState, InState, Renaming, At, Goto, Transition,
     MayTransition, Transitions, TypeOK, JournalRecord, State, RenameInv, RenamedPlaces,
     RenamedJournal, RenamingForth, RenamingBack, Recovering, AtOld, AtNew, Occupied,
     AllAtOld, Unmoved, Untouched
<1>3. Copying' => CopyInv'
  BY DEF IInv, UndoState, InState, Copying, At, Transition, MayTransition, Transitions,
     CopyInv, CopyingForth, Preparing
<1> QED
  BY <1>1, <1>2, <1>3 DEF IInv

LEMMA UndoBackupKeeps ==
  ASSUME IInv, UndoBackup, InTurn'
  PROVE  IInv'
<1>1. TypeOK'
  BY DEF IInv, UndoBackup, StartOf, TypeOK, ExecStep
<1>2. Renaming' => RenameInv'
  BY DEF IInv, UndoBackup, InState, Renaming, At, StartOf, RenameInv, RenamedPlaces,
     RenamedJournal, RenamingForth, RenamingBack, Recovering, AtOld, AtNew, Occupied,
     Untouched
<1>3. Copying' => CopyInv'
  BY DEF IInv, UndoBackup, Copying, At, CopyInv, CopyingForth
<1> QED
  BY <1>1, <1>2, <1>3 DEF IInv

LEMMA StopKeeps ==
  ASSUME IInv, Stop, InTurn'
  PROVE  IInv'
<1>1. TypeOK'
  BY DEF IInv, Stop, StartOf, TypeOK, ExecStep
<1>2. Renaming' => RenameInv'
  BY DEF IInv, Stop, InState, Backed, Renaming, At, StartOf, RenameInv, RenamedPlaces,
     RenamedJournal, RenamingForth, RenamingBack, Recovering, AtOld, AtNew, Occupied,
     AllAtNew, Unmoved, Complete, Untouched, InFlight
<1>3. Copying' => CopyInv'
  BY DEF IInv, Stop, InState, Backed, Copying, At, StartOf, CopyInv, CopiedPlaces,
     CopiedJournal, CopyingForth, Intact, Copied, Preparing, Replacing
<1> QED
  BY <1>1, <1>2, <1>3 DEF IInv

LEMMA WriteKeeps ==
  ASSUME IInv, NEW t \in Tree, Write(t), InTurn'
  PROVE  IInv'
<1>1. written[t] + 1 \in Version \ {None, Foreign, Half}
  BY TreesAreTold, RuntimeIsNoRoot DEF IInv, TypeOK, Write, Version
<1>2. TypeOK'
  BY <1>1 DEF IInv, Write, TypeOK
<1>3. \A u \in Tree : written'[u] = IF u = t THEN written[t] + 1 ELSE written[u]
  BY DEF IInv, TypeOK, Write
<1>4. ASSUME NEW u \in Tree
      PROVE  /\ tree'[u].old = IF u = t THEN written[t] + 1 ELSE tree[u].old
             /\ tree'[u].new = tree[u].new
  BY DEF IInv, TypeOK, Write
<1>5. Renaming' => RenameInv'
  <2>1. Renaming' => RenamedPlaces'
    BY <1>1, <1>3, <1>4, TreesAreTold DEF IInv, Write, InState, Renaming, At, RenameInv,
       RenamedPlaces, AtOld, AtNew, Occupied, Untouched
  <2>2. Renaming' => RenamedJournal'
    BY <1>3, <1>4, TreesAreTold DEF IInv, Write, InState, Backed, Renaming, At,
       RenameInv, RenamedJournal, AtOld, AtNew, Occupied, AllAtNew, Complete, Untouched,
       InFlight
  <2>3. Renaming' => RenamingForth'
    BY <1>3, <1>4, TreesAreTold DEF IInv, Write, InState, Backed, Renaming, RenameInv,
       RenamingForth, AtOld, AtNew, AllAtOld, AllAtNew, Unmoved, Complete, Parted,
       InFlight
  <2>4. Renaming' => RenamingBack'
    BY <1>3, <1>4, TreesAreTold DEF IInv, Write, InState, Backed, Renaming, RenameInv,
       RenamingBack, AtOld, AtNew, AllAtOld, Unmoved, Parted, InFlight
  <2>5. Renaming' => Recovering'
    BY <1>3, <1>4, TreesAreTold DEF IInv, InTurn, Write, InState, Renaming, RenameInv,
       Recovering, AtOld, AtNew, AllAtOld, AllAtNew, Complete, InFlight
  <2> QED
    BY <2>1, <2>2, <2>3, <2>4, <2>5 DEF RenameInv
<1>6. Copying' => CopyInv'
  <2>1. Copying' => CopiedPlaces'
    BY TreesAreTold DEF IInv, Write, InState, Backed, Copying, TypeOK, CopyInv,
       CopiedPlaces, Intact, Copied, Swapped, Preparing, Replacing
  <2>2. Copying' => CopiedJournal'
    BY DEF IInv, Write, InState, Copying, At, CopyInv, CopiedJournal, Preparing,
       Replacing
  <2>3. Copying' => CopyingForth'
    <3> SUFFICES ASSUME Copying PROVE CopyingForth'
      BY DEF Write, Copying
    <3>1. t \notin exec.done \/ exec.at # "remove"
      BY TreesAreTold DEF IInv, CopyInv, CopyingForth, Write
    <3>2. exec.at \notin {"commit", "clear_backup", "clear_journal"}
      BY TreesAreTold DEF IInv, CopyInv, CopyingForth, Write, Swapped
    <3>3. exec.at \in {"switch", "remove"} =>
             profile.new = "new" /\ \A s \in Tree : Copied(s)'
      BY <1>1, <1>4 DEF IInv, CopyInv, CopyingForth, Write, Copied, Copying
    <3>4. exec.at = "remove" => \A s \in exec.done : tree'[s].old = None
      BY <3>1 DEF IInv, CopyInv, CopyingForth, Write
    <3>5. exec.at = "remove" /\ tree'[Runtime].old \notin Version => profile.old = None
      BY <1>1 DEF IInv, CopyInv, CopyingForth, Write
    <3> QED
      BY <3>3, <3>4, <3>5, <3>2 DEF IInv, CopyInv, CopyingForth, Write, Preparing,
         InState, Backed
  <2> QED
    BY <2>1, <2>2, <2>3 DEF CopyInv
<1> QED
  BY <1>2, <1>5, <1>6 DEF IInv

LEMMA MoveTreeKeeps ==
  ASSUME IInv, NEW t \in Tree, MoveTree(t), InTurn'
  PROVE  IInv'
<1>1. TypeOK'
  BY DEF IInv, MoveTree, Moved, Done, TypeOK
<1>2. Renaming' => RenameInv'
  BY TreesAreTold DEF IInv, MoveTree, Moved, Renaming, TypeOK, RenameInv, RenamedPlaces,
     AtOld, AtNew, Occupied
<1>3. Copying' => CopyInv'
  BY DEF IInv, MoveTree, Copying, At, CopyInv, CopyingForth
<1> QED
  BY <1>1, <1>2, <1>3 DEF IInv

LEMMA UndoMoveKeeps ==
  ASSUME IInv, NEW t \in Tree, UndoMove(t), InTurn'
  PROVE  IInv'
<1>1. TypeOK'
  BY DEF IInv, UndoMove, Moved, TypeOK
<1>2. Renaming' => RenameInv'
  BY TreesAreTold DEF IInv, UndoMove, Moved, Renaming, At, TypeOK, RenameInv,
     RenamingBack, AtNew, Parted
<1>3. Copying' => CopyInv'
  BY DEF IInv, UndoMove, Copying, At, CopyInv, CopyingForth
<1> QED
  BY <1>1, <1>2, <1>3 DEF IInv

LEMMA CopyPartKeeps ==
  ASSUME IInv, NEW t \in Tree, CopyPart(t), InTurn'
  PROVE  IInv'
<1>1. TypeOK'
  BY DEF IInv, CopyPart, TypeOK
<1>2. Renaming' => RenameInv'
  BY DEF IInv, CopyPart, Renaming, At, RenameInv, RenamingForth
<1>3. Copying' => CopyInv'
  BY DEF IInv, CopyPart, InState, Backed, Copying, At, CopyInv, CopiedPlaces,
     CopiedJournal, CopyingForth, Intact, Preparing
<1> QED
  BY <1>1, <1>2, <1>3 DEF IInv

LEMMA CopyRestKeeps ==
  ASSUME IInv, NEW t \in Tree, CopyRest(t), InTurn'
  PROVE  IInv'
<1>1. TypeOK'
  BY DEF IInv, CopyRest, RecordCopyProgress, Renaming, Copying, At, TypeOK,
     JournalRecord, Strategy, ExecStep, RenameInv, RenamingForth, CopyInv, CopiedJournal
<1>2. Renaming' => RenameInv'
  BY DEF IInv, CopyRest, Renaming, At, RenameInv, RenamingForth
<1>3. Copying' => CopyInv'
  <2>1. Copying' => CopiedPlaces'
    BY NoneAssumption DEF IInv, CopyRest, RecordCopyProgress, InState, Backed, Copying,
       At, TypeOK, JournalRecord, CopyInv, CopiedPlaces, CopyingForth, Intact
  <2>2. Copying' => CopiedJournal'
    BY NoneAssumption DEF IInv, CopyRest, RecordCopyProgress, InState, Copying, At,
       TypeOK, JournalRecord, CopyInv, CopiedJournal, CopyingForth, Preparing
  <2>3. Copying' => CopyingForth'
    BY NoneAssumption DEF IInv, CopyRest, RecordCopyProgress, InState, Backed, Copying,
       At, TypeOK, JournalRecord, CopyInv, CopyingForth, Preparing
  <2> QED
    BY <2>1, <2>2, <2>3 DEF CopyInv
<1> QED
  BY <1>1, <1>2, <1>3 DEF IInv

LEMMA RemovePartKeeps ==
  ASSUME IInv, NEW t \in Tree, RemovePart(t), InTurn'
  PROVE  IInv'
<1>1. TypeOK'
  BY DEF IInv, RemovePart, TypeOK
<1>2. Renaming' => RenameInv'
  BY DEF IInv, RemovePart, Renaming, At, RenameInv, RenamingForth
<1>3. Copying' => CopyInv'
  BY TreesAreTold DEF IInv, RemovePart, InState, Backed, Copying, At, CopyInv,
     CopiedPlaces, CopiedJournal, CopyingForth, Copied, Preparing, Replacing
<1> QED
  BY <1>1, <1>2, <1>3 DEF IInv

LEMMA RemoveRestKeeps ==
  ASSUME IInv, NEW t \in Tree, RemoveRest(t), InTurn'
  PROVE  IInv'
<1>1. TypeOK'
  BY DEF IInv, RemoveRest, TypeOK, ExecStep
<1>2. Renaming' => RenameInv'
  BY DEF IInv, RemoveRest, Renaming, At, RenameInv, RenamingForth
<1>3. Copying' => CopyInv'
  BY TreesAreTold DEF IInv, RemoveRest, InState, Backed, Copying, At, TypeOK, Tree,
     CopyInv, CopiedPlaces, CopiedJournal, CopyingForth, Copied, Swapped, Preparing,
     Replacing
<1> QED
  BY <1>1, <1>2, <1>3 DEF IInv

LEMMA UndoCopyKeeps ==
  ASSUME IInv, NEW t \in Tree, UndoCopy(t), InTurn'
  PROVE  IInv'
<1>1. TypeOK'
  BY DEF IInv, UndoCopy, Done, TypeOK
<1>2. Renaming' => RenameInv'
  BY DEF IInv, UndoCopy, Renaming, At, RenameInv, RenamingForth
<1>3. Copying' => CopyInv'
  BY TreesAreTold DEF IInv, UndoCopy, InState, Copying, At, Done, CopyInv, CopiedPlaces,
     CopiedJournal, CopyingForth, Intact, Preparing, Replacing
<1> QED
  BY <1>1, <1>2, <1>3 DEF IInv

LEMMA StartRecoveryKeeps ==
  ASSUME IInv, StartRecovery, InTurn'
  PROVE  IInv'
<1>1. TypeOK'
  BY DEF IInv, StartRecovery, RecoveryRefuses, Transition, Transitions, TypeOK,
     JournalRecord, State, Tree, RecoveryStep
<1>2. Renaming' => RenameInv'
  BY NoneAssumption DEF IInv, InTurn, StartRecovery, RecoveryRefuses, NothingMoved,
     AllMoved, AtNewOnly, Exists, InState, Backed, Renaming, Transition, Transitions,
     TypeOK, JournalRecord, State, Tree, RenameInv, RenamedPlaces, RenamedJournal,
     RenamingForth, RenamingBack, Recovering, AtOld, AtNew, Occupied, AllAtOld,
     AllAtNew, Unmoved, Complete, Parted, InFlight
<1>3. Copying' => CopyInv'
  BY DEF IInv, StartRecovery, Copying, CopyInv, CopiedJournal
<1> QED
  BY <1>1, <1>2, <1>3 DEF IInv

LEMMA EndRecoverRootsKeeps ==
  ASSUME IInv, EndRecoverRoots, InTurn'
  PROVE  IInv'
<1>1. TypeOK'
  BY DEF IInv, EndRecoverRoots, TypeOK, RecoveryStep
<1>2. Renaming' => RenameInv'
  BY DEF IInv, InTurn, EndRecoverRoots, AtOldOnly, Exists, InState, Backed, Renaming,
     Tree, RenameInv, RenamedPlaces, RenamedJournal, RenamingForth, RenamingBack,
     Recovering, AtOld, AtNew, Occupied, AllAtOld, AllAtNew, Unmoved, Complete, Parted,
     InFlight
<1>3. Copying' => CopyInv'
  BY DEF IInv, EndRecoverRoots, Copying, CopyInv, CopiedJournal
<1> QED
  BY <1>1, <1>2, <1>3 DEF IInv

LEMMA RecoverProfileKeeps ==
  ASSUME IInv, RecoverProfile, InTurn'
  PROVE  IInv'
<1>1. TypeOK'
  BY DEF IInv, RecoverProfile, RecoveryRefuses, Transition, MayTransition, Transitions,
     TypeOK, JournalRecord, State, RecoveryStep
<1>2. Renaming' => RenameInv'
  BY NoneAssumption DEF IInv, InTurn, RecoverProfile, RecoveryRefuses, InState, Backed,
     Renaming, Transition, Transitions, TypeOK, JournalRecord, State, RenameInv,
     RenamedPlaces, RenamedJournal, RenamingForth, RenamingBack, Recovering, AtOld,
     AtNew, Occupied, AllAtOld, AllAtNew, Unmoved, Complete, Parted, InFlight
<1>3. Copying' => CopyInv'
  BY DEF IInv, RecoverProfile, Copying, CopyInv, CopiedJournal
<1> QED
  BY <1>1, <1>2, <1>3 DEF IInv

LEMMA RecoverPlanKeeps ==
  ASSUME IInv, RecoverPlan, InTurn'
  PROVE  IInv'
<1>1. TypeOK'
  BY DEF IInv, RecoverPlan, Transition, MayTransition, Transitions, TypeOK,
     JournalRecord, State, RecoveryStep
<1>2. Renaming' => RenameInv'
  BY NoneAssumption DEF IInv, RecoverPlan, InState, Renaming, At, Transition,
     Transitions, TypeOK, JournalRecord, State, RenameInv, RenamedPlaces,
     RenamedJournal, RenamingForth, RenamingBack, Recovering, AtOld, AtNew, Occupied,
     AllAtOld, Untouched
<1>3. Copying' => CopyInv'
  BY DEF IInv, RecoverPlan, Copying, CopyInv, CopiedJournal
<1> QED
  BY <1>1, <1>2, <1>3 DEF IInv

LEMMA UnnameKeeps ==
  ASSUME IInv, Unname, InTurn'
  PROVE  IInv'
<1>1. TypeOK'
  BY TreesAreTold, NoneAssumption, RuntimeIsNoRoot DEF IInv, Unname, InState, Backed,
     Renaming, Copying, At, Goto, StartOf, Done, Transition, MayTransition, Transitions,
     TypeOK, JournalRecord, State, Strategy, Tree, ExecStep, RecoveryStep, RenameInv,
     RenamedPlaces, RenamedJournal, RenamingForth, RenamingBack, Recovering, AtOld,
     AtNew, Occupied, AllAtOld, AllAtNew, Unmoved, Complete, Untouched, Parted,
     InFlight, CopyInv, CopiedPlaces, CopiedJournal, CopyingForth, Intact, Copied,
     Swapped, Preparing, Replacing
<1>2. Renaming' => RenameInv'
  BY TreesAreTold, NoneAssumption, RuntimeIsNoRoot DEF IInv, InTurn, Unname, InState,
     Backed, Renaming, Copying, At, Goto, StartOf, Done, Transition, MayTransition,
     Transitions, TypeOK, JournalRecord, State, Strategy, Tree, ExecStep, RecoveryStep,
     RenameInv, RenamedPlaces, RenamedJournal, RenamingForth, RenamingBack, Recovering,
     AtOld, AtNew, Occupied, AllAtOld, AllAtNew, Unmoved, Complete, Untouched, Parted,
     InFlight
<1>3. Copying' => CopyInv'
  BY DEF IInv, Unname, Copying, CopyInv, CopiedJournal
<1> QED
  BY <1>1, <1>2, <1>3 DEF IInv

LEMMA RecoverBackupKeeps ==
  ASSUME IInv, RecoverBackup, InTurn'
  PROVE  IInv'
<1>1. TypeOK'
  BY DEF IInv, RecoverBackup, TypeOK, RecoveryStep
<1>2. Renaming' => RenameInv'
  BY DEF IInv, RecoverBackup, InState, Renaming, At, RenameInv, RenamedPlaces,
     RenamedJournal, RenamingForth, RenamingBack, Recovering, AtOld, AtNew, Occupied,
     AllAtNew, Complete, Untouched, InFlight
<1>3. Copying' => CopyInv'
  BY DEF IInv, RecoverBackup, Copying, CopyInv, CopiedJournal
<1> QED
  BY <1>1, <1>2, <1>3 DEF IInv

LEMMA RecoverJournalKeeps ==
  ASSUME IInv, RecoverJournal, InTurn'
  PROVE  IInv'
<1>1. TypeOK'
  BY DEF IInv, RecoverJournal, TypeOK, RecoveryStep
<1>2. Renaming' => RenameInv'
  BY DEF IInv, RecoverJournal, InState, Renaming, At, RenameInv, RenamedPlaces,
     RenamedJournal, RenamingForth, RenamingBack, Recovering, AtOld, AtNew, Occupied,
     AllAtNew, Complete
<1>3. Copying' => CopyInv'
  BY DEF IInv, RecoverJournal, Copying, CopyInv, CopiedJournal
<1> QED
  BY <1>1, <1>2, <1>3 DEF IInv

LEMMA StopRecoveryKeeps ==
  ASSUME IInv, StopRecovery, InTurn'
  PROVE  IInv'
<1>1. TypeOK'
  BY DEF IInv, StopRecovery, TypeOK, RecoveryStep
<1>2. Renaming' => RenameInv'
  BY DEF IInv, StopRecovery, InState, Backed, Renaming, RenameInv, RenamedPlaces,
     RenamedJournal, RenamingForth, RenamingBack, Recovering, AtOld, AtNew, Occupied,
     AllAtOld, AllAtNew, Unmoved, Complete, Untouched, Parted, InFlight
<1>3. Copying' => CopyInv'
  BY DEF IInv, StopRecovery, Copying, CopyInv, CopiedJournal
<1> QED
  BY <1>1, <1>2, <1>3 DEF IInv

LEMMA RecoverRootKeeps ==
  ASSUME IInv, NEW r \in Root, RecoverRoot(r), InTurn'
  PROVE  IInv'
<1>1. TypeOK'
  BY DEF IInv, RecoverRoot, RecoveryRefuses, Moved, Transition, MayTransition,
     Transitions, TypeOK, JournalRecord, State, RecoveryStep
<1>2. Renaming' => RenameInv'
  BY TreesAreTold DEF IInv, RecoverRoot, Moved, AtNewOnly, Exists, Renaming, TypeOK,
     Tree, RenameInv, RenamedPlaces, AtOld, AtNew
<1>3. Copying' => CopyInv'
  BY DEF IInv, RecoverRoot, Copying, CopyInv, CopiedJournal
<1> QED
  BY <1>1, <1>2, <1>3 DEF IInv

-----------------------------------------------------------------------------
LEMMA InitIInv == Init => IInv
<1> SUFFICES ASSUME Init PROVE IInv
  OBVIOUS
<1>1. PICK occupied \in SUBSET Root :
        tree = [t \in Tree |-> [old |-> 0, new |-> IF t \in occupied THEN Foreign ELSE None]]
  BY DEF Init
<1>2. 0 \in Version \ {None, Foreign, Half}
  BY RuntimeIsNoRoot, TreesAreTold DEF Version
<1>3. TypeOK
  BY <1>1, <1>2, NoneAssumption DEF Init, TypeOK, ExecStep, RecoveryStep
<1>4. ASSUME NEW t \in Tree
      PROVE  AtOld(t) \/ Occupied(t)
  BY <1>1, RuntimeIsNoRoot DEF Init, AtOld, Occupied, Tree
<1>5. AtOld(Runtime)
  BY <1>1, RuntimeIsNoRoot DEF Init, AtOld, Tree
<1>6. Renaming => RenameInv
  BY <1>2, <1>4, <1>5, NoneAssumption, TreesAreTold
     DEF Init, RenameInv, RenamedPlaces, RenamedJournal, RenamingForth, RenamingBack, Recovering,
         InFlight, InState, Untouched, AtOld, AtNew, At, Tree
<1>7. Copying => CopyInv
  BY <1>1, <1>2, TreesAreTold
     DEF Init, CopyInv, CopiedPlaces, CopiedJournal, CopyingForth, Intact, Preparing,
         Replacing, InState, At
<1> QED
  BY <1>3, <1>6, <1>7 DEF IInv

LEMMA ExecutorKeeps ==
  ASSUME IInv, ExecutorStep, InTurn'
  PROVE  IInv'
<1>1. CASE \E t \in Tree : \/ MoveTree(t) \/ UndoMove(t) \/ CopyPart(t) \/ CopyRest(t)
                           \/ RemovePart(t) \/ RemoveRest(t) \/ UndoCopy(t)
  BY <1>1, MoveTreeKeeps, UndoMoveKeeps, CopyPartKeeps, CopyRestKeeps, RemovePartKeeps,
     RemoveRestKeeps, UndoCopyKeeps
<1>2. CASE \/ WriteBackup \/ WriteProfile \/ Switch \/ Commit \/ ClearBackup \/ ClearJournal
           \/ NameBackup \/ EnterExecuting \/ CheckMoved \/ EndUndoMove \/ UndoProfile
  BY <1>2, WriteBackupKeeps, WriteProfileKeeps, SwitchKeeps, CommitKeeps, ClearBackupKeeps,
     ClearJournalKeeps, NameBackupKeeps, EnterExecutingKeeps, CheckMovedKeeps,
     EndUndoMoveKeeps, UndoProfileKeeps
<1>3. CASE \/ EnterCopying \/ EnterVerified \/ Validate \/ EndUndoCopy
           \/ Raise \/ UndoState \/ UndoBackup \/ Stop
  BY <1>3, EnterCopyingKeeps, EnterVerifiedKeeps, ValidateKeeps, EndUndoCopyKeeps,
     RaiseKeeps, UndoStateKeeps, UndoBackupKeeps, StopKeeps
<1> QED
  BY <1>1, <1>2, <1>3 DEF ExecutorStep

LEMMA RecoveryKeeps ==
  ASSUME IInv, RecoveryStepTaken, InTurn'
  PROVE  IInv'
  BY StartRecoveryKeeps, EndRecoverRootsKeeps, RecoverProfileKeeps, RecoverPlanKeeps,
     UnnameKeeps, RecoverBackupKeeps, RecoverJournalKeeps, StopRecoveryKeeps,
     RecoverRootKeeps DEF RecoveryStepTaken

LEMMA StutterKeeps ==
  ASSUME IInv, UNCHANGED vars
  PROVE  IInv'
<1>1. TypeOK'
  BY DEF IInv, TypeOK, vars
<1>2. Renaming' => RenameInv'
  BY DEF IInv, vars, Renaming, RenameInv, RenamedPlaces, RenamedJournal, RenamingForth,
         RenamingBack, Recovering, AtOld, AtNew, Occupied, AllAtOld, AllAtNew, Unmoved,
         Complete, Untouched, Parted, InFlight, InState, Backed, At
<1>3. Copying' => CopyInv'
  BY DEF IInv, vars, Copying, CopyInv, CopiedPlaces, CopiedJournal, CopyingForth, Intact,
         Copied, Swapped, Preparing, Replacing, InState, Backed, At
<1> QED
  BY <1>1, <1>2, <1>3 DEF IInv

LEMMA InductiveInvariant == SpecInTurn => []IInv
<1>1. IInv /\ [Next /\ InTurn']_vars => IInv'
  BY PrepareKeeps, ExecuteKeeps, ExecutorKeeps, RecoveryKeeps, WriteKeeps, StutterKeeps
     DEF Next
<1> QED
  BY <1>1, InitIInv, PTL DEF SpecInTurn

-----------------------------------------------------------------------------
(* The journal names what it inventoried, and only trees that are copied *)
(* across filesystems are ever verified.                                  *)
THEOREM TypeCorrect == SpecInTurn => []TypeOK
<1>1. IInv => TypeOK
  BY DEF IInv
<1> QED
  BY <1>1, InductiveInvariant, PTL

LEMMA PlacesOf ==
  ASSUME IInv
  PROVE  /\ Renaming \/ Copying
         /\ Renaming => RenameInv
         /\ Copying => CopyInv
         /\ written \in [Tree -> Version]
         /\ Runtime \in Tree
         /\ None \notin Version /\ Half \notin Version /\ Foreign \notin Version
  BY TreesAreTold DEF IInv, TypeOK, Strategy, Renaming, Copying, Tree

(* A migration that is done, planned or undone left everything at one place. *)
THEOREM JournalIsTrue == SpecInTurn => []JournalTellsThePlace
<1>1. ASSUME IInv PROVE JournalTellsThePlace
  <2>1. CASE Renaming
    BY <1>1, <2>1, PlacesOf
       DEF JournalTellsThePlace, AllAt, RenameInv, RenamedPlaces, RenamedJournal, InState,
           Untouched, Complete, AllAtNew, AtOld, AtNew, Occupied
  <2>2. CASE Copying
    BY <1>1, <2>2, PlacesOf
       DEF JournalTellsThePlace, AllAt, CopyInv, CopiedPlaces, CopiedJournal, InState,
           Preparing, Replacing, Intact, Swapped, Copied
  <2> QED
    BY <1>1, <2>1, <2>2, PlacesOf
<1> QED
  BY <1>1, InductiveInvariant, PTL

(* No tree is lost, and no write to one but those that come too late. *)
THEOREM NoWriteIsLost == SpecInTurn => []WritesSurvive
<1>1. ASSUME IInv PROVE WritesSurvive
  <2>1. CASE Renaming
    BY <1>1, <2>1, PlacesOf
       DEF WritesSurvive, Survives, RenameInv, RenamedPlaces, AtOld, AtNew, Occupied
  <2>2. CASE Copying
    BY <1>1, <2>2, PlacesOf
       DEF WritesSurvive, Survives, Committed, CopyInv, CopiedPlaces, CopiedJournal, InState,
           Preparing, Replacing, Intact, Swapped, Copied
  <2> QED
    BY <1>1, <2>1, <2>2, PlacesOf
<1> QED
  BY <1>1, InductiveInvariant, PTL

(* Until a migration is complete there is an old profile to go back to. *)
THEOREM ThereIsAWayBack == SpecInTurn => []OldProfileIsKept
<1>1. ASSUME IInv PROVE OldProfileIsKept
  <2>1. CASE Renaming
    BY <1>1, <2>1, PlacesOf, NoneAssumption
       DEF OldProfileIsKept, AllAt, Committed, IInv, TypeOK, JournalRecord, State, Transitions,
           RenameInv, RenamedPlaces, RenamedJournal, InState, InFlight, Backed,
           Untouched, Complete, AllAtNew, AtOld, AtNew, Occupied
  <2>2. CASE Copying
    BY <1>1, <2>2, PlacesOf
       DEF OldProfileIsKept, AllAt, Committed, CopyInv, CopiedPlaces, CopiedJournal, InState,
           Backed, Preparing, Replacing, Intact, Swapped, Copied
  <2> QED
    BY <1>1, <2>1, <2>2, PlacesOf
<1> QED
  BY <1>1, InductiveInvariant, PTL

-----------------------------------------------------------------------------
(* The consoles. *)

(* What the processes and the store are made of. *)
IsCall(c) ==
    c = [pc |-> c.pc, draft |-> c.draft, todo |-> c.todo, rows |-> c.rows, row |-> c.row,
         snapshot |-> c.snapshot, status |-> c.status]
IsStore(st) ==
    st = [rows |-> st.rows, start |-> st.start, completion |-> st.completion,
          gate |-> st.gate, gate_policy |-> st.gate_policy, records |-> st.records]

(* Every file holds its declared content, or is not there. *)
IsContent(f, entry) ==
    /\ f = "agent_profiles" => entry \in {Absent, Host}
    /\ f = "capabilities" => entry \in {Absent} \union SUBSET Contract
    /\ f = "policies" => entry \in {Absent} \union SUBSET (Runner \union Runners(Contract))
    /\ f = "gates" => entry \in {Absent} \union SUBSET Ids(Contract)
    /\ f = "project" => entry \in {Absent} \union ProjectFile
FilesTyped == files = [f \in File |-> files[f]] /\ \A f \in File : IsContent(f, files[f])

(* What a preview was computed from and shows. *)
IsPreview(d, st) ==
    \/ d.kind = "policy" /\ d.content \in SUBSET Runner
    \/ d.kind = "capability" /\ d.base \in SUBSET Contract /\ d.content \in Draft
    \/ /\ d.kind \in {"resume", "taxonomy"} /\ d.base \in ProjectFile /\ d.content \in ProjectFile
       /\ d.content.project = d.base.project
       /\ d.kind = "resume" => d.content.types = d.base.types
    \/ d.kind = "repair" /\ d.base \in SUBSET REPAIRABLE_FILES /\ d.content \in Project
    \/ /\ d.kind = "work_graph"
       /\ d.content[1] \in {Absent} \union Mode /\ d.content[2] \in {Absent} \union Mode
    \/ d.kind = "gate_structure" /\ d.content \in SUBSET Evidence
    \/ d.kind = "gate_policy" /\ d.content \in 1..Cardinality(Evidence) /\ st.gate # Absent
PreviewsTyped ==
    /\ previews = [p \in Process |-> previews[p]]
    /\ \A p \in Process : \A d \in previews[p] : IsPreview(d, store)

StoreTyped ==
    /\ IsStore(store)
    /\ \A r \in store.rows : r.table \in {"capability", "contract", "policy", "validator"}
    /\ \A r, s \in store.rows : (r.table = s.table /\ r.key = s.key) => r = s
    /\ \A r \in store.rows : r.table \in {"contract", "policy"} =>
           \E s \in store.rows : s.table = "capability" /\ s.key = r.key
    /\ store.start \in {Absent} \union Mode /\ store.completion \in {Absent} \union Mode
    /\ store.gate \in {Absent} \union SUBSET Evidence
    /\ store.gate_policy # Absent =>
           store.gate # Absent /\ store.gate_policy \in 1..Cardinality(store.gate)
    /\ store.records \subseteq Type
    /\ store.records # {} => files["project"] # Absent

(* A synchronisation: what it still has to look for, what it is about to       *)
(* insert, and what is on record.                                             *)
Among(r, rows) == \E s \in rows : s.table = r.table /\ s.key = r.key
Covered(c, rows) ==
    /\ c.rows \subseteq DeclaredRows(c.snapshot)
    /\ c.pc = "inserting" => /\ c.row \in DeclaredRows(c.snapshot)
                             /\ \A s \in c.rows : ~Before(s, c.row)
    /\ \A r \in DeclaredRows(c.snapshot) :
           r \in c.rows \/ Among(r, rows) \/ (c.pc = "inserting" /\ r = c.row)

(* What a process is at, with the previews it keeps, and what it answered. *)
Applying(c, kept) ==
    /\ c.pc \in {"repairing", "writing", "reloading", "starting", "completing", "declaring"}
    /\ c.draft \in kept
    /\ c.pc = "repairing" => c.draft.kind = "repair" /\ c.todo \in SUBSET REPAIRABLE_FILES
    /\ c.pc \in {"writing", "reloading"} =>
           c.draft.kind \in {"policy", "capability", "resume", "taxonomy"}
    /\ c.pc \in {"starting", "completing"} => c.draft.kind = "work_graph"
    /\ c.pc = "declaring" => c.draft.kind \in {"gate_structure", "gate_policy"}
IsAt(c, kept, st, held) ==
    /\ \/ c.pc = "idle" \/ Applying(c, kept)
       \/ c.pc = "initialising" /\ c.draft \in Project /\ c.todo \in SUBSET File
       \/ c.pc \in {"syncing", "inserting"} /\ Covered(c, st.rows)
       \/ c.pc = "appending" /\ c.row \in Type /\ held # Absent
    /\ c.pc = "completing" => c.draft.content[1] \in {Absent, st.start}
Answered(c, st) ==
    /\ c.status = "SYNCED" => \A r \in DeclaredRows(c.snapshot) : Among(r, st.rows)
    /\ (c.status = "APPLIED" /\ c.draft.kind = "work_graph") =>
           /\ c.draft.content[1] \in {Absent, st.start}
           /\ c.draft.content[2] \in {Absent, st.completion}
CallsTyped ==
    /\ proc = [p \in Process |-> proc[p]]
    /\ \A p \in Process : /\ IsCall(proc[p]) /\ Answered(proc[p], store)
                          /\ IsAt(proc[p], previews[p], store, files["project"])

SetupTyped == FilesTyped /\ PreviewsTyped /\ StoreTyped /\ CallsTyped

(* What the history excludes: others at work beside a founder, or beside anyone. *)
Alone ==
    /\ "initialisation" \in excuse => "overlap" \in excuse
    /\ "initialisation" \notin excuse => \A p, q \in Process : Founding(p) /\ Busy(q) => p = q
    /\ "overlap" \notin excuse => \A p, q \in Process : Busy(p) /\ Busy(q) => p = q

(* Whoever founds or restores the files knows them. *)
Knows(c, fs) ==
    /\ c.pc = "initialising" => \A f \in File :
           fs[f] = IF f \in c.todo THEN Absent ELSE Reference(c.draft)[f]
    /\ c.pc = "repairing" => fs["project"] # Absent /\ fs["project"].project = c.draft.content
FoundersKnow == "initialisation" \notin excuse => \A p \in Process : Knows(proc[p], files)

(* The profile is of one project for ever: no preview proposes another. *)
OfProject(d, fs) ==
    d.kind \in {"resume", "taxonomy"} =>
        fs["project"] # Absent /\ d.content.project = fs["project"].project
SameProject ==
    "initialisation" \notin excuse =>
        \A p \in Process : \A d \in previews[p] : OfProject(d, files)

(* Nobody else is at work: what a process has read still holds. *)
Agrees(d, fs, records) ==
    /\ d.kind = "policy" => fs["policies"] = d.base /\ RunnersAllowed(fs["capabilities"], d.content)
    /\ d.kind = "capability" =>
           fs["capabilities"] = d.base /\ RunnersAllowed(d.base \union {d.content}, fs["policies"])
    /\ d.kind \in {"resume", "taxonomy"} => fs["project"] = d.base
    /\ d.kind = "taxonomy" => (d.base.types \ d.content.types) \intersect records = {}
Holds(c, fs, records) ==
    /\ c.pc = "writing" => Agrees(c.draft, fs, records)
    /\ c.pc = "appending" => c.row \in fs["project"].types
(* The records that were counted: none once an edit was applied without a count. *)
Counted == IF "uncounted" \in excuse THEN {} ELSE store.records
NothingStale ==
    "overlap" \notin excuse =>
        /\ \A p \in Process : Holds(proc[p], files, Counted)
        /\ files["project"] # Absent => Counted \subseteq files["project"].types

(* An editor of the catalogs has all of them before it. *)
HasAll(c, fs) ==
    (c.pc \in {"writing", "reloading"} /\ c.draft.kind \in {"policy", "capability"}) =>
        \A f \in File \ {"playbook"} : fs[f] # Absent
EditorsHaveAll == "initialisation" \notin excuse => \A p \in Process : HasAll(proc[p], files)

(* The catalogs with what a repair would restore. Each of them stays sound     *)
(* and declares what its template does.                                       *)
Restored(f, fs) == IF fs[f] = Absent THEN Reference(fs["project"].project)[f] ELSE fs[f]
NothingLost == "initialisation" \notin excuse /\ "lost" \notin excuse
EachSound(fs) ==
    fs["project"] # Absent =>
        /\ SoundCapabilities(Restored("capabilities", fs))
        /\ Template[fs["project"].project] \subseteq Restored("capabilities", fs)
        /\ Restored("gates", fs) = Ids(Template[fs["project"].project])
StaysSound(d, fs) ==
    d.kind = "capability" =>
        /\ fs["project"] # Absent /\ Template[fs["project"].project] \subseteq d.base
        /\ SoundCapabilities(d.base \union {d.content})
CatalogsAreSound ==
    NothingLost => /\ EachSound(files)
                   /\ \A p \in Process : \A d \in previews[p] : StaysSound(d, files)

(* Two catalogs that disagree are told of, or will be. *)
AgreeTogether(fs) == RunnersAllowed(Restored("capabilities", fs), Restored("policies", fs))
Reloading(c) == c.pc = "reloading" /\ c.draft.kind \in {"policy", "capability"}
DisagreementIsTold ==
    (NothingLost /\ ~({"killed", "overlap"} \subseteq excuse) /\ files["project"] # Absent) =>
        \/ AgreeTogether(files) \/ told
        \/ "overlap" \in excuse /\ \E p \in Process : Reloading(proc[p])

Informed ==
    /\ Alone /\ FoundersKnow /\ SameProject /\ NothingStale
    /\ EditorsHaveAll /\ CatalogsAreSound /\ DisagreementIsTold
SetupIInv == SetupTyped /\ Informed

-----------------------------------------------------------------------------
(* The data. *)

LEMMA ReferenceIs ==
    ASSUME NEW pr \in Project
    PROVE  /\ Reference(pr)["agent_profiles"] = Host
           /\ Reference(pr)["capabilities"] = Template[pr]
           /\ Reference(pr)["gates"] = Ids(Template[pr])
           /\ Reference(pr)["playbook"] = pr
           /\ Reference(pr)["policies"] = Runners(Template[pr])
           /\ Reference(pr)["project"] \in ProjectFile
           /\ Reference(pr)["project"].project = pr
  <1>1. Reference(pr)["project"] = [project |-> pr, types |-> DomainTypes[pr], enabled |-> {}]
    BY DEF Reference, File
  <1>2. DomainTypes[pr] \in SUBSET Type BY DEF Type
  <1>3. Reference(pr)["project"] \in ProjectFile BY <1>1, <1>2 DEF ProjectFile
  <1>4. Reference(pr)["project"].project = pr BY <1>1
  <1> QED BY <1>3, <1>4 DEF Reference, File

LEMMA ReferenceTyped ==
    ASSUME NEW pr \in Project
    PROVE  /\ Template[pr] \in SUBSET Contract
           /\ Ids(Template[pr]) \in SUBSET Ids(Contract)
           /\ Runners(Template[pr]) \in SUBSET (Runner \union Runners(Contract))
           /\ \A f \in File : Reference(pr)[f] # Absent
  <1>1. Template[pr] \in SUBSET Contract BY DEF Contract
  <1>2. Ids(Template[pr]) \in SUBSET Ids(Contract) BY <1>1 DEF Ids
  <1>3. Runners(Template[pr]) \in SUBSET (Runner \union Runners(Contract)) BY <1>1 DEF Runners
  <1>4. ASSUME NEW f \in File PROVE Reference(pr)[f] # Absent
    BY <1>1, <1>2, <1>3, ReferenceIs, AbsentAssumption DEF File
  <1> QED BY <1>1, <1>2, <1>3, <1>4

(* The shapes a process takes. *)
LEMMA IdleIs == IsCall(Idle) /\ Idle.pc = "idle" /\ Idle.status = "NONE" /\ Idle.todo = {}
                /\ Idle.rows = {}
  BY DEF Idle, IsCall

Begun(pc, draft, todo) == [Idle EXCEPT !.pc = pc, !.draft = draft, !.todo = todo]
Syncing(pc, snapshot, rows) == [Idle EXCEPT !.pc = pc, !.snapshot = snapshot, !.rows = rows]
Resolving(pc, row) == [Idle EXCEPT !.pc = pc, !.row = row]
Ended(status, draft, snapshot) == [Idle EXCEPT !.status = status, !.draft = draft, !.snapshot = snapshot]
Stale(status, draft) == [Idle EXCEPT !.status = status, !.draft = draft]

LEMMA BeginsAs ==
    ASSUME NEW pc, NEW draft, NEW todo, NEW c, c = Begun(pc, draft, todo)
    PROVE  IsCall(c) /\ c.pc = pc /\ c.status = "NONE" /\ c.draft = draft /\ c.todo = todo
  BY DEF Begun, Idle, IsCall

LEMMA SyncsAs ==
    ASSUME NEW pc, NEW snapshot, NEW rows, NEW c, c = Syncing(pc, snapshot, rows)
    PROVE  IsCall(c) /\ c.pc = pc /\ c.status = "NONE" /\ c.snapshot = snapshot /\ c.rows = rows
  BY DEF Syncing, Idle, IsCall

LEMMA ResolvesAs ==
    ASSUME NEW pc, NEW row, NEW c, c = Resolving(pc, row)
    PROVE  IsCall(c) /\ c.pc = pc /\ c.status = "NONE" /\ c.row = row
  BY DEF Resolving, Idle, IsCall

LEMMA EndsAs ==
    ASSUME NEW status, NEW draft, NEW snapshot, NEW c, c = Ended(status, draft, snapshot)
    PROVE  IsCall(c) /\ c.pc = "idle" /\ c.status = status /\ c.draft = draft /\ c.snapshot = snapshot
  BY DEF Ended, Idle, IsCall

LEMMA StaleAs ==
    ASSUME NEW status, NEW draft, NEW c, c = Stale(status, draft)
    PROVE  IsCall(c) /\ c.pc = "idle" /\ c.status = status /\ c.draft = draft
  BY DEF Stale, Idle, IsCall

Turned(was, pc) == [was EXCEPT !.pc = pc]
Shortened(was, todo) == [was EXCEPT !.todo = todo]
Looked(was, rows) == [was EXCEPT !.rows = rows]
Taken(was, row) == [was EXCEPT !.row = row]
GoneOn(was, pc, row) == [was EXCEPT !.pc = pc, !.row = row]
LookedFor(was, rows, pc, row) == [was EXCEPT !.rows = rows, !.pc = pc, !.row = row]

(* All but one of its parts stay. *)
OnlyPc(was, c) ==
    /\ IsCall(c) /\ c.draft = was.draft /\ c.todo = was.todo /\ c.rows = was.rows /\ c.row = was.row
    /\ c.snapshot = was.snapshot /\ c.status = was.status
OnlyTodo(was, c) ==
    /\ IsCall(c) /\ c.pc = was.pc /\ c.draft = was.draft /\ c.rows = was.rows /\ c.row = was.row
    /\ c.snapshot = was.snapshot /\ c.status = was.status
OnlySync(was, c) ==
    /\ IsCall(c) /\ c.draft = was.draft /\ c.snapshot = was.snapshot /\ c.status = was.status

LEMMA TurnsTo ==
    ASSUME NEW was, IsCall(was), NEW pc
    PROVE  OnlyPc(was, Turned(was, pc)) /\ Turned(was, pc).pc = pc
  BY DEF IsCall, OnlyPc, Turned

LEMMA Shortens ==
    ASSUME NEW was, IsCall(was), NEW todo
    PROVE  OnlyTodo(was, Shortened(was, todo)) /\ Shortened(was, todo).todo = todo
  BY DEF IsCall, OnlyTodo, Shortened

LEMMA Looks ==
    ASSUME NEW was, IsCall(was), NEW rows
    PROVE  OnlySync(was, Looked(was, rows)) /\ Looked(was, rows).rows = rows
  BY DEF IsCall, OnlySync, Looked

LEMMA Takes ==
    ASSUME NEW was, IsCall(was), NEW row
    PROVE  /\ OnlySync(was, Taken(was, row)) /\ Taken(was, row).row = row
           /\ Taken(was, row).pc = was.pc /\ Taken(was, row).rows = was.rows
  BY DEF IsCall, OnlySync, Taken

LEMMA GoesOn ==
    ASSUME NEW was, IsCall(was), NEW pc, NEW row
    PROVE  /\ OnlySync(was, GoneOn(was, pc, row)) /\ GoneOn(was, pc, row).pc = pc
           /\ GoneOn(was, pc, row).row = row /\ GoneOn(was, pc, row).rows = was.rows
  <1>1. GoneOn(was, pc, row) = Taken(Turned(was, pc), row) BY DEF GoneOn, Taken, Turned
  <1>2. OnlyPc(was, Turned(was, pc)) /\ Turned(was, pc).pc = pc BY TurnsTo
  <1>3. /\ OnlySync(Turned(was, pc), Taken(Turned(was, pc), row))
        /\ Taken(Turned(was, pc), row).row = row /\ Taken(Turned(was, pc), row).pc = pc
        /\ Taken(Turned(was, pc), row).rows = was.rows
    BY <1>2, Takes DEF OnlyPc
  <1> QED BY <1>1, <1>2, <1>3 DEF OnlyPc, OnlySync

LEMMA LooksFor ==
    ASSUME NEW was, IsCall(was), NEW rows, NEW pc, NEW row
    PROVE  LET c == LookedFor(was, rows, pc, row)
           IN OnlySync(was, c) /\ c.pc = pc /\ c.rows = rows /\ c.row = row
  <1>1. LookedFor(was, rows, pc, row) = GoneOn(Looked(was, rows), pc, row)
    BY DEF LookedFor, Looked, GoneOn
  <1>2. OnlySync(was, Looked(was, rows)) /\ Looked(was, rows).rows = rows BY Looks
  <1>3. LET c == GoneOn(Looked(was, rows), pc, row)
        IN OnlySync(Looked(was, rows), c) /\ c.pc = pc /\ c.row = row /\ c.rows = rows
    BY <1>2, GoesOn DEF OnlySync
  <1> QED BY <1>1, <1>2, <1>3 DEF OnlySync

-----------------------------------------------------------------------------
(* What stays: rows and policies are never taken back, the profile never lost. *)

Grows(st, new) ==
    /\ st.rows \subseteq new.rows
    /\ st.start # Absent => new.start = st.start
    /\ st.completion # Absent => new.completion = st.completion
    /\ st.gate # Absent => new.gate # Absent
ProfileStays == files["project"] # Absent => files'["project"] # Absent
Moves(p, c) == proc' = [proc EXCEPT ![p] = c]

LEMMA CallStays ==
    ASSUME NEW c, NEW kept, NEW more, NEW st, NEW new, NEW held, NEW now,
           IsAt(c, kept, st, held), Answered(c, st),
           kept \subseteq more, Grows(st, new), held # Absent => now # Absent
    PROVE  IsAt(c, more, new, now) /\ Answered(c, new)
  <1>1. \A r : Among(r, st.rows) => Among(r, new.rows) BY DEF Among, Grows
  <1>2. Covered(c, st.rows) => Covered(c, new.rows) BY <1>1 DEF Covered
  <1>3. Applying(c, kept) => Applying(c, more) BY DEF Applying
  <1>4. \A v : v \in {Absent, st.start} => v \in {Absent, new.start} BY DEF Grows
  <1>5. \A v : v \in {Absent, st.completion} => v \in {Absent, new.completion} BY DEF Grows
  <1>6. IsAt(c, more, new, now) BY <1>2, <1>3, <1>4 DEF IsAt
  <1>7. Answered(c, new) BY <1>1, <1>4, <1>5 DEF Answered
  <1> QED BY <1>6, <1>7

(* One process moves and the others are left where they are. *)
LEMMA OneMoves ==
    ASSUME CallsTyped, NEW p \in Process, NEW c, Moves(p, c),
           Grows(store, store'), ProfileStays,
           \A q \in Process \ {p} : previews[q] \subseteq previews'[q],
           IsCall(c), IsAt(c, previews'[p], store', files'["project"]), Answered(c, store')
    PROVE  CallsTyped'
  <1>1. proc' = [q \in Process |-> proc'[q]] /\ proc'[p] = c
        /\ \A q \in Process \ {p} : proc'[q] = proc[q]
    BY DEF CallsTyped, Moves
  <1>2. ASSUME NEW q \in Process
        PROVE  IsCall(proc'[q]) /\ Answered(proc'[q], store')
               /\ IsAt(proc'[q], previews'[q], store', files'["project"])
    <2>1. CASE q = p BY <1>1, <2>1
    <2>2. CASE q # p
      <3>1. proc'[q] = proc[q] /\ IsCall(proc[q]) BY <1>1, <2>2 DEF CallsTyped
      <3>2. IsAt(proc[q], previews[q], store, files["project"]) /\ Answered(proc[q], store)
        BY DEF CallsTyped
      <3>3. IsAt(proc[q], previews'[q], store', files'["project"]) /\ Answered(proc[q], store')
        BY <2>2, <3>2, CallStays DEF ProfileStays
      <3> QED BY <3>1, <3>3
    <2> QED BY <2>1, <2>2
  <1> QED BY <1>1, <1>2 DEF CallsTyped

LEMMA NobodyMoves ==
    ASSUME CallsTyped, proc' = proc, Grows(store, store'), ProfileStays,
           \A q \in Process : previews[q] \subseteq previews'[q]
    PROVE  CallsTyped'
  <1>1. ASSUME NEW q \in Process
        PROVE  IsCall(proc'[q]) /\ Answered(proc'[q], store')
               /\ IsAt(proc'[q], previews'[q], store', files'["project"])
    <2>1. proc'[q] = proc[q] /\ IsCall(proc[q]) BY DEF CallsTyped
    <2>2. IsAt(proc[q], previews[q], store, files["project"]) /\ Answered(proc[q], store)
      BY DEF CallsTyped
    <2>3. IsAt(proc[q], previews'[q], store', files'["project"]) /\ Answered(proc[q], store')
      BY <2>2, CallStays DEF ProfileStays
    <2> QED BY <2>1, <2>3
  <1> QED BY <1>1 DEF CallsTyped

LEMMA StoreSame == store' = store => Grows(store, store')
  BY DEF Grows

LEMMA ProfileSame == files'["project"] = files["project"] => ProfileStays
  BY DEF ProfileStays

LEMMA FilesSame == FilesTyped /\ files' = files => FilesTyped'
  BY DEF FilesTyped

LEMMA FileWritten ==
    ASSUME FilesTyped, NEW f \in File, NEW entry, files' = [files EXCEPT ![f] = entry],
           IsContent(f, entry)
    PROVE  /\ FilesTyped' /\ files'[f] = entry
           /\ \A g \in File : g # f => files'[g] = files[g]
  <1>1. files' = [g \in File |-> files'[g]] /\ files'[f] = entry
        /\ \A g \in File : g # f => files'[g] = files[g]
    BY DEF FilesTyped
  <1>2. \A g \in File : IsContent(g, files'[g]) BY <1>1 DEF FilesTyped
  <1> QED BY <1>1, <1>2 DEF FilesTyped

LEMMA PreviewsKept ==
    ASSUME PreviewsTyped, NEW p \in Process, NEW kept, previews' = [previews EXCEPT ![p] = kept],
           Grows(store, store'), \A d \in kept \ previews[p] : IsPreview(d, store')
    PROVE  /\ PreviewsTyped' /\ previews'[p] = kept
           /\ \A q \in Process \ {p} : previews'[q] = previews[q]
  <1>1. previews' = [q \in Process |-> previews'[q]] /\ previews'[p] = kept
        /\ \A q \in Process \ {p} : previews'[q] = previews[q]
    BY DEF PreviewsTyped
  <1>2. \A d : IsPreview(d, store) => IsPreview(d, store') BY DEF IsPreview, Grows
  <1>3. \A q \in Process : \A d \in previews'[q] : IsPreview(d, store')
    BY <1>1, <1>2 DEF PreviewsTyped
  <1> QED BY <1>1, <1>3 DEF PreviewsTyped

LEMMA PreviewsSame ==
    ASSUME PreviewsTyped, previews' = previews, Grows(store, store')
    PROVE  PreviewsTyped'
  <1>1. \A d : IsPreview(d, store) => IsPreview(d, store') BY DEF IsPreview, Grows
  <1> QED BY <1>1 DEF PreviewsTyped

LEMMA StoreStays == StoreTyped /\ store' = store /\ ProfileStays => StoreTyped'
  BY DEF StoreTyped, ProfileStays

LEMMA EndMoves ==
    ASSUME CallsTyped, NEW p \in Process, NEW status, Ends(p, status),
           Grows(store, store'), ProfileStays,
           \A q \in Process \ {p} : previews[q] \subseteq previews'[q],
           status = "SYNCED" => \A r \in DeclaredRows(proc[p].snapshot) : Among(r, store'.rows),
           (status = "APPLIED" /\ proc[p].draft.kind = "work_graph") =>
               /\ proc[p].draft.content[1] \in {Absent, store'.start}
               /\ proc[p].draft.content[2] \in {Absent, store'.completion}
    PROVE  CallsTyped'
  <1> DEFINE c == Ended(status, proc[p].draft, proc[p].snapshot)
  <1>1. Moves(p, c) BY DEF Moves, Ends, Ended
  <1>2. /\ IsCall(c) /\ c.pc = "idle" /\ c.status = status /\ c.draft = proc[p].draft
        /\ c.snapshot = proc[p].snapshot
    BY EndsAs
  <1> HIDE DEF c
  <1>3. IsAt(c, previews'[p], store', files'["project"]) BY <1>2 DEF IsAt
  <1>4. Answered(c, store') BY <1>2 DEF Answered
  <1> QED BY <1>1, <1>2, <1>3, <1>4, OneMoves

LEMMA AppliedMoves ==
    ASSUME CallsTyped, PreviewsTyped, NEW p \in Process, Applied(p),
           Grows(store, store'), ProfileStays,
           proc[p].draft.kind = "work_graph" =>
               /\ proc[p].draft.content[1] \in {Absent, store'.start}
               /\ proc[p].draft.content[2] \in {Absent, store'.completion}
    PROVE  CallsTyped' /\ PreviewsTyped'
  <1>1. /\ Ends(p, "APPLIED")
        /\ previews' = [previews EXCEPT ![p] = previews[p] \ {proc[p].draft}]
    BY DEF Applied
  <1>2. PreviewsTyped' /\ \A q \in Process \ {p} : previews'[q] = previews[q]
    BY <1>1, PreviewsKept
  <1> QED BY <1>1, <1>2, EndMoves

LEMMA RefusedMoves ==
    ASSUME CallsTyped, PreviewsTyped, NEW p \in Process, Refused(p),
           Grows(store, store'), ProfileStays
    PROVE  CallsTyped' /\ PreviewsTyped'
  BY EndMoves, PreviewsSame DEF Refused

(* One field of the store is written. *)
WithRows(st, v) == [st EXCEPT !.rows = v]
WithStart(st, v) == [st EXCEPT !.start = v]
WithCompletion(st, v) == [st EXCEPT !.completion = v]
WithGate(st, v) == [st EXCEPT !.gate = v]
WithGatePolicy(st, v) == [st EXCEPT !.gate_policy = v]
WithRecords(st, v) == [st EXCEPT !.records = v]

LEMMA StoreWritten ==
    ASSUME NEW st, IsStore(st), NEW v
    PROVE  /\ LET new == WithRows(st, v)
              IN /\ IsStore(new) /\ new.rows = v /\ new.start = st.start /\ new.gate = st.gate
                 /\ new.completion = st.completion /\ new.gate_policy = st.gate_policy
                 /\ new.records = st.records
           /\ LET new == WithStart(st, v)
              IN /\ IsStore(new) /\ new.rows = st.rows /\ new.start = v /\ new.gate = st.gate
                 /\ new.completion = st.completion /\ new.gate_policy = st.gate_policy
                 /\ new.records = st.records
           /\ LET new == WithCompletion(st, v)
              IN /\ IsStore(new) /\ new.rows = st.rows /\ new.start = st.start /\ new.gate = st.gate
                 /\ new.completion = v /\ new.gate_policy = st.gate_policy
                 /\ new.records = st.records
           /\ LET new == WithGate(st, v)
              IN /\ IsStore(new) /\ new.rows = st.rows /\ new.start = st.start /\ new.gate = v
                 /\ new.completion = st.completion /\ new.gate_policy = st.gate_policy
                 /\ new.records = st.records
           /\ LET new == WithGatePolicy(st, v)
              IN /\ IsStore(new) /\ new.rows = st.rows /\ new.start = st.start /\ new.gate = st.gate
                 /\ new.completion = st.completion /\ new.gate_policy = v
                 /\ new.records = st.records
           /\ LET new == WithRecords(st, v)
              IN /\ IsStore(new) /\ new.rows = st.rows /\ new.start = st.start /\ new.gate = st.gate
                 /\ new.completion = st.completion /\ new.gate_policy = st.gate_policy
                 /\ new.records = v
  BY DEF IsStore, WithRows, WithStart, WithCompletion, WithGate, WithGatePolicy, WithRecords

(* Previews. *)
LEMMA KeepTyped ==
    ASSUME SetupTyped, NEW p \in Process, NEW kind, NEW base, NEW content,
           Keep(p, kind, base, content),
           IsPreview([kind |-> kind, base |-> base, content |-> content], store)
    PROVE  SetupTyped'
  <1> DEFINE d == [kind |-> kind, base |-> base, content |-> content]
  <1>1. /\ previews' = [previews EXCEPT ![p] = previews[p] \union {d}]
        /\ files' = files /\ store' = store /\ proc' = proc
    BY DEF Keep
  <1>2. Grows(store, store') /\ ProfileStays BY <1>1, StoreSame, ProfileSame
  <1>3. \A e \in (previews[p] \union {d}) \ previews[p] : IsPreview(e, store') BY <1>1
  <1>4. /\ PreviewsTyped' /\ previews'[p] = previews[p] \union {d}
        /\ \A q \in Process \ {p} : previews'[q] = previews[q]
    BY <1>1, <1>2, <1>3, PreviewsKept DEF SetupTyped
  <1>5. CallsTyped' BY <1>1, <1>2, <1>4, NobodyMoves DEF SetupTyped
  <1> QED BY <1>1, <1>2, <1>4, <1>5, StoreStays, FilesSame DEF SetupTyped

LEMMA ApplyTyped ==
    ASSUME SetupTyped, NEW p \in Process, NEW d \in previews[p], NEW kind, NEW pc, NEW agrees,
           NEW noted, ApplyNoting(p, d, kind, pc, agrees, noted),
           \/ kind = "repair" /\ pc = "repairing"
           \/ kind \in {"policy", "capability", "resume", "taxonomy"} /\ pc = "writing"
           \/ kind = "work_graph" /\ pc = "starting"
           \/ kind \in {"gate_structure", "gate_policy"} /\ pc = "declaring"
    PROVE  SetupTyped'
  <1> DEFINE todo == IF kind = "repair" THEN d.base ELSE {}
             begun == Begun(pc, d, todo)
             refused == Stale("STALE", d)
  <1>1. /\ files' = files /\ store' = store /\ previews' = previews /\ d.kind = kind
        /\ Moves(p, begun) \/ Moves(p, refused)
    BY DEF ApplyNoting, Moves, Begun, Stale
  <1>2. Grows(store, store') /\ ProfileStays BY <1>1, StoreSame, ProfileSame
  <1>3. IsPreview(d, store) BY DEF SetupTyped, PreviewsTyped
  <1>4. /\ IsCall(begun) /\ begun.pc = pc /\ begun.draft = d /\ begun.todo = todo
        /\ begun.status = "NONE"
    BY BeginsAs
  <1>5. IsCall(refused) /\ refused.pc = "idle" /\ refused.status = "STALE" BY StaleAs
  <1>6. kind = "repair" => todo \in SUBSET REPAIRABLE_FILES BY <1>1, <1>3 DEF IsPreview
  <1> HIDE DEF begun, refused, todo
  <1>7. Applying(begun, previews'[p]) BY <1>1, <1>4, <1>6 DEF Applying
  <1>8. /\ IsAt(begun, previews'[p], store', files'["project"]) /\ Answered(begun, store')
        /\ IsAt(refused, previews'[p], store', files'["project"]) /\ Answered(refused, store')
    BY <1>4, <1>5, <1>7 DEF IsAt, Answered
  <1>9. CallsTyped' BY <1>1, <1>2, <1>4, <1>5, <1>8, OneMoves DEF SetupTyped
  <1> QED BY <1>1, <1>2, <1>9, StoreStays, FilesSame, PreviewsSame DEF SetupTyped

(* The initialisation and the repair. *)
LEMMA ReferenceContent ==
    ASSUME NEW pr \in Project, NEW f \in File
    PROVE  IsContent(f, Reference(pr)[f])
  BY ReferenceIs, ReferenceTyped DEF IsContent

LEMMA StartInitializationTyped ==
    ASSUME SetupTyped, NEW p \in Process, NEW pr \in Project, StartInitialization(p, pr)
    PROVE  SetupTyped'
  <1> DEFINE todo == {f \in File : files[f] = Absent}
             c == Begun("initialising", pr, todo)
  <1>1. Moves(p, c) /\ files' = files /\ store' = store /\ previews' = previews
    BY DEF StartInitialization, Moves, Begun
  <1>2. /\ IsCall(c) /\ c.pc = "initialising" /\ c.draft = pr /\ c.todo = todo
        /\ c.status = "NONE" /\ todo \in SUBSET File
    BY BeginsAs
  <1> HIDE DEF c, todo
  <1>3. Grows(store, store') /\ ProfileStays BY <1>1, StoreSame, ProfileSame
  <1>4. IsAt(c, previews'[p], store', files'["project"]) /\ Answered(c, store')
    BY <1>2 DEF IsAt, Answered
  <1>5. CallsTyped' BY <1>1, <1>2, <1>3, <1>4, OneMoves DEF SetupTyped
  <1> QED BY <1>1, <1>3, <1>5, StoreStays, FilesSame, PreviewsSame DEF SetupTyped

LEMMA WriteInitialFileTyped ==
    ASSUME SetupTyped, NEW p \in Process, NEW f \in File, WriteInitialFile(p, f)
    PROVE  SetupTyped'
  <1> DEFINE c == Shortened(proc[p], proc[p].todo \ {f})
  <1>1. /\ proc[p].pc = "initialising" /\ store' = store /\ previews' = previews
        /\ files' = [files EXCEPT ![f] = Reference(proc[p].draft)[f]]
        /\ Ends(p, "INITIALIZED") \/ Moves(p, c)
    BY DEF WriteInitialFile, Moves, Shortened
  <1>2. /\ IsCall(proc[p]) /\ IsAt(proc[p], previews[p], store, files["project"])
        /\ Answered(proc[p], store)
    BY DEF SetupTyped, CallsTyped
  <1>3. proc[p].draft \in Project /\ proc[p].todo \in SUBSET File
    BY <1>1, <1>2 DEF IsAt, Applying
  <1>4. FilesTyped' /\ files'[f] # Absent /\ \A g \in File : g # f => files'[g] = files[g]
    <2> DEFINE entry == Reference(proc[p].draft)[f]
    <2>1. IsContent(f, entry) /\ entry # Absent BY <1>3, ReferenceContent, ReferenceTyped
    <2>2. files' = [files EXCEPT ![f] = entry] BY <1>1
    <2> HIDE DEF entry
    <2> QED BY <2>1, <2>2, FileWritten DEF SetupTyped
  <1>5. Grows(store, store') /\ ProfileStays
    BY <1>1, <1>4, StoreSame DEF ProfileStays, File
  <1>6. OnlyTodo(proc[p], c) /\ c.todo = proc[p].todo \ {f} BY <1>2, Shortens
  <1> HIDE DEF c
  <1>7. IsAt(c, previews'[p], store', files'["project"]) /\ Answered(c, store')
    BY <1>1, <1>2, <1>3, <1>6 DEF IsAt, Answered, OnlyTodo
  <1>8. Moves(p, c) => CallsTyped'
    BY <1>1, <1>5, <1>6, <1>7, OneMoves DEF SetupTyped, OnlyTodo
  <1>9. Ends(p, "INITIALIZED") => CallsTyped' BY <1>1, <1>5, EndMoves DEF SetupTyped
  <1> QED BY <1>1, <1>4, <1>5, <1>8, <1>9, StoreStays, PreviewsSame DEF SetupTyped

LEMMA AppliedPreview ==
    ASSUME SetupTyped, NEW p \in Process,
           proc[p].pc \in {"repairing", "writing", "reloading", "starting", "completing", "declaring"}
    PROVE  /\ Applying(proc[p], previews[p]) /\ proc[p].draft \in previews[p]
           /\ IsPreview(proc[p].draft, store) /\ IsCall(proc[p]) /\ Answered(proc[p], store)
           /\ proc[p].pc = "completing" => proc[p].draft.content[1] \in {Absent, store.start}
  <1>1. IsCall(proc[p]) /\ Answered(proc[p], store) /\ IsAt(proc[p], previews[p], store, files["project"])
    BY DEF SetupTyped, CallsTyped
  <1>2. Applying(proc[p], previews[p]) BY <1>1 DEF IsAt
  <1>3. proc[p].draft \in previews[p] BY <1>2 DEF Applying
  <1>4. IsPreview(proc[p].draft, store) BY <1>3 DEF SetupTyped, PreviewsTyped
  <1> QED BY <1>1, <1>2, <1>3, <1>4 DEF IsAt

LEMMA RestoreFileTyped ==
    ASSUME SetupTyped, NEW p \in Process, NEW f \in File, RestoreFile(p, f)
    PROVE  SetupTyped'
  <1> DEFINE c == Shortened(proc[p], proc[p].todo \ {f})
  <1>1. /\ proc[p].pc = "repairing" /\ store' = store /\ f \in proc[p].todo
        /\ \/ Refused(p) /\ files' = files
           \/ /\ files' = [files EXCEPT ![f] = Reference(proc[p].draft.content)[f]]
              /\ Applied(p) \/ (Moves(p, c) /\ previews' = previews)
    BY DEF RestoreFile, First, Moves, Shortened
  <1>2. /\ IsCall(proc[p]) /\ Answered(proc[p], store) /\ Applying(proc[p], previews[p])
        /\ proc[p].draft.kind = "repair" /\ proc[p].todo \in SUBSET REPAIRABLE_FILES
        /\ IsPreview(proc[p].draft, store)
    BY <1>1, AppliedPreview DEF Applying
  <1>3. proc[p].draft.content \in Project /\ f # "project"
    BY <1>1, <1>2 DEF IsPreview, REPAIRABLE_FILES
  <1>4. Grows(store, store') BY <1>1, StoreSame
  <1>5. CASE Refused(p) /\ files' = files
    <2>1. ProfileStays /\ FilesTyped' BY <1>5, ProfileSame, FilesSame DEF SetupTyped
    <2> QED BY <1>1, <1>4, <1>5, <2>1, RefusedMoves, StoreStays DEF SetupTyped
  <1>6. CASE /\ files' = [files EXCEPT ![f] = Reference(proc[p].draft.content)[f]]
             /\ Applied(p) \/ (Moves(p, c) /\ previews' = previews)
    <2>1. FilesTyped' /\ files'["project"] = files["project"]
      BY <1>3, <1>6, ReferenceContent, FileWritten DEF SetupTyped, File
    <2>2. ProfileStays BY <2>1, ProfileSame
    <2>3. OnlyTodo(proc[p], c) /\ c.todo = proc[p].todo \ {f} BY <1>2, Shortens
    <2> HIDE DEF c
    <2>4. previews' = previews =>
              IsAt(c, previews'[p], store', files'["project"]) /\ Answered(c, store')
      BY <1>1, <1>2, <2>3 DEF IsAt, Answered, OnlyTodo, Applying
    <2>5. Moves(p, c) /\ previews' = previews => CallsTyped' /\ PreviewsTyped'
      BY <1>1, <1>4, <2>2, <2>3, <2>4, OneMoves, PreviewsSame DEF SetupTyped, OnlyTodo
    <2>6. Applied(p) => CallsTyped' /\ PreviewsTyped'
      BY <1>2, <1>4, <2>2, AppliedMoves DEF SetupTyped
    <2> QED BY <1>1, <1>6, <2>1, <2>2, <2>5, <2>6, StoreStays DEF SetupTyped
  <1> QED BY <1>1, <1>5, <1>6

(* The editors. *)
LEMMA WritesTyped ==
    ASSUME SetupTyped, NEW p \in Process, NEW kind, NEW f \in File, NEW entry,
           Writes(p, kind, f, entry), IsContent(f, entry), f = "project" => entry # Absent
    PROVE  SetupTyped'
  <1> DEFINE c == Turned(proc[p], "reloading")
  <1>1. /\ proc[p].pc = "writing" /\ store' = store /\ previews' = previews /\ Moves(p, c)
        /\ files' = [files EXCEPT ![f] = entry]
    BY DEF Writes, To, Moves, Turned
  <1>2. FilesTyped' /\ files'[f] = entry /\ \A g \in File : g # f => files'[g] = files[g]
    BY <1>1, FileWritten DEF SetupTyped
  <1>3. Grows(store, store') /\ ProfileStays BY <1>1, <1>2, StoreSame DEF ProfileStays, File
  <1>4. /\ IsCall(proc[p]) /\ Answered(proc[p], store) /\ Applying(proc[p], previews[p])
    BY <1>1, AppliedPreview
  <1>5. OnlyPc(proc[p], c) /\ c.pc = "reloading" BY <1>4, TurnsTo
  <1> HIDE DEF c
  <1>6. Applying(c, previews[p]) BY <1>1, <1>4, <1>5 DEF Applying, OnlyPc
  <1>7. IsAt(c, previews'[p], store', files'["project"]) /\ Answered(c, store')
    BY <1>1, <1>4, <1>5, <1>6 DEF IsAt, Answered, OnlyPc
  <1>8. CallsTyped' BY <1>1, <1>3, <1>5, <1>7, OneMoves DEF SetupTyped, OnlyPc
  <1> QED BY <1>1, <1>2, <1>3, <1>8, StoreStays, PreviewsSame DEF SetupTyped

LEMMA EditorsWriteTyped ==
    ASSUME SetupTyped, NEW p \in Process,
           WritePolicies(p) \/ WriteCatalog(p) \/ WriteResumeContract(p) \/ WriteTaxonomy(p)
    PROVE  SetupTyped'
  <1> DEFINE d == proc[p].draft
  <1>1. proc[p].pc = "writing"
    BY DEF WritePolicies, WriteCatalog, WriteResumeContract, WriteTaxonomy, Writes
  <1>2. IsPreview(d, store) BY <1>1, AppliedPreview
  <1>3. CASE WritePolicies(p)
    <2>1. Writes(p, "policy", "policies", d.content) /\ d.kind = "policy"
      BY <1>3 DEF WritePolicies, Writes
    <2>2. IsContent("policies", d.content) BY <1>2, <2>1 DEF IsPreview, IsContent
    <2> QED BY <2>1, <2>2, WritesTyped DEF File
  <1>4. CASE WriteCatalog(p)
    <2>1. Writes(p, "capability", "capabilities", d.base \union {d.content}) /\ d.kind = "capability"
      BY <1>4 DEF WriteCatalog, Writes
    <2>2. d.base \in SUBSET Contract /\ d.content \in Draft BY <1>2, <2>1 DEF IsPreview
    <2>3. Draft \subseteq Contract BY DEF Contract
    <2>4. d.base \union {d.content} \in SUBSET Contract BY <2>2, <2>3
    <2>5. IsContent("capabilities", d.base \union {d.content}) BY <2>4 DEF IsContent
    <2> QED BY <2>1, <2>5, WritesTyped DEF File
  <1>5. CASE WriteResumeContract(p) \/ WriteTaxonomy(p)
    <2>1. PICK kind \in {"resume", "taxonomy"} :
              Writes(p, kind, "project", d.content) /\ d.kind = kind
      BY <1>5 DEF WriteResumeContract, WriteTaxonomy, Writes
    <2>2. d.content \in ProjectFile BY <1>2, <2>1 DEF IsPreview
    <2>3. IsContent("project", d.content) /\ d.content # Absent
      BY <2>2, AbsentAssumption DEF IsContent
    <2> QED BY <2>1, <2>3, WritesTyped DEF File
  <1> QED BY <1>3, <1>4, <1>5

LEMMA ReloadTyped ==
    ASSUME SetupTyped, NEW p \in Process, ReloadCatalogs(p) \/ ReloadProfile(p)
    PROVE  SetupTyped'
  <1>1. /\ files' = files /\ store' = store /\ proc[p].draft.kind # "work_graph"
        /\ Applied(p) \/ Refused(p)
    BY DEF ReloadCatalogs, ReloadProfile
  <1>2. Grows(store, store') /\ ProfileStays BY <1>1, StoreSame, ProfileSame
  <1>3. CallsTyped' /\ PreviewsTyped'
    BY <1>1, <1>2, AppliedMoves, RefusedMoves DEF SetupTyped
  <1> QED BY <1>1, <1>2, <1>3, StoreStays, FilesSame DEF SetupTyped

(* The builders. *)
LEMMA RefusalTyped ==
    ASSUME SetupTyped, NEW p \in Process, Refused(p), files' = files, store' = store
    PROVE  SetupTyped'
  <1>1. Grows(store, store') /\ ProfileStays BY StoreSame, ProfileSame
  <1> QED BY <1>1, RefusedMoves, StoreStays, FilesSame DEF SetupTyped

LEMMA DeclareStartPolicyTyped ==
    ASSUME SetupTyped, NEW p \in Process, DeclareStartPolicy(p)
    PROVE  SetupTyped'
  <1> DEFINE c == Turned(proc[p], "completing")
             mode == proc[p].draft.content[1]
             start == IF mode = Absent THEN store.start ELSE mode
             new == WithStart(store, start)
  <1>1. /\ proc[p].pc = "starting" /\ files' = files
        /\ \/ Refused(p) /\ store' = store
           \/ /\ mode = Absent \/ store.start = Absent
              /\ store' = new /\ previews' = previews /\ Moves(p, c)
    BY DEF DeclareStartPolicy, To, Moves, Turned, WithStart
  <1>2. /\ IsCall(proc[p]) /\ Answered(proc[p], store) /\ Applying(proc[p], previews[p])
        /\ IsPreview(proc[p].draft, store) /\ proc[p].draft.kind = "work_graph"
    BY <1>1, AppliedPreview DEF Applying
  <1>3. mode \in {Absent} \union Mode BY <1>2 DEF IsPreview
  <1>4. OnlyPc(proc[p], c) /\ c.pc = "completing" BY <1>2, TurnsTo
  <1>5. /\ IsStore(new) /\ new.rows = store.rows /\ new.start = start /\ new.gate = store.gate
        /\ new.completion = store.completion /\ new.gate_policy = store.gate_policy
        /\ new.records = store.records
    BY StoreWritten DEF SetupTyped, StoreTyped
  <1> HIDE DEF new, c
  <1>6. CASE /\ mode = Absent \/ store.start = Absent
             /\ store' = new /\ previews' = previews /\ Moves(p, c)
    <2>1. Grows(store, store') BY <1>5, <1>6 DEF Grows
    <2>2. ProfileStays BY <1>1, ProfileSame
    <2>3. StoreTyped' BY <1>1, <1>3, <1>5, <1>6 DEF StoreTyped, SetupTyped
    <2>4. Answered(proc[p], store') BY <1>2, <2>1, CallStays DEF SetupTyped, CallsTyped
    <2>5. IsAt(c, previews'[p], store', files'["project"]) /\ Answered(c, store')
      BY <1>1, <1>2, <1>4, <1>5, <1>6, <2>4 DEF IsAt, Answered, Applying, OnlyPc
    <2>6. CallsTyped' BY <1>4, <1>6, <2>1, <2>2, <2>5, OneMoves DEF SetupTyped, OnlyPc
    <2> QED BY <1>1, <1>6, <2>1, <2>3, <2>6, FilesSame, PreviewsSame DEF SetupTyped
  <1> QED BY <1>1, <1>6, RefusalTyped

LEMMA DeclareCompletionPolicyTyped ==
    ASSUME SetupTyped, NEW p \in Process, DeclareCompletionPolicy(p)
    PROVE  SetupTyped'
  <1> DEFINE mode == proc[p].draft.content[2]
             completion == IF mode = Absent THEN store.completion ELSE mode
             new == WithCompletion(store, completion)
  <1>1. /\ proc[p].pc = "completing" /\ files' = files
        /\ \/ Refused(p) /\ store' = store
           \/ /\ mode = Absent \/ store.completion = Absent
              /\ store' = new /\ Applied(p)
    BY DEF DeclareCompletionPolicy, WithCompletion
  <1>2. /\ Applying(proc[p], previews[p]) /\ IsPreview(proc[p].draft, store)
        /\ proc[p].draft.kind = "work_graph" /\ proc[p].draft.content[1] \in {Absent, store.start}
    BY <1>1, AppliedPreview DEF Applying
  <1>3. mode \in {Absent} \union Mode BY <1>2 DEF IsPreview
  <1>4. /\ IsStore(new) /\ new.rows = store.rows /\ new.start = store.start
        /\ new.gate = store.gate /\ new.completion = completion
        /\ new.gate_policy = store.gate_policy /\ new.records = store.records
    BY StoreWritten DEF SetupTyped, StoreTyped
  <1> HIDE DEF new
  <1>5. CASE (mode = Absent \/ store.completion = Absent) /\ store' = new /\ Applied(p)
    <2>1. Grows(store, store') BY <1>4, <1>5 DEF Grows
    <2>2. ProfileStays BY <1>1, ProfileSame
    <2>3. StoreTyped' BY <1>1, <1>3, <1>4, <1>5 DEF StoreTyped, SetupTyped
    <2>4. CallsTyped' /\ PreviewsTyped'
      BY <1>2, <1>4, <1>5, <2>1, <2>2, AppliedMoves DEF SetupTyped
    <2> QED BY <1>1, <2>3, <2>4, FilesSame DEF SetupTyped
  <1> QED BY <1>1, <1>5, RefusalTyped

LEMMA DeclareGateTyped ==
    ASSUME SetupTyped, NEW p \in Process, DeclareGate(p)
    PROVE  SetupTyped'
  <1> DEFINE required == proc[p].draft.content
             new == WithGate(store, required)
  <1>1. /\ proc[p].pc = "declaring" /\ files' = files /\ proc[p].draft.kind = "gate_structure"
        /\ \/ Refused(p) /\ store' = store
           \/ store.gate = Absent /\ store' = new /\ Applied(p)
    BY DEF DeclareGate, WithGate
  <1>2. required \in SUBSET Evidence BY <1>1, AppliedPreview DEF IsPreview
  <1>3. required # Absent BY <1>2, AbsentAssumption
  <1>4. /\ IsStore(new) /\ new.rows = store.rows /\ new.start = store.start
        /\ new.gate = required /\ new.completion = store.completion
        /\ new.gate_policy = store.gate_policy /\ new.records = store.records
    BY StoreWritten DEF SetupTyped, StoreTyped
  <1> HIDE DEF new
  <1>5. CASE store.gate = Absent /\ store' = new /\ Applied(p)
    <2>1. Grows(store, store') BY <1>4, <1>5 DEF Grows
    <2>2. ProfileStays BY <1>1, ProfileSame
    <2>3. StoreTyped' BY <1>1, <1>2, <1>4, <1>5 DEF StoreTyped, SetupTyped
    <2>4. CallsTyped' /\ PreviewsTyped'
      BY <1>1, <1>5, <2>1, <2>2, AppliedMoves DEF SetupTyped
    <2> QED BY <1>1, <2>3, <2>4, FilesSame DEF SetupTyped
  <1> QED BY <1>1, <1>5, RefusalTyped

LEMMA DeclareGatePolicyTyped ==
    ASSUME SetupTyped, NEW p \in Process, DeclareGatePolicy(p)
    PROVE  SetupTyped'
  <1> DEFINE minimum == proc[p].draft.content
             new == WithGatePolicy(store, minimum)
  <1>1. /\ proc[p].pc = "declaring" /\ files' = files /\ proc[p].draft.kind = "gate_policy"
        /\ \/ Refused(p) /\ store' = store
           \/ ~(minimum > Cardinality(store.gate)) /\ store' = new /\ Applied(p)
    BY DEF DeclareGatePolicy, WithGatePolicy
  <1>2. minimum \in 1..Cardinality(Evidence) /\ store.gate # Absent
    BY <1>1, AppliedPreview DEF IsPreview
  <1>3. store.gate \in SUBSET Evidence BY <1>2 DEF SetupTyped, StoreTyped
  <1>4. Cardinality(Evidence) \in Nat /\ Cardinality(store.gate) \in Nat
    BY <1>3, SetupAssumption, FS_Subset, FS_CardinalityType
  <1>5. /\ IsStore(new) /\ new.rows = store.rows /\ new.start = store.start
        /\ new.gate = store.gate /\ new.completion = store.completion
        /\ new.gate_policy = minimum /\ new.records = store.records
    BY StoreWritten DEF SetupTyped, StoreTyped
  <1> HIDE DEF new
  <1>6. CASE ~(minimum > Cardinality(store.gate)) /\ store' = new /\ Applied(p)
    <2>1. Grows(store, store') BY <1>5, <1>6 DEF Grows
    <2>2. ProfileStays BY <1>1, ProfileSame
    <2>3. minimum \in 1..Cardinality(store.gate) BY <1>2, <1>4, <1>6
    <2>4. StoreTyped' BY <1>1, <1>2, <1>5, <1>6, <2>3 DEF StoreTyped, SetupTyped
    <2>5. CallsTyped' /\ PreviewsTyped'
      BY <1>1, <1>6, <2>1, <2>2, AppliedMoves DEF SetupTyped
    <2> QED BY <1>1, <2>4, <2>5, FilesSame DEF SetupTyped
  <1> QED BY <1>1, <1>6, RefusalTyped

LEMMA AddRequirementTyped ==
    ASSUME SetupTyped, NEW p \in Process, NEW e \in Evidence, AddRequirement(p, e)
    PROVE  SetupTyped'
  <1> DEFINE gate == store.gate \union {e}
             new == WithGate(store, gate)
  <1>1. /\ store.gate # Absent /\ store.gate_policy = Absent /\ store' = new
        /\ files' = files /\ previews' = previews /\ proc' = proc
    BY DEF AddRequirement, WithGate
  <1>2. gate \in SUBSET Evidence BY <1>1 DEF SetupTyped, StoreTyped
  <1>3. gate # Absent BY <1>2, AbsentAssumption
  <1>4. /\ IsStore(new) /\ new.rows = store.rows /\ new.start = store.start
        /\ new.gate = gate /\ new.completion = store.completion
        /\ new.gate_policy = store.gate_policy /\ new.records = store.records
    BY StoreWritten DEF SetupTyped, StoreTyped
  <1> HIDE DEF new, gate
  <1>5. Grows(store, store') BY <1>1, <1>3, <1>4 DEF Grows
  <1>6. ProfileStays BY <1>1, ProfileSame
  <1>7. StoreTyped' BY <1>1, <1>2, <1>4 DEF StoreTyped, SetupTyped
  <1>8. CallsTyped' BY <1>1, <1>5, <1>6, NobodyMoves DEF SetupTyped
  <1> QED BY <1>1, <1>5, <1>7, <1>8, FilesSame, PreviewsSame DEF SetupTyped

(* The synchronisation. *)
LEMMA OnRecordAmong == \A r : OnRecord(r) <=> Among(r, store.rows)
  BY DEF OnRecord, Among

LEMMA StartSyncTyped ==
    ASSUME SetupTyped, NEW p \in Process, StartSync(p)
    PROVE  SetupTyped'
  <1> DEFINE contracts == files["capabilities"]
             c == Syncing("syncing", contracts, DeclaredRows(contracts))
  <1>1. Moves(p, c) /\ files' = files /\ store' = store /\ previews' = previews
    BY DEF StartSync, Moves, Syncing
  <1>2. /\ IsCall(c) /\ c.pc = "syncing" /\ c.status = "NONE"
        /\ c.snapshot = contracts /\ c.rows = DeclaredRows(contracts)
    BY SyncsAs
  <1> HIDE DEF c, contracts
  <1>3. Grows(store, store') /\ ProfileStays BY <1>1, StoreSame, ProfileSame
  <1>4. Covered(c, store'.rows) BY <1>2 DEF Covered
  <1>5. IsAt(c, previews'[p], store', files'["project"]) /\ Answered(c, store')
    BY <1>2, <1>4 DEF IsAt, Answered
  <1>6. CallsTyped' BY <1>1, <1>2, <1>3, <1>5, OneMoves DEF SetupTyped
  <1> QED BY <1>1, <1>3, <1>6, StoreStays, FilesSame, PreviewsSame DEF SetupTyped

LEMMA AtSync ==
    ASSUME SetupTyped, NEW p \in Process, proc[p].pc \in {"syncing", "inserting"}
    PROVE  IsCall(proc[p]) /\ Answered(proc[p], store) /\ Covered(proc[p], store.rows)
  <1>1. IsCall(proc[p]) /\ Answered(proc[p], store) /\ IsAt(proc[p], previews[p], store, files["project"])
    BY DEF SetupTyped, CallsTyped
  <1> QED BY <1>1 DEF IsAt, Applying

LEMMA LookForRowTyped ==
    ASSUME SetupTyped, NEW p \in Process, NEW r \in proc[p].rows, LookForRow(p, r)
    PROVE  SetupTyped'
  <1> DEFINE found == OnRecord(r)
             c == LookedFor(proc[p], proc[p].rows \ {r}, IF found THEN "syncing" ELSE "inserting",
                            IF found THEN Absent ELSE r)
  <1>1. /\ Moves(p, c) /\ files' = files /\ store' = store /\ previews' = previews
        /\ proc[p].pc = "syncing" /\ \A s \in proc[p].rows : ~Before(s, r)
    BY DEF LookForRow, Moves, LookedFor
  <1>2. IsCall(proc[p]) /\ Answered(proc[p], store) /\ Covered(proc[p], store.rows)
    BY <1>1, AtSync
  <1>3. /\ OnlySync(proc[p], c) /\ c.pc = IF found THEN "syncing" ELSE "inserting"
        /\ c.rows = proc[p].rows \ {r} /\ c.row = IF found THEN Absent ELSE r
    BY <1>2, LooksFor
  <1>4. found <=> Among(r, store.rows) BY OnRecordAmong
  <1> HIDE DEF c, found
  <1>5. Grows(store, store') /\ ProfileStays BY <1>1, StoreSame, ProfileSame
  <1>6. Covered(c, store'.rows) BY <1>1, <1>2, <1>3, <1>4 DEF Covered, OnlySync
  <1>7. IsAt(c, previews'[p], store', files'["project"])
    BY <1>3, <1>6 DEF IsAt
  <1>8. Answered(c, store') BY <1>1, <1>2, <1>3 DEF Answered, OnlySync
  <1>9. CallsTyped' BY <1>1, <1>3, <1>5, <1>7, <1>8, OneMoves DEF SetupTyped, OnlySync
  <1> QED BY <1>1, <1>5, <1>9, StoreStays, FilesSame, PreviewsSame DEF SetupTyped

LEMMA DeclaredRow ==
    ASSUME NEW contracts, NEW r \in DeclaredRows(contracts)
    PROVE  /\ r.table \in {"capability", "contract", "policy", "validator"}
           /\ r.table \in {"contract", "policy"} =>
                  \E s \in DeclaredRows(contracts) :
                      s.table = "capability" /\ s.key = r.key /\ Before(s, r)
  <1>1. CASE \E n \in 1..3, c \in contracts : r = Row(TABLES[n], c.id, {})
    <2>1. PICK n \in 1..3, c \in contracts : r = Row(TABLES[n], c.id, {}) BY <1>1
    <2>2. r.table = TABLES[n] /\ r.key = c.id BY <2>1 DEF Row
    <2>3. n \in {1, 2, 3} BY <2>1
    <2>4. TABLES[1] = "capability" /\ TABLES[2] = "contract" /\ TABLES[3] = "policy"
      BY DEF TABLES
    <2> DEFINE s == Row(TABLES[1], c.id, {})
    <2>5. s \in DeclaredRows(contracts) BY DEF DeclaredRows
    <2>6. s.table = "capability" /\ s.key = c.id BY <2>4 DEF Row
    <2>7. n # 1 => Before(s, r)
      <3>1. n # 1 => 1 < n /\ TABLES[1] = s.table /\ TABLES[n] = r.table BY <2>2, <2>3, <2>4, <2>6
      <3>2. r.table # "validator" BY <2>2, <2>3, <2>4
      <3> HIDE DEF s
      <3> QED BY <2>2, <2>6, <3>1, <3>2 DEF Before
    <2> HIDE DEF s
    <2> QED BY <2>2, <2>3, <2>4, <2>5, <2>6, <2>7
  <1>2. CASE \E c \in contracts :
                 r = Row("validator", c.validator, RequiredKeys(contracts, c.validator))
    BY <1>2 DEF Row
  <1> QED BY <1>1, <1>2 DEF DeclaredRows

LEMMA InsertRowTyped ==
    ASSUME SetupTyped, NEW p \in Process, InsertRow(p)
    PROVE  SetupTyped'
  <1> DEFINE row == proc[p].row
             c == GoneOn(proc[p], "syncing", Absent)
             new == WithRows(store, store.rows \union {row})
  <1>1. /\ files' = files /\ previews' = previews /\ proc[p].pc = "inserting"
        /\ \/ Ends(p, "REFUSED") /\ store' = store
           \/ ~OnRecord(row) /\ store' = new /\ Moves(p, c)
    BY DEF InsertRow, Moves, GoneOn, WithRows
  <1>2. IsCall(proc[p]) /\ Answered(proc[p], store) /\ Covered(proc[p], store.rows)
    BY <1>1, AtSync
  <1>3. ProfileStays BY <1>1, ProfileSame
  <1>4. CASE Ends(p, "REFUSED") /\ store' = store
    <2>1. Grows(store, store') BY <1>4, StoreSame
    <2>2. CallsTyped' BY <1>1, <1>3, <1>4, <2>1, EndMoves DEF SetupTyped
    <2> QED BY <1>1, <1>3, <1>4, <2>1, <2>2, StoreStays, FilesSame, PreviewsSame DEF SetupTyped
  <1>5. CASE ~OnRecord(row) /\ store' = new /\ Moves(p, c)
    <2>1. OnlySync(proc[p], c) /\ c.pc = "syncing" /\ c.row = Absent /\ c.rows = proc[p].rows
      BY <1>2, GoesOn
    <2>2. /\ IsStore(new) /\ new.rows = store.rows \union {row} /\ new.start = store.start
          /\ new.gate = store.gate /\ new.completion = store.completion
          /\ new.gate_policy = store.gate_policy /\ new.records = store.records
      BY StoreWritten DEF SetupTyped, StoreTyped
    <2> HIDE DEF new, c
    <2>3. Grows(store, store') BY <1>5, <2>2 DEF Grows
    <2>4. row \in DeclaredRows(proc[p].snapshot) /\ \A s \in proc[p].rows : ~Before(s, row)
      BY <1>1, <1>2 DEF Covered
    <2>5. ~Among(row, store.rows) BY <1>5, OnRecordAmong
    <2>6. row.table \in {"contract", "policy"} =>
              \E s \in store.rows : s.table = "capability" /\ s.key = row.key
      <3> HAVE row.table \in {"contract", "policy"}
      <3>1. PICK s \in DeclaredRows(proc[p].snapshot) :
                s.table = "capability" /\ s.key = row.key /\ Before(s, row)
        BY <2>4, DeclaredRow
      <3>2. Among(s, store.rows) BY <1>2, <2>4, <3>1 DEF Covered
      <3> QED BY <3>1, <3>2 DEF Among
    <2>7. StoreTyped'
      <3>1. row.table \in {"capability", "contract", "policy", "validator"}
        BY <2>4, DeclaredRow
      <3>2. \A r \in store.rows : ~(r.table = row.table /\ r.key = row.key) BY <2>5 DEF Among
      <3>3. store'.rows = store.rows \union {row} BY <1>5, <2>2
      <3>4. \A r \in store'.rows : r.table \in {"capability", "contract", "policy", "validator"}
        BY <3>1, <3>3 DEF SetupTyped, StoreTyped
      <3>5. \A r, s \in store'.rows : (r.table = s.table /\ r.key = s.key) => r = s
        BY <3>2, <3>3 DEF SetupTyped, StoreTyped
      <3>6. \A r \in store'.rows : r.table \in {"contract", "policy"} =>
                \E s \in store'.rows : s.table = "capability" /\ s.key = r.key
        BY <2>6, <3>3 DEF SetupTyped, StoreTyped
      <3> QED BY <1>1, <1>5, <2>2, <3>4, <3>5, <3>6 DEF SetupTyped, StoreTyped
    <2>8. Covered(c, store'.rows)
      <3>1. \A r : Among(r, store.rows) => Among(r, store'.rows) BY <1>5, <2>2 DEF Among
      <3>2. Among(row, store'.rows) BY <1>5, <2>2 DEF Among
      <3> QED BY <1>1, <1>2, <2>1, <3>1, <3>2 DEF Covered, OnlySync
    <2>9. Answered(proc[p], store') BY <1>2, <1>3, <2>3, CallStays DEF SetupTyped, CallsTyped
    <2>10. IsAt(c, previews'[p], store', files'["project"]) /\ Answered(c, store')
      BY <2>1, <2>8, <2>9 DEF IsAt, Answered, OnlySync
    <2>11. CallsTyped' BY <1>1, <1>3, <1>5, <2>1, <2>3, <2>10, OneMoves DEF SetupTyped, OnlySync
    <2> QED BY <1>1, <2>3, <2>7, <2>11, FilesSame, PreviewsSame DEF SetupTyped
  <1> QED BY <1>1, <1>4, <1>5

LEMMA EndSyncTyped ==
    ASSUME SetupTyped, NEW p \in Process, EndSync(p)
    PROVE  SetupTyped'
  <1>1. /\ files' = files /\ store' = store /\ previews' = previews /\ Ends(p, "SYNCED")
        /\ proc[p].pc = "syncing" /\ proc[p].rows = {}
    BY DEF EndSync
  <1>2. Covered(proc[p], store.rows) BY <1>1, AtSync
  <1>3. \A r \in DeclaredRows(proc[p].snapshot) : Among(r, store'.rows)
    BY <1>1, <1>2 DEF Covered
  <1>4. Grows(store, store') /\ ProfileStays BY <1>1, StoreSame, ProfileSame
  <1>5. CallsTyped' BY <1>1, <1>3, <1>4, EndMoves DEF SetupTyped
  <1> QED BY <1>1, <1>4, <1>5, StoreStays, FilesSame, PreviewsSame DEF SetupTyped

(* The records. *)
LEMMA ResolveTypeTyped ==
    ASSUME SetupTyped, NEW p \in Process, NEW type \in Type, ResolveType(p, type)
    PROVE  SetupTyped'
  <1> DEFINE c == Resolving("appending", type)
  <1>1. /\ Moves(p, c) /\ files' = files /\ store' = store /\ previews' = previews
        /\ files["project"] # Absent
    BY DEF ResolveType, Moves, Resolving
  <1>2. IsCall(c) /\ c.pc = "appending" /\ c.status = "NONE" /\ c.row = type BY ResolvesAs
  <1> HIDE DEF c
  <1>3. Grows(store, store') /\ ProfileStays BY <1>1, StoreSame, ProfileSame
  <1>4. IsAt(c, previews'[p], store', files'["project"]) /\ Answered(c, store')
    BY <1>1, <1>2 DEF IsAt, Answered
  <1>5. CallsTyped' BY <1>1, <1>2, <1>3, <1>4, OneMoves DEF SetupTyped
  <1> QED BY <1>1, <1>3, <1>5, StoreStays, FilesSame, PreviewsSame DEF SetupTyped

LEMMA AtAppend ==
    ASSUME SetupTyped, NEW p \in Process, proc[p].pc = "appending"
    PROVE  proc[p].row \in Type /\ files["project"] # Absent
  <1>1. IsAt(proc[p], previews[p], store, files["project"]) BY DEF SetupTyped, CallsTyped
  <1> QED BY <1>1 DEF IsAt, Applying

LEMMA AppendRecordTyped ==
    ASSUME SetupTyped, NEW p \in Process, AppendRecord(p)
    PROVE  SetupTyped'
  <1> DEFINE new == WithRecords(store, store.records \union {proc[p].row})
  <1>1. /\ files' = files /\ previews' = previews /\ store' = new /\ Ends(p, "APPENDED")
        /\ proc[p].pc = "appending"
    BY DEF AppendRecord, WithRecords
  <1>2. proc[p].row \in Type /\ files["project"] # Absent BY <1>1, AtAppend
  <1>3. /\ IsStore(new) /\ new.rows = store.rows /\ new.start = store.start
        /\ new.gate = store.gate /\ new.completion = store.completion
        /\ new.gate_policy = store.gate_policy /\ new.records = store.records \union {proc[p].row}
    BY StoreWritten DEF SetupTyped, StoreTyped
  <1> HIDE DEF new
  <1>4. Grows(store, store') /\ ProfileStays BY <1>1, <1>3, ProfileSame DEF Grows
  <1>5. StoreTyped' BY <1>1, <1>2, <1>3 DEF SetupTyped, StoreTyped
  <1>6. CallsTyped' BY <1>1, <1>4, EndMoves DEF SetupTyped
  <1> QED BY <1>1, <1>4, <1>5, <1>6, FilesSame, PreviewsSame DEF SetupTyped

(* Faults. *)
LEMMA KillTyped ==
    ASSUME SetupTyped, NEW p \in Process, Kill(p)
    PROVE  SetupTyped'
  <1>1. /\ Moves(p, Idle) /\ files' = files /\ store' = store
        /\ previews' = [previews EXCEPT ![p] = {}]
    BY DEF Kill, Moves
  <1>2. Grows(store, store') /\ ProfileStays BY <1>1, StoreSame, ProfileSame
  <1>3. PreviewsTyped' /\ \A q \in Process \ {p} : previews'[q] = previews[q]
    BY <1>1, <1>2, PreviewsKept DEF SetupTyped
  <1>4. IsAt(Idle, previews'[p], store', files'["project"]) /\ Answered(Idle, store')
    BY IdleIs DEF IsAt, Answered
  <1>5. CallsTyped' BY <1>1, <1>2, <1>3, <1>4, IdleIs, OneMoves DEF SetupTyped
  <1> QED BY <1>1, <1>2, <1>3, <1>5, StoreStays, FilesSame DEF SetupTyped

LEMMA LoseTyped ==
    ASSUME SetupTyped, NEW f \in File, Lose(f)
    PROVE  SetupTyped'
  <1>1. /\ files' = [files EXCEPT ![f] = Absent] /\ f # "project"
        /\ store' = store /\ previews' = previews /\ proc' = proc
    BY DEF Lose, REPAIRABLE_FILES
  <1>2. IsContent(f, Absent) BY DEF IsContent
  <1>3. FilesTyped' /\ files'["project"] = files["project"]
    BY <1>1, <1>2, FileWritten DEF SetupTyped, File
  <1>4. Grows(store, store') /\ ProfileStays BY <1>1, <1>3, StoreSame, ProfileSame
  <1>5. CallsTyped' BY <1>1, <1>4, NobodyMoves DEF SetupTyped
  <1> QED BY <1>1, <1>3, <1>4, <1>5, StoreStays, PreviewsSame DEF SetupTyped

-----------------------------------------------------------------------------
(* What a preview proposes is of the project there is, and sound with what it   *)
(* was computed from.                                                         *)

PreviewOf(kind, base, content) == [kind |-> kind, base |-> base, content |-> content]
KeepsWell(p) ==
    \E kind, base, content :
        /\ Keep(p, kind, base, content)
        /\ IsPreview(PreviewOf(kind, base, content), store)
        /\ OfProject(PreviewOf(kind, base, content), files)
        /\ NothingLost => StaysSound(PreviewOf(kind, base, content), files)

LEMMA PreviewIs ==
    ASSUME NEW kind, NEW base, NEW content
    PROVE  /\ PreviewOf(kind, base, content).kind = kind
           /\ PreviewOf(kind, base, content).base = base
           /\ PreviewOf(kind, base, content).content = content
  BY DEF PreviewOf

(* What is neither of the profile nor of the capabilities is no matter here. *)
LEMMA KeepsPlain ==
    ASSUME NEW p, NEW kind, NEW base, NEW content, Keep(p, kind, base, content),
           kind \notin {"resume", "taxonomy", "capability"},
           IsPreview(PreviewOf(kind, base, content), store)
    PROVE  KeepsWell(p)
  BY PreviewIs DEF KeepsWell, OfProject, StaysSound

LEMMA ProfileFile ==
    ASSUME SetupTyped, files["project"] # Absent
    PROVE  files["project"] \in ProjectFile
  BY DEF SetupTyped, FilesTyped, IsContent, File

LEMMA PlainPreviews ==
    ASSUME SetupTyped, NEW p \in Process,
           \/ PreviewRepair(p)
           \/ \E allowed \in SUBSET Runner : PreviewPolicyEdit(p, allowed)
           \/ \E s, c \in {Absent} \union Mode : PreviewWorkGraph(p, <<s, c>>)
           \/ \E required \in SUBSET Evidence : PreviewGateStructure(p, required)
           \/ \E minimum \in 1..Cardinality(Evidence) : PreviewGatePolicy(p, minimum)
    PROVE  KeepsWell(p)
  <1>1. CASE PreviewRepair(p)
    <2>1. files["project"] # Absent /\ Keep(p, "repair", Missing, files["project"].project)
      BY <1>1 DEF PreviewRepair
    <2>2. files["project"].project \in Project BY <2>1, ProfileFile DEF ProjectFile
    <2>3. Missing \in SUBSET REPAIRABLE_FILES BY DEF Missing
    <2>4. IsPreview(PreviewOf("repair", Missing, files["project"].project), store)
      BY <2>2, <2>3, PreviewIs DEF IsPreview
    <2> QED BY <2>1, <2>4, KeepsPlain
  <1>2. CASE \E allowed \in SUBSET Runner : PreviewPolicyEdit(p, allowed)
    <2>1. PICK allowed \in SUBSET Runner : PreviewPolicyEdit(p, allowed) BY <1>2
    <2>2. Keep(p, "policy", files["policies"], allowed) BY <2>1 DEF PreviewPolicyEdit
    <2>3. IsPreview(PreviewOf("policy", files["policies"], allowed), store)
      BY PreviewIs DEF IsPreview
    <2> QED BY <2>2, <2>3, KeepsPlain
  <1>3. CASE \E s, c \in {Absent} \union Mode : PreviewWorkGraph(p, <<s, c>>)
    <2>1. PICK s, c \in {Absent} \union Mode : PreviewWorkGraph(p, <<s, c>>) BY <1>3
    <2>2. Keep(p, "work_graph", <<store.start, store.completion>>, <<s, c>>)
      BY <2>1 DEF PreviewWorkGraph
    <2>3. IsPreview(PreviewOf("work_graph", <<store.start, store.completion>>, <<s, c>>), store)
      BY PreviewIs DEF IsPreview
    <2> QED BY <2>2, <2>3, KeepsPlain
  <1>4. CASE \E required \in SUBSET Evidence : PreviewGateStructure(p, required)
    <2>1. PICK required \in SUBSET Evidence : PreviewGateStructure(p, required) BY <1>4
    <2>2. Keep(p, "gate_structure", Absent, required) BY <2>1 DEF PreviewGateStructure
    <2>3. IsPreview(PreviewOf("gate_structure", Absent, required), store)
      BY PreviewIs DEF IsPreview
    <2> QED BY <2>2, <2>3, KeepsPlain
  <1>5. CASE \E minimum \in 1..Cardinality(Evidence) : PreviewGatePolicy(p, minimum)
    <2>1. PICK minimum \in 1..Cardinality(Evidence) : PreviewGatePolicy(p, minimum) BY <1>5
    <2>2. Keep(p, "gate_policy", store.gate, minimum) /\ store.gate # Absent
      BY <2>1 DEF PreviewGatePolicy
    <2>3. IsPreview(PreviewOf("gate_policy", store.gate, minimum), store)
      BY <2>2, PreviewIs DEF IsPreview
    <2> QED BY <2>2, <2>3, KeepsPlain
  <1> QED BY <1>1, <1>2, <1>3, <1>4, <1>5

LEMMA ProfileEdited ==
    ASSUME NEW held \in ProjectFile
    PROVE  /\ \A enabled \in SUBSET Host :
                  /\ [held EXCEPT !.enabled = enabled] \in ProjectFile
                  /\ [held EXCEPT !.enabled = enabled].project = held.project
                  /\ [held EXCEPT !.enabled = enabled].types = held.types
           /\ \A types \in SUBSET Type :
                  /\ [held EXCEPT !.types = types] \in ProjectFile
                  /\ [held EXCEPT !.types = types].project = held.project
  BY DEF ProjectFile

LEMMA ProfilePreviews ==
    ASSUME SetupTyped, NEW p \in Process,
           \/ \E enabled \in SUBSET Host : PreviewResumeEdit(p, enabled)
           \/ \E types \in SUBSET Type, counted \in BOOLEAN : PreviewTaxonomyEdit(p, types, counted)
    PROVE  KeepsWell(p)
  <1> DEFINE base == files["project"]
  <1>1. base # Absent /\ \E kind \in {"resume", "taxonomy"}, content \in ProjectFile :
            /\ Keep(p, kind, base, content) /\ content.project = base.project
            /\ kind = "resume" => content.types = base.types
    <2>1. base # Absent
      BY DEF PreviewResumeEdit, PreviewTaxonomyEdit, ResumeCandidate, TaxonomyCandidate
    <2>2. base \in ProjectFile BY <2>1, ProfileFile
    <2>3. CASE \E enabled \in SUBSET Host : PreviewResumeEdit(p, enabled)
      <3>1. PICK enabled \in SUBSET Host : Keep(p, "resume", base, [base EXCEPT !.enabled = enabled])
        BY <2>3 DEF PreviewResumeEdit
      <3> QED BY <2>1, <2>2, <3>1, ProfileEdited
    <2>4. CASE \E types \in SUBSET Type, counted \in BOOLEAN : PreviewTaxonomyEdit(p, types, counted)
      <3>1. PICK types \in SUBSET Type : Keep(p, "taxonomy", base, [base EXCEPT !.types = types])
        BY <2>4 DEF PreviewTaxonomyEdit
      <3> QED BY <2>1, <2>2, <3>1, ProfileEdited
    <2> QED BY <2>3, <2>4
  <1>2. PICK kind \in {"resume", "taxonomy"}, content \in ProjectFile :
            /\ Keep(p, kind, base, content) /\ content.project = base.project
            /\ kind = "resume" => content.types = base.types
    BY <1>1
  <1>3. base \in ProjectFile BY <1>1, ProfileFile
  <1>4. IsPreview(PreviewOf(kind, base, content), store) BY <1>2, <1>3, PreviewIs DEF IsPreview
  <1>5. OfProject(PreviewOf(kind, base, content), files) BY <1>1, <1>2, PreviewIs DEF OfProject
  <1>6. StaysSound(PreviewOf(kind, base, content), files) BY PreviewIs DEF StaysSound
  <1> QED BY <1>2, <1>4, <1>5, <1>6 DEF KeepsWell

LEMMA AllThere == Loadable => \A f \in File \ {"playbook"} : files[f] # Absent
  BY DEF Loadable, CatalogsLoad

LEMMA CapabilityPreview ==
    ASSUME SetupTyped, CatalogsAreSound, NEW p \in Process, NEW c \in Draft, PreviewCapability(p, c)
    PROVE  KeepsWell(p)
  <1> DEFINE base == files["capabilities"]
             d == PreviewOf("capability", base, c)
  <1>1. Keep(p, "capability", base, c) /\ Loadable /\ c.id \notin Ids(base) /\ SoundContract(c)
    BY DEF PreviewCapability, ContractCandidate
  <1>2. base # Absent /\ files["project"] # Absent BY <1>1, AllThere DEF File
  <1>3. base \in SUBSET Contract
    BY <1>2 DEF SetupTyped, FilesTyped, IsContent, File
  <1>4. d.kind = "capability" /\ d.base = base /\ d.content = c BY PreviewIs
  <1>5. SoundCapabilities(base) BY <1>1 DEF Loadable, CatalogsLoad
  <1> HIDE DEF d, base
  <1>6. \A e \in base : e.id # c.id BY <1>1 DEF Ids
  <1>7. SoundCapabilities(base \union {c}) BY <1>1, <1>5, <1>6 DEF SoundCapabilities
  <1>8. NothingLost => Template[files["project"].project] \subseteq base
    BY <1>2 DEF CatalogsAreSound, EachSound, Restored, base
  <1>9. IsPreview(d, store) BY <1>3, <1>4 DEF IsPreview
  <1>10. OfProject(d, files) /\ (NothingLost => StaysSound(d, files))
    BY <1>2, <1>4, <1>7, <1>8 DEF OfProject, StaysSound
  <1> QED BY <1>1, <1>9, <1>10 DEF KeepsWell, d

-----------------------------------------------------------------------------
(* A step that writes no file. *)

Rule(p, c) ==
    \/ c.pc = "idle" /\ excuse' \in {excuse, excuse \union {"killed"}}
    \/ /\ Busy(p) /\ c.pc # "idle" /\ excuse' = excuse
       /\ c.pc \in {"initialising", "repairing"} => Founding(p)
    \/ /\ proc[p].pc = "idle" /\ c.pc # "idle"
       /\ \E noted \in SUBSET {"uncounted"} :
              Begins(c.pc \in {"initialising", "repairing"}, p, noted)

LEMMA OthersStay ==
    ASSUME SetupTyped, NEW p \in Process, NEW c, Moves(p, c)
    PROVE  proc'[p] = c /\ \A q \in Process \ {p} : proc'[q] = proc[q]
  BY DEF SetupTyped, CallsTyped, Moves

LEMMA BeginsWhen ==
    ASSUME NEW p \in Process, NEW founding, NEW noted \in SUBSET {"uncounted"},
           Begins(founding, p, noted)
    PROVE  /\ excuse \subseteq excuse'
           /\ "overlap" \notin excuse' => \A q \in Process \ {p} : ~Busy(q)
           /\ "initialisation" \notin excuse' =>
                  \A q \in Process \ {p} : ~Founding(q) /\ ~(Busy(q) /\ founding)
           /\ "initialisation" \in excuse' /\ "initialisation" \notin excuse =>
                  "overlap" \in excuse'
  BY DEF Begins, Founding, Busy

LEMMA ExcuseGrows ==
    ASSUME NEW p \in Process, NEW c, Rule(p, c)
    PROVE  excuse \subseteq excuse'
  BY BeginsWhen DEF Rule

LEMMA StaysAlone ==
    ASSUME SetupTyped, Alone, NEW p \in Process, NEW c, Moves(p, c), Rule(p, c)
    PROVE  Alone'
  <1>1. proc'[p] = c /\ \A q \in Process \ {p} : proc'[q] = proc[q] BY OthersStay
  <1>2. excuse \subseteq excuse' BY ExcuseGrows
  <1>3. CASE c.pc = "idle" /\ excuse' \in {excuse, excuse \union {"killed"}}
    BY <1>1, <1>3 DEF Alone, Founding, Busy
  <1>4. CASE /\ Busy(p) /\ c.pc # "idle" /\ excuse' = excuse
             /\ c.pc \in {"initialising", "repairing"} => Founding(p)
    BY <1>1, <1>4 DEF Alone, Founding, Busy
  <1>5. CASE /\ proc[p].pc = "idle" /\ c.pc # "idle"
             /\ \E noted \in SUBSET {"uncounted"} :
                    Begins(c.pc \in {"initialising", "repairing"}, p, noted)
    <2>1. /\ "overlap" \notin excuse' => \A q \in Process \ {p} : ~Busy(q)
          /\ "initialisation" \notin excuse' =>
                 \A q \in Process \ {p} :
                     ~Founding(q) /\ ~(Busy(q) /\ c.pc \in {"initialising", "repairing"})
          /\ "initialisation" \in excuse' /\ "initialisation" \notin excuse => "overlap" \in excuse'
      BY <1>5, BeginsWhen
    <2>2. "initialisation" \in excuse' => "overlap" \in excuse' BY <1>2, <2>1 DEF Alone
    <2>3. "overlap" \notin excuse' =>
              \A q, r \in Process : Busy(q)' /\ Busy(r)' => q = r
      BY <1>1, <2>1 DEF Busy
    <2>4. "initialisation" \notin excuse' =>
              \A q, r \in Process : Founding(q)' /\ Busy(r)' => q = r
      BY <1>1, <1>2, <2>1 DEF Alone, Busy, Founding
    <2> QED BY <2>2, <2>3, <2>4 DEF Alone
  <1> QED BY <1>3, <1>4, <1>5 DEF Rule

(* What holds of the records counted holds of fewer. *)
LEMMA CountKept ==
    ASSUME store'.records = store.records, excuse \subseteq excuse'
    PROVE  Counted' \subseteq Counted
  BY DEF Counted

LEMMA HoldsForLess ==
    ASSUME NEW c, NEW fs, NEW records, NEW fewer, fewer \subseteq records, Holds(c, fs, records)
    PROVE  Holds(c, fs, fewer)
  BY DEF Holds, Agrees

LEMMA StaysInformed ==
    ASSUME SetupTyped, Informed, NEW p \in Process, NEW c, Moves(p, c), Rule(p, c),
           files' = files, told => told',
           \A q \in Process \ {p} : previews'[q] \subseteq previews[q],
           \A d \in previews'[p] \ previews[p] :
               OfProject(d, files) /\ (NothingLost => StaysSound(d, files)),
           \/ store'.records = store.records
           \/ proc[p].pc = "appending" /\ store'.records = store.records \union {proc[p].row},
           "initialisation" \notin excuse' => Knows(c, files) /\ HasAll(c, files),
           "overlap" \notin excuse' => Holds(c, files, Counted'),
           Reloading(proc[p]) =>
               Reloading(c) \/ told' \/ "killed" \in excuse' \/ AgreeTogether(files)
    PROVE  Informed'
  <1>1. proc'[p] = c /\ \A q \in Process \ {p} : proc'[q] = proc[q] BY OthersStay
  <1>2. excuse \subseteq excuse' BY ExcuseGrows
  <1>3. Alone' BY StaysAlone DEF Informed
  <1>4. FoundersKnow' BY <1>1, <1>2 DEF Informed, FoundersKnow
  <1>5. EditorsHaveAll' BY <1>1, <1>2 DEF Informed, EditorsHaveAll
  <1>6. SameProject' BY <1>2 DEF Informed, SameProject
  <1>7. NothingLost' => NothingLost BY <1>2 DEF NothingLost
  <1>8. CatalogsAreSound' BY <1>7 DEF Informed, CatalogsAreSound
  <1>9. NothingStale'
    <2> SUFFICES ASSUME "overlap" \notin excuse'
                 PROVE  /\ \A q \in Process : Holds(proc'[q], files, Counted')
                        /\ files["project"] # Absent => Counted' \subseteq files["project"].types
      BY DEF NothingStale
    <2>1. /\ \A q \in Process : Holds(proc[q], files, Counted)
          /\ files["project"] # Absent => Counted \subseteq files["project"].types
      BY <1>2 DEF Informed, NothingStale
    <2>2. CASE store'.records = store.records
      <3>1. Counted' \subseteq Counted BY <1>2, <2>2, CountKept
      <3>2. \A q \in Process : Holds(proc[q], files, Counted') BY <2>1, <3>1, HoldsForLess
      <3> QED BY <1>1, <2>1, <3>1, <3>2
    <2>3. CASE proc[p].pc = "appending" /\ store'.records = store.records \union {proc[p].row}
      <3>1. proc[p].row \in files["project"].types BY <2>1, <2>3 DEF Holds
      <3>2. \A q \in Process \ {p} : proc[q].pc = "idle"
        BY <1>2, <2>3 DEF Informed, Alone, Busy
      <3>3. \A q \in Process \ {p} : Holds(proc'[q], files, Counted')
        BY <1>1, <3>2 DEF Holds
      <3>4. Counted' \subseteq Counted \union {proc[p].row} BY <1>2, <2>3 DEF Counted
      <3> QED BY <1>1, <2>1, <3>1, <3>3, <3>4
    <2> QED BY <2>2, <2>3
  <1>10. DisagreementIsTold'
    <2> SUFFICES ASSUME NothingLost', ~({"killed", "overlap"} \subseteq excuse'),
                        files["project"] # Absent
                 PROVE  \/ AgreeTogether(files) \/ told'
                        \/ "overlap" \in excuse' /\ \E q \in Process : Reloading(proc'[q])
      BY DEF DisagreementIsTold
    <2>1. \/ AgreeTogether(files) \/ told
          \/ "overlap" \in excuse /\ \E q \in Process : Reloading(proc[q])
      BY <1>2, <1>7 DEF Informed, DisagreementIsTold
    <2>2. CASE "overlap" \in excuse /\ \E q \in Process : Reloading(proc[q])
      <3>1. PICK q \in Process : Reloading(proc[q]) BY <2>2
      <3>2. CASE q = p BY <1>1, <1>2, <2>2, <3>1, <3>2
      <3>3. CASE q # p BY <1>1, <1>2, <2>2, <3>1, <3>3
      <3> QED BY <3>2, <3>3
    <2> QED BY <2>1, <2>2
  <1> QED BY <1>3, <1>4, <1>5, <1>6, <1>8, <1>9, <1>10 DEF Informed

LEMMA IdleKnows ==
    ASSUME NEW c, c.pc \in {"idle", "syncing", "inserting", "starting", "completing", "declaring"}
    PROVE  \A fs, records : Knows(c, fs) /\ HasAll(c, fs) /\ Holds(c, fs, records) /\ ~Reloading(c)
  BY DEF Knows, HasAll, Holds, Reloading

LEMMA KeepInforms ==
    ASSUME SetupTyped, Informed, NEW p \in Process, proc[p].pc = "idle", KeepsWell(p)
    PROVE  SetupTyped' /\ Informed'
  <1>1. PICK kind, base, content :
            /\ Keep(p, kind, base, content)
            /\ IsPreview(PreviewOf(kind, base, content), store)
            /\ OfProject(PreviewOf(kind, base, content), files)
            /\ NothingLost => StaysSound(PreviewOf(kind, base, content), files)
    BY DEF KeepsWell
  <1> DEFINE d == PreviewOf(kind, base, content)
  <1>2. /\ previews' = [previews EXCEPT ![p] = previews[p] \union {d}]
        /\ files' = files /\ store' = store /\ proc' = proc /\ told' = told /\ excuse' = excuse
    BY <1>1 DEF Keep, PreviewOf
  <1>3. SetupTyped' BY <1>1, KeepTyped DEF PreviewOf
  <1> HIDE DEF d
  <1>4. /\ previews'[p] = previews[p] \union {d}
        /\ \A q \in Process \ {p} : previews'[q] = previews[q]
    BY <1>2 DEF SetupTyped, PreviewsTyped
  <1>5. Moves(p, proc[p]) BY <1>2 DEF SetupTyped, CallsTyped, Moves
  <1>6. \A e \in previews'[p] \ previews[p] :
            OfProject(e, files) /\ (NothingLost => StaysSound(e, files))
    BY <1>1, <1>4 DEF d
  <1>7. Rule(p, proc[p]) BY <1>2 DEF Rule
  <1>8. Informed' BY <1>2, <1>4, <1>5, <1>6, <1>7, IdleKnows, StaysInformed
  <1> QED BY <1>3, <1>8

(* A step that writes neither file nor preview nor record. *)
LEMMA QuietInforms ==
    ASSUME SetupTyped, Informed, NEW p \in Process, NEW c, Moves(p, c), Rule(p, c),
           files' = files, told => told', store'.records = store.records,
           \A q \in Process : previews'[q] \subseteq previews[q],
           "initialisation" \notin excuse' => Knows(c, files) /\ HasAll(c, files),
           "overlap" \notin excuse' => Holds(c, files, Counted'),
           Reloading(proc[p]) =>
               Reloading(c) \/ told' \/ "killed" \in excuse' \/ AgreeTogether(files)
    PROVE  Informed'
  <1>1. \A d \in previews'[p] \ previews[p] :
            OfProject(d, files) /\ (NothingLost => StaysSound(d, files))
    OBVIOUS
  <1> QED BY <1>1, StaysInformed

(* What a confirmed apply has compared. *)
Compared(d, pc) ==
    /\ pc = "repairing" => files["project"] # Absent /\ files["project"].project = d.content
    /\ pc = "writing" => Agrees(d, files, Counted')
    /\ (pc = "writing" /\ d.kind \in {"policy", "capability"}) =>
           \A f \in File \ {"playbook"} : files[f] # Absent

LEMMA ApplyInforms ==
    ASSUME SetupTyped, Informed, NEW p \in Process, NEW d \in previews[p], NEW kind, NEW pc, NEW agrees,
           NEW noted \in SUBSET {"uncounted"}, ApplyNoting(p, d, kind, pc, agrees, noted),
           agrees => Compared(d, pc),
           \/ kind = "repair" /\ pc = "repairing"
           \/ kind \in {"policy", "capability", "resume", "taxonomy"} /\ pc = "writing"
           \/ kind = "work_graph" /\ pc = "starting"
           \/ kind \in {"gate_structure", "gate_policy"} /\ pc = "declaring"
    PROVE  SetupTyped' /\ Informed'
  <1>1. SetupTyped' BY ApplyTyped
  <1> DEFINE todo == IF kind = "repair" THEN d.base ELSE {}
             begun == Begun(pc, d, todo)
             refused == Stale("STALE", d)
  <1>2. /\ files' = files /\ store' = store /\ previews' = previews /\ told' = told
        /\ proc[p].pc = "idle" /\ d.kind = kind
        /\ \/ Moves(p, begun) /\ Begins(kind = "repair", p, noted) /\ Compared(d, pc)
           \/ Moves(p, refused) /\ excuse' = excuse
    BY DEF ApplyNoting, Moves, Begun, Stale
  <1>3. begun.pc = pc /\ begun.draft = d BY BeginsAs
  <1>4. refused.pc = "idle" BY StaleAs
  <1> HIDE DEF begun, refused, todo
  <1>5. ~Reloading(proc[p]) BY <1>2 DEF Reloading
  <1>6. CASE Moves(p, begun) /\ Begins(kind = "repair", p, noted) /\ Compared(d, pc)
    <2>1. (kind = "repair") = (begun.pc \in {"initialising", "repairing"}) BY <1>3
    <2>2. Rule(p, begun) BY <1>2, <1>3, <1>6, <2>1 DEF Rule
    <2>3. Knows(begun, files) BY <1>3, <1>6 DEF Knows, Compared
    <2>4. HasAll(begun, files) BY <1>3, <1>6 DEF HasAll, Compared
    <2>5. Holds(begun, files, Counted') BY <1>3, <1>6 DEF Holds, Compared
    <2> QED BY <1>1, <1>2, <1>5, <1>6, <2>2, <2>3, <2>4, <2>5, QuietInforms
  <1>7. CASE Moves(p, refused) /\ excuse' = excuse
    <2>1. Rule(p, refused) BY <1>4, <1>7 DEF Rule
    <2> QED BY <1>1, <1>2, <1>4, <1>5, <1>7, <2>1, IdleKnows, QuietInforms
  <1> QED BY <1>2, <1>6, <1>7

LEMMA ConfirmsInform ==
    ASSUME SetupTyped, Informed, NEW p \in Process, Confirms(p)
    PROVE  SetupTyped' /\ Informed'
  <1>1. PICK d \in previews[p] :
            \/ ApplyPolicyEdit(p, d) \/ ApplyCapability(p, d)
            \/ ApplyResumeEdit(p, d)
            \/ \E counted \in BOOLEAN : ApplyTaxonomyEdit(p, d, counted)
            \/ ApplyRepair(p, d) \/ ApplyWorkGraph(p, d)
            \/ ApplyGateStructure(p, d) \/ ApplyGatePolicy(p, d)
    BY DEF Confirms
  <1>2. CASE ApplyPolicyEdit(p, d)
    <2>1. d.kind = "policy" BY <1>2 DEF ApplyPolicyEdit, Apply, ApplyNoting
    <2>2. PolicyAgrees(d) => Compared(d, "writing")
      BY <2>1, AllThere DEF PolicyAgrees, AllowedCandidate, Compared, Agrees
    <2> QED BY <1>2, <2>2, ApplyInforms DEF ApplyPolicyEdit, Apply
  <1>3. CASE ApplyCapability(p, d)
    <2>1. d.kind = "capability" BY <1>3 DEF ApplyCapability, Apply, ApplyNoting
    <2>2. CapabilityAgrees(d) => RunnersAllowed(d.base \union {d.content}, files["policies"])
      BY DEF CapabilityAgrees, ContractCandidate, Loadable, CatalogsLoad, RunnersAllowed, Runners
    <2>3. CapabilityAgrees(d) => Compared(d, "writing")
      BY <2>1, <2>2, AllThere DEF CapabilityAgrees, ContractCandidate, Compared, Agrees
    <2> QED BY <1>3, <2>3, ApplyInforms DEF ApplyCapability, Apply
  <1>4. CASE ApplyResumeEdit(p, d)
    <2>1. d.kind = "resume" BY <1>4 DEF ApplyResumeEdit, Apply, ApplyNoting
    <2>2. ResumeAgrees(d) => Compared(d, "writing")
      BY <2>1 DEF ResumeAgrees, Compared, Agrees
    <2> QED BY <1>4, <2>2, ApplyInforms DEF ApplyResumeEdit, Apply
  <1>5. CASE \E counted \in BOOLEAN : ApplyTaxonomyEdit(p, d, counted)
    <2> PICK counted \in BOOLEAN : ApplyTaxonomyEdit(p, d, counted) BY <1>5
    <2> DEFINE noted == IF counted THEN {} ELSE {"uncounted"}
    <2>1. ApplyNoting(p, d, "taxonomy", "writing", TaxonomyAgrees(d, counted), noted)
      BY DEF ApplyTaxonomyEdit
    <2>2. d.kind = "taxonomy" /\ store' = store BY <2>1 DEF ApplyNoting
    <2>3. ASSUME TaxonomyAgrees(d, counted) PROVE Compared(d, "writing")
      <3>1. Begins(FALSE, p, noted) BY <2>1, <2>3 DEF ApplyNoting
      <3>2. ~counted => "uncounted" \in excuse' BY <3>1 DEF Begins
      <3>3. CASE counted
        <4>1. Counted' \subseteq store.records BY <2>2 DEF Counted
        <4> QED BY <2>2, <2>3, <3>3, <4>1 DEF TaxonomyAgrees, TaxonomyCandidate, Compared, Agrees
      <3>4. CASE ~counted
        <4>1. Counted' = {} BY <3>2, <3>4 DEF Counted
        <4> QED BY <2>2, <2>3, <4>1 DEF TaxonomyAgrees, Compared, Agrees
      <3> QED BY <3>3, <3>4
    <2>4. noted \in SUBSET {"uncounted"} OBVIOUS
    <2> HIDE DEF noted
    <2> QED BY <2>1, <2>3, <2>4, ApplyInforms
  <1>6. CASE ApplyRepair(p, d)
    <2>1. RepairAgrees(d) => Compared(d, "repairing") BY DEF RepairAgrees, Compared
    <2> QED BY <1>6, <2>1, ApplyInforms DEF ApplyRepair, Apply
  <1>7. CASE ApplyWorkGraph(p, d)
    <2>1. Compared(d, "starting") BY DEF Compared
    <2> QED BY <1>7, <2>1, ApplyInforms DEF ApplyWorkGraph, Apply
  <1>8. CASE ApplyGateStructure(p, d)
    <2>1. Compared(d, "declaring") BY DEF Compared
    <2> QED BY <1>8, <2>1, ApplyInforms DEF ApplyGateStructure, Apply
  <1>9. CASE ApplyGatePolicy(p, d)
    <2>1. Compared(d, "declaring") BY DEF Compared
    <2> QED BY <1>9, <2>1, ApplyInforms DEF ApplyGatePolicy, Apply
  <1> QED BY <1>1, <1>2, <1>3, <1>4, <1>5, <1>6, <1>7, <1>8, <1>9

LEMMA StartInitializationInforms ==
    ASSUME SetupTyped, Informed, NEW p \in Process, NEW pr \in Project, StartInitialization(p, pr)
    PROVE  Informed'
  <1> DEFINE todo == {f \in File : files[f] = Absent}
             c == Begun("initialising", pr, todo)
  <1>1. /\ Moves(p, c) /\ files' = files /\ store' = store /\ previews' = previews /\ told' = told
        /\ proc[p].pc = "idle" /\ Begins(TRUE, p, {})
        /\ \A f \in File : files[f] \in {Absent, Reference(pr)[f]}
    BY DEF StartInitialization, Request, Moves, Begun
  <1>2. c.pc = "initialising" /\ c.draft = pr /\ c.todo = todo BY BeginsAs
  <1>3. \A f \in File : files[f] = IF f \in todo THEN Absent ELSE Reference(pr)[f] BY <1>1
  <1> HIDE DEF c, todo
  <1>4. Knows(c, files) /\ HasAll(c, files) /\ Holds(c, files, Counted')
    BY <1>2, <1>3 DEF Knows, HasAll, Holds
  <1>5. Rule(p, c)
    <2>1. (c.pc \in {"initialising", "repairing"}) = TRUE BY <1>2
    <2> QED BY <1>1, <1>2, <2>1 DEF Rule
  <1>6. ~Reloading(proc[p]) BY <1>1 DEF Reloading
  <1> QED BY <1>1, <1>4, <1>5, <1>6, QuietInforms

LEMMA StartSyncInforms ==
    ASSUME SetupTyped, Informed, NEW p \in Process, StartSync(p)
    PROVE  Informed'
  <1> DEFINE c == Syncing("syncing", files["capabilities"], DeclaredRows(files["capabilities"]))
  <1>1. /\ Moves(p, c) /\ files' = files /\ store' = store /\ previews' = previews /\ told' = told
        /\ proc[p].pc = "idle" /\ Begins(FALSE, p, {})
    BY DEF StartSync, Request, Moves, Syncing
  <1>2. c.pc = "syncing" BY SyncsAs
  <1> HIDE DEF c
  <1>3. Rule(p, c)
    <2>1. (c.pc \in {"initialising", "repairing"}) = FALSE BY <1>2
    <2> QED BY <1>1, <1>2, <2>1 DEF Rule
  <1>4. ~Reloading(proc[p]) BY <1>1 DEF Reloading
  <1> QED BY <1>1, <1>2, <1>3, <1>4, IdleKnows, QuietInforms

LEMMA ResolveTypeInforms ==
    ASSUME SetupTyped, Informed, NEW p \in Process, NEW type \in Type, ResolveType(p, type)
    PROVE  Informed'
  <1> DEFINE c == Resolving("appending", type)
  <1>1. /\ Moves(p, c) /\ files' = files /\ store' = store /\ previews' = previews /\ told' = told
        /\ proc[p].pc = "idle" /\ Begins(FALSE, p, {}) /\ type \in files["project"].types
    BY DEF ResolveType, Request, Moves, Resolving
  <1>2. c.pc = "appending" /\ c.row = type BY ResolvesAs
  <1> HIDE DEF c
  <1>3. Knows(c, files) /\ HasAll(c, files) /\ Holds(c, files, Counted')
    BY <1>1, <1>2 DEF Knows, HasAll, Holds
  <1>4. Rule(p, c)
    <2>1. (c.pc \in {"initialising", "repairing"}) = FALSE BY <1>2
    <2> QED BY <1>1, <1>2, <2>1 DEF Rule
  <1>5. ~Reloading(proc[p]) BY <1>1 DEF Reloading
  <1> QED BY <1>1, <1>3, <1>4, <1>5, QuietInforms

LEMMA AddRequirementInforms ==
    ASSUME SetupTyped, Informed, NEW p \in Process, NEW e \in Evidence, AddRequirement(p, e)
    PROVE  Informed'
  <1>1. /\ files' = files /\ previews' = previews /\ proc' = proc /\ told' = told
        /\ excuse' = excuse /\ proc[p].pc = "idle"
        /\ store' = WithGate(store, store.gate \union {e})
    BY DEF AddRequirement, Request, WithGate
  <1>2. store'.records = store.records
    BY <1>1, StoreWritten DEF SetupTyped, StoreTyped
  <1>3. Moves(p, proc[p]) BY <1>1 DEF SetupTyped, CallsTyped, Moves
  <1>4. Rule(p, proc[p]) BY <1>1 DEF Rule
  <1> QED BY <1>1, <1>2, <1>3, <1>4, IdleKnows, QuietInforms

(* Whoever ends keeps nothing that could be stale. *)
LEMMA EndInforms ==
    ASSUME SetupTyped, Informed, NEW p \in Process, NEW status, Ends(p, status),
           files' = files, told => told', excuse' = excuse,
           \A q \in Process : previews'[q] \subseteq previews[q],
           \/ store'.records = store.records
           \/ proc[p].pc = "appending" /\ store'.records = store.records \union {proc[p].row},
           Reloading(proc[p]) => told' \/ AgreeTogether(files)
    PROVE  Informed'
  <1> DEFINE c == Ended(status, proc[p].draft, proc[p].snapshot)
  <1>1. Moves(p, c) BY DEF Moves, Ends, Ended
  <1>2. c.pc = "idle" BY EndsAs
  <1> HIDE DEF c
  <1>3. Rule(p, c) BY <1>2 DEF Rule
  <1>4. \A d \in previews'[p] \ previews[p] :
            OfProject(d, files) /\ (NothingLost => StaysSound(d, files))
    OBVIOUS
  <1> QED BY <1>1, <1>2, <1>3, <1>4, IdleKnows, StaysInformed

LEMMA AppliedOrRefused ==
    ASSUME SetupTyped, NEW p \in Process, Applied(p) \/ Refused(p)
    PROVE  /\ \E status : Ends(p, status)
           /\ \A q \in Process : previews'[q] \subseteq previews[q]
  BY DEF SetupTyped, PreviewsTyped, Applied, Refused

LEMMA LoadableAgrees == Loadable => AgreeTogether(files)
  BY DEF Loadable, CatalogsLoad, AgreeTogether, Restored, File

LEMMA ReloadInforms ==
    ASSUME SetupTyped, Informed, NEW p \in Process, ReloadCatalogs(p) \/ ReloadProfile(p)
    PROVE  Informed'
  <1>1. /\ files' = files /\ store' = store /\ excuse' = excuse
        /\ told => told'
        /\ Applied(p) \/ Refused(p)
        /\ Reloading(proc[p]) => told' \/ Loadable
    BY DEF ReloadCatalogs, ReloadProfile, Reloading
  <1>2. PICK status : Ends(p, status) BY <1>1, AppliedOrRefused
  <1>3. \A q \in Process : previews'[q] \subseteq previews[q] BY <1>1, AppliedOrRefused
  <1>4. Reloading(proc[p]) => told' \/ AgreeTogether(files) BY <1>1, LoadableAgrees
  <1>5. store'.records = store.records BY <1>1
  <1> QED BY <1>1, <1>2, <1>3, <1>4, <1>5, EndInforms

LEMMA StartPolicyInforms ==
    ASSUME SetupTyped, Informed, NEW p \in Process, DeclareStartPolicy(p)
    PROVE  Informed'
  <1> DEFINE c == Turned(proc[p], "completing")
  <1>1. /\ files' = files /\ told' = told /\ excuse' = excuse /\ proc[p].pc = "starting"
        /\ \/ Refused(p) /\ store' = store
           \/ Moves(p, c) /\ previews' = previews /\ \E v : store' = WithStart(store, v)
    BY DEF DeclareStartPolicy, To, Moves, Turned, WithStart
  <1>2. store'.records = store.records
    BY <1>1, StoreWritten DEF SetupTyped, StoreTyped
  <1>3. ~Reloading(proc[p]) BY <1>1 DEF Reloading
  <1>4. CASE Refused(p) BY <1>1, <1>2, <1>3, <1>4, AppliedOrRefused, EndInforms
  <1>5. CASE Moves(p, c) /\ previews' = previews
    <2>1. IsCall(proc[p]) BY DEF SetupTyped, CallsTyped
    <2>2. c.pc = "completing" BY <2>1, TurnsTo
    <2> HIDE DEF c
    <2>3. Rule(p, c) BY <1>1, <2>2 DEF Rule, Busy
    <2> QED BY <1>1, <1>2, <1>3, <1>5, <2>2, <2>3, IdleKnows, QuietInforms
  <1> QED BY <1>1, <1>4, <1>5

LEMMA DeclaresInform ==
    ASSUME SetupTyped, Informed, NEW p \in Process,
           DeclareCompletionPolicy(p) \/ DeclareGate(p) \/ DeclareGatePolicy(p)
    PROVE  Informed'
  <1>1. /\ files' = files /\ told' = told /\ excuse' = excuse
        /\ proc[p].pc \in {"completing", "declaring"}
        /\ Applied(p) \/ Refused(p)
        /\ \/ store' = store
           \/ \E v : \/ store' = WithCompletion(store, v) \/ store' = WithGate(store, v)
                     \/ store' = WithGatePolicy(store, v)
    BY DEF DeclareCompletionPolicy, DeclareGate, DeclareGatePolicy, WithCompletion, WithGate,
           WithGatePolicy
  <1>2. store'.records = store.records
    BY <1>1, StoreWritten DEF SetupTyped, StoreTyped
  <1>3. ~Reloading(proc[p]) BY <1>1 DEF Reloading
  <1> QED BY <1>1, <1>2, <1>3, AppliedOrRefused, EndInforms

LEMMA LookForRowInforms ==
    ASSUME SetupTyped, Informed, NEW p \in Process, NEW r, LookForRow(p, r)
    PROVE  Informed'
  <1> DEFINE c == LookedFor(proc[p], proc[p].rows \ {r}, IF OnRecord(r) THEN "syncing" ELSE "inserting",
                            IF OnRecord(r) THEN Absent ELSE r)
  <1>1. /\ Moves(p, c) /\ files' = files /\ store' = store /\ previews' = previews
        /\ told' = told /\ excuse' = excuse /\ proc[p].pc = "syncing"
    BY DEF LookForRow, Moves, LookedFor
  <1>2. IsCall(proc[p]) BY DEF SetupTyped, CallsTyped
  <1>3. c.pc \in {"syncing", "inserting"} BY <1>2, LooksFor
  <1> HIDE DEF c
  <1>4. Rule(p, c) BY <1>1, <1>3 DEF Rule, Busy
  <1>5. ~Reloading(proc[p]) BY <1>1 DEF Reloading
  <1> QED BY <1>1, <1>3, <1>4, <1>5, IdleKnows, QuietInforms

LEMMA InsertRowInforms ==
    ASSUME SetupTyped, Informed, NEW p \in Process, InsertRow(p)
    PROVE  Informed'
  <1> DEFINE c == GoneOn(proc[p], "syncing", Absent)
  <1>1. /\ files' = files /\ previews' = previews /\ proc[p].pc = "inserting"
        /\ told' = told /\ excuse' = excuse
        /\ \/ Ends(p, "REFUSED") /\ store' = store
           \/ Moves(p, c) /\ store' = WithRows(store, store.rows \union {proc[p].row})
    BY DEF InsertRow, Moves, GoneOn, WithRows
  <1>2. store'.records = store.records
    BY <1>1, StoreWritten DEF SetupTyped, StoreTyped
  <1>3. ~Reloading(proc[p]) BY <1>1 DEF Reloading
  <1>4. CASE Ends(p, "REFUSED") BY <1>1, <1>2, <1>3, <1>4, EndInforms
  <1>5. CASE Moves(p, c)
    <2>1. IsCall(proc[p]) BY DEF SetupTyped, CallsTyped
    <2>2. c.pc = "syncing" BY <2>1, GoesOn
    <2> HIDE DEF c
    <2>3. Rule(p, c) BY <1>1, <2>2 DEF Rule, Busy
    <2> QED BY <1>1, <1>2, <1>3, <1>5, <2>2, <2>3, IdleKnows, QuietInforms
  <1> QED BY <1>1, <1>4, <1>5

LEMMA EndSyncInforms ==
    ASSUME SetupTyped, Informed, NEW p \in Process, EndSync(p)
    PROVE  Informed'
  BY EndInforms DEF EndSync, Reloading

LEMMA AppendRecordInforms ==
    ASSUME SetupTyped, Informed, NEW p \in Process, AppendRecord(p)
    PROVE  Informed'
  <1>1. /\ files' = files /\ previews' = previews /\ Ends(p, "APPENDED") /\ told' = told
        /\ excuse' = excuse /\ proc[p].pc = "appending"
        /\ store' = WithRecords(store, store.records \union {proc[p].row})
    BY DEF AppendRecord, WithRecords
  <1>2. store'.records = store.records \union {proc[p].row}
    BY <1>1, StoreWritten DEF SetupTyped, StoreTyped
  <1>3. ~Reloading(proc[p]) BY <1>1 DEF Reloading
  <1> QED BY <1>1, <1>2, <1>3, EndInforms

LEMMA KillInforms ==
    ASSUME SetupTyped, Informed, NEW p \in Process, Kill(p)
    PROVE  Informed'
  <1>1. /\ Moves(p, Idle) /\ files' = files /\ store' = store /\ told' = told
        /\ previews' = [previews EXCEPT ![p] = {}]
        /\ excuse' = IF proc[p].pc = "reloading" THEN excuse \union {"killed"} ELSE excuse
    BY DEF Kill, Moves
  <1>2. \A q \in Process : previews'[q] \subseteq previews[q]
    BY <1>1 DEF SetupTyped, PreviewsTyped
  <1>3. Idle.pc = "idle" BY IdleIs
  <1>4. Rule(p, Idle) BY <1>1, <1>3 DEF Rule
  <1>5. Reloading(proc[p]) => "killed" \in excuse' BY <1>1 DEF Reloading
  <1> QED BY <1>1, <1>2, <1>3, <1>4, <1>5, IdleKnows, QuietInforms

-----------------------------------------------------------------------------
(* The steps that write a file. *)

(* A file that is lost or restored as its template has it is no change. *)
LEMMA RestoredKept ==
    ASSUME files["project"] # Absent, files'["project"] # Absent,
           files'["project"].project = files["project"].project,
           \A g \in File \ {"project"} :
               \/ files'[g] = files[g]
               \/ /\ files[g] \in {Absent, Reference(files["project"].project)[g]}
                  /\ files'[g] \in {Absent, Reference(files["project"].project)[g]}
    PROVE  /\ EachSound(files) => EachSound(files')
           /\ AgreeTogether(files) => AgreeTogether(files')
  <1>1. \A g \in File \ {"project"} : Restored(g, files') = Restored(g, files)
    BY DEF Restored
  <1>2. /\ Restored("capabilities", files') = Restored("capabilities", files)
        /\ Restored("gates", files') = Restored("gates", files)
        /\ Restored("policies", files') = Restored("policies", files)
    BY <1>1 DEF File
  <1> QED BY <1>2 DEF EachSound, AgreeTogether

LEMMA PreviewsStandFor ==
    ASSUME files["project"] # Absent, files'["project"] # Absent,
           files'["project"].project = files["project"].project, NEW d
    PROVE  /\ OfProject(d, files) => OfProject(d, files')
           /\ StaysSound(d, files) => StaysSound(d, files')
  BY DEF OfProject, StaysSound

LEMMA TemplateIsSound ==
    ASSUME NEW pr \in Project, NEW fs, \A f \in File : fs[f] = Reference(pr)[f]
    PROVE  EachSound(fs) /\ AgreeTogether(fs)
  <1>1. /\ fs["project"].project = pr /\ fs["capabilities"] = Template[pr]
        /\ fs["gates"] = Ids(Template[pr]) /\ fs["policies"] = Runners(Template[pr])
    BY ReferenceIs DEF File
  <1>2. \A f \in File : fs[f] # Absent BY ReferenceTyped
  <1>3. /\ Restored("capabilities", fs) = Template[pr]
        /\ Restored("gates", fs) = Ids(Template[pr])
        /\ Restored("policies", fs) = Runners(Template[pr])
    BY <1>1, <1>2 DEF Restored, File
  <1>4. SoundCapabilities(Template[pr]) BY TemplateAssumption
  <1>5. EachSound(fs) BY <1>1, <1>3, <1>4 DEF EachSound
  <1>6. AgreeTogether(fs) BY <1>3 DEF AgreeTogether, RunnersAllowed
  <1> QED BY <1>5, <1>6

(* Those who found or restore the files work alone, but for the excuse. *)
LEMMA FounderWrites ==
    ASSUME SetupTyped, Informed, NEW p \in Process, NEW c, Moves(p, c), Founding(p),
           c.pc \in {proc[p].pc, "idle"}, excuse' = excuse, store' = store, told' = told,
           \A q \in Process : previews'[q] \subseteq previews[q],
           "initialisation" \notin excuse =>
               /\ Knows(c, files')
               /\ \/ /\ files["project"] # Absent /\ files'["project"] = files["project"]
                     /\ EachSound(files) => EachSound(files')
                     /\ AgreeTogether(files) => AgreeTogether(files')
                  \/ files["project"] = Absent /\ files'["project"] = Absent
                  \/ /\ files["project"] = Absent /\ files'["project"] # Absent
                     /\ EachSound(files') /\ AgreeTogether(files')
    PROVE  Informed'
  <1>1. proc'[p] = c /\ \A q \in Process \ {p} : proc'[q] = proc[q] BY OthersStay
  <1>2. Busy(p) /\ ~Reloading(proc[p]) /\ c.pc \in {"initialising", "repairing", "idle"}
    BY DEF Founding, Busy, Reloading
  <1>3. Rule(p, c) BY <1>2 DEF Rule
  <1>4. Alone' BY <1>3, StaysAlone DEF Informed
  <1>5. CASE "initialisation" \in excuse
    <2>1. "overlap" \in excuse BY <1>5 DEF Informed, Alone
    <2> QED BY <1>4, <1>5, <2>1
         DEF Informed, FoundersKnow, SameProject, NothingStale, EditorsHaveAll, CatalogsAreSound,
             DisagreementIsTold, NothingLost
  <1>6. CASE "initialisation" \notin excuse
    <2>1. \A q \in Process \ {p} : proc'[q].pc = "idle" /\ proc[q].pc = "idle"
      BY <1>1, <1>6 DEF Informed, Alone, Busy
    <2>2. \A q \in Process : HasAll(proc'[q], files') /\ Holds(proc'[q], files', Counted')
      BY <1>1, <1>2, <2>1 DEF HasAll, Holds
    <2>3. \A q \in Process : Knows(proc'[q], files')
      <3>1. \A q \in Process \ {p} : Knows(proc'[q], files') BY <2>1 DEF Knows
      <3> QED BY <1>1, <1>6, <3>1
    <2>4. \A q \in Process : \A d \in previews'[q] :
              /\ OfProject(d, files) /\ OfProject(d, files')
              /\ NothingLost => StaysSound(d, files) /\ StaysSound(d, files')
      <3>1. \A q \in Process : \A d \in previews[q] :
                OfProject(d, files) /\ (NothingLost => StaysSound(d, files))
        BY <1>6 DEF Informed, SameProject, CatalogsAreSound
      <3>2. \A d : OfProject(d, files) => OfProject(d, files') BY <1>6 DEF OfProject
      <3>3. \A d : StaysSound(d, files) => StaysSound(d, files') BY <1>6 DEF StaysSound
      <3> QED BY <3>1, <3>2, <3>3
    <2>5. FoundersKnow' /\ SameProject' /\ EditorsHaveAll'
      BY <2>2, <2>3, <2>4 DEF FoundersKnow, SameProject, EditorsHaveAll
    <2>6. NothingStale'
      <3>1. files["project"] = Absent => Counted = {}
        BY DEF SetupTyped, StoreTyped, Counted
      <3>2. ASSUME "overlap" \notin excuse, files'["project"] # Absent
            PROVE  Counted \subseteq files'["project"].types
        BY <1>6, <3>1, <3>2 DEF Informed, NothingStale
      <3> QED BY <2>2, <3>2 DEF NothingStale, Counted
    <2>7. CatalogsAreSound'
      <3>1. NothingLost => EachSound(files) BY DEF Informed, CatalogsAreSound
      <3>2. NothingLost => EachSound(files') BY <1>6, <3>1 DEF EachSound
      <3> QED BY <2>4, <3>2 DEF CatalogsAreSound, NothingLost
    <2>8. DisagreementIsTold'
      <3> SUFFICES ASSUME NothingLost, ~({"killed", "overlap"} \subseteq excuse),
                          files'["project"] # Absent
                   PROVE  AgreeTogether(files') \/ told
        BY DEF DisagreementIsTold, NothingLost
      <3>1. \A q \in Process : ~Reloading(proc[q]) BY <1>2, <2>1 DEF Reloading
      <3>2. files["project"] # Absent => AgreeTogether(files) \/ told
        BY <3>1 DEF Informed, DisagreementIsTold
      <3> QED BY <1>6, <3>2
    <2> QED BY <1>4, <2>5, <2>6, <2>7, <2>8 DEF Informed
  <1> QED BY <1>5, <1>6

LEMMA ProfileComesLast ==
    ASSUME NEW todo \in SUBSET File, First("project", todo)
    PROVE  todo = {"project"}
  <1>1. \A g \in todo : 6 <= InitOrder[g] BY DEF First, InitOrder
  <1>2. \A g \in File : g # "project" => InitOrder[g] \in 1..5 BY DEF InitOrder, File
  <1>3. \A g \in todo : g = "project"
    <2> SUFFICES ASSUME NEW g \in todo, g # "project" PROVE FALSE
      OBVIOUS
    <2>1. 6 <= InitOrder[g] /\ InitOrder[g] \in 1..5 BY <1>1, <1>2
    <2> QED BY <2>1
  <1> QED BY <1>3 DEF First

LEMMA WriteInitialFileInforms ==
    ASSUME SetupTyped, Informed, NEW p \in Process, NEW f \in File, WriteInitialFile(p, f)
    PROVE  Informed'
  <1> DEFINE todo == proc[p].todo
             pr == proc[p].draft
             left == Shortened(proc[p], todo \ {f})
             done == Ended("INITIALIZED", proc[p].draft, proc[p].snapshot)
  <1>1. /\ proc[p].pc = "initialising" /\ store' = store /\ previews' = previews
        /\ told' = told /\ excuse' = excuse /\ First(f, todo)
        /\ files' = [files EXCEPT ![f] = Reference(pr)[f]]
        /\ Moves(p, done) \/ Moves(p, left)
    BY DEF WriteInitialFile, Moves, Shortened, Ends, Ended
  <1>2. IsCall(proc[p]) /\ IsAt(proc[p], previews[p], store, files["project"])
    BY DEF SetupTyped, CallsTyped
  <1>3. pr \in Project /\ todo \in SUBSET File BY <1>1, <1>2 DEF IsAt, Applying
  <1>4. files'[f] = Reference(pr)[f] /\ \A g \in File : g # f => files'[g] = files[g]
    BY <1>1 DEF SetupTyped, FilesTyped
  <1>5. done.pc = "idle" BY EndsAs
  <1>6. left.pc = "initialising" /\ left.draft = pr /\ left.todo = todo \ {f}
    BY <1>1, <1>2, Shortens DEF OnlyTodo
  <1> HIDE DEF left, done, todo, pr
  <1>7. Founding(p) BY <1>1 DEF Founding
  <1>8. ASSUME "initialisation" \notin excuse
        PROVE  /\ Knows(done, files') /\ Knows(left, files')
               /\ \/ /\ files["project"] # Absent /\ files'["project"] = files["project"]
                     /\ EachSound(files) => EachSound(files')
                     /\ AgreeTogether(files) => AgreeTogether(files')
                  \/ files["project"] = Absent /\ files'["project"] = Absent
                  \/ /\ files["project"] = Absent /\ files'["project"] # Absent
                     /\ EachSound(files') /\ AgreeTogether(files')
    <2>1. \A g \in File : files[g] = IF g \in todo THEN Absent ELSE Reference(pr)[g]
      BY <1>1, <1>8 DEF Informed, FoundersKnow, Knows, pr, todo
    <2>2. Knows(done, files') BY <1>5 DEF Knows
    <2>3. Knows(left, files') BY <1>4, <1>6, <2>1 DEF Knows
    <2>4. f \in todo /\ "project" \in File BY <1>1 DEF First, File
    <2>5. CASE "project" \notin todo
      <3>1. /\ files["project"] = Reference(pr)["project"] /\ files'["project"] = files["project"]
            /\ files["project"].project = pr /\ files["project"] # Absent
        BY <1>3, <1>4, <2>1, <2>4, <2>5, ReferenceIs, ReferenceTyped
      <3>2. \A g \in File \ {"project"} :
                \/ files'[g] = files[g]
                \/ files[g] \in {Absent, Reference(pr)[g]} /\ files'[g] \in {Absent, Reference(pr)[g]}
        BY <1>4, <2>1, <2>4
      <3>3. /\ EachSound(files) => EachSound(files')
            /\ AgreeTogether(files) => AgreeTogether(files')
        BY <3>1, <3>2, RestoredKept
      <3> QED BY <2>2, <2>3, <3>1, <3>3
    <2>6. CASE "project" \in todo /\ f # "project"
      BY <1>4, <2>1, <2>2, <2>3, <2>4, <2>6
    <2>7. CASE f = "project"
      <3>1. todo = {"project"} BY <1>1, <1>3, <2>7, ProfileComesLast
      <3>2. \A g \in File : files'[g] = Reference(pr)[g] BY <1>4, <2>1, <2>7, <3>1
      <3>3. EachSound(files') /\ AgreeTogether(files') BY <1>3, <3>2, TemplateIsSound
      <3>4. files["project"] = Absent /\ files'["project"] # Absent
        BY <1>3, <2>1, <2>4, <3>1, <3>2, ReferenceTyped
      <3> QED BY <2>2, <2>3, <3>3, <3>4
    <2> QED BY <2>5, <2>6, <2>7
  <1>9. CASE Moves(p, done) BY <1>1, <1>5, <1>7, <1>8, <1>9, FounderWrites
  <1>10. CASE Moves(p, left) BY <1>1, <1>6, <1>7, <1>8, <1>10, FounderWrites
  <1> QED BY <1>1, <1>9, <1>10

LEMMA RestoreFileInforms ==
    ASSUME SetupTyped, Informed, NEW p \in Process, NEW f \in File, RestoreFile(p, f)
    PROVE  Informed'
  <1> DEFINE pr == proc[p].draft.content
             left == Shortened(proc[p], proc[p].todo \ {f})
             done == Ended("APPLIED", proc[p].draft, proc[p].snapshot)
  <1>1. /\ proc[p].pc = "repairing" /\ store' = store /\ told' = told /\ excuse' = excuse
        /\ f \in proc[p].todo
        /\ \/ Refused(p) /\ files' = files
           \/ /\ files[f] = Absent /\ files' = [files EXCEPT ![f] = Reference(pr)[f]]
              /\ (Moves(p, done) /\ Applied(p)) \/ (Moves(p, left) /\ previews' = previews)
    BY DEF RestoreFile, First, Moves, Shortened, Applied, Ends, Ended
  <1>2. /\ IsCall(proc[p]) /\ proc[p].todo \in SUBSET REPAIRABLE_FILES
    BY <1>1, AppliedPreview DEF Applying
  <1>3. f # "project" BY <1>1, <1>2 DEF REPAIRABLE_FILES
  <1>4. CASE Refused(p) /\ files' = files
    <2>1. ~Reloading(proc[p]) BY <1>1 DEF Reloading
    <2> QED BY <1>1, <1>4, <2>1, AppliedOrRefused, EndInforms
  <1>5. CASE /\ files[f] = Absent /\ files' = [files EXCEPT ![f] = Reference(pr)[f]]
             /\ (Moves(p, done) /\ Applied(p)) \/ (Moves(p, left) /\ previews' = previews)
    <2>1. files'[f] = Reference(pr)[f] /\ \A g \in File : g # f => files'[g] = files[g]
      BY <1>5 DEF SetupTyped, FilesTyped
    <2>2. done.pc = "idle" BY EndsAs
    <2>3. left.pc = "repairing" /\ left.draft = proc[p].draft
      BY <1>1, <1>2, Shortens DEF OnlyTodo
    <2> HIDE DEF left, done, pr
    <2>4. \A q \in Process : previews'[q] \subseteq previews[q] BY <1>5, AppliedOrRefused
    <2>5. ASSUME "initialisation" \notin excuse
          PROVE  /\ Knows(done, files') /\ Knows(left, files')
                 /\ files["project"] # Absent /\ files'["project"] = files["project"]
                 /\ EachSound(files) => EachSound(files')
                 /\ AgreeTogether(files) => AgreeTogether(files')
      <3>1. files["project"] # Absent /\ files["project"].project = pr
        BY <1>1, <2>5 DEF Informed, FoundersKnow, Knows, pr
      <3>2. files'["project"] = files["project"] BY <1>3, <2>1 DEF File
      <3>3. Knows(done, files') /\ Knows(left, files')
        BY <2>2, <2>3, <3>1, <3>2 DEF Knows, pr
      <3>4. \A g \in File \ {"project"} :
                \/ files'[g] = files[g]
                \/ files[g] \in {Absent, Reference(pr)[g]} /\ files'[g] \in {Absent, Reference(pr)[g]}
        BY <1>5, <2>1
      <3>5. /\ EachSound(files) => EachSound(files')
            /\ AgreeTogether(files) => AgreeTogether(files')
        BY <3>1, <3>2, <3>4, RestoredKept
      <3> QED BY <3>1, <3>2, <3>3, <3>5
    <2>6. Founding(p) BY <1>1 DEF Founding
    <2>7. CASE Moves(p, done) BY <1>1, <2>2, <2>4, <2>5, <2>6, <2>7, FounderWrites
    <2>8. CASE Moves(p, left) BY <1>1, <2>3, <2>4, <2>5, <2>6, <2>8, FounderWrites
    <2> QED BY <1>5, <2>7, <2>8
  <1> QED BY <1>1, <1>4, <1>5

LEMMA LoseInforms ==
    ASSUME SetupTyped, Informed, NEW f \in File, Lose(f)
    PROVE  Informed'
  <1>1. /\ files' = [files EXCEPT ![f] = Absent] /\ f # "project" /\ files[f] # Absent
        /\ store' = store /\ previews' = previews /\ proc' = proc /\ told' = told
        /\ excuse \subseteq excuse'
        /\ (\E p \in Process : Busy(p)) => "overlap" \in excuse' /\ "initialisation" \in excuse'
        /\ Edited(f) => "lost" \in excuse'
        /\ "initialisation" \in excuse' =>
               "initialisation" \in excuse \/ (\E p \in Process : Busy(p))
    BY DEF Lose, REPAIRABLE_FILES
  <1>2. /\ files'["project"] = files["project"] /\ files'[f] = Absent
        /\ \A g \in File : g # f => files'[g] = files[g]
    BY <1>1 DEF SetupTyped, FilesTyped, File
  <1>3. Alone' BY <1>1 DEF Informed, Alone, Founding, Busy
  <1>4. CASE "initialisation" \in excuse'
    <2>1. "overlap" \in excuse' BY <1>3, <1>4 DEF Alone
    <2> QED BY <1>3, <1>4, <2>1
         DEF Informed, FoundersKnow, SameProject, NothingStale, EditorsHaveAll, CatalogsAreSound,
             DisagreementIsTold, NothingLost
  <1>5. CASE "initialisation" \notin excuse'
    <2>1. \A p \in Process : proc[p].pc = "idle" BY <1>1, <1>5 DEF Busy
    <2>2. \A p \in Process : /\ Knows(proc'[p], files') /\ HasAll(proc'[p], files')
                             /\ Holds(proc'[p], files', Counted')
      BY <1>1, <2>1, IdleKnows
    <2>3. FoundersKnow' /\ EditorsHaveAll' BY <2>2 DEF FoundersKnow, EditorsHaveAll
    <2>4. SameProject' BY <1>1, <1>2 DEF Informed, SameProject, OfProject
    <2>5. NothingStale'
      <3>1. Counted' \subseteq Counted BY <1>1, CountKept
      <3> QED BY <1>1, <1>2, <2>2, <3>1 DEF Informed, NothingStale
    <2>6. ASSUME NothingLost', files["project"] # Absent
          PROVE  /\ NothingLost
                 /\ EachSound(files) => EachSound(files')
                 /\ AgreeTogether(files) => AgreeTogether(files')
      <3>1. NothingLost BY <1>1, <2>6 DEF NothingLost
      <3>2. files[f] = Reference(files["project"].project)[f]
        <4>1. "lost" \notin excuse' BY <2>6 DEF NothingLost
        <4> QED BY <1>1, <2>6, <4>1 DEF Edited
      <3>3. \A g \in File \ {"project"} :
                \/ files'[g] = files[g]
                \/ /\ files[g] \in {Absent, Reference(files["project"].project)[g]}
                   /\ files'[g] \in {Absent, Reference(files["project"].project)[g]}
        BY <1>2, <3>2
      <3> QED BY <1>2, <2>6, <3>1, <3>3, RestoredKept
    <2>7. CatalogsAreSound'
      <3> SUFFICES ASSUME NothingLost'
                   PROVE  /\ EachSound(files')
                          /\ \A p \in Process : \A d \in previews[p] : StaysSound(d, files')
        BY <1>1 DEF CatalogsAreSound
      <3>1. NothingLost BY <1>1 DEF NothingLost
      <3>2. EachSound(files) /\ \A p \in Process : \A d \in previews[p] : StaysSound(d, files)
        BY <3>1 DEF Informed, CatalogsAreSound
      <3>3. \A d : StaysSound(d, files) => StaysSound(d, files') BY <1>2 DEF StaysSound
      <3>4. files["project"] = Absent => EachSound(files') BY <1>2 DEF EachSound
      <3> QED BY <2>6, <3>2, <3>3, <3>4
    <2>8. DisagreementIsTold'
      <3> SUFFICES ASSUME NothingLost', ~({"killed", "overlap"} \subseteq excuse'),
                          files["project"] # Absent
                   PROVE  AgreeTogether(files') \/ told
        BY <1>1, <1>2 DEF DisagreementIsTold
      <3>1. NothingLost /\ ~({"killed", "overlap"} \subseteq excuse) BY <1>1, <2>6
      <3>2. \A p \in Process : ~Reloading(proc[p]) BY <2>1 DEF Reloading
      <3>3. AgreeTogether(files) \/ told BY <3>1, <3>2 DEF Informed, DisagreementIsTold
      <3> QED BY <2>6, <3>3
    <2> QED BY <1>3, <2>3, <2>4, <2>5, <2>7, <2>8 DEF Informed
  <1> QED BY <1>4, <1>5

Wrote(p, c, kind, f, entry) ==
    /\ Moves(p, c) /\ Rule(p, c) /\ c.pc = "reloading" /\ c.draft = proc[p].draft
    /\ proc'[p] = c /\ \A q \in Process \ {p} : proc'[q] = proc[q]
    /\ proc[p].pc = "writing" /\ proc[p].draft.kind = kind
    /\ store' = store /\ previews' = previews /\ told' = told /\ excuse' = excuse
    /\ files'[f] = entry /\ \A g \in File : g # f => files'[g] = files[g]
    /\ Alone'
    /\ "initialisation" \notin excuse => \A q \in Process : Knows(proc'[q], files')
    /\ proc[p].draft \in previews[p] /\ IsPreview(proc[p].draft, store)

LEMMA EditorWrites ==
    ASSUME SetupTyped, Informed, NEW p \in Process, NEW kind, NEW f \in File, NEW entry,
           Writes(p, kind, f, entry)
    PROVE  \E c : Wrote(p, c, kind, f, entry)
  <1> DEFINE c == Turned(proc[p], "reloading")
  <1>1. /\ proc[p].pc = "writing" /\ store' = store /\ previews' = previews /\ Moves(p, c)
        /\ files' = [files EXCEPT ![f] = entry] /\ told' = told /\ excuse' = excuse
        /\ proc[p].draft.kind = kind
    BY DEF Writes, To, Moves, Turned
  <1>2. IsCall(proc[p]) /\ proc[p].draft \in previews[p] /\ IsPreview(proc[p].draft, store)
    BY <1>1, AppliedPreview
  <1>3. c.pc = "reloading" /\ c.draft = proc[p].draft BY <1>2, TurnsTo DEF OnlyPc
  <1> HIDE DEF c
  <1>4. proc'[p] = c /\ \A q \in Process \ {p} : proc'[q] = proc[q] BY <1>1, OthersStay
  <1>5. Busy(p) BY <1>1 DEF Busy
  <1>6. Rule(p, c) BY <1>1, <1>3, <1>5 DEF Rule
  <1>7. Alone' BY <1>1, <1>6, StaysAlone DEF Informed
  <1>8. files'[f] = entry /\ \A g \in File : g # f => files'[g] = files[g]
    BY <1>1 DEF SetupTyped, FilesTyped
  <1>9. ASSUME "initialisation" \notin excuse, NEW q \in Process
        PROVE  Knows(proc'[q], files')
    <2>1. q # p => ~Founding(q) BY <1>5, <1>9 DEF Informed, Alone
    <2>2. proc'[q].pc \notin {"initialising", "repairing"}
      BY <1>3, <1>4, <2>1 DEF Founding
    <2> QED BY <2>2 DEF Knows
  <1> QED BY <1>1, <1>2, <1>3, <1>4, <1>6, <1>7, <1>8, <1>9 DEF Wrote

(* The hazards of the editors end here: a catalog is replaced by one that was   *)
(* compared, and only beside another editor does it fail to agree.             *)
LEMMA CatalogWrites ==
    ASSUME SetupTyped, Informed, NEW p \in Process, NEW kind \in {"policy", "capability"},
           NEW f \in {"policies", "capabilities"}, NEW entry, entry # Absent,
           Writes(p, kind, f, entry),
           NothingLost /\ StaysSound(proc[p].draft, files) /\ EachSound(files) => EachSound(files'),
           (NothingLost /\ "overlap" \notin excuse /\ HasAll(proc[p], files)
              /\ Agrees(proc[p].draft, files, Counted)) => AgreeTogether(files')
    PROVE  Informed'
  <1>1. f \in File /\ f # "project" BY DEF File
  <1>2. PICK c : Wrote(p, c, kind, f, entry) BY <1>1, EditorWrites
  <1> USE DEF Wrote
  <1>3. files'["project"] = files["project"] BY <1>1, <1>2 DEF File
  <1>4. FoundersKnow' BY <1>2 DEF FoundersKnow
  <1>5. SameProject' BY <1>2, <1>3 DEF Informed, SameProject, OfProject
  <1>6. NothingStale'
    <2>1. ASSUME "overlap" \notin excuse, NEW q \in Process
          PROVE  Holds(proc'[q], files', Counted')
      <3>1. q # p => proc'[q].pc = "idle" BY <1>2, <2>1 DEF Informed, Alone, Busy
      <3> QED BY <1>2, <3>1 DEF Holds
    <2>2. Counted' = Counted BY <1>2 DEF Counted
    <2> QED BY <1>2, <1>3, <2>1, <2>2 DEF Informed, NothingStale
  <1>7. EditorsHaveAll'
    <2>1. ASSUME "initialisation" \notin excuse, NEW q \in Process
          PROVE  HasAll(proc'[q], files')
      <3>1. HasAll(proc[q], files) /\ HasAll(proc[p], files)
        BY <2>1 DEF Informed, EditorsHaveAll
      <3>2. \A g \in File : files[g] # Absent => files'[g] # Absent BY <1>2
      <3>3. CASE q = p BY <1>2, <3>1, <3>2, <3>3 DEF HasAll
      <3>4. CASE q # p BY <1>2, <3>1, <3>2, <3>4 DEF HasAll
      <3> QED BY <3>3, <3>4
    <2> QED BY <1>2, <2>1 DEF EditorsHaveAll
  <1>8. CatalogsAreSound'
    <2> SUFFICES ASSUME NothingLost
                 PROVE  /\ EachSound(files')
                        /\ \A q \in Process : \A d \in previews[q] : StaysSound(d, files')
      BY <1>2 DEF CatalogsAreSound, NothingLost
    <2>1. EachSound(files) /\ (\A q \in Process : \A d \in previews[q] : StaysSound(d, files))
      BY DEF Informed, CatalogsAreSound
    <2>2. \A d : StaysSound(d, files) => StaysSound(d, files') BY <1>3 DEF StaysSound
    <2> QED BY <1>2, <2>1, <2>2
  <1>9. DisagreementIsTold'
    <2> SUFFICES ASSUME NothingLost
                 PROVE  \/ AgreeTogether(files')
                        \/ "overlap" \in excuse /\ \E q \in Process : Reloading(proc'[q])
      BY <1>2 DEF DisagreementIsTold, NothingLost
    <2>1. Reloading(proc'[p]) BY <1>2 DEF Reloading
    <2>2. ASSUME "overlap" \notin excuse PROVE AgreeTogether(files')
      <3>1. HasAll(proc[p], files) BY DEF NothingLost, Informed, EditorsHaveAll
      <3>2. Agrees(proc[p].draft, files, Counted)
        BY <1>2, <2>2 DEF Informed, NothingStale, Holds
      <3> QED BY <2>2, <3>1, <3>2
    <2> QED BY <2>1, <2>2
  <1> QED BY <1>2, <1>4, <1>5, <1>6, <1>7, <1>8, <1>9 DEF Informed

LEMMA WritePoliciesInforms ==
    ASSUME SetupTyped, Informed, NEW p \in Process, WritePolicies(p)
    PROVE  Informed'
  <1> DEFINE d == proc[p].draft
  <1>1. /\ Writes(p, "policy", "policies", d.content) /\ proc[p].pc = "writing"
        /\ d.kind = "policy" /\ files' = [files EXCEPT !["policies"] = d.content]
    BY DEF WritePolicies, Writes
  <1>2. d.content \in SUBSET Runner BY <1>1, AppliedPreview DEF IsPreview
  <1>3. d.content # Absent
    <2>1. d.content \in SUBSET (Runner \union Runners(Contract)) BY <1>2
    <2> QED BY <2>1, AbsentAssumption
  <1>4. /\ files'["policies"] = d.content
        /\ \A g \in File : g # "policies" => files'[g] = files[g]
    BY <1>1 DEF SetupTyped, FilesTyped, File
  <1>5. EachSound(files) => EachSound(files') BY <1>4 DEF EachSound, Restored, File
  <1>6. HasAll(proc[p], files) /\ Agrees(d, files, Counted) => AgreeTogether(files')
    BY <1>1, <1>3, <1>4 DEF HasAll, Agrees, AgreeTogether, Restored, File
  <1> QED BY <1>1, <1>3, <1>5, <1>6, CatalogWrites

LEMMA WriteCatalogInforms ==
    ASSUME SetupTyped, Informed, NEW p \in Process, WriteCatalog(p)
    PROVE  Informed'
  <1> DEFINE d == proc[p].draft
             entry == d.base \union {d.content}
  <1>1. /\ Writes(p, "capability", "capabilities", entry) /\ proc[p].pc = "writing"
        /\ d.kind = "capability" /\ files' = [files EXCEPT !["capabilities"] = entry]
    BY DEF WriteCatalog, Writes
  <1>2. d.base \in SUBSET Contract /\ d.content \in Draft BY <1>1, AppliedPreview DEF IsPreview
  <1>3. entry # Absent
    <2>1. Draft \subseteq Contract BY DEF Contract
    <2>2. entry \in SUBSET Contract BY <1>2, <2>1
    <2> HIDE DEF entry
    <2> QED BY <2>2, AbsentAssumption
  <1>4. /\ files'["capabilities"] = entry
        /\ \A g \in File : g # "capabilities" => files'[g] = files[g]
    BY <1>1 DEF SetupTyped, FilesTyped, File
  <1>5. StaysSound(d, files) => /\ files["project"] # Absent
                                /\ Template[files["project"].project] \subseteq entry
                                /\ SoundCapabilities(entry)
    BY <1>1 DEF StaysSound
  <1>6. Agrees(d, files, Counted) => RunnersAllowed(entry, files["policies"])
    BY <1>1 DEF Agrees
  <1> HIDE DEF entry
  <1>7. StaysSound(d, files) /\ EachSound(files) => EachSound(files')
    BY <1>3, <1>4, <1>5 DEF EachSound, Restored, File
  <1>8. HasAll(proc[p], files) /\ Agrees(d, files, Counted) => AgreeTogether(files')
    BY <1>1, <1>3, <1>4, <1>6 DEF HasAll, AgreeTogether, Restored, File
  <1> QED BY <1>1, <1>3, <1>7, <1>8, CatalogWrites

LEMMA ProfileWritesInform ==
    ASSUME SetupTyped, Informed, NEW p \in Process, WriteResumeContract(p) \/ WriteTaxonomy(p)
    PROVE  Informed'
  <1> DEFINE d == proc[p].draft
  <1>1. PICK kind \in {"resume", "taxonomy"} :
            Writes(p, kind, "project", d.content) /\ d.kind = kind
    BY DEF WriteResumeContract, WriteTaxonomy, Writes
  <1>2. PICK c : Wrote(p, c, kind, "project", d.content)
    <2> DEFINE entry == d.content
    <2>1. Writes(p, kind, "project", entry) BY <1>1
    <2>2. "project" \in File BY DEF File
    <2> HIDE DEF entry
    <2>3. \E c : Wrote(p, c, kind, "project", entry) BY <2>1, <2>2, EditorWrites
    <2> QED BY <2>3 DEF entry
  <1> USE DEF Wrote
  <1>3. d.content \in ProjectFile /\ (kind = "resume" => d.content.types = d.base.types)
    BY <1>1, <1>2 DEF IsPreview
  <1>4. d.content # Absent BY <1>3, AbsentAssumption
  <1> HIDE DEF d
  <1>5. "initialisation" \notin excuse =>
            /\ files["project"] # Absent /\ files'["project"] # Absent
            /\ files'["project"].project = files["project"].project
    BY <1>1, <1>2, <1>4 DEF Informed, SameProject, OfProject, d
  <1>6. FoundersKnow' BY <1>2 DEF FoundersKnow
  <1>7. SameProject'
    <2>1. ASSUME "initialisation" \notin excuse, NEW q \in Process, NEW e \in previews[q]
          PROVE  OfProject(e, files')
      <3>1. OfProject(e, files) BY <2>1 DEF Informed, SameProject
      <3> QED BY <1>5, <2>1, <3>1, PreviewsStandFor
    <2> QED BY <1>2, <2>1 DEF SameProject
  <1>8. NothingStale'
    <2>1. ASSUME "overlap" \notin excuse, NEW q \in Process
          PROVE  Holds(proc'[q], files', Counted')
      <3>1. q # p => proc'[q].pc = "idle" BY <1>2, <2>1 DEF Informed, Alone, Busy
      <3> QED BY <1>2, <3>1 DEF Holds
    <2>2. ASSUME "overlap" \notin excuse
          PROVE  Counted \subseteq d.content.types
      <3>1. "initialisation" \notin excuse BY <2>2 DEF Informed, Alone
      <3>2. Counted \subseteq files["project"].types
        BY <1>5, <2>2, <3>1 DEF Informed, NothingStale
      <3>3. Agrees(d, files, Counted)
        BY <1>2, <2>2 DEF Informed, NothingStale, Holds, d
      <3>4. files["project"] = d.base BY <1>1, <3>3 DEF Agrees
      <3>5. CASE kind = "resume" BY <1>3, <3>2, <3>4, <3>5
      <3>6. CASE kind = "taxonomy"
        <4>1. (d.base.types \ d.content.types) \intersect Counted = {}
          BY <1>1, <3>3, <3>6 DEF Agrees
        <4> QED BY <3>2, <3>4, <4>1
      <3> QED BY <3>5, <3>6
    <2>3. Counted' = Counted BY <1>2 DEF Counted
    <2> QED BY <1>2, <2>1, <2>2, <2>3 DEF NothingStale
  <1>9. EditorsHaveAll'
    <2>1. ASSUME "initialisation" \notin excuse, NEW q \in Process
          PROVE  HasAll(proc'[q], files')
      <3>1. HasAll(proc[q], files) BY <2>1 DEF Informed, EditorsHaveAll
      <3>2. \A g \in File : files[g] # Absent => files'[g] # Absent BY <1>2, <1>4
      <3>3. CASE q = p BY <1>1, <1>2, <3>3 DEF HasAll
      <3>4. CASE q # p BY <1>2, <3>1, <3>2, <3>4 DEF HasAll
      <3> QED BY <3>3, <3>4
    <2> QED BY <1>2, <2>1 DEF EditorsHaveAll
  <1>10. NothingLost => /\ EachSound(files) => EachSound(files')
                        /\ AgreeTogether(files) => AgreeTogether(files')
    <2> HAVE NothingLost
    <2>1. "initialisation" \notin excuse BY DEF NothingLost
    <2>2. \A g \in File \ {"project"} : files'[g] = files[g] BY <1>2
    <2> QED BY <1>5, <2>1, <2>2, RestoredKept
  <1>11. CatalogsAreSound'
    <2> SUFFICES ASSUME NothingLost
                 PROVE  /\ EachSound(files')
                        /\ \A q \in Process : \A e \in previews[q] : StaysSound(e, files')
      BY <1>2 DEF CatalogsAreSound, NothingLost
    <2>1. EachSound(files) /\ (\A q \in Process : \A e \in previews[q] : StaysSound(e, files))
      BY DEF Informed, CatalogsAreSound
    <2>2. "initialisation" \notin excuse BY DEF NothingLost
    <2>3. \A e : StaysSound(e, files) => StaysSound(e, files')
      BY <1>5, <2>2, PreviewsStandFor
    <2> QED BY <1>10, <2>1, <2>3
  <1>12. DisagreementIsTold'
    <2> SUFFICES ASSUME NothingLost, ~({"killed", "overlap"} \subseteq excuse)
                 PROVE  \/ AgreeTogether(files') \/ told
                        \/ "overlap" \in excuse /\ \E q \in Process : Reloading(proc'[q])
      BY <1>2 DEF DisagreementIsTold, NothingLost
    <2>1. files["project"] # Absent BY <1>5 DEF NothingLost
    <2>2. \/ AgreeTogether(files) \/ told
          \/ "overlap" \in excuse /\ \E q \in Process : Reloading(proc[q])
      BY <2>1 DEF Informed, DisagreementIsTold
    <2>3. ~Reloading(proc[p]) BY <1>2 DEF Reloading
    <2> QED BY <1>2, <1>10, <2>2, <2>3
  <1> QED BY <1>2, <1>6, <1>7, <1>8, <1>9, <1>11, <1>12 DEF Informed

-----------------------------------------------------------------------------
(* The invariant. *)

LEMMA SetupInitIInv == SetupInit => SetupIInv
  <1> SUFFICES ASSUME SetupInit PROVE SetupIInv
    OBVIOUS
  <1>1. /\ store = NoStore /\ previews = [p \in Process |-> {}] /\ proc = [p \in Process |-> Idle]
        /\ told = FALSE /\ excuse = {}
        /\ \/ files = [f \in File |-> Absent]
           \/ \E pr \in Project : files = Reference(pr)
    BY DEF SetupInit
  <1>2. \A p \in Process : proc[p] = Idle /\ previews[p] = {} BY <1>1
  <1>3. IsStore(store) /\ store.rows = {} /\ store.records = {} /\ store.start = Absent
        /\ store.completion = Absent /\ store.gate = Absent /\ store.gate_policy = Absent
    BY <1>1 DEF NoStore, IsStore
  <1>4. FilesTyped
    <2>1. CASE files = [f \in File |-> Absent] BY <2>1 DEF FilesTyped, IsContent
    <2>2. CASE \E pr \in Project : files = Reference(pr)
      <3>1. PICK pr \in Project : files = Reference(pr) BY <2>2
      <3>2. files = [f \in File |-> files[f]] BY <3>1 DEF Reference
      <3>3. \A f \in File : IsContent(f, files[f]) BY <3>1, ReferenceContent
      <3> QED BY <3>2, <3>3 DEF FilesTyped
    <2> QED BY <1>1, <2>1, <2>2
  <1>5. PreviewsTyped BY <1>1, <1>2 DEF PreviewsTyped
  <1>6. StoreTyped BY <1>3 DEF StoreTyped
  <1>7. CallsTyped
    <2>1. proc = [p \in Process |-> proc[p]] BY <1>1, <1>2
    <2>2. \A p \in Process : IsAt(proc[p], previews[p], store, files["project"])
      BY <1>2, IdleIs DEF IsAt
    <2>3. \A p \in Process : IsCall(proc[p]) /\ Answered(proc[p], store)
      BY <1>2, IdleIs DEF Answered
    <2> QED BY <2>1, <2>2, <2>3 DEF CallsTyped
  <1>8. Alone BY <1>1, <1>2, IdleIs DEF Alone, Founding, Busy
  <1>9. \A p \in Process : /\ Knows(proc[p], files) /\ HasAll(proc[p], files)
                           /\ Holds(proc[p], files, Counted)
    BY <1>2, IdleIs, IdleKnows
  <1>10. FoundersKnow /\ SameProject /\ NothingStale /\ EditorsHaveAll
    BY <1>2, <1>3, <1>9 DEF FoundersKnow, SameProject, NothingStale, Counted, EditorsHaveAll
  <1>11. EachSound(files) /\ (files["project"] # Absent => AgreeTogether(files))
    <2>1. CASE files = [f \in File |-> Absent] BY <2>1 DEF EachSound, File
    <2>2. CASE \E pr \in Project : files = Reference(pr) BY <2>2, TemplateIsSound
    <2> QED BY <1>1, <2>1, <2>2
  <1>12. CatalogsAreSound /\ DisagreementIsTold
    BY <1>2, <1>11 DEF CatalogsAreSound, DisagreementIsTold
  <1> QED BY <1>4, <1>5, <1>6, <1>7, <1>8, <1>10, <1>12 DEF SetupIInv, SetupTyped, Informed

LEMMA AsksKeep ==
    ASSUME SetupTyped, Informed, NEW p \in Process, Asks(p)
    PROVE  SetupTyped' /\ Informed'
  <1>1. CASE \E pr \in Project : StartInitialization(p, pr)
    BY <1>1, StartInitializationTyped, StartInitializationInforms
  <1>2. CASE \/ PreviewRepair(p)
             \/ \E allowed \in SUBSET Runner : PreviewPolicyEdit(p, allowed)
             \/ \E s, c \in {Absent} \union Mode : PreviewWorkGraph(p, <<s, c>>)
             \/ \E required \in SUBSET Evidence : PreviewGateStructure(p, required)
             \/ \E minimum \in 1..Cardinality(Evidence) : PreviewGatePolicy(p, minimum)
    <2>1. KeepsWell(p) BY <1>2, PlainPreviews
    <2>2. proc[p].pc = "idle"
      BY <1>2 DEF PreviewRepair, PreviewPolicyEdit, PreviewWorkGraph, PreviewGateStructure,
                  PreviewGatePolicy, Request
    <2> QED BY <2>1, <2>2, KeepInforms
  <1>3. CASE \E c \in Draft : PreviewCapability(p, c)
    <2>1. KeepsWell(p) BY <1>3, CapabilityPreview DEF Informed
    <2>2. proc[p].pc = "idle" BY <1>3 DEF PreviewCapability, Request
    <2> QED BY <2>1, <2>2, KeepInforms
  <1>4. CASE \/ \E enabled \in SUBSET Host : PreviewResumeEdit(p, enabled)
             \/ \E types \in SUBSET Type, counted \in BOOLEAN : PreviewTaxonomyEdit(p, types, counted)
    <2>1. KeepsWell(p) BY <1>4, ProfilePreviews
    <2>2. proc[p].pc = "idle" BY <1>4 DEF PreviewResumeEdit, PreviewTaxonomyEdit, Request
    <2> QED BY <2>1, <2>2, KeepInforms
  <1>5. CASE \E e \in Evidence : AddRequirement(p, e)
    BY <1>5, AddRequirementTyped, AddRequirementInforms
  <1>6. CASE StartSync(p) BY <1>6, StartSyncTyped, StartSyncInforms
  <1>7. CASE \E type \in Type : ResolveType(p, type)
    BY <1>7, ResolveTypeTyped, ResolveTypeInforms
  <1> QED BY <1>1, <1>2, <1>3, <1>4, <1>5, <1>6, <1>7 DEF Asks

LEMMA WorksKeep ==
    ASSUME SetupTyped, Informed, NEW p \in Process, Works(p)
    PROVE  SetupTyped' /\ Informed'
  <1>1. CASE \E f \in File : WriteInitialFile(p, f) \/ RestoreFile(p, f)
    BY <1>1, WriteInitialFileTyped, WriteInitialFileInforms, RestoreFileTyped, RestoreFileInforms
  <1>2. CASE WritePolicies(p) BY <1>2, EditorsWriteTyped, WritePoliciesInforms
  <1>3. CASE WriteCatalog(p) BY <1>3, EditorsWriteTyped, WriteCatalogInforms
  <1>4. CASE WriteResumeContract(p) \/ WriteTaxonomy(p)
    BY <1>4, EditorsWriteTyped, ProfileWritesInform
  <1>5. CASE ReloadCatalogs(p) \/ ReloadProfile(p) BY <1>5, ReloadTyped, ReloadInforms
  <1>6. CASE DeclareStartPolicy(p) BY <1>6, DeclareStartPolicyTyped, StartPolicyInforms
  <1>7. CASE DeclareCompletionPolicy(p)
    BY <1>7, DeclareCompletionPolicyTyped, DeclaresInform
  <1>8. CASE DeclareGate(p) BY <1>8, DeclareGateTyped, DeclaresInform
  <1>9. CASE DeclareGatePolicy(p) BY <1>9, DeclareGatePolicyTyped, DeclaresInform
  <1>10. CASE \E r \in proc[p].rows : LookForRow(p, r)
    BY <1>10, LookForRowTyped, LookForRowInforms
  <1>11. CASE InsertRow(p) BY <1>11, InsertRowTyped, InsertRowInforms
  <1>12. CASE EndSync(p) BY <1>12, EndSyncTyped, EndSyncInforms
  <1>13. CASE AppendRecord(p) BY <1>13, AppendRecordTyped, AppendRecordInforms
  <1> QED BY <1>1, <1>2, <1>3, <1>4, <1>5, <1>6, <1>7, <1>8, <1>9, <1>10, <1>11, <1>12, <1>13
          DEF Works

LEMMA SetupInductive == SetupIInv /\ [SetupNext]_setupVars => SetupIInv'
  <1> SUFFICES ASSUME SetupIInv, [SetupNext]_setupVars PROVE SetupIInv'
    OBVIOUS
  <1>1. SetupTyped /\ Informed BY DEF SetupIInv
  <1>2. CASE \E p \in Process : Asks(p) \/ Confirms(p) \/ Works(p) \/ Kill(p)
    <2>1. PICK p \in Process : Asks(p) \/ Confirms(p) \/ Works(p) \/ Kill(p) BY <1>2
    <2> QED BY <1>1, <2>1, AsksKeep, ConfirmsInform, WorksKeep, KillTyped, KillInforms DEF SetupIInv
  <1>3. CASE \E f \in File : Lose(f)
    BY <1>1, <1>3, LoseTyped, LoseInforms DEF SetupIInv
  <1>4. CASE UNCHANGED setupVars
    <2>1. /\ files' = files /\ store' = store /\ previews' = previews /\ proc' = proc
          /\ told' = told /\ excuse' = excuse
      BY <1>4 DEF setupVars
    <2>2. SetupTyped'
      BY <1>1, <2>1 DEF SetupTyped, FilesTyped, PreviewsTyped, StoreTyped, CallsTyped
    <2>3. Informed'
      BY <1>1, <2>1 DEF Informed, Alone, Founding, Busy, FoundersKnow, SameProject, NothingStale,
                        Counted, EditorsHaveAll, CatalogsAreSound, DisagreementIsTold, NothingLost
    <2> QED BY <2>2, <2>3 DEF SetupIInv
  <1> QED BY <1>2, <1>3, <1>4 DEF SetupNext

LEMMA SetupInvariant == SetupSpec => []SetupIInv
  BY SetupInitIInv, SetupInductive, PTL DEF SetupSpec

-----------------------------------------------------------------------------
(* The theorems. *)

(* The files of a project keep their shapes through every edit, repair and      *)
(* loss; no two rows of a table have one key, no contract is without its       *)
(* capability, a threshold never exceeds the requirements of its gate, and     *)
(* whoever works for a person still holds the preview that person confirmed    *)
(* (policy_editor.py, capability_builder.py, gate_builder.py, write_api.py).   *)
THEOREM SetupTypeCorrect == SetupSpec => []SetupTypeOK
  <1>1. SetupIInv => SetupTypeOK
    <2> SUFFICES ASSUME SetupIInv PROVE SetupTypeOK
      OBVIOUS
    <2>1. SetupTyped BY DEF SetupIInv
    <2>2. /\ files["agent_profiles"] \in {Absent, Host}
          /\ files["capabilities"] \in {Absent} \union SUBSET Contract
          /\ files["policies"] \in {Absent} \union SUBSET (Runner \union Runners(Contract))
          /\ files["gates"] \in {Absent} \union SUBSET Ids(Contract)
          /\ files["project"] \in {Absent} \union ProjectFile
      BY <2>1 DEF SetupTyped, FilesTyped, IsContent, File
    <2>3. \A p \in Process :
              proc[p].pc \in {"writing", "reloading", "repairing", "starting", "completing", "declaring"}
                  => proc[p].draft \in previews[p]
      BY <2>1, AppliedPreview
    <2> QED BY <2>1, <2>2, <2>3 DEF SetupTyped, StoreTyped, SetupTypeOK
  <1> QED BY <1>1, SetupInvariant, PTL

(* No edit of the taxonomy leaves a record without its type                    *)
(* (profile_taxonomy.py:170), as long as no two processes were at work at once *)
(* and the records could be counted when the edit was applied.                 *)
THEOREM NoRecordIsOrphaned == SetupSpec => []NothingIsOrphaned
  <1>1. SetupIInv => NothingIsOrphaned
    BY DEF SetupIInv, Informed, NothingStale, Counted, NothingIsOrphaned
  <1> QED BY <1>1, SetupInvariant, PTL

(* What a synchronisation or a builder answers is so and stays so, whatever     *)
(* other processes write at the same time (write_api.py,                       *)
(* work_graph_policy_builder.py).                                              *)
THEOREM AnswersStayTrue == SetupSpec => []AnswersAreTrue
  <1>1. SetupIInv => AnswersAreTrue
    <2> SUFFICES ASSUME SetupIInv, NEW p \in Process
                 PROVE  /\ proc[p].status = "SYNCED" =>
                               \A r \in DeclaredRows(proc[p].snapshot) : OnRecord(r)
                        /\ (proc[p].status = "APPLIED" /\ proc[p].draft.kind = "work_graph") =>
                               /\ proc[p].draft.content[1] \in {Absent, store.start}
                               /\ proc[p].draft.content[2] \in {Absent, store.completion}
      BY DEF AnswersAreTrue
    <2>1. Answered(proc[p], store) BY DEF SetupIInv, SetupTyped, CallsTyped
    <2> QED BY <2>1, OnRecordAmong DEF Answered
  <1> QED BY <1>1, SetupInvariant, PTL

(* Catalogs that do not load together have been told of when nobody is at work  *)
(* (policy_editor.py:186, capability_builder.py:412): every catalog stays       *)
(* sound by itself, and two that disagree are read again by an editor.          *)
THEOREM BrokenCatalogsAreKnown == SetupSpec => []BrokenCatalogsAreTold
  <1>1. SetupIInv => BrokenCatalogsAreTold
    <2> SUFFICES ASSUME SetupIInv, Installed, \A p \in Process : ~Busy(p),
                        {"initialisation", "lost"} \intersect excuse = {},
                        ~({"killed", "overlap"} \subseteq excuse), ~told
                 PROVE  Loadable
      BY DEF BrokenCatalogsAreTold
    <2>1. \A f \in File : files[f] # Absent BY DEF Installed
    <2>2. files["project"] # Absent /\ files["agent_profiles"] = Host
          /\ files["project"] \in ProjectFile
      BY <2>1 DEF SetupIInv, SetupTyped, FilesTyped, IsContent, File
    <2>3. /\ Restored("capabilities", files) = files["capabilities"]
          /\ Restored("policies", files) = files["policies"]
          /\ Restored("gates", files) = files["gates"]
      BY <2>1 DEF Restored, File
    <2>4. NothingLost BY DEF NothingLost
    <2>5. /\ SoundCapabilities(files["capabilities"])
          /\ Template[files["project"].project] \subseteq files["capabilities"]
          /\ files["gates"] = Ids(Template[files["project"].project])
      BY <2>2, <2>3, <2>4 DEF SetupIInv, Informed, CatalogsAreSound, EachSound
    <2>6. SoundGates(files["gates"], files["capabilities"]) BY <2>5 DEF SoundGates, Ids
    <2>7. \A p \in Process : ~Reloading(proc[p]) BY DEF Busy, Reloading
    <2>8. AgreeTogether(files)
      BY <2>2, <2>4, <2>7 DEF SetupIInv, Informed, DisagreementIsTold
    <2>9. RunnersAllowed(files["capabilities"], files["policies"])
      BY <2>3, <2>8 DEF AgreeTogether
    <2>10. files["project"].enabled \subseteq files["agent_profiles"] BY <2>2 DEF ProjectFile
    <2> QED BY <2>1, <2>5, <2>6, <2>9, <2>10 DEF Loadable, CatalogsLoad
  <1> QED BY <1>1, SetupInvariant, PTL

(* An edit replaces the very file its reviewer saw, however long the preview    *)
(* was kept, as long as no two processes were at work at once                  *)
(* (policy_editor.py, capability_builder.py, resume_contract_editor.py,         *)
(* profile_taxonomy.py).                                                       *)
THEOREM EditsAreAsReviewed == SetupSpec => AppliedAsReviewed
  <1> DEFINE AsReviewed ==
        \A p \in Process :
          (/\ proc[p].pc = "writing" /\ proc'[p].pc = "reloading" /\ "overlap" \notin excuse)
              => CASE proc[p].draft.kind = "policy" -> files["policies"] = proc[p].draft.base
                   [] proc[p].draft.kind = "capability" -> files["capabilities"] = proc[p].draft.base
                   [] OTHER -> files["project"] = proc[p].draft.base
  <1>1. SetupIInv => AsReviewed
    <2> SUFFICES ASSUME SetupIInv, NEW p \in Process, proc[p].pc = "writing", "overlap" \notin excuse
                 PROVE  CASE proc[p].draft.kind = "policy" -> files["policies"] = proc[p].draft.base
                          [] proc[p].draft.kind = "capability" ->
                                 files["capabilities"] = proc[p].draft.base
                          [] OTHER -> files["project"] = proc[p].draft.base
      OBVIOUS
    <2>1. Agrees(proc[p].draft, files, Counted)
      BY DEF SetupIInv, Informed, NothingStale, Holds
    <2>2. Applying(proc[p], previews[p]) BY AppliedPreview DEF SetupIInv
    <2>3. proc[p].draft.kind \in {"policy", "capability", "resume", "taxonomy"}
      BY <2>2 DEF Applying
    <2> QED BY <2>1, <2>3 DEF Agrees
  <1>2. SetupIInv => [AsReviewed]_setupVars BY <1>1
  <1> QED BY <1>2, SetupInvariant, PTL DEF AppliedAsReviewed
=============================================================================
