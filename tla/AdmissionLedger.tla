--------------------------- MODULE AdmissionLedger ---------------------------
(***************************************************************************)
(* What the rest of the Core is promised about an evidence, whatever the   *)
(* runner, the validator and the policies behind it: it is recorded once   *)
(* with a verdict, decided at most once, and only a passing one is ever    *)
(* admitted.  EvidenceChain implements this specification and WorkGraph is *)
(* built on it: a gate reads nothing of an evidence but its standing.      *)
(***************************************************************************)
CONSTANT Evidence       \* the identifiers an evidence may have

VARIABLE standing       \* standing[e]: how far evidence e has come

Standing == {"ABSENT", "PASSING", "FAILING", "ADMITTED", "REJECTED"}

LedgerTypeOK == standing \in [Evidence -> Standing]

LedgerInit == standing = [e \in Evidence |-> "ABSENT"]

(* EvidenceService.record: any verdict, "FAILING" standing for FAIL, ERROR, *)
(* SKIPPED and UNKNOWN, which no reader tells apart.                        *)
RecordStanding(e, s) ==
    /\ standing[e] = "ABSENT"
    /\ s \in {"PASSING", "FAILING"}
    /\ standing' = [standing EXCEPT ![e] = s]

(* AdmissionService.decide with the decision ADMITTED. *)
Admit(e) ==
    /\ standing[e] = "PASSING"
    /\ standing' = [standing EXCEPT ![e] = "ADMITTED"]

(* AdmissionService.decide with the decision REJECTED, open to any verdict. *)
Reject(e) ==
    /\ standing[e] \in {"PASSING", "FAILING"}
    /\ standing' = [standing EXCEPT ![e] = "REJECTED"]

LedgerStep(e) ==
    \/ RecordStanding(e, "PASSING")
    \/ RecordStanding(e, "FAILING")
    \/ Admit(e)
    \/ Reject(e)

LedgerNext == \E e \in Evidence : LedgerStep(e)

LedgerSpec == LedgerInit /\ [][LedgerNext]_standing
=============================================================================
