----------------------------- MODULE EvidenceChain -----------------------------
(***************************************************************************)
(* The chain that leads from a declared capability to a PROVEN knowledge:  *)
(* capability, contract and policy, execution, evidence, validation,       *)
(* admission, proof.  Every service writes one row (or a few) of an        *)
(* append-only table inside one BEGIN IMMEDIATE transaction, so an action  *)
(* below is one committed transaction of any process on the store; a       *)
(* refused one rolls back and is a stutter.  Primary keys are the domains  *)
(* of the functions: an identifier already used is refused.                *)
(***************************************************************************)
EXTENDS Naturals

CONSTANTS Capability, Execution, Evidence, Knowledge, Asset, \* identifiers
          Hash,      \* SHA-256 values of artefacts and assets
          Key,       \* names of the fields of an evidence content
          Secret,    \* HMAC secrets the processes may hold
          None       \* SQL NULL, or an absent row

CONSTANTS Contracts,  \* the contracts the clients declare
          Contents,   \* the contents of the evidences they record
          Types,      \* and the types
          Verdicts    \* and verdicts they give them

RUNNER_PROFILES == {"NOOP", "EVIDENCE_HASH", "EVIDENCE_FIELDS", "OBSERVED_PROCESS"}
POLICY_DECISIONS == {"ALLOW", "DENY", "CONFIRM"}
VALIDATOR_KINDS == {"EVIDENCE_HASH", "EVIDENCE_FIELDS", "EVIDENCE_ASSET"}
ADMISSION_POLICY_MODES == {"PASS_EVIDENCE", "VALIDATED_PASS_EVIDENCE"}
RUNNER_VALIDATOR_PAIRS ==
    {<<"EVIDENCE_HASH", "EVIDENCE_HASH">>, <<"EVIDENCE_FIELDS", "EVIDENCE_FIELDS">>}
VERDICTS == {"PASS", "FAIL", "ERROR", "SKIPPED", "UNKNOWN"}

TechnicalValidation == {"COMMAND_PROOF", "TEST_PROOF", "CI_PROOF", "API_PROOF",
                        "HASH_PROOF", "FILE_PROOF"}
SimpleObservation == {"METRIC_PROOF", "EXTERNAL_ATTESTATION"}
SemanticAppreciation == {"HUMAN_ASSERTION", "MODEL_EVALUATION"}
TYPES == TechnicalValidation \union SimpleObservation \union SemanticAppreciation
may_create_proof(type) == type \in TechnicalValidation

(* A content is the set of its keys and the two fields EVIDENCE_ASSET reads. *)
Content == [keys : SUBSET Key, asset_id : Asset \union {None},
            asset_hash : Hash \union {None}]
Contract == [runner_profile : RUNNER_PROFILES, yields_proof : BOOLEAN,
             evidence_schema : BOOLEAN]

(* The digest of a canonical content: equal exactly for equal contents. *)
Sha256(content) == <<"sha256", content>>
Digests == {Sha256(content) : content \in Content}

ASSUME InputAssumption ==
    /\ Contracts \subseteq Contract /\ Contents \subseteq Content
    /\ Types \subseteq TYPES /\ Verdicts \subseteq VERDICTS
ASSUME NoneAssumption ==
    /\ None \notin Capability \union Execution \union Evidence \union Knowledge
    /\ None \notin Asset \union Hash \union Secret \union Digests
    /\ None \notin Contract \union POLICY_DECISIONS \union ADMISSION_POLICY_MODES
    /\ None \notin BOOLEAN /\ None \notin {"PASS", "FAIL"}
    /\ None \notin [required_keys : SUBSET Key]
    /\ None \notin [capability : Capability, artifact_hash : Hash \union {None}]
    /\ None \notin [execution : Execution, type : TYPES, verdict : VERDICTS,
                    content : Content, content_hash : Digests]
    /\ None \notin [decision : {"ADMITTED", "REJECTED"},
                    validated_by : VALIDATOR_KINDS \union {None}]
    /\ None \notin [hmac_required : BOOLEAN, digest : Secret \union {None}]

VARIABLES capability, contract, policy, execution, evidence, asset,
          validator, validation, admission_policy, admission,
          knowledge, proof_policy, proof

registry == <<capability, contract, policy>>
validators == <<asset, validator, validation>>
admissions == <<admission_policy, admission>>
proofs == <<knowledge, proof_policy, proof>>
vars == <<registry, execution, evidence, validators, admissions, proofs>>

ExecutionRow == [capability : Capability, artifact_hash : Hash \union {None}]
EvidenceRow == [execution : Execution, type : TYPES, verdict : VERDICTS,
                content : Content, content_hash : Digests]
AdmissionRow == [decision : {"ADMITTED", "REJECTED"},
                 validated_by : VALIDATOR_KINDS \union {None}]
ProofRow == [hmac_required : BOOLEAN, digest : Secret \union {None}]

(* Every table holds rows of its shape, at most one per key. *)
TypeOK ==
    /\ capability \in SUBSET Capability
    /\ contract \in [Capability -> Contract \union {None}]
    /\ policy \in [Capability -> POLICY_DECISIONS \union {None}]
    /\ execution \in [Execution -> ExecutionRow \union {None}]
    /\ evidence \in [Evidence -> EvidenceRow \union {None}]
    /\ asset \in [Asset -> Hash \union {None}]
    /\ validator \in [VALIDATOR_KINDS -> [required_keys : SUBSET Key] \union {None}]
    /\ validation \in [VALIDATOR_KINDS \X Evidence -> {"PASS", "FAIL", None}]
    /\ admission_policy \in ADMISSION_POLICY_MODES \union {None}
    /\ admission \in [Evidence -> AdmissionRow \union {None}]
    /\ knowledge \in SUBSET Knowledge
    /\ proof_policy \in BOOLEAN \union {None}
    /\ proof \in [Knowledge \X Evidence -> ProofRow \union {None}]

Init ==
    /\ capability = {}
    /\ contract = [c \in Capability |-> None]
    /\ policy = [c \in Capability |-> None]
    /\ execution = [x \in Execution |-> None]
    /\ evidence = [e \in Evidence |-> None]
    /\ asset = [a \in Asset |-> None]
    /\ validator = [k \in VALIDATOR_KINDS |-> None]
    /\ validation = [ke \in VALIDATOR_KINDS \X Evidence |-> None]
    /\ admission_policy = None
    /\ admission = [e \in Evidence |-> None]
    /\ knowledge = {}
    /\ proof_policy = None
    /\ proof = [ke \in Knowledge \X Evidence |-> None]

-----------------------------------------------------------------------------
(* The registry: what may be executed, by which runner, under which decision *)

CreateCapability(c) ==
    /\ c \notin capability
    /\ capability' = capability \union {c}
    /\ UNCHANGED <<contract, policy, execution, evidence, validators, admissions, proofs>>

DeclareContract(c, declared) ==
    /\ c \in capability
    /\ contract[c] = None
    /\ contract' = [contract EXCEPT ![c] = declared]
    /\ UNCHANGED <<capability, policy, execution, evidence, validators, admissions, proofs>>

DeclarePolicy(c, decision) ==
    /\ c \in capability
    /\ policy[c] = None
    /\ policy' = [policy EXCEPT ![c] = decision]
    /\ UNCHANGED <<capability, contract, execution, evidence, validators, admissions, proofs>>

-----------------------------------------------------------------------------
(* Executions *)

(* The contract of c names this runner, promises no proof by itself, and the *)
(* project said ALLOW; the network policy has the single value DENY_NETWORK. *)
Admissible(c, runner) ==
    /\ contract[c] # None
    /\ contract[c].runner_profile = runner
    /\ ~contract[c].yields_proof
    /\ policy[c] = "ALLOW"

RecordExecution(x, c, artifact_hash) ==
    /\ execution[x] = None
    /\ execution' = [execution EXCEPT ![x] =
                        [capability |-> c, artifact_hash |-> artifact_hash]]

RunNoop(x, c) ==
    /\ Admissible(c, "NOOP")
    /\ RecordExecution(x, c, None)
    /\ UNCHANGED <<registry, evidence, validators, admissions, proofs>>

RecordObservedProcess(x, c, artifact_hash) ==
    /\ Admissible(c, "OBSERVED_PROCESS")
    /\ RecordExecution(x, c, artifact_hash)
    /\ UNCHANGED <<registry, evidence, validators, admissions, proofs>>

-----------------------------------------------------------------------------
(* Assets, evidences and their validation *)

RecordAsset(a, hash) ==
    /\ asset[a] = None
    /\ \A b \in Asset : asset[b] # hash
    /\ asset' = [asset EXCEPT ![a] = hash]
    /\ UNCHANGED <<registry, execution, evidence, validator, validation, admissions, proofs>>

RecordEvidence(e, x, type, verdict, content) ==
    /\ evidence[e] = None
    /\ execution[x] # None
    /\ evidence' = [evidence EXCEPT ![e] =
           [execution |-> x, type |-> type, verdict |-> verdict,
            content |-> content, content_hash |-> Sha256(content)]]
    /\ UNCHANGED <<registry, execution, validators, admissions, proofs>>

(* One validator per kind; only EVIDENCE_FIELDS carries required keys. *)
RegisterValidator(kind, required_keys) ==
    /\ validator[kind] = None
    /\ (kind = "EVIDENCE_FIELDS") = (required_keys # {})
    /\ validator' = [validator EXCEPT ![kind] = [required_keys |-> required_keys]]
    /\ UNCHANGED <<registry, execution, evidence, asset, validation, admissions, proofs>>

ExpectedHash(row) ==
    IF row.content.asset_hash # None THEN row.content.asset_hash ELSE row.content_hash

Satisfies(kind, row) ==
    CASE kind = "EVIDENCE_HASH" -> Sha256(row.content) = row.content_hash
      [] kind = "EVIDENCE_FIELDS" -> validator[kind].required_keys \subseteq row.content.keys
      [] kind = "EVIDENCE_ASSET" ->
            /\ row.content.asset_id # None
            /\ asset[row.content.asset_id] = ExpectedHash(row)
            /\ execution[row.execution].artifact_hash = ExpectedHash(row)

(* How it could go wrong: the artefact of the execution is not compared. *)
RecordValidationWithoutArtifact(kind, e) ==
    /\ validator[kind] # None
    /\ evidence[e] # None
    /\ validation[<<kind, e>>] = None
    /\ validation' = [validation EXCEPT ![<<kind, e>>] =
           IF \/ Satisfies(kind, evidence[e])
              \/ kind = "EVIDENCE_ASSET" /\ evidence[e].content.asset_id # None
                    /\ asset[evidence[e].content.asset_id] = ExpectedHash(evidence[e])
           THEN "PASS" ELSE "FAIL"]

(* record_validation: the verdict is computed now and never again, since a *)
(* second result of the same validator on the same evidence is refused.    *)
RecordValidation(kind, e) ==
    /\ validator[kind] # None
    /\ evidence[e] # None
    /\ validation[<<kind, e>>] = None
    /\ validation' = [validation EXCEPT ![<<kind, e>>] =
                         IF Satisfies(kind, evidence[e]) THEN "PASS" ELSE "FAIL"]

Validate(kind, e) ==
    /\ RecordValidation(kind, e)
    /\ UNCHANGED <<registry, execution, evidence, asset, validator, admissions, proofs>>

(* A validation run as an execution: both rows commit in one transaction. *)
RunEvidenceValidation(runner, x, c, kind, e) ==
    /\ Admissible(c, runner)
    /\ <<runner, kind>> \in RUNNER_VALIDATOR_PAIRS
    /\ contract[c].evidence_schema
    /\ RecordValidation(kind, e)
    /\ RecordExecution(x, c, None)
    /\ UNCHANGED <<registry, evidence, asset, validator, admissions, proofs>>

RunEvidenceHash(x, c, kind, e) == RunEvidenceValidation("EVIDENCE_HASH", x, c, kind, e)
RunEvidenceFields(x, c, kind, e) == RunEvidenceValidation("EVIDENCE_FIELDS", x, c, kind, e)

-----------------------------------------------------------------------------
(* Admission: one decision per evidence, for ever *)

DeclareAdmissionPolicy(mode) ==
    /\ admission_policy = None
    /\ admission_policy' = mode
    /\ UNCHANGED <<registry, execution, evidence, validators, admission, proofs>>

(* How the binding could go wrong: any verdict of a validator is enough. *)
AnyValidationBinding(e, kind) ==
    CASE admission_policy = "VALIDATED_PASS_EVIDENCE" ->
            kind # None /\ validation[<<kind, e>>] # None
      [] admission_policy = "PASS_EVIDENCE" -> kind = None
      [] OTHER -> FALSE

(* The validation an ADMITTED decision must name, under the policy in force. *)
AdmissibleBinding(e, kind) ==
    CASE admission_policy = "VALIDATED_PASS_EVIDENCE" ->
            kind # None /\ validation[<<kind, e>>] = "PASS"
      [] admission_policy = "PASS_EVIDENCE" -> kind = None
      [] OTHER -> FALSE

DecideAdmitted(e, kind) ==
    /\ evidence[e] # None
    /\ admission[e] = None
    /\ evidence[e].verdict = "PASS"
    /\ AdmissibleBinding(e, kind)
    /\ admission' = [admission EXCEPT ![e] =
                        [decision |-> "ADMITTED", validated_by |-> kind]]
    /\ UNCHANGED <<registry, execution, evidence, validators, admission_policy, proofs>>

(* How a rejection could go wrong: it overrules an earlier decision. *)
RejectAnyway(e) ==
    /\ evidence[e] # None
    /\ admission' = [admission EXCEPT ![e] =
                        [decision |-> "REJECTED", validated_by |-> None]]
    /\ UNCHANGED <<registry, execution, evidence, validators, admission_policy, proofs>>

DecideRejected(e) ==
    /\ evidence[e] # None
    /\ admission[e] = None
    /\ admission' = [admission EXCEPT ![e] =
                        [decision |-> "REJECTED", validated_by |-> None]]
    /\ UNCHANGED <<registry, execution, evidence, validators, admission_policy, proofs>>

-----------------------------------------------------------------------------
(* Promotion of a knowledge to PROVEN *)

AppendKnowledge(k) ==
    /\ k \notin knowledge
    /\ knowledge' = knowledge \union {k}
    /\ UNCHANGED <<registry, execution, evidence, validators, admissions, proof_policy, proof>>

DeclareProofPolicy(hmac_required) ==
    /\ proof_policy = None
    /\ proof_policy' = hmac_required
    /\ UNCHANGED <<registry, execution, evidence, validators, admissions, knowledge, proof>>

Admitted(e) == admission[e] # None /\ admission[e].decision = "ADMITTED"

(* How a promotion could go wrong: the class of the evidence is not looked at. *)
PromoteAnyType(k, e, secret) ==
    /\ proof_policy # None
    /\ proof_policy = (secret # None)
    /\ k \in knowledge
    /\ evidence[e] # None
    /\ evidence[e].verdict = "PASS"
    /\ Admitted(e)
    /\ Sha256(evidence[e].content) = evidence[e].content_hash
    /\ proof[<<k, e>>] = None
    /\ proof' = [proof EXCEPT ![<<k, e>>] =
                    [hmac_required |-> proof_policy, digest |-> secret]]
    /\ UNCHANGED <<registry, execution, evidence, validators, admissions, knowledge, proof_policy>>

(* The process promoting holds a secret exactly when the policy wants one. *)
Promote(k, e, secret) ==
    /\ proof_policy # None
    /\ proof_policy = (secret # None)
    /\ k \in knowledge
    /\ evidence[e] # None
    /\ evidence[e].verdict = "PASS"
    /\ Admitted(e)
    /\ may_create_proof(evidence[e].type)
    /\ Sha256(evidence[e].content) = evidence[e].content_hash
    /\ proof[<<k, e>>] = None
    /\ proof' = [proof EXCEPT ![<<k, e>>] =
                    [hmac_required |-> proof_policy, digest |-> secret]]
    /\ UNCHANGED <<registry, execution, evidence, validators, admissions, knowledge, proof_policy>>

-----------------------------------------------------------------------------
RegistryNext == \E c \in Capability :
    \/ CreateCapability(c)
    \/ \E declared \in Contracts : DeclareContract(c, declared)
    \/ \E decision \in POLICY_DECISIONS : DeclarePolicy(c, decision)

ExecutionNext == \E x \in Execution, c \in Capability :
    \/ RunNoop(x, c)
    \/ \E hash \in Hash : RecordObservedProcess(x, c, hash)
    \/ \E kind \in VALIDATOR_KINDS, e \in Evidence :
          RunEvidenceHash(x, c, kind, e) \/ RunEvidenceFields(x, c, kind, e)

EvidenceNext ==
    \/ \E a \in Asset, hash \in Hash : RecordAsset(a, hash)
    \/ \E e \in Evidence, x \in Execution, type \in Types, verdict \in Verdicts,
          content \in Contents : RecordEvidence(e, x, type, verdict, content)
    \/ \E kind \in VALIDATOR_KINDS, keys \in SUBSET Key : RegisterValidator(kind, keys)
    \/ \E kind \in VALIDATOR_KINDS, e \in Evidence : Validate(kind, e)

AdmissionNext ==
    \/ \E mode \in ADMISSION_POLICY_MODES : DeclareAdmissionPolicy(mode)
    \/ \E e \in Evidence :
          \/ \E kind \in VALIDATOR_KINDS \union {None} : DecideAdmitted(e, kind)
          \/ DecideRejected(e)

ProofNext ==
    \/ \E k \in Knowledge : AppendKnowledge(k)
    \/ \E hmac_required \in BOOLEAN : DeclareProofPolicy(hmac_required)
    \/ \E k \in Knowledge, e \in Evidence, secret \in Secret \union {None} :
          Promote(k, e, secret)

Next == RegistryNext \/ ExecutionNext \/ EvidenceNext \/ AdmissionNext \/ ProofNext

Spec == Init /\ [][Next]_vars

-----------------------------------------------------------------------------
(* I007 and I013 of docs/INVARIANTS.md across four tables and any delay: every *)
(* execution on record is that of a registered capability whose contract never *)
(* promised a proof and whose policy is ALLOW; one that left an artefact was   *)
(* an observed process.                                                        *)
ExecutionsAreAuthorised == \A x \in Execution : execution[x] # None =>
    LET c == execution[x].capability IN
    /\ c \in capability
    /\ contract[c] # None /\ ~contract[c].yields_proof
    /\ policy[c] = "ALLOW"
    /\ execution[x].artifact_hash # None => contract[c].runner_profile = "OBSERVED_PROCESS"

(* I004 and I006: a PROVEN knowledge rests on an admitted PASS evidence of a   *)
(* technical type, itself resting on a persisted execution; an opinion or an   *)
(* observation never founds a proof, whatever was admitted or validated.       *)
ProvenIsEarned == \A k \in Knowledge, e \in Evidence : proof[<<k, e>>] # None =>
    /\ k \in knowledge
    /\ Admitted(e)
    /\ evidence[e] # None
    /\ evidence[e].verdict = "PASS"
    /\ evidence[e].type \notin SimpleObservation \union SemanticAppreciation
    /\ execution[evidence[e].execution] # None

(* A strict project never holds an unvalidated admission, nor one validated on *)
(* the strength of another evidence, even of what was recorded or rejected     *)
(* before the policy was declared; a permissive one holds no binding at all.   *)
StrictAdmissionIsBacked == \A e \in Evidence : Admitted(e) =>
    /\ admission_policy # None
    /\ evidence[e] # None /\ evidence[e].verdict = "PASS"
    /\ (admission_policy = "VALIDATED_PASS_EVIDENCE") = (admission[e].validated_by # None)
    /\ admission[e].validated_by # None =>
          validation[<<admission[e].validated_by, e>>] = "PASS"

(* A verdict is computed once, from rows written by others: a PASS would be    *)
(* computed again now, and a FAIL too, except that an asset may be recorded    *)
(* after its validation has failed for good.                                   *)
VerdictsStillHold == \A kind \in VALIDATOR_KINDS, e \in Evidence :
    validation[<<kind, e>>] # None =>
        /\ validator[kind] # None
        /\ evidence[e] # None
        /\ validation[<<kind, e>>] = "PASS" => Satisfies(kind, evidence[e])
        /\ validation[<<kind, e>>] = "FAIL" /\ kind # "EVIDENCE_ASSET"
              => ~Satisfies(kind, evidence[e])

(* All proofs of a project are signed, or none: no promotion ever escapes the  *)
(* HMAC policy, whichever process made it and whatever secret it held.         *)
ProofsFollowHmacPolicy == \A k \in Knowledge, e \in Evidence : proof[<<k, e>>] # None =>
    /\ proof[<<k, e>>].hmac_required = proof_policy
    /\ proof[<<k, e>>].hmac_required = (proof[<<k, e>>].digest # None)

(* What the rest of the Core sees of an evidence. *)
standing == [e \in Evidence |->
    CASE evidence[e] = None -> "ABSENT"
      [] evidence[e] # None /\ admission[e] # None -> admission[e].decision
      [] evidence[e] # None /\ admission[e] = None /\ evidence[e].verdict = "PASS" -> "PASSING"
      [] OTHER -> "FAILING"]

Ledger == INSTANCE AdmissionLedger WITH Evidence <- Evidence, standing <- standing

(* The chain keeps the promise the Work Graph is built on: an evidence is      *)
(* decided at most once, and only a passing one is ever admitted.              *)
ImplementsLedger == Ledger!LedgerSpec
=============================================================================
