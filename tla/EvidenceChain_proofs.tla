------------------------- MODULE EvidenceChain_proofs -------------------------
(* Theorems about EvidenceChain, for any sets of identifiers and inputs. *)
EXTENDS EvidenceChain, TLAPS

USE DEF registry, validators, admissions, proofs

LEMMA TypeInit == Init => TypeOK
BY DEF Init, TypeOK

LEMMA RegistryTypeStep == TypeOK /\ RegistryNext => TypeOK'
<1>1. SUFFICES ASSUME TypeOK, NEW c \in Capability,
                      \/ CreateCapability(c)
                      \/ \E declared \in Contracts : DeclareContract(c, declared)
                      \/ \E decision \in POLICY_DECISIONS : DeclarePolicy(c, decision)
               PROVE TypeOK'
    BY DEF RegistryNext
<1>2. CASE CreateCapability(c)
    BY <1>1, <1>2 DEF TypeOK, CreateCapability
<1>3. CASE \E declared \in Contracts : DeclareContract(c, declared)
    BY <1>1, <1>3, InputAssumption DEF TypeOK, DeclareContract
<1>4. CASE \E decision \in POLICY_DECISIONS : DeclarePolicy(c, decision)
    BY <1>1, <1>4 DEF TypeOK, DeclarePolicy
<1> QED BY <1>1, <1>2, <1>3, <1>4

LEMMA ExecutionTypeStep == TypeOK /\ ExecutionNext => TypeOK'
<1>1. SUFFICES ASSUME TypeOK, NEW x \in Execution, NEW c \in Capability,
                      \/ RunNoop(x, c)
                      \/ \E hash \in Hash : RecordObservedProcess(x, c, hash)
                      \/ \E kind \in VALIDATOR_KINDS, e \in Evidence :
                            RunEvidenceHash(x, c, kind, e) \/ RunEvidenceFields(x, c, kind, e)
               PROVE TypeOK'
    BY DEF ExecutionNext
<1>2. ASSUME NEW hash \in Hash \union {None}, RecordExecution(x, c, hash)
      PROVE execution' \in [Execution -> ExecutionRow \union {None}]
    BY <1>1, <1>2 DEF TypeOK, RecordExecution, ExecutionRow
<1>3. CASE RunNoop(x, c)
    BY <1>1, <1>2, <1>3 DEF TypeOK, RunNoop
<1>4. CASE \E hash \in Hash : RecordObservedProcess(x, c, hash)
    BY <1>1, <1>2, <1>4 DEF TypeOK, RecordObservedProcess
<1>5. ASSUME NEW kind \in VALIDATOR_KINDS, NEW e \in Evidence, NEW runner,
             RunEvidenceValidation(runner, x, c, kind, e)
      PROVE TypeOK'
    BY <1>1, <1>2, <1>5 DEF TypeOK, RunEvidenceValidation, RecordValidation
<1> QED BY <1>1, <1>3, <1>4, <1>5 DEF RunEvidenceHash, RunEvidenceFields

LEMMA EvidenceTypeStep == TypeOK /\ EvidenceNext => TypeOK'
<1> SUFFICES ASSUME TypeOK, EvidenceNext PROVE TypeOK'
    OBVIOUS
<1>1. ASSUME NEW a \in Asset, NEW hash \in Hash, RecordAsset(a, hash) PROVE TypeOK'
    BY <1>1 DEF TypeOK, RecordAsset
<1>2. ASSUME NEW e \in Evidence, NEW x \in Execution, NEW type \in Types,
             NEW verdict \in Verdicts, NEW content \in Contents,
             RecordEvidence(e, x, type, verdict, content)
      PROVE TypeOK'
    <2>1. type \in TYPES /\ verdict \in VERDICTS /\ content \in Content
        BY InputAssumption
    <2>2. [execution |-> x, type |-> type, verdict |-> verdict, content |-> content,
           content_hash |-> Sha256(content)] \in EvidenceRow
        BY <2>1 DEF EvidenceRow, Digests
    <2> QED BY <1>2, <2>2 DEF TypeOK, RecordEvidence
<1>3. ASSUME NEW kind \in VALIDATOR_KINDS, NEW keys \in SUBSET Key,
             RegisterValidator(kind, keys)
      PROVE TypeOK'
    BY <1>3 DEF TypeOK, RegisterValidator
<1>4. ASSUME NEW kind \in VALIDATOR_KINDS, NEW e \in Evidence, Validate(kind, e)
      PROVE TypeOK'
    BY <1>4 DEF TypeOK, Validate, RecordValidation
<1> QED BY <1>1, <1>2, <1>3, <1>4 DEF EvidenceNext

LEMMA AdmissionTypeStep == TypeOK /\ AdmissionNext => TypeOK'
<1> SUFFICES ASSUME TypeOK, AdmissionNext PROVE TypeOK'
    OBVIOUS
<1>1. ASSUME NEW mode \in ADMISSION_POLICY_MODES, DeclareAdmissionPolicy(mode)
      PROVE TypeOK'
    BY <1>1 DEF TypeOK, DeclareAdmissionPolicy
<1>2. ASSUME NEW e \in Evidence, NEW kind \in VALIDATOR_KINDS \union {None},
             DecideAdmitted(e, kind)
      PROVE TypeOK'
    BY <1>2 DEF TypeOK, DecideAdmitted, AdmissionRow
<1>3. ASSUME NEW e \in Evidence, DecideRejected(e) PROVE TypeOK'
    BY <1>3 DEF TypeOK, DecideRejected, AdmissionRow
<1> QED BY <1>1, <1>2, <1>3 DEF AdmissionNext

LEMMA ProofTypeStep == TypeOK /\ ProofNext => TypeOK'
<1> SUFFICES ASSUME TypeOK, ProofNext PROVE TypeOK'
    OBVIOUS
<1>1. ASSUME NEW k \in Knowledge, AppendKnowledge(k) PROVE TypeOK'
    BY <1>1 DEF TypeOK, AppendKnowledge
<1>2. ASSUME NEW hmac_required \in BOOLEAN, DeclareProofPolicy(hmac_required)
      PROVE TypeOK'
    BY <1>2 DEF TypeOK, DeclareProofPolicy
<1>3. ASSUME NEW k \in Knowledge, NEW e \in Evidence, NEW secret \in Secret \union {None},
             Promote(k, e, secret)
      PROVE TypeOK'
    <2>1. proof_policy \in BOOLEAN
        BY <1>3 DEF Promote, TypeOK
    <2>2. [hmac_required |-> proof_policy, digest |-> secret] \in ProofRow
        BY <2>1 DEF ProofRow
    <2> QED BY <1>3, <2>2 DEF TypeOK, Promote
<1> QED BY <1>1, <1>2, <1>3 DEF ProofNext

LEMMA TypeStep == TypeOK /\ [Next]_vars => TypeOK'
<1>1. TypeOK /\ UNCHANGED vars => TypeOK'
    BY DEF vars, TypeOK
<1> QED BY <1>1, RegistryTypeStep, ExecutionTypeStep, EvidenceTypeStep,
           AdmissionTypeStep, ProofTypeStep DEF Next

(* Every table keeps its shape under every operation of the chain. *)
THEOREM TypeCorrect == Spec => []TypeOK
BY TypeInit, TypeStep, PTL DEF Spec

-----------------------------------------------------------------------------
(* No operation rewrites or deletes a row: the schema has no UPDATE path. *)
RowsStay ==
    /\ capability \subseteq capability'
    /\ \A c \in Capability : contract[c] # None => contract'[c] = contract[c]
    /\ \A c \in Capability : policy[c] # None => policy'[c] = policy[c]
    /\ \A x \in Execution : execution[x] # None => execution'[x] = execution[x]
    /\ \A e \in Evidence : evidence[e] # None => evidence'[e] = evidence[e]
    /\ \A a \in Asset : asset[a] # None => asset'[a] = asset[a]
    /\ \A k \in VALIDATOR_KINDS : validator[k] # None => validator'[k] = validator[k]
    /\ \A k \in VALIDATOR_KINDS, e \in Evidence :
          validation[<<k, e>>] # None => validation'[<<k, e>>] = validation[<<k, e>>]
    /\ admission_policy # None => admission_policy' = admission_policy
    /\ \A e \in Evidence : admission[e] # None => admission'[e] = admission[e]
    /\ knowledge \subseteq knowledge'
    /\ proof_policy # None => proof_policy' = proof_policy
    /\ \A k \in Knowledge, e \in Evidence :
          proof[<<k, e>>] # None => proof'[<<k, e>>] = proof[<<k, e>>]

LEMMA AppendOnly == TypeOK /\ [Next]_vars => RowsStay
<1> SUFFICES ASSUME TypeOK, [Next]_vars PROVE RowsStay
    OBVIOUS
<1>1. CASE RegistryNext
    BY <1>1 DEF RegistryNext, CreateCapability, DeclareContract, DeclarePolicy, TypeOK, RowsStay
<1>2. CASE ExecutionNext
    <2>1. PICK x \in Execution, c \in Capability :
            \/ RunNoop(x, c)
            \/ \E hash \in Hash : RecordObservedProcess(x, c, hash)
            \/ \E kind \in VALIDATOR_KINDS, e \in Evidence :
                  RunEvidenceHash(x, c, kind, e) \/ RunEvidenceFields(x, c, kind, e)
        BY <1>2 DEF ExecutionNext
    <2>2. \A hash : RecordExecution(x, c, hash) =>
            \A y \in Execution : execution[y] # None => execution'[y] = execution[y]
        BY DEF RecordExecution, TypeOK
    <2>3. CASE RunNoop(x, c) \/ \E hash \in Hash : RecordObservedProcess(x, c, hash)
        BY <2>2, <2>3 DEF RunNoop, RecordObservedProcess, RowsStay
    <2>4. ASSUME NEW kind \in VALIDATOR_KINDS, NEW e \in Evidence, NEW runner,
                 RunEvidenceValidation(runner, x, c, kind, e)
          PROVE RowsStay
        BY <2>2, <2>4 DEF RunEvidenceValidation, RecordValidation, TypeOK, RowsStay
    <2> QED BY <2>1, <2>3, <2>4 DEF RunEvidenceHash, RunEvidenceFields
<1>3. CASE EvidenceNext
    BY <1>3 DEF EvidenceNext, RecordAsset, RecordEvidence, RegisterValidator, Validate,
                RecordValidation, TypeOK, RowsStay
<1>4. CASE AdmissionNext
    BY <1>4 DEF AdmissionNext, DeclareAdmissionPolicy, DecideAdmitted, DecideRejected,
                TypeOK, RowsStay
<1>5. CASE ProofNext
    BY <1>5 DEF ProofNext, AppendKnowledge, DeclareProofPolicy, Promote, TypeOK, RowsStay
<1>6. CASE UNCHANGED vars
    BY <1>6 DEF vars, RowsStay
<1> QED BY <1>1, <1>2, <1>3, <1>4, <1>5, <1>6 DEF Next

(* The foreign keys the invariants lean on: what a row names is on record. *)
RowsReferToRows ==
    /\ \A c \in Capability : contract[c] # None => c \in capability
    /\ \A e \in Evidence : evidence[e] # None => execution[evidence[e].execution] # None
    /\ \A e \in Evidence : admission[e] # None => evidence[e] # None

(* Which part of the chain writes which tables. *)
LEMMA Writers ==
    [Next]_vars =>
        /\ RegistryNext \/ UNCHANGED registry
        /\ ExecutionNext \/ UNCHANGED execution
        /\ EvidenceNext \/ UNCHANGED <<evidence, asset, validator>>
        /\ ExecutionNext \/ EvidenceNext \/ UNCHANGED validation
        /\ AdmissionNext \/ UNCHANGED admissions
        /\ ProofNext \/ UNCHANGED proofs
BY DEF Next, vars, RegistryNext, CreateCapability, DeclareContract, DeclarePolicy,
       ExecutionNext, RunNoop, RecordObservedProcess, RunEvidenceHash, RunEvidenceFields,
       RunEvidenceValidation, EvidenceNext, RecordAsset, RecordEvidence, RegisterValidator,
       Validate, AdmissionNext, DeclareAdmissionPolicy, DecideAdmitted, DecideRejected,
       ProofNext, AppendKnowledge, DeclareProofPolicy, Promote

(* What the writer of a row must have found when it wrote it. *)
LEMMA NewContract ==
    ASSUME TypeOK, [Next]_vars, NEW c \in Capability, contract[c] = None, contract'[c] # None
    PROVE  c \in capability
<1>1. RegistryNext
    BY Writers
<1> QED BY <1>1 DEF RegistryNext, CreateCapability, DeclareContract, DeclarePolicy, TypeOK

LEMMA NewExecution ==
    ASSUME TypeOK, [Next]_vars, NEW x \in Execution, execution[x] = None, execution'[x] # None
    PROVE  \E c \in Capability, runner \in RUNNER_PROFILES, hash \in Hash \union {None} :
              /\ Admissible(c, runner)
              /\ hash # None => runner = "OBSERVED_PROCESS"
              /\ execution'[x] = [capability |-> c, artifact_hash |-> hash]
<1>1. ExecutionNext
    BY Writers
<1>2. PICK y \in Execution, c \in Capability :
        \/ RunNoop(y, c)
        \/ \E hash \in Hash : RecordObservedProcess(y, c, hash)
        \/ \E kind \in VALIDATOR_KINDS, e \in Evidence :
              RunEvidenceHash(y, c, kind, e) \/ RunEvidenceFields(y, c, kind, e)
    BY <1>1 DEF ExecutionNext
<1>3. ASSUME NEW hash \in Hash \union {None}, RecordExecution(y, c, hash)
      PROVE execution'[x] = [capability |-> c, artifact_hash |-> hash]
    BY <1>3 DEF RecordExecution, TypeOK
<1>4. CASE RunNoop(y, c)
    BY <1>3, <1>4 DEF RunNoop, RUNNER_PROFILES
<1>5. CASE \E hash \in Hash : RecordObservedProcess(y, c, hash)
    BY <1>3, <1>5 DEF RecordObservedProcess, RUNNER_PROFILES
<1>6. CASE \E kind \in VALIDATOR_KINDS, e \in Evidence :
              RunEvidenceHash(y, c, kind, e) \/ RunEvidenceFields(y, c, kind, e)
    BY <1>3, <1>6 DEF RunEvidenceHash, RunEvidenceFields, RunEvidenceValidation, RUNNER_PROFILES
<1> QED BY <1>2, <1>4, <1>5, <1>6

LEMMA NewEvidence ==
    ASSUME TypeOK, [Next]_vars, NEW e \in Evidence, evidence[e] = None, evidence'[e] # None
    PROVE  execution[evidence'[e].execution] # None
<1>1. EvidenceNext
    BY Writers
<1>2. PICK f \in Evidence, x \in Execution, type \in Types, verdict \in Verdicts,
           content \in Contents : RecordEvidence(f, x, type, verdict, content)
    BY <1>1 DEF EvidenceNext, RecordAsset, RegisterValidator, Validate
<1>3. f = e
    BY <1>2 DEF RecordEvidence, TypeOK
<1>4. evidence'[e].execution = x
    BY <1>2, <1>3 DEF RecordEvidence, TypeOK
<1> QED BY <1>2, <1>4 DEF RecordEvidence

LEMMA NewAdmission ==
    ASSUME TypeOK, [Next]_vars, NEW e \in Evidence, admission[e] = None, admission'[e] # None
    PROVE  /\ evidence[e] # None
           /\ \/ admission'[e] = [decision |-> "REJECTED", validated_by |-> None]
              \/ \E kind \in VALIDATOR_KINDS \union {None} :
                    /\ admission'[e] = [decision |-> "ADMITTED", validated_by |-> kind]
                    /\ evidence[e].verdict = "PASS"
                    /\ AdmissibleBinding(e, kind)
<1>1. AdmissionNext
    BY Writers
<1> QED BY <1>1 DEF AdmissionNext, DeclareAdmissionPolicy, DecideAdmitted, DecideRejected, TypeOK

LEMMA NewValidation ==
    ASSUME TypeOK, [Next]_vars, NEW kind \in VALIDATOR_KINDS, NEW e \in Evidence,
           validation[<<kind, e>>] = None, validation'[<<kind, e>>] # None
    PROVE  /\ validator[kind] # None
           /\ evidence[e] # None
           /\ validation'[<<kind, e>>] = IF Satisfies(kind, evidence[e]) THEN "PASS" ELSE "FAIL"
<1>1. ExecutionNext \/ EvidenceNext
    BY Writers
<1>2. PICK k \in VALIDATOR_KINDS, f \in Evidence : RecordValidation(k, f)
    BY <1>1 DEF ExecutionNext, RunNoop, RecordObservedProcess, RunEvidenceHash,
                RunEvidenceFields, RunEvidenceValidation, EvidenceNext, RecordAsset,
                RecordEvidence, RegisterValidator, Validate, validators
<1>3. k = kind /\ f = e
    BY <1>2 DEF RecordValidation, TypeOK
<1> QED BY <1>2, <1>3 DEF RecordValidation, TypeOK

LEMMA NewProof ==
    ASSUME TypeOK, [Next]_vars, NEW k \in Knowledge, NEW e \in Evidence,
           proof[<<k, e>>] = None, proof'[<<k, e>>] # None
    PROVE  \E secret \in Secret \union {None} :
              /\ Promote(k, e, secret)
              /\ proof'[<<k, e>>] = [hmac_required |-> proof_policy, digest |-> secret]
<1>1. ProofNext
    BY Writers
<1>2. PICK k2 \in Knowledge, e2 \in Evidence, secret \in Secret \union {None} :
          Promote(k2, e2, secret)
    BY <1>1 DEF ProofNext, AppendKnowledge, DeclareProofPolicy
<1>3. k2 = k /\ e2 = e
    BY <1>2 DEF Promote, TypeOK
<1> QED BY <1>2, <1>3 DEF Promote, TypeOK

-----------------------------------------------------------------------------
LEMMA RowsReferToRowsStep == TypeOK /\ RowsReferToRows /\ [Next]_vars => RowsReferToRows'
<1> SUFFICES ASSUME TypeOK, RowsReferToRows, [Next]_vars PROVE RowsReferToRows'
    OBVIOUS
<1>1. RowsStay /\ TypeOK'
    BY AppendOnly, TypeStep
<1>2. ASSUME NEW c \in Capability, contract'[c] # None PROVE c \in capability'
    BY <1>1, <1>2, NewContract DEF RowsStay, RowsReferToRows
<1>3. ASSUME NEW e \in Evidence, evidence'[e] # None
      PROVE execution'[evidence'[e].execution] # None
    <2>1. evidence'[e].execution \in Execution
        BY <1>1, <1>3 DEF TypeOK, EvidenceRow
    <2>2. execution[evidence'[e].execution] # None
        BY <1>1, <1>3, NewEvidence DEF RowsStay, RowsReferToRows
    <2> QED BY <1>1, <2>1, <2>2 DEF RowsStay
<1>4. ASSUME NEW e \in Evidence, admission'[e] # None PROVE evidence'[e] # None
    BY <1>1, <1>4, NewAdmission DEF RowsStay, RowsReferToRows
<1> QED BY <1>2, <1>3, <1>4 DEF RowsReferToRows

LEMMA ExecutionsStep ==
    ASSUME TypeOK, RowsReferToRows, ExecutionsAreAuthorised, [Next]_vars
    PROVE  ExecutionsAreAuthorised'
<1>1. RowsStay /\ TypeOK'
    BY AppendOnly, TypeStep
<1>2. SUFFICES ASSUME NEW x \in Execution, execution'[x] # None
               PROVE  LET c == execution'[x].capability IN
                      /\ c \in capability'
                      /\ contract'[c] # None /\ ~contract'[c].yields_proof
                      /\ policy'[c] = "ALLOW"
                      /\ execution'[x].artifact_hash # None
                            => contract'[c].runner_profile = "OBSERVED_PROCESS"
    BY DEF ExecutionsAreAuthorised
<1> DEFINE c == execution'[x].capability
<1>3. c \in Capability
    BY <1>1, <1>2 DEF TypeOK, ExecutionRow
<1>4. /\ c \in capability
      /\ contract[c] # None /\ ~contract[c].yields_proof
      /\ policy[c] = "ALLOW"
      /\ execution'[x].artifact_hash # None => contract[c].runner_profile = "OBSERVED_PROCESS"
    <2>1. CASE execution[x] = None
        <3>1. PICK d \in Capability, runner \in RUNNER_PROFILES, hash \in Hash \union {None} :
                  /\ Admissible(d, runner)
                  /\ hash # None => runner = "OBSERVED_PROCESS"
                  /\ execution'[x] = [capability |-> d, artifact_hash |-> hash]
            BY <1>2, <2>1, NewExecution
        <3>2. c = d /\ execution'[x].artifact_hash = hash
            BY <3>1
        <3> QED BY <3>1, <3>2 DEF Admissible, RowsReferToRows
    <2>2. CASE execution[x] # None
        BY <1>1, <2>2 DEF RowsStay, ExecutionsAreAuthorised
    <2> QED BY <2>1, <2>2
<1>5. policy[c] # None
    BY <1>4, NoneAssumption DEF POLICY_DECISIONS
<1> QED BY <1>1, <1>3, <1>4, <1>5 DEF RowsStay

LEMMA AdmissionsStep ==
    ASSUME TypeOK, RowsReferToRows, StrictAdmissionIsBacked, [Next]_vars
    PROVE  StrictAdmissionIsBacked'
<1>1. RowsStay /\ TypeOK'
    BY AppendOnly, TypeStep
<1>2. SUFFICES ASSUME NEW e \in Evidence, Admitted(e)'
               PROVE  /\ admission_policy' # None
                      /\ evidence'[e] # None /\ evidence'[e].verdict = "PASS"
                      /\ (admission_policy' = "VALIDATED_PASS_EVIDENCE")
                            = (admission'[e].validated_by # None)
                      /\ admission'[e].validated_by # None =>
                            validation'[<<admission'[e].validated_by, e>>] = "PASS"
    BY DEF StrictAdmissionIsBacked, Admitted
<1>3. admission'[e] # None /\ admission'[e].decision = "ADMITTED"
    BY <1>2 DEF Admitted
<1>4. admission'[e].validated_by \in VALIDATOR_KINDS \union {None}
    BY <1>1, <1>3 DEF TypeOK, AdmissionRow
<1>5. /\ admission_policy # None
      /\ evidence[e] # None /\ evidence[e].verdict = "PASS"
      /\ (admission_policy = "VALIDATED_PASS_EVIDENCE") = (admission'[e].validated_by # None)
      /\ admission'[e].validated_by # None =>
            validation[<<admission'[e].validated_by, e>>] = "PASS"
    <2>1. CASE admission[e] = None
        <3>1. PICK kind \in VALIDATOR_KINDS \union {None} :
                  /\ admission'[e] = [decision |-> "ADMITTED", validated_by |-> kind]
                  /\ evidence[e].verdict = "PASS"
                  /\ AdmissibleBinding(e, kind)
            BY <1>3, <2>1, NewAdmission
        <3>2. admission_policy \in ADMISSION_POLICY_MODES
            BY <3>1 DEF AdmissibleBinding, ADMISSION_POLICY_MODES
        <3>3. /\ (admission_policy = "VALIDATED_PASS_EVIDENCE") = (kind # None)
              /\ kind # None => validation[<<kind, e>>] = "PASS"
            BY <3>1, <3>2 DEF AdmissibleBinding, ADMISSION_POLICY_MODES
        <3> QED BY <1>3, <2>1, <3>1, <3>2, <3>3, NewAdmission, NoneAssumption
    <2>2. CASE admission[e] # None
        BY <1>1, <1>3, <2>2 DEF RowsStay, StrictAdmissionIsBacked, Admitted
    <2> QED BY <2>1, <2>2
<1>6. admission'[e].validated_by # None =>
         validation'[<<admission'[e].validated_by, e>>]
            = validation[<<admission'[e].validated_by, e>>]
    BY <1>1, <1>4, <1>5, NoneAssumption DEF RowsStay
<1> QED BY <1>1, <1>5, <1>6 DEF RowsStay

LEMMA ProofsStep ==
    ASSUME TypeOK, RowsReferToRows, ProvenIsEarned, ProofsFollowHmacPolicy, [Next]_vars
    PROVE  ProvenIsEarned' /\ ProofsFollowHmacPolicy'
<1>1. RowsStay /\ TypeOK' /\ RowsReferToRows'
    BY AppendOnly, TypeStep, RowsReferToRowsStep
<1>2. SUFFICES ASSUME NEW k \in Knowledge, NEW e \in Evidence, proof'[<<k, e>>] # None
               PROVE  /\ k \in knowledge' /\ Admitted(e)'
                      /\ evidence'[e] # None /\ evidence'[e].verdict = "PASS"
                      /\ evidence'[e].type \notin SimpleObservation \union SemanticAppreciation
                      /\ execution'[evidence'[e].execution] # None
                      /\ proof'[<<k, e>>].hmac_required = proof_policy'
                      /\ proof'[<<k, e>>].hmac_required = (proof'[<<k, e>>].digest # None)
    BY DEF ProvenIsEarned, ProofsFollowHmacPolicy
<1>3. /\ k \in knowledge /\ Admitted(e)
      /\ evidence[e] # None /\ evidence[e].verdict = "PASS"
      /\ evidence[e].type \notin SimpleObservation \union SemanticAppreciation
      /\ proof_policy # None
      /\ proof'[<<k, e>>].hmac_required = proof_policy
      /\ proof'[<<k, e>>].hmac_required = (proof'[<<k, e>>].digest # None)
    <2>1. CASE proof[<<k, e>>] = None
        <3>1. PICK secret \in Secret \union {None} :
                  /\ Promote(k, e, secret)
                  /\ proof'[<<k, e>>] = [hmac_required |-> proof_policy, digest |-> secret]
            BY <1>2, <2>1, NewProof
        <3>2. evidence[e].type \notin SimpleObservation \union SemanticAppreciation
            BY <3>1 DEF Promote, may_create_proof, TechnicalValidation, SimpleObservation,
                        SemanticAppreciation
        <3> QED BY <3>1, <3>2 DEF Promote
    <2>2. CASE proof[<<k, e>>] # None
        <3>1. proof'[<<k, e>>] = proof[<<k, e>>]
            BY <1>1, <2>2 DEF RowsStay
        <3>2. proof[<<k, e>>].hmac_required \in BOOLEAN
            BY <2>2 DEF TypeOK, ProofRow
        <3> QED BY <2>2, <3>1, <3>2, NoneAssumption DEF ProvenIsEarned, ProofsFollowHmacPolicy
    <2> QED BY <2>1, <2>2
<1> QED BY <1>1, <1>3 DEF RowsStay, Admitted, RowsReferToRows

LEMMA VerdictsStep ==
    ASSUME TypeOK, RowsReferToRows, VerdictsStillHold, [Next]_vars
    PROVE  VerdictsStillHold'
<1>1. RowsStay /\ TypeOK'
    BY AppendOnly, TypeStep
<1>2. SUFFICES ASSUME NEW kind \in VALIDATOR_KINDS, NEW e \in Evidence,
                      validation'[<<kind, e>>] # None
               PROVE  /\ validator'[kind] # None /\ evidence'[e] # None
                      /\ validation'[<<kind, e>>] = "PASS" => Satisfies(kind, evidence[e])'
                      /\ validation'[<<kind, e>>] = "FAIL" /\ kind # "EVIDENCE_ASSET"
                            => ~Satisfies(kind, evidence[e])'
    BY DEF VerdictsStillHold
<1>3. /\ validator[kind] # None /\ evidence[e] # None
      /\ validation'[<<kind, e>>] = "PASS" => Satisfies(kind, evidence[e])
      /\ validation'[<<kind, e>>] = "FAIL" /\ kind # "EVIDENCE_ASSET"
            => ~Satisfies(kind, evidence[e])
    <2>1. CASE validation[<<kind, e>>] = None
        BY <1>2, <2>1, NewValidation
    <2>2. CASE validation[<<kind, e>>] # None
        BY <1>1, <2>2 DEF RowsStay, VerdictsStillHold
    <2> QED BY <2>1, <2>2
<1>4. validator'[kind] = validator[kind] /\ evidence'[e] = evidence[e]
    BY <1>1, <1>3 DEF RowsStay
<1>5. kind # "EVIDENCE_ASSET" => (Satisfies(kind, evidence[e])' <=> Satisfies(kind, evidence[e]))
    BY <1>4 DEF Satisfies, VALIDATOR_KINDS
<1>6. kind = "EVIDENCE_ASSET" /\ Satisfies(kind, evidence[e]) => Satisfies(kind, evidence[e])'
    <2> SUFFICES ASSUME kind = "EVIDENCE_ASSET", Satisfies(kind, evidence[e])
                 PROVE  Satisfies(kind, evidence[e])'
        OBVIOUS
    <2> DEFINE row == evidence[e]
    <2>1. row \in EvidenceRow
        BY <1>3 DEF TypeOK
    <2>2. ExpectedHash(row) # None
        BY <2>1, NoneAssumption DEF EvidenceRow, ExpectedHash
    <2>3. /\ row.content.asset_id # None
          /\ asset[row.content.asset_id] = ExpectedHash(row)
          /\ execution[row.execution].artifact_hash = ExpectedHash(row)
        BY DEF Satisfies
    <2>4. row.content.asset_id \in Asset /\ row.execution \in Execution
        BY <2>1, <2>3 DEF EvidenceRow, Content
    <2>5. execution[row.execution] # None
        BY <1>3 DEF RowsReferToRows
    <2>6. /\ asset'[row.content.asset_id] = asset[row.content.asset_id]
          /\ execution'[row.execution] = execution[row.execution]
        BY <1>1, <2>2, <2>3, <2>4, <2>5 DEF RowsStay
    <2>7. ExpectedHash(row)' = ExpectedHash(row)
        BY <1>4 DEF ExpectedHash
    <2> QED BY <1>4, <2>3, <2>6, <2>7 DEF Satisfies
<1> QED BY <1>3, <1>4, <1>5, <1>6

-----------------------------------------------------------------------------
Inv ==
    /\ TypeOK
    /\ RowsReferToRows
    /\ ExecutionsAreAuthorised
    /\ StrictAdmissionIsBacked
    /\ VerdictsStillHold
    /\ ProvenIsEarned
    /\ ProofsFollowHmacPolicy

LEMMA InvInit == Init => Inv
BY TypeInit DEF Init, Inv, RowsReferToRows, ExecutionsAreAuthorised, Admitted,
                StrictAdmissionIsBacked, VerdictsStillHold, ProvenIsEarned,
                ProofsFollowHmacPolicy

LEMMA InvStep == Inv /\ [Next]_vars => Inv'
BY TypeStep, RowsReferToRowsStep, ExecutionsStep, AdmissionsStep, ProofsStep, VerdictsStep
   DEF Inv

LEMMA InvAlways == Spec => []Inv
BY InvInit, InvStep, PTL DEF Spec

(* Whatever the capabilities, contracts and interleavings, an execution on  *)
(* record was authorised by the contract and the policy that still stand.   *)
THEOREM OnlyAuthorisedExecutions == Spec => []ExecutionsAreAuthorised
<1>1. Inv => ExecutionsAreAuthorised
    BY DEF Inv
<1> QED BY <1>1, InvAlways, PTL

(* No admission ever contradicts the admission policy of the project, and a  *)
(* strict one always names a PASS of its own evidence.                       *)
THEOREM AdmissionsAreBacked == Spec => []StrictAdmissionIsBacked
<1>1. Inv => StrictAdmissionIsBacked
    BY DEF Inv
<1> QED BY <1>1, InvAlways, PTL

(* A verdict on record stays the verdict its validator would give, except    *)
(* the FAIL of an asset that was recorded too late.                          *)
THEOREM VerdictsAreStable == Spec => []VerdictsStillHold
<1>1. Inv => VerdictsStillHold
    BY DEF Inv
<1> QED BY <1>1, InvAlways, PTL

(* Only an admitted technical evidence of a persisted execution proves.      *)
THEOREM ProvenIsAlwaysEarned == Spec => []ProvenIsEarned
<1>1. Inv => ProvenIsEarned
    BY DEF Inv
<1> QED BY <1>1, InvAlways, PTL

(* Every proof of a project was made under its one HMAC policy.              *)
THEOREM HmacPolicyIsFollowed == Spec => []ProofsFollowHmacPolicy
<1>1. Inv => ProofsFollowHmacPolicy
    BY DEF Inv
<1> QED BY <1>1, InvAlways, PTL

-----------------------------------------------------------------------------
(* The chain implements the ledger: recording and deciding an evidence are   *)
(* the only operations that move its standing.                               *)

LEMMA LedgerInitially == Init => Ledger!LedgerInit
BY DEF Init, Ledger!LedgerInit, standing

LEMMA RecordMovesStanding ==
    ASSUME Inv, NEW e \in Evidence, NEW x \in Execution, NEW type \in Types,
           NEW verdict \in Verdicts, NEW content \in Contents,
           RecordEvidence(e, x, type, verdict, content)
    PROVE  Ledger!LedgerStep(e)
<1>1. evidence[e] = None /\ admission[e] = None
    BY DEF RecordEvidence, Inv, RowsReferToRows
<1> DEFINE row == [execution |-> x, type |-> type, verdict |-> verdict, content |-> content,
                   content_hash |-> Sha256(content)]
<1>2. row \in EvidenceRow /\ row # None /\ row.verdict = verdict
    BY InputAssumption, NoneAssumption DEF EvidenceRow, Digests
<1>3. evidence' = [evidence EXCEPT ![e] = row] /\ admission' = admission
    BY DEF RecordEvidence
<1> HIDE DEF row
<1>4. standing[e] = "ABSENT"
    BY <1>1 DEF standing
<1>5. standing' = [standing EXCEPT ![e] = IF verdict = "PASS" THEN "PASSING" ELSE "FAILING"]
    BY <1>1, <1>2, <1>3 DEF standing, Inv, TypeOK
<1> QED BY <1>4, <1>5 DEF Ledger!LedgerStep, Ledger!RecordStanding

LEMMA DecisionMovesStanding ==
    ASSUME Inv, NEW e \in Evidence, NEW kind \in VALIDATOR_KINDS \union {None},
           DecideAdmitted(e, kind) \/ DecideRejected(e)
    PROVE  Ledger!LedgerStep(e)
<1>1. evidence[e] # None /\ admission[e] = None /\ evidence' = evidence
    BY DEF DecideAdmitted, DecideRejected
<1>2. CASE DecideAdmitted(e, kind)
    <2>1. standing[e] = "PASSING"
        BY <1>1, <1>2 DEF DecideAdmitted, standing
    <2> DEFINE row == [decision |-> "ADMITTED", validated_by |-> kind]
    <2>2. row # None /\ admission' = [admission EXCEPT ![e] = row] /\ row.decision = "ADMITTED"
        BY <1>2, NoneAssumption DEF DecideAdmitted
    <2> HIDE DEF row
    <2>3. standing' = [standing EXCEPT ![e] = "ADMITTED"]
        BY <1>1, <2>2 DEF standing, Inv, TypeOK
    <2> QED BY <2>1, <2>3 DEF Ledger!LedgerStep, Ledger!Admit
<1>3. CASE DecideRejected(e)
    <2>1. standing[e] \in {"PASSING", "FAILING"}
        BY <1>1 DEF standing
    <2> DEFINE row == [decision |-> "REJECTED", validated_by |-> None]
    <2>2. row # None /\ admission' = [admission EXCEPT ![e] = row] /\ row.decision = "REJECTED"
        BY <1>3, NoneAssumption DEF DecideRejected
    <2> HIDE DEF row
    <2>3. standing' = [standing EXCEPT ![e] = "REJECTED"]
        BY <1>1, <2>2 DEF standing, Inv, TypeOK
    <2> QED BY <2>1, <2>3 DEF Ledger!LedgerStep, Ledger!Reject
<1> QED BY <1>2, <1>3

LEMMA LedgerSteps == Inv /\ [Next]_vars => [Ledger!LedgerNext]_standing
<1> SUFFICES ASSUME Inv, [Next]_vars PROVE [Ledger!LedgerNext]_standing
    OBVIOUS
<1>1. CASE UNCHANGED <<evidence, admission>>
    BY <1>1 DEF standing
<1>2. CASE EvidenceNext /\ admission' = admission /\ evidence' # evidence
    <2>1. PICK e \in Evidence, x \in Execution, type \in Types, verdict \in Verdicts,
               content \in Contents : RecordEvidence(e, x, type, verdict, content)
        BY <1>2 DEF EvidenceNext, RecordAsset, RegisterValidator, Validate
    <2> QED BY <2>1, RecordMovesStanding DEF Ledger!LedgerNext
<1>3. CASE AdmissionNext /\ admission' # admission
    <2>1. PICK e \in Evidence, kind \in VALIDATOR_KINDS \union {None} :
               DecideAdmitted(e, kind) \/ DecideRejected(e)
        BY <1>3 DEF AdmissionNext, DeclareAdmissionPolicy
    <2> QED BY <2>1, DecisionMovesStanding DEF Ledger!LedgerNext
<1>4. EvidenceNext => admission' = admission
    BY DEF EvidenceNext, RecordAsset, RecordEvidence, RegisterValidator, Validate
<1> QED BY <1>1, <1>2, <1>3, <1>4, Writers

(* EvidenceChain implements AdmissionLedger: gates and work items may reason  *)
(* about an evidence as if nothing but its standing existed.                  *)
THEOREM ChainImplementsLedger == Spec => ImplementsLedger
BY InvAlways, LedgerInitially, LedgerSteps, PTL DEF Spec, ImplementsLedger, Ledger!LedgerSpec
=============================================================================
