--------------------------- MODULE MC_EvidenceChain ---------------------------
(* Small instances of EvidenceChain for TLC. *)
EXTENDS EvidenceChain, TLC

CONSTANTS h1, a1, f1

NoAsset == [keys |-> {}, asset_id |-> None, asset_hash |-> None]

(* One evidence, every runner and every way its content can be validated. *)
AllContracts == [runner_profile : RUNNER_PROFILES, yields_proof : {FALSE},
                 evidence_schema : {TRUE}]
    \union {[runner_profile |-> "NOOP", yields_proof |-> TRUE, evidence_schema |-> FALSE]}
AllContents ==
    {NoAsset,
     [keys |-> {f1}, asset_id |-> a1, asset_hash |-> h1],
     [keys |-> {f1}, asset_id |-> None, asset_hash |-> h1]}

(* Capabilities, executions, evidences and knowledges are told apart by no rule. *)
Symmetry == Permutations(Capability) \union Permutations(Execution)
               \union Permutations(Evidence) \union Permutations(Knowledge)
=============================================================================
