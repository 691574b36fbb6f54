\* One evidence and one knowledge under every runner, every validator and every
\* policy, by processes with and without a secret.
SPECIFICATION Spec
CONSTANTS
    None = None
    h1 = h1
    a1 = a1
    f1 = f1
    Capability = {c1, c2}
    Execution = {x1, x2}
    Evidence = {e1}
    Knowledge = {k1}
    Asset = {a1}
    Hash = {h1}
    Key = {f1}
    Secret = {s1}
    Contracts <- AllContracts
    Contents <- AllContents
    Types = {"TEST_PROOF", "HUMAN_ASSERTION"}
    Verdicts = {"PASS", "FAIL"}
SYMMETRY Symmetry
INVARIANTS
    StrictAdmissionIsBacked
    VerdictsStillHold
    ProvenIsEarned
PROPERTY
    ImplementsLedger
CHECK_DEADLOCK FALSE
