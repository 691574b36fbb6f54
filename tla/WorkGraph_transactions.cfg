\* Items, a gate and its evidences under every interleaving of transactions.
SPECIFICATION Spec
CONSTANTS
    None = None
    WorkItem = {w1, w2, w3}
    Gate = {g1}
    Evidence = {e1, e2}
SYMMETRY Symmetry
CONSTRAINT PoliciesThatAsk
INVARIANTS
    Acyclic
    GovernedCompletionStands
PROPERTIES
    FrozenGatePassIsFinal
    HopelessIsFinal
CHECK_DEADLOCK FALSE
