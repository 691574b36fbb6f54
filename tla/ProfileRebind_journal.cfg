\* Editors in turn, interrupted at any step, and the Doctor after them.
SPECIFICATION Spec
CONSTANTS
    None = None
    Editor = {a, b}
    Profile = {p1, p2, p3}
    Interruptions <- Anywhere
SYMMETRY Symmetry
PROPERTY
    OnlyRecoveryUncovers
CONSTRAINT
    InTurn
    FewJournals
CHECK_DEADLOCK FALSE
