SPECIFICATION Spec
CONSTANTS
    Root = {a, b}
    Runtime = Runtime  Half = Half  Foreign = Foreign  None = None
    MaxWrites = 1
CONSTRAINT InTurn
INVARIANTS TypeOK JournalTellsThePlace  OldProfileIsKept
CHECK_DEADLOCK FALSE
