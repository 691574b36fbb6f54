SPECIFICATION HostSpec
CONSTANTS
    Process = {p1, p2}
    k1 = k1
    k2 = k2
    closed = closed
    d1 = d1
    d2 = d2
    Catalogue <- MCCatalogue
    Allowed <- MCAllowed
    Place <- MCPlace
    Foreign = {"x"}
    Nothing = Nothing
    MaxCalls = 3
    MaxChanges = 1
SYMMETRY MCSymmetry
INVARIANTS
    HostTypeOK
    StagesStandInOrder
    HalfInstallsConverge
PROPERTY
    ForeignEntriesSurvive
CHECK_DEADLOCK FALSE
