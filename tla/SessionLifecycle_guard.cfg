\* Two sessions, two dossiers, and the adapter that waits for the server.
SPECIFICATION FairSpec
CONSTANTS
    None = None
    p1 = p1
    d1 = d1
    Session = {s1, s2}
    Contract = {d1, d2}
    Profile = {p1, p2}
    WaitsForServer = TRUE
INVARIANT
    AcknowledgedOwesNothing
PROPERTY
    AcknowledgesWhoHeldIt
    DeadChannelOpens
CONSTRAINT InScope
CHECK_DEADLOCK FALSE
