\* Two processes open, write, synchronise, export and restore one runtime; no
\* interleaving of a restore with an opening, a commit or a synchronisation is left
\* out (InScope bounds which releases, projects and policies meet under one).
\* A run may stop where a bound is reached with nobody at work.
SPECIFICATION Spec
CONSTANTS
    None = None
    p1 = p1
    p2 = p2
    own = own
    other = other
    m1 = m1
    m2 = m2
    m3 = m3
    Process = {p1, p2}
    Release <- Releases
    Identity = {own, other}
    SyncPolicies = {"commit", "push"}
    Shipped <- Sendings
    MaxMutations = 2
    MaxBundles = 1
    MaxGenerations = 2
INVARIANTS
    OpenStoresAreOurs
    FormatIsNotAhead
    SyncAnswersTrue
PROPERTY
    NoMemoryIsTakenAway
CONSTRAINT InScope
SYMMETRY Symmetry
CHECK_DEADLOCK FALSE
