\* The same runtime when a process opens the store while a restore is between
\* its two renames: the sentence of bundles.py:245.
SPECIFICATION Spec
CONSTANTS
    None = None
    p1 = p1
    p2 = p2
    own = own
    other = other
    m1 = m1
    m2 = m2
    m3 = m3
    Process = {p1, p2}
    Release <- Releases
    Identity = {own}
    SyncPolicies = {"disabled", "commit"}
    Shipped <- Sendings
    MaxMutations = 1
    MaxBundles = 1
    MaxGenerations = 2
PROPERTY
    RefusedRestoreKeepsTarget
SYMMETRY Symmetry
CHECK_DEADLOCK FALSE
