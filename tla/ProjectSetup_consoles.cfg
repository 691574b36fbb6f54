\* Two consoles and every request, up to the bound on them.
\* A run may stop where the bound is reached with nobody at work.
SPECIFICATION SetupSpec
CONSTANTS
    Absent = Absent
    p1 = p1
    p2 = p2
    soft = soft
    data = data
    c1 = c1
    c2 = c2
    c3 = c3
    t1 = t1
    t2 = t2
    f1 = f1
    f2 = f2
    Process = {p1, p2}
    Project = {soft, data}
    Template <- Domains
    DomainTypes <- Taxonomies
    Draft <- Declarable
    Runner = {"NOOP", "EVIDENCE_HASH"}
    Host = {"codex"}
    Mode = {"OPEN", "REQUIRE_READY"}
    Evidence = {e1, e2}
    MaxRequests = 3
SYMMETRY Symmetry
INVARIANTS
    SetupTypeOK
    BrokenCatalogsAreTold
    NothingIsOrphaned
    AnswersAreTrue
PROPERTY
    AppliedAsReviewed
CHECK_DEADLOCK FALSE
