\* One console: the sentence of write_api.py:208 on the required fields.
SPECIFICATION SetupSpec
CONSTANTS
    Absent = Absent
    p1 = p1
    p2 = p2
    soft = soft
    data = data
    c1 = c1
    c2 = c2
    c3 = c3
    t1 = t1
    t2 = t2
    f1 = f1
    f2 = f2
    Process = {p1}
    Project = {soft, data}
    Template <- Domains
    DomainTypes <- Taxonomies
    Draft <- Declarable
    Runner = {"NOOP", "EVIDENCE_HASH"}
    Host = {"codex"}
    Mode = {"OPEN", "REQUIRE_READY"}
    Evidence = {e1, e2}
    MaxRequests = 3
INVARIANT
    SyncedFieldsAreRequired
CHECK_DEADLOCK FALSE
