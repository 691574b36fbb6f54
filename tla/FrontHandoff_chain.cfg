\* Two processes, and a profile edited under them or between them.
SPECIFICATION Spec
CONSTANTS
    None = None
    p1 = p1
    p2 = p2
    goal = goal
    risks = risks
    Session = {s1, s2}
    Revision = {1, 2, 3}
    HandoffId = {1}
    Profile = {p1, p2}
    Field = {goal, risks}
    Value = {v}
    DeclaredFields <- AskedFields
    ResumeContract <- AskedSections
    MaxNow = 1
SYMMETRY Symmetry
INVARIANT
    ChainStaysInProfile
    QuietEditsKeepFrontWritable
CHECK_DEADLOCK FALSE
