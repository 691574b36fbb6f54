SPECIFICATION FairSpec
CONSTANTS
    t1 = t1  t2 = t2  d1 = d1  d2 = d2  e1 = e1  e2 = e2  rt = rt  r1 = r1
    s1 = s1  s2 = s2  w1 = w1  w2 = w2  kt = kt  k1 = k1  k2 = k2  k3 = k3
    q1 = q1  place = place  slice = slice
    EntityType = {t1, t2}
    Entity = {e1, e2}
    RelationType = {rt}
    Relation = {r1}
    Symbol = {s1, s2}
    WorkItem = {w1, w2}
    KnowledgeType = {kt}
    Knowledge = {k1, k2, k3}
    Source = {q1}
    AssetSource = {x1}
    Definition = {d1, d2}
    Constraint <- AnyOrFirstType
    Place = {place}
    Slice = {slice}
    Asset = {as1}
    Input <- Submitted
    MaxRows = 7
    None = None
INVARIANTS TypeOK ReplayAnswers EmptyTargetsAreTakenOnce RelationsRespectTypes SuccessionsEnd
PROPERTIES ImplementsStore ImportsEnd
CHECK_DEADLOCK FALSE
