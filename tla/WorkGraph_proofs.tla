--------------------------- MODULE WorkGraph_proofs ---------------------------
(* Theorems about WorkGraph, for any work items, gates and finite evidences. *)
EXTENDS WorkGraph, FiniteSetTheorems, TLAPS

USE DEF graph, gates, policies

-----------------------------------------------------------------------------
(* Type correctness *)

LEMMA TypeInit == Init => TypeOK
BY DEF Init, TypeOK, LedgerInit, LedgerTypeOK, Standing, WorkStatus

LEMMA ItemTypeStep == TypeOK /\ ItemNext => TypeOK'
<1> SUFFICES ASSUME TypeOK, ItemNext PROVE TypeOK'
    OBVIOUS
<1>1. ASSUME NEW w \in WorkItem, CreateItem(w) PROVE TypeOK'
    BY <1>1 DEF TypeOK, LedgerTypeOK, CreateItem, WorkStatus
<1>2. ASSUME NEW w \in WorkItem, NEW p \in WorkItem, AddDependency(w, p) PROVE TypeOK'
    BY <1>2 DEF TypeOK, LedgerTypeOK, AddDependency
<1>3. ASSUME NEW w \in WorkItem, NEW event \in Event, Transition(w, event) PROVE TypeOK'
    <2>1. STATE_BY_EVENT[event] \in WorkStatus
        BY DEF Event, STATE_BY_EVENT, WorkStatus
    <2>2. [prerequisites |-> Direct(w), gates |-> FrozenGatesOf(w)] \in CheckRow
        BY DEF CheckRow, Direct, FrozenGatesOf, GatesOf
    <2> QED BY <1>3, <2>1, <2>2 DEF TypeOK, LedgerTypeOK, Transition
<1> QED BY <1>1, <1>2, <1>3 DEF ItemNext

LEMMA GateTypeStep == TypeOK /\ GateNext => TypeOK'
<1> SUFFICES ASSUME TypeOK, NEW g \in Gate,
                    \/ \E w \in WorkItem, primary \in Evidence, requirements \in SUBSET Evidence :
                          DeclareGate(g, w, primary, requirements)
                    \/ \E e \in Evidence : AddRequirement(g, e)
                    \/ \E mode \in GATE_POLICY_MODES, minimum \in Threshold \union {None} :
                          DeclareGatePolicy(g, mode, minimum)
             PROVE TypeOK'
    BY DEF GateNext
<1>1. ASSUME NEW w \in WorkItem, NEW primary \in Evidence, NEW requirements \in SUBSET Evidence,
             DeclareGate(g, w, primary, requirements)
      PROVE TypeOK'
    BY <1>1 DEF TypeOK, LedgerTypeOK, DeclareGate, GateRow
<1>2. ASSUME NEW e \in Evidence, AddRequirement(g, e) PROVE TypeOK'
    BY <1>2 DEF TypeOK, LedgerTypeOK, AddRequirement
<1>3. ASSUME NEW mode \in GATE_POLICY_MODES,
             NEW minimum \in Threshold \union {None},
             DeclareGatePolicy(g, mode, minimum)
      PROVE TypeOK'
    <2>1. Cardinality(Required(g)) \in Nat /\ Cardinality(Required(g)) <= Cardinality(Evidence)
        <3>1. Required(g) \subseteq Evidence
            BY <1>3 DEF DeclareGatePolicy, Required, TypeOK, GateRow
        <3> QED BY <3>1, FiniteAssumption, FS_Subset, FS_CardinalityType
    <2>2. [mode |-> mode, minimum |-> minimum] \in GatePolicy
        BY <1>3, <2>1, FiniteAssumption, FS_CardinalityType
           DEF DeclareGatePolicy, GATE_POLICY_MODES, GatePolicy, Threshold
    <2> QED BY <1>3, <2>2 DEF TypeOK, LedgerTypeOK, DeclareGatePolicy
<1> QED BY <1>1, <1>2, <1>3

LEMMA PolicyTypeStep == TypeOK /\ PolicyNext => TypeOK'
BY DEF PolicyNext, DeclareStartPolicy, DeclareCompletionPolicy, TypeOK, LedgerTypeOK

LEMMA EvidenceTypeStep == TypeOK /\ EvidenceNext => TypeOK'
BY DEF EvidenceNext, LedgerNext, LedgerStep, RecordStanding, Admit, Reject, TypeOK,
       LedgerTypeOK, Standing

LEMMA TypeStep == TypeOK /\ [Next]_vars => TypeOK'
<1>1. TypeOK /\ UNCHANGED vars => TypeOK'
    BY DEF vars, TypeOK, LedgerTypeOK
<1> QED BY <1>1, ItemTypeStep, GateTypeStep, PolicyTypeStep, EvidenceTypeStep DEF Next

(* Every table of the work graph keeps its shape under every operation. *)
THEOREM TypeCorrect == Spec => []TypeOK
BY TypeInit, TypeStep, PTL DEF Spec

-----------------------------------------------------------------------------
(* Transitive is a closed set, the smallest one, and a transitive relation. *)

LEMMA TransitiveIsClosed ==
    ASSUME NEW w \in WorkItem
    PROVE  Direct(w) \subseteq Transitive(w) /\ Closed(Transitive(w))
<1>1. Direct(w) \subseteq Transitive(w)
    BY DEF Transitive, Direct
<1>2. ASSUME NEW v \in Transitive(w), NEW p \in Direct(v) PROVE p \in Transitive(w)
    BY <1>2 DEF Transitive, Direct, Closed
<1> QED BY <1>1, <1>2 DEF Closed

LEMMA TransitiveIsSmallest ==
    ASSUME NEW w, NEW S \in SUBSET WorkItem, Direct(w) \subseteq S, Closed(S)
    PROVE  Transitive(w) \subseteq S
BY DEF Transitive

LEMMA TransitiveIsTransitive ==
    ASSUME NEW w \in WorkItem, NEW v \in Transitive(w)
    PROVE  Transitive(v) \subseteq Transitive(w)
<1>1. Direct(v) \subseteq Transitive(w) /\ Closed(Transitive(w))
    BY TransitiveIsClosed DEF Closed
<1> QED BY <1>1, TransitiveIsSmallest DEF Transitive

(* The step of the acyclicity proof: behind any item, one more dependency adds *)
(* its prerequisite and what is behind it, and only to who reached the item.   *)
LEMMA NoCycleAdded ==
    ASSUME TypeOK, Acyclic, NEW d \in WorkItem, NEW p \in WorkItem, AddDependency(d, p)
    PROVE  Acyclic'
<1>1. deps' = deps \union {<<d, p>>} /\ d # p /\ d \notin Transitive(p)
    BY DEF AddDependency
<1> SUFFICES ASSUME NEW w \in WorkItem, w \in Transitive(w)'
             PROVE  FALSE
    BY DEF Acyclic
<1> DEFINE Reached == Transitive(w) \union {w}
<1>2. PICK S \in SUBSET WorkItem :
          S = Transitive(w) \union {x \in {p} \union Transitive(p) : d \in Reached}
    BY DEF Transitive
<1>3. \A v \in WorkItem : Direct(v)' = Direct(v) \union {x \in {p} : v = d}
    BY <1>1 DEF Direct
<1>4. Direct(w)' \subseteq S
    BY <1>2, <1>3, TransitiveIsClosed
<1>5. Closed(S)'
    <2> SUFFICES ASSUME NEW v \in S, NEW q \in Direct(v)' PROVE q \in S
        BY DEF Closed
    <2>1. CASE v = d
        <3>1. d \in Transitive(w)
            BY <1>1, <1>2, <2>1
        <3>2. q = p \/ q \in Direct(d)
            BY <1>2, <1>3, <2>1
        <3> QED BY <1>2, <3>1, <3>2, TransitiveIsClosed DEF Closed
    <2>2. CASE v # d
        <3>1. q \in Direct(v)
            BY <1>2, <1>3, <2>2
        <3>2. CASE v \in Transitive(w)
            BY <1>2, <3>1, <3>2, TransitiveIsClosed DEF Closed
        <3>3. CASE v \in {p} \union Transitive(p) /\ d \in Reached
            BY <1>2, <3>1, <3>3, TransitiveIsClosed DEF Closed
        <3> QED BY <1>2, <3>2, <3>3
    <2> QED BY <2>1, <2>2
<1>6. Transitive(w)' \subseteq S
    BY <1>4, <1>5 DEF Transitive
<1>7. w \notin Transitive(w)
    BY DEF Acyclic
<1>8. d \in Reached /\ (w = p \/ w \in Transitive(p))
    BY <1>2, <1>6, <1>7
<1>9. d \in Transitive(p) \/ d = p
    BY <1>8, TransitiveIsTransitive
<1> QED BY <1>1, <1>9

-----------------------------------------------------------------------------
(* What a step of any process leaves as it is *)

LEMMA Writers ==
    [Next]_vars =>
        /\ ItemNext \/ UNCHANGED graph
        /\ GateNext \/ UNCHANGED gates
        /\ LedgerNext \/ UNCHANGED standing
BY DEF Next, vars, ItemNext, CreateItem, AddDependency, Transition, GateNext, DeclareGate,
       AddRequirement, DeclareGatePolicy, PolicyNext, DeclareStartPolicy,
       DeclareCompletionPolicy, EvidenceNext

LEMMA StandingMoves ==
    ASSUME TypeOK, [Next]_vars, NEW e \in Evidence
    PROVE  /\ standing[e] = "ADMITTED" => standing'[e] = "ADMITTED"
           /\ Recorded(e) => Recorded(e)'
           /\ Recorded(e) /\ standing'[e] \in {"PASSING", "ADMITTED"}
                 => standing[e] \in {"PASSING", "ADMITTED"}
<1>1. CASE LedgerNext
    BY <1>1 DEF LedgerNext, LedgerStep, RecordStanding, Admit, Reject, Recorded, TypeOK,
                LedgerTypeOK
<1> QED BY <1>1, Writers DEF Recorded

(* The gate tables: a row that names no gate does not exist, what is required *)
(* is recorded, and the primary evidence is required once.                    *)
GateRowsHold ==
    /\ \A g \in Gate : gate[g] = None => requirement[g] = {} /\ gate_policy[g] = None
    /\ \A g \in Gate : gate[g] # None => \A e \in Required(g) : Recorded(e)
    /\ AdmissionsCountOnce

LEMMA GatesStay ==
    ASSUME TypeOK, [Next]_vars, NEW g \in Gate, gate[g] # None
    PROVE  /\ gate'[g] = gate[g]
           /\ requirement[g] \subseteq requirement'[g]
           /\ Frozen(g) => requirement'[g] = requirement[g] /\ gate_policy'[g] = gate_policy[g]
<1>1. CASE GateNext
    BY <1>1 DEF GateNext, DeclareGate, AddRequirement, DeclareGatePolicy, Frozen, TypeOK
<1> QED BY <1>1, Writers

LEMMA GateRowsStep == TypeOK /\ GateRowsHold /\ [Next]_vars => GateRowsHold'
<1> SUFFICES ASSUME TypeOK, GateRowsHold, [Next]_vars, NEW g \in Gate
             PROVE  /\ gate'[g] = None => requirement'[g] = {} /\ gate_policy'[g] = None
                    /\ gate'[g] # None => /\ \A e \in Required(g)' : Recorded(e)'
                                          /\ gate'[g].primary \notin requirement'[g]
    BY DEF GateRowsHold, AdmissionsCountOnce
<1>1. \A e \in Evidence : Recorded(e) => Recorded(e)'
    BY StandingMoves
<1>2. TypeOK'
    BY TypeStep
<1>3. CASE UNCHANGED gates
    BY <1>1, <1>2, <1>3 DEF GateRowsHold, AdmissionsCountOnce, Required, TypeOK, GateRow
<1>4. ASSUME NEW h \in Gate, NEW w \in WorkItem, NEW primary \in Evidence,
             NEW requirements \in SUBSET Evidence, DeclareGate(h, w, primary, requirements)
      PROVE  /\ gate'[g] = None => requirement'[g] = {} /\ gate_policy'[g] = None
             /\ gate'[g] # None => /\ \A e \in Required(g)' : Recorded(e)'
                                   /\ gate'[g].primary \notin requirement'[g]
    <2>1. CASE h = g
        <3>1. /\ gate'[g] = [item |-> w, primary |-> primary] /\ gate'[g] # None
              /\ requirement'[g] = requirements
            BY <1>4, <2>1, NoneAssumption DEF DeclareGate, TypeOK, GateRow
        <3> QED BY <1>1, <1>4, <3>1 DEF DeclareGate, Required
    <2>2. CASE h # g
        BY <1>1, <1>4, <2>2 DEF DeclareGate, GateRowsHold, AdmissionsCountOnce, Required,
                                TypeOK, GateRow
    <2> QED BY <2>1, <2>2
<1>5. ASSUME NEW h \in Gate, NEW e \in Evidence, AddRequirement(h, e)
      PROVE  /\ gate'[g] = None => requirement'[g] = {} /\ gate_policy'[g] = None
             /\ gate'[g] # None => /\ \A f \in Required(g)' : Recorded(f)'
                                   /\ gate'[g].primary \notin requirement'[g]
    BY <1>1, <1>5 DEF AddRequirement, GateRowsHold, AdmissionsCountOnce, Required, TypeOK,
                      GateRow
<1>6. ASSUME NEW h \in Gate, NEW mode \in GATE_POLICY_MODES,
             NEW minimum \in Threshold \union {None},
             DeclareGatePolicy(h, mode, minimum)
      PROVE  /\ gate'[g] = None => requirement'[g] = {} /\ gate_policy'[g] = None
             /\ gate'[g] # None => /\ \A e \in Required(g)' : Recorded(e)'
                                   /\ gate'[g].primary \notin requirement'[g]
    BY <1>1, <1>6 DEF DeclareGatePolicy, GateRowsHold, AdmissionsCountOnce, Required, TypeOK,
                      GateRow
<1> QED BY <1>3, <1>4, <1>5, <1>6, Writers DEF GateNext

LEMMA AdmissionCounts ==
    ASSUME TypeOK, GateRowsHold, NEW g \in Gate, Frozen(g)
    PROVE  /\ IsFiniteSet(AdmittedOf(g)) /\ IsFiniteSet(Admittable(g))
           /\ Cardinality(AdmittedOf(g)) \in Nat /\ Cardinality(Admittable(g)) \in Nat
           /\ Cardinality(AdmittedOf(g)) <= Cardinality(Admittable(g))
           /\ Minimum(g) \in Nat
           /\ \A e \in Required(g) : e \in Evidence /\ Recorded(e)
<1>1. gate[g] # None
    BY DEF GateRowsHold, Frozen
<1>2. Required(g) \subseteq Evidence /\ \A e \in Required(g) : Recorded(e)
    BY <1>1 DEF Required, GateRowsHold, TypeOK, GateRow
<1>3. IsFiniteSet(Required(g)) /\ Cardinality(Required(g)) \in Nat
    BY <1>2, FiniteAssumption, FS_Subset, FS_CardinalityType
<1>4. AdmittedOf(g) \subseteq Admittable(g) /\ Admittable(g) \subseteq Required(g)
    BY DEF AdmittedOf, Admittable
<1>5. IsFiniteSet(AdmittedOf(g)) /\ IsFiniteSet(Admittable(g))
    BY <1>3, <1>4, FS_Subset
<1>6. gate_policy[g] \in GatePolicy
    BY DEF Frozen, TypeOK
<1>7. Minimum(g) \in Nat
    BY <1>3, <1>6, FiniteAssumption, FS_CardinalityType DEF Minimum, Frozen, GatePolicy, Threshold
<1> QED BY <1>2, <1>4, <1>5, <1>7, FS_Subset, FS_CardinalityType

(* The heart of it: once its policy is declared, a gate only gains admissions *)
(* and only loses evidences that could still be admitted.                     *)
LEMMA FrozenGateStep ==
    ASSUME TypeOK, GateRowsHold, [Next]_vars, NEW g \in Gate, Frozen(g)
    PROVE  /\ Frozen(g)' /\ gate[g] # None /\ gate'[g] = gate[g]
           /\ Minimum(g)' = Minimum(g)
           /\ GatePasses(g) => GatePasses(g)'
           /\ Cardinality(Admittable(g)') \in Nat
           /\ Cardinality(Admittable(g)') <= Cardinality(Admittable(g))
           /\ Cardinality(Admittable(g)) < Minimum(g) => ~GatePasses(g)'
<1>1. gate[g] # None /\ TypeOK'
    BY TypeStep DEF GateRowsHold, Frozen
<1>2. Required(g)' = Required(g) /\ Frozen(g)' /\ gate'[g] = gate[g]
    BY <1>1, GatesStay DEF Required, Frozen
<1>3. Minimum(g)' = Minimum(g)
    BY <1>1, <1>2, GatesStay DEF Minimum
<1>4. AdmittedOf(g) \subseteq AdmittedOf(g)' /\ Admittable(g)' \subseteq Admittable(g)
    BY <1>2, AdmissionCounts, StandingMoves DEF AdmittedOf, Admittable
<1>5. AdmittedOf(g)' \subseteq Admittable(g)'
    BY DEF AdmittedOf, Admittable
<1>6. /\ IsFiniteSet(AdmittedOf(g)') /\ Cardinality(AdmittedOf(g)') \in Nat
      /\ IsFiniteSet(Admittable(g)') /\ Cardinality(Admittable(g)') \in Nat
    BY <1>4, <1>5, AdmissionCounts, FS_Subset, FS_CardinalityType
<1>7. /\ Cardinality(AdmittedOf(g)) <= Cardinality(AdmittedOf(g)')
      /\ Cardinality(AdmittedOf(g)') <= Cardinality(Admittable(g)')
      /\ Cardinality(Admittable(g)') <= Cardinality(Admittable(g))
    BY <1>4, <1>5, <1>6, AdmissionCounts, FS_Subset
<1> QED BY <1>1, <1>2, <1>3, <1>6, <1>7, AdmissionCounts DEF GatePasses

LEMMA ItemsStay ==
    ASSUME TypeOK, [Next]_vars, NEW w \in WorkItem
    PROVE  /\ status[w] \in {"COMPLETED", "CANCELLED"} => status'[w] = status[w]
           /\ Direct(w) \subseteq Direct(w)'
           /\ status[w] = "COMPLETED" => checked'[w] = checked[w]
<1>1. CASE ItemNext
    BY <1>1 DEF ItemNext, CreateItem, AddDependency, Transition, Exists, ALLOWED_EVENTS,
                WorkStatus, Direct, TypeOK
<1> QED BY <1>1, Writers DEF Direct

-----------------------------------------------------------------------------
(* A governed completion *)

(* What the audit trail tells of w: nothing, or what its completion satisfied. *)
CheckHolds(w) == checked[w] # None =>
    /\ status[w] = "COMPLETED"
    /\ \A p \in checked[w].prerequisites : status[p] = "COMPLETED"
    /\ \A g \in checked[w].gates : Frozen(g) /\ GatePasses(g)

Inv ==
    /\ TypeOK
    /\ Acyclic
    /\ GateRowsHold
    /\ \A w \in WorkItem : CheckHolds(w)

(* It holds for a row just written, which found all of it true, ... *)
LEMMA NewCheck ==
    ASSUME Inv, [Next]_vars, NEW w \in WorkItem, checked'[w] # checked[w], checked'[w] # None
    PROVE  /\ status'[w] = "COMPLETED"
           /\ \A p \in checked'[w].prerequisites : status[p] = "COMPLETED"
           /\ \A g \in checked'[w].gates : Frozen(g) /\ GatePasses(g)
           /\ checked'[w] \in CheckRow
<1>1. PICK v \in WorkItem, event \in Event : Transition(v, event)
    BY Writers DEF ItemNext, CreateItem, AddDependency
<1>2. /\ v = w /\ event = "COMPLETE" /\ Ready(w)
      /\ checked'[w] = [prerequisites |-> Direct(w), gates |-> FrozenGatesOf(w)]
    BY <1>1 DEF Transition, Inv, TypeOK, MustBeReady
<1>3. status'[w] = "COMPLETED"
    BY <1>1, <1>2 DEF Transition, STATE_BY_EVENT, Inv, TypeOK
<1>4. checked'[w] \in CheckRow
    BY <1>2 DEF CheckRow, Direct, FrozenGatesOf, GatesOf
<1> QED BY <1>2, <1>3, <1>4 DEF Ready, FrozenGatesOf

(* ... and no later step takes any of it back. *)
LEMMA CheckStep ==
    ASSUME Inv, [Next]_vars, NEW w \in WorkItem
    PROVE  CheckHolds(w)'
<1> SUFFICES ASSUME checked'[w] # None
             PROVE  /\ status'[w] = "COMPLETED"
                    /\ \A p \in checked'[w].prerequisites : status'[p] = "COMPLETED"
                    /\ \A g \in checked'[w].gates : Frozen(g)' /\ GatePasses(g)'
    BY DEF CheckHolds
<1>1. /\ status'[w] = "COMPLETED"
      /\ \A p \in checked'[w].prerequisites : status[p] = "COMPLETED"
      /\ \A g \in checked'[w].gates : Frozen(g) /\ GatePasses(g)
      /\ checked'[w] \in CheckRow
    <2>1. CASE checked'[w] # checked[w]
        BY <2>1, NewCheck
    <2>2. CASE checked'[w] = checked[w]
        BY <2>2, ItemsStay DEF Inv, CheckHolds, TypeOK
    <2> QED BY <2>1, <2>2
<1>2. \A p \in checked'[w].prerequisites : status'[p] = "COMPLETED"
    BY <1>1, ItemsStay DEF Inv, CheckRow
<1>3. \A g \in checked'[w].gates : Frozen(g)' /\ GatePasses(g)'
    BY <1>1, FrozenGateStep DEF Inv, CheckRow
<1> QED BY <1>1, <1>2, <1>3

-----------------------------------------------------------------------------
LEMMA InvInit == Init => Inv
<1> SUFFICES ASSUME Init PROVE Inv
    OBVIOUS
<1>1. \A w \in WorkItem : Direct(w) = {}
    BY DEF Init, Direct
<1>2. \A w \in WorkItem : Closed({})
    BY DEF Closed
<1>3. Acyclic
    BY <1>1, <1>2 DEF Acyclic, Transitive
<1> QED BY <1>3, TypeInit DEF Init, Inv, GateRowsHold, AdmissionsCountOnce, CheckHolds

LEMMA AcyclicStep == Inv /\ [Next]_vars => Acyclic'
<1> SUFFICES ASSUME Inv, [Next]_vars PROVE Acyclic'
    OBVIOUS
<1>1. CASE deps' = deps
    BY <1>1 DEF Inv, Acyclic, Transitive, Direct, Closed
<1>2. CASE deps' # deps
    <2>1. PICK d \in WorkItem, p \in WorkItem : AddDependency(d, p)
        BY <1>2, Writers DEF ItemNext, CreateItem, Transition
    <2> QED BY <2>1, NoCycleAdded DEF Inv
<1> QED BY <1>1, <1>2

LEMMA InvStep == Inv /\ [Next]_vars => Inv'
BY TypeStep, AcyclicStep, GateRowsStep, CheckStep DEF Inv

LEMMA InvAlways == Spec => []Inv
BY InvInit, InvStep, PTL DEF Spec

(* No sequence of additions of dependencies ever closes a cycle, whatever the *)
(* number of work items: the walk of add_dependency is enough.                *)
THEOREM DependenciesAreAcyclic == Spec => []Acyclic
<1>1. Inv => Acyclic
    BY DEF Inv
<1> QED BY <1>1, InvAlways, PTL

(* A completion made under the strict policy stays justified by what it was   *)
(* made to satisfy.                                                           *)
THEOREM CompletionsStand == Spec => []GovernedCompletionStands
<1>1. Inv => GovernedCompletionStands
    BY DEF Inv, CheckHolds, GovernedCompletionStands
<1> QED BY <1>1, InvAlways, PTL

(* The list of required evidences that the services count holds each once.    *)
THEOREM AdmissionsAreCountedOnce == Spec => []AdmissionsCountOnce
<1>1. Inv => AdmissionsCountOnce
    BY DEF Inv, GateRowsHold
<1> QED BY <1>1, InvAlways, PTL

(* The blocker report, which looks behind the direct prerequisites, never     *)
(* contradicts the start and completion policies, which do not.               *)
THEOREM ReportAgrees == Spec => []ReportAgreesWithPolicy
<1>1. ASSUME Inv, NEW w \in WorkItem,
             \A v \in Transitive(w) : status[v] = "COMPLETED" => CheckedWithAll(v)
      PROVE  Ready(w) <=> ReportedReady(w)
    <2>1. ReportedReady(w) => Ready(w)
        BY TransitiveIsClosed DEF Ready, ReportedReady
    <2>2. ASSUME Ready(w) PROVE \A p \in Transitive(w) : status[p] = "COMPLETED"
        <3> DEFINE Done == {v \in Transitive(w) : status[v] = "COMPLETED"}
        <3>1. Direct(w) \subseteq Done
            BY <2>2, TransitiveIsClosed DEF Ready
        <3>2. Closed(Done)
            BY <1>1, TransitiveIsClosed DEF Closed, CheckedWithAll, Inv, CheckHolds, Transitive
        <3>3. Done \in SUBSET WorkItem
            BY DEF Transitive
        <3> QED BY <3>1, <3>2, <3>3, TransitiveIsSmallest
    <2> QED BY <2>1, <2>2 DEF Ready, ReportedReady
<1>2. Inv => ReportAgreesWithPolicy
    BY <1>1 DEF ReportAgreesWithPolicy
<1> QED BY <1>2, InvAlways, PTL

(* Once its policy is declared, a gate that passes passes for ever. *)
THEOREM FrozenGatesKeepPassing == Spec => FrozenGatePassIsFinal
<1>1. Inv /\ [Next]_vars => [\A g \in Gate : Frozen(g) /\ GatePasses(g) => GatePasses(g)']_vars
    BY FrozenGateStep DEF Inv
<1> QED BY <1>1, InvAlways, PTL DEF Spec, FrozenGatePassIsFinal

(* An item blocked by a cancelled prerequisite or a gate short of admittable  *)
(* evidences stays so, and no policy ever finds it ready.                     *)
THEOREM HopelessItemsStayBlocked == Spec => HopelessIsFinal
<1>1. ASSUME Inv, [Next]_vars, NEW w \in WorkItem, NEW p \in Direct(w), status[p] = "CANCELLED"
      PROVE  Hopeless(w)' /\ ~Ready(w)'
    <2>1. p \in Direct(w)' /\ status'[p] = "CANCELLED"
        BY <1>1, ItemsStay DEF Inv, Direct
    <2> QED BY <2>1 DEF Hopeless, Ready
<1>2. ASSUME Inv, [Next]_vars, NEW w \in WorkItem, NEW g \in FrozenGatesOf(w),
             Cardinality(Admittable(g)) < Minimum(g)
      PROVE  Hopeless(w)' /\ ~Ready(w)'
    <2>1. g \in Gate /\ Frozen(g) /\ gate[g].item = w
        BY DEF FrozenGatesOf, GatesOf
    <2>2. g \in FrozenGatesOf(w)' /\ g \in GatesOf(w)'
        BY <1>2, <2>1, FrozenGateStep DEF Inv, FrozenGatesOf, GatesOf
    <2>3. Cardinality(Admittable(g)') < Minimum(g)'
        BY <1>2, <2>1, FrozenGateStep, AdmissionCounts DEF Inv
    <2>4. ~GatePasses(g)'
        BY <1>2, <2>1, FrozenGateStep DEF Inv
    <2> QED BY <2>2, <2>3, <2>4 DEF Hopeless, Ready
<1>3. Inv /\ [Next]_vars
         => [\A w \in WorkItem : Hopeless(w) => Hopeless(w)' /\ ~Ready(w)']_vars
    BY <1>1, <1>2 DEF Hopeless
<1> QED BY <1>3, InvAlways, PTL DEF Spec, HopelessIsFinal
=============================================================================
