------------------------------- MODULE WorkGraph -------------------------------
(***************************************************************************)
(* Work items, the dependencies between them, the gates that hold them     *)
(* back and their lifecycle, over evidences whose standing the ledger      *)
(* moves.  Every action is one BEGIN IMMEDIATE transaction of a process on *)
(* the store; a transition evaluates the readiness it needs inside its own.*)
(***************************************************************************)
EXTENDS AdmissionLedger, Naturals, FiniteSets

CONSTANTS WorkItem, Gate, \* identifiers
          None            \* an absent row

GATE_POLICY_MODES == {"ALL", "ANY", "AT_LEAST"}
WORK_START_POLICY_MODES == {"OPEN", "REQUIRE_READY"}
WORK_COMPLETION_POLICY_MODES == {"OPEN", "REQUIRE_READY_FOR_COMPLETE"}

STATE_BY_EVENT == [START |-> "ACTIVE", COMPLETE |-> "COMPLETED", CANCEL |-> "CANCELLED"]
Event == DOMAIN STATE_BY_EVENT
WorkStatus == {"ABSENT", "PLANNED", "ACTIVE", "COMPLETED", "CANCELLED"}
ALLOWED_EVENTS == [s \in WorkStatus |->
    CASE s = "PLANNED" -> {"START", "CANCEL"}
      [] s = "ACTIVE" -> {"COMPLETE", "CANCEL"}
      [] s \in {"ABSENT", "COMPLETED", "CANCELLED"} -> {}]

GateRow == [item : WorkItem, primary : Evidence]
Threshold == 1..Cardinality(Evidence)
GatePolicy == [mode : {"ALL", "ANY"}, minimum : {None}]
                 \union [mode : {"AT_LEAST"}, minimum : Threshold]
CheckRow == [prerequisites : SUBSET WorkItem, gates : SUBSET Gate]

ASSUME FiniteAssumption == IsFiniteSet(Evidence)
ASSUME NoneAssumption ==
    /\ None \notin GateRow \union CheckRow \union GatePolicy
    /\ None \notin Nat \union WORK_START_POLICY_MODES \union WORK_COMPLETION_POLICY_MODES

VARIABLES
    status,             \* state of each item, folded from its lifecycle events
    deps,               \* <<dependent, prerequisite>> rows of work_dependency
    gate,               \* the work item and the primary evidence of each gate
    requirement,        \* the further evidences each gate requires
    gate_policy,        \* how many of them must be admitted
    start_policy, completion_policy,
    checked             \* what a COMPLETE event was made to satisfy: the audit
                        \* trail tells it, no operation reads it

graph == <<status, deps, checked>>
gates == <<gate, requirement, gate_policy>>
policies == <<start_policy, completion_policy>>
vars == <<standing, graph, gates, policies>>

(* Every table holds rows of its shape. *)
TypeOK ==
    /\ LedgerTypeOK
    /\ status \in [WorkItem -> WorkStatus]
    /\ deps \in SUBSET (WorkItem \X WorkItem)
    /\ gate \in [Gate -> GateRow \union {None}]
    /\ requirement \in [Gate -> SUBSET Evidence]
    /\ gate_policy \in [Gate -> GatePolicy \union {None}]
    /\ start_policy \in WORK_START_POLICY_MODES \union {None}
    /\ completion_policy \in WORK_COMPLETION_POLICY_MODES \union {None}
    /\ checked \in [WorkItem -> CheckRow \union {None}]

Init ==
    /\ LedgerInit
    /\ status = [w \in WorkItem |-> "ABSENT"]
    /\ deps = {}
    /\ gate = [g \in Gate |-> None]
    /\ requirement = [g \in Gate |-> {}]
    /\ gate_policy = [g \in Gate |-> None]
    /\ start_policy = None
    /\ completion_policy = None
    /\ checked = [w \in WorkItem |-> None]

-----------------------------------------------------------------------------
(* What the services read *)

Exists(w) == status[w] # "ABSENT"
Recorded(e) == standing[e] # "ABSENT"

Direct(w) == {p \in WorkItem : <<w, p>> \in deps}
Closed(S) == \A v \in S : Direct(v) \subseteq S

(* The recursive CTE of add_dependency and the visit of diagnose_transitive: *)
(* the smallest set holding the prerequisites of w and of its own members.   *)
Transitive(w) == {p \in WorkItem :
    \A S \in SUBSET WorkItem : Direct(w) \subseteq S /\ Closed(S) => p \in S}

Required(g) == {gate[g].primary} \union requirement[g]
AdmittedOf(g) == {e \in Required(g) : standing[e] = "ADMITTED"}

Minimum(g) ==
    IF gate_policy[g] = None \/ gate_policy[g].mode = "ALL" THEN Cardinality(Required(g))
    ELSE IF gate_policy[g].mode = "ANY" THEN 1
    ELSE gate_policy[g].minimum

GatePasses(g) == Cardinality(AdmittedOf(g)) >= Minimum(g)
GatesOf(w) == {g \in Gate : gate[g] # None /\ gate[g].item = w}

(* A declared policy freezes the requirements of its gate. *)
Frozen(g) == gate_policy[g] # None
FrozenGatesOf(w) == {g \in GatesOf(w) : Frozen(g)}

(* evaluate_work_readiness: direct prerequisites and gates. *)
Ready(w) ==
    /\ \A p \in Direct(w) : status[p] = "COMPLETED"
    /\ \A g \in GatesOf(w) : GatePasses(g)

(* WorkBlockerReportService.diagnose: transitive prerequisites and gates. *)
ReportedReady(w) ==
    /\ \A p \in Transitive(w) : status[p] = "COMPLETED"
    /\ \A g \in GatesOf(w) : GatePasses(g)

-----------------------------------------------------------------------------
(* Work items and dependencies *)

CreateItem(w) ==
    /\ ~Exists(w)
    /\ status' = [status EXCEPT ![w] = "PLANNED"]
    /\ UNCHANGED <<standing, deps, checked, gates, policies>>

(* How it could go wrong: the walk for a cycle starts from the wrong end. *)
AddDependencyWalkingFromDependent(dependent, prerequisite) ==
    /\ dependent # prerequisite
    /\ Exists(dependent) /\ Exists(prerequisite)
    /\ prerequisite \notin Transitive(dependent)
    /\ deps' = deps \union {<<dependent, prerequisite>>}
    /\ UNCHANGED <<standing, status, checked, gates, policies>>

AddDependency(dependent, prerequisite) ==
    /\ dependent # prerequisite
    /\ Exists(dependent) /\ Exists(prerequisite)
    /\ dependent \notin Transitive(prerequisite)
    /\ <<dependent, prerequisite>> \notin deps
    /\ deps' = deps \union {<<dependent, prerequisite>>}
    /\ UNCHANGED <<standing, status, checked, gates, policies>>

-----------------------------------------------------------------------------
(* Gates *)

(* declare_with_requirements; declare is the case of no requirement. *)
DeclareGate(g, w, primary, requirements) ==
    /\ primary \notin requirements
    /\ Exists(w)
    /\ \A e \in {primary} \union requirements : Recorded(e)
    /\ gate[g] = None
    /\ \A h \in GatesOf(w) : gate[h].primary # primary
    /\ gate' = [gate EXCEPT ![g] = [item |-> w, primary |-> primary]]
    /\ requirement' = [requirement EXCEPT ![g] = requirements]
    /\ UNCHANGED <<standing, graph, gate_policy, policies>>

(* How it could go wrong: the requirements of a gate are never frozen. *)
AddRequirementToFrozenGate(g, e) ==
    /\ gate[g] # None
    /\ Recorded(e)
    /\ e # gate[g].primary
    /\ requirement' = [requirement EXCEPT ![g] = @ \union {e}]
    /\ UNCHANGED <<standing, graph, gate, gate_policy, policies>>

AddRequirement(g, e) ==
    /\ gate[g] # None
    /\ Recorded(e)
    /\ gate_policy[g] = None
    /\ e # gate[g].primary
    /\ e \notin requirement[g]
    /\ requirement' = [requirement EXCEPT ![g] = @ \union {e}]
    /\ UNCHANGED <<standing, graph, gate, gate_policy, policies>>

(* How it could go wrong: a later policy replaces the first. *)
ReplaceGatePolicy(g, mode, minimum) ==
    /\ gate[g] # None
    /\ mode # "AT_LEAST" => minimum = None
    /\ mode = "AT_LEAST" => minimum \in 1..Cardinality(Required(g))
    /\ gate_policy' = [gate_policy EXCEPT ![g] = [mode |-> mode, minimum |-> minimum]]
    /\ UNCHANGED <<standing, graph, gate, requirement, policies>>

DeclareGatePolicy(g, mode, minimum) ==
    /\ gate[g] # None
    /\ mode # "AT_LEAST" => minimum = None
    /\ mode = "AT_LEAST" => minimum \in 1..Cardinality(Required(g))
    /\ gate_policy[g] = None
    /\ gate_policy' = [gate_policy EXCEPT ![g] = [mode |-> mode, minimum |-> minimum]]
    /\ UNCHANGED <<standing, graph, gate, requirement, policies>>

-----------------------------------------------------------------------------
(* Lifecycle *)

MustBeReady(event) ==
    \/ event = "START" /\ start_policy = "REQUIRE_READY"
    \/ event = "COMPLETE" /\ completion_policy = "REQUIRE_READY_FOR_COMPLETE"

(* How it could go wrong: the strict policy is looked up, readiness is not. *)
TransitionWithoutReadiness(w, event) ==
    /\ event \in ALLOWED_EVENTS[status[w]]
    /\ status' = [status EXCEPT ![w] = STATE_BY_EVENT[event]]
    /\ checked' = IF event = "COMPLETE" /\ MustBeReady(event)
                  THEN [checked EXCEPT ![w] =
                           [prerequisites |-> Direct(w), gates |-> FrozenGatesOf(w)]]
                  ELSE checked
    /\ UNCHANGED <<standing, deps, gates, policies>>

(* A second event of the same sequence number is refused: the event is      *)
(* checked against the state it extends, in one transaction.                *)
Transition(w, event) ==
    /\ event \in ALLOWED_EVENTS[status[w]]
    /\ MustBeReady(event) => Ready(w)
    /\ status' = [status EXCEPT ![w] = STATE_BY_EVENT[event]]
    /\ checked' = IF event = "COMPLETE" /\ MustBeReady(event)
                  THEN [checked EXCEPT ![w] =
                           [prerequisites |-> Direct(w), gates |-> FrozenGatesOf(w)]]
                  ELSE checked
    /\ UNCHANGED <<standing, deps, gates, policies>>

DeclareStartPolicy(mode) ==
    /\ start_policy = None
    /\ start_policy' = mode
    /\ UNCHANGED <<standing, graph, gates, completion_policy>>

DeclareCompletionPolicy(mode) ==
    /\ completion_policy = None
    /\ completion_policy' = mode
    /\ UNCHANGED <<standing, graph, gates, start_policy>>

-----------------------------------------------------------------------------
ItemNext == \E w \in WorkItem :
    \/ CreateItem(w)
    \/ \E prerequisite \in WorkItem : AddDependency(w, prerequisite)
    \/ \E event \in Event : Transition(w, event)

GateNext == \E g \in Gate :
    \/ \E w \in WorkItem, primary \in Evidence, requirements \in SUBSET Evidence :
          DeclareGate(g, w, primary, requirements)
    \/ \E e \in Evidence : AddRequirement(g, e)
    \/ \E mode \in GATE_POLICY_MODES, minimum \in Threshold \union {None} :
          DeclareGatePolicy(g, mode, minimum)

PolicyNext ==
    \/ \E mode \in WORK_START_POLICY_MODES : DeclareStartPolicy(mode)
    \/ \E mode \in WORK_COMPLETION_POLICY_MODES : DeclareCompletionPolicy(mode)

EvidenceNext == LedgerNext /\ UNCHANGED <<graph, gates, policies>>

Next == ItemNext \/ GateNext \/ PolicyNext \/ EvidenceNext

Spec == Init /\ [][Next]_vars

-----------------------------------------------------------------------------
(* No sequence of additions, in any order and by any processes, ever leaves a *)
(* cycle of dependencies, which would block every item on it for ever.        *)
Acyclic == \A w \in WorkItem : w \notin Transitive(w)

(* What a governed completion was made to satisfy stays satisfied: the        *)
(* prerequisites of that moment are still COMPLETED, and the gates that were  *)
(* frozen still pass; a gate without a policy may regress, which is why       *)
(* readiness is no invariant of a completed item.                             *)
GovernedCompletionStands == \A w \in WorkItem : checked[w] # None =>
    /\ status[w] = "COMPLETED"
    /\ \A p \in checked[w].prerequisites : status[p] = "COMPLETED"
    /\ \A g \in checked[w].gates : GatePasses(g)

(* The composite report looks at transitive prerequisites and the policies at *)
(* direct ones.  They agree on w as long as every completed item behind it    *)
(* was completed under the strict policy and got no prerequisite afterwards.  *)
CheckedWithAll(v) == checked[v] # None /\ checked[v].prerequisites = Direct(v)

ReportAgreesWithPolicy == \A w \in WorkItem :
    (\A v \in Transitive(w) : status[v] = "COMPLETED" => CheckedWithAll(v))
        => (Ready(w) <=> ReportedReady(w))

(* The requirements are read with UNION ALL and counted as a list: no         *)
(* constraint of the schema forbids the primary evidence among the others,    *)
(* where its one admission would count twice.                                 *)
AdmissionsCountOnce == \A g \in Gate : gate[g] # None =>
    gate[g].primary \notin requirement[g]

(* A gate whose policy is declared never goes back from PASS to FAIL: not     *)
(* through a requirement, a second policy, nor a decision on its evidences.   *)
FrozenGatePassIsFinal == [][\A g \in Gate :
    Frozen(g) /\ GatePasses(g) => GatePasses(g)']_vars

(* What can still be admitted of the evidences of a gate. *)
Admittable(g) == {e \in Required(g) : standing[e] \in {"PASSING", "ADMITTED"}}

(* A cancelled prerequisite, or a frozen gate with too few evidences left to  *)
(* admit, blocks an item for good.                                            *)
Hopeless(w) ==
    \/ \E p \in Direct(w) : status[p] = "CANCELLED"
    \/ \E g \in FrozenGatesOf(w) : Cardinality(Admittable(g)) < Minimum(g)

(* No operation brings a hopeless item back, nor ever reports it ready. *)
HopelessIsFinal == [][\A w \in WorkItem : Hopeless(w) => Hopeless(w)' /\ ~Ready(w)']_vars

=============================================================================
