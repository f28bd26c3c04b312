------------------------------ MODULE Outputs ------------------------------
(***************************************************************************)
(* What the program answers besides the graph: the gauges of a scrape      *)
(* (internal/metrics/metrics.go) and the details of one resource           *)
(* (handleResource of internal/api/api.go).  Both read the informer caches *)
(* through the accessors of internal/collector/accessors.go; the roll-ups  *)
(* of a scrape come from the last graph.                                   *)
(*                                                                         *)
(* A sample is a series (the name of a metric and its labels) with a       *)
(* value.  An event is a record; its text stands for reason and message.   *)
(***************************************************************************)
EXTENDS Graph, SequencesExt

CONSTANTS
    Events,         \* what the informer of events has stored
    Limit           \* how many of them an answer lists

(* What the API server guarantees of names, conditions, containers and
   events: no namespace has an empty name or that of a dash, which stands for
   none in a request. *)
ASSUME OutputsAssumption ==
    /\ Limit \in Nat
    /\ IsFiniteSet(Events) /\ \A e \in Events : e.at \in Nat
    /\ \A x \in DOMAIN Contents \cup DOMAIN Lasting :
          /\ Len(x) = 3 => x[2] \notin {"", "-"}
          /\ x[1] = "Node" =>
                \A o \in PossibleContents(x) : o.ready \in {"True", "False", "Unknown"}
          /\ x[1] = "Pod" =>
                \A o \in PossibleContents(x) :
                   /\ IsFiniteSet(DOMAIN o.containers)
                   /\ \A k \in DOMAIN o.containers : o.containers[k].restarts \in Nat

OneIf(b) == IF b THEN 1 ELSE 0
Sample(series, v) == [series |-> series, value |-> v]
NameOf(x) == x[Len(x)]

-----------------------------------------------------------------------------
(* Collect. *)
PodPhaseValue(s) ==
    IF s = Healthy THEN 1 ELSE IF s = Unhealthy THEN 0 ELSE IF s = Degraded THEN 2 ELSE 3

NodeConditions == {"MemoryPressure", "DiskPressure", "PIDPressure", "NetworkUnavailable"}

NodeGauges(c) ==
    {Sample(<<"node_ready", x>>, OneIf(c[x].ready = "True")) : x \in OfKind(c, "Node")} \cup
    {Sample(<<"node_condition", p[1], p[2]>>, OneIf(p[2] \in c[p[1]].pressures)) :
        p \in OfKind(c, "Node") \X NodeConditions}

RestartCounters(c) ==
    UNION {{Sample(<<"pod_container_restarts", x, k>>, c[x].containers[k].restarts) :
              k \in DOMAIN c[x].containers} : x \in OfKind(c, "Pod")}

PodGauges(c, rates) ==
    {Sample(<<"pod_health_status", x, c[x].phase>>, PodPhaseValue(Pod(c[x], rates[x]).state)) :
        x \in OfKind(c, "Pod")} \cup
    {Sample(<<"pod_restart_rate", x>>, rates[x]) : x \in OfKind(c, "Pod")}

(* Fault: a workload that leaves its number of replicas out wants none. *)
DesiredUndefaulted(o, kind) ==
    IF kind = "DaemonSet" THEN o.scheduled ELSE IF o.replicas = Nil THEN 0 ELSE o.replicas

Desired(o, kind) ==
    IF kind = "DaemonSet" THEN o.scheduled ELSE IF o.replicas = Nil THEN 1 ELSE o.replicas

WorkloadGauges(c) ==
    LET W == {x \in DOMAIN c : x[1] \in WorkloadKinds} IN
    {Sample(<<"workload_ready", x>>, c[x].ready) : x \in W} \cup
    {Sample(<<"workload_desired", x>>, Desired(c[x], x[1])) : x \in W}

VolumeGauges(c, now) ==
    LET claims == OfKind(c, "PersistentVolumeClaim") IN
    {Sample(<<"pv_status", x, c[x].phase>>, 1) : x \in OfKind(c, "PersistentVolume")} \cup
    {Sample(<<"pvc_status", x, c[x].phase>>, 1) : x \in claims} \cup
    {Sample(<<"pvc_pending_seconds", x>>,
            IF c[x].phase = "Pending" THEN now - c[x].created ELSE 0) : x \in claims}

ServiceGauges(c) ==
    {Sample(<<"service_endpoints_ready", x>>, endpointsFor(c, x).ready) : x \in OfKind(c, "Service")}

RollUpGauges(g) ==
    {Sample(<<"health_score", x>>, g.nodes[x].status[2]) :
        x \in {y \in DOMAIN g.nodes : y[1] \in {"Namespace", "Cluster"}}}

Collect(c, now, rates, g) ==
    NodeGauges(c) \cup PodGauges(c, rates) \cup RestartCounters(c) \cup
    WorkloadGauges(c) \cup VolumeGauges(c, now) \cup ServiceGauges(c) \cup RollUpGauges(g)

-----------------------------------------------------------------------------
(* A request names its kind in any case, or by a short name. *)
LowerCase == [Pod |-> "pod", Node |-> "node", Namespace |-> "namespace",
    Deployment |-> "deployment", StatefulSet |-> "statefulset", DaemonSet |-> "daemonset",
    Service |-> "service", PersistentVolumeClaim |-> "persistentvolumeclaim",
    PersistentVolume |-> "persistentvolume", PVC |-> "pvc", PV |-> "pv"]
ToLower(k) == IF k \in DOMAIN LowerCase THEN LowerCase[k] ELSE k

ShortNames == {<<"pvc", "PersistentVolumeClaim">>, <<"pv", "PersistentVolume">>}
FullNames == {"Pod", "Node", "Namespace", "Deployment", "StatefulSet", "DaemonSet", "Service",
              "PersistentVolumeClaim", "PersistentVolume"}
Named(kind) ==
    {k \in FullNames : ToLower(k) = ToLower(kind) \/ <<ToLower(kind), k>> \in ShortNames}

(* Fault: the kind is passed on as it was asked for. *)
AsAsked(kind) == kind

canonicalKind(kind) ==
    IF Named(kind) = {} THEN kind ELSE CHOOSE k \in Named(kind) : TRUE

(* The object that the lister of this kind finds, if there is one: in
   namespaced mode the kinds of the cluster have none. *)
GetResource(c, kind, ns, name) ==
    {x \in {IF k \in ClusterKinds THEN <<k, name>> ELSE <<k, ns, name>> : k \in Named(kind)} :
       x \in DOMAIN c /\ (clusterScope \/ x[1] \notin ClusterKinds)}

(* Each element of the set once, the newest first. *)
NewestFirst(S) ==
    CHOOSE f \in [1..Cardinality(S) -> S] :
       /\ IsInjective(f)
       /\ \A i, j \in DOMAIN f : i < j => f[i].at >= f[j].at

WarningEvents(kind, ns, name) ==
    LET scope == IF kind \in {"Node", "PersistentVolume"} THEN "" ELSE ns
        matches == {e \in Events : /\ scope = "" \/ e.namespace = scope
                                   /\ e.type = "Warning" /\ e.kind = kind /\ e.name = name}
    IN  SubSeq(NewestFirst(matches), 1, Lesser(Limit, Cardinality(matches)))

handleResource(c, kind, namespace, name) ==
    LET ns    == IF namespace = "-" THEN "" ELSE namespace
        found == GetResource(c, kind, ns, name)
    IN  IF found = {} THEN [code |-> 404]
        ELSE [code |-> 200, resource |-> c[CHOOSE x \in found : TRUE],
              warningEvents |-> WarningEvents(canonicalKind(kind), ns, name)]

(* fetchResource of the dashboard. *)
fetchResource(c, x) ==
    handleResource(c, x[1], IF Len(x) = 3 THEN x[2] ELSE "-", NameOf(x))

-----------------------------------------------------------------------------
HasSample(s, series, v) == Sample(series, v) \in s

(* With no event outstanding a scrape and the graph say the same of every
   object: the state and the restarts of a pod, the replicas of a workload,
   the endpoints of a service, readiness, phases and roll-ups
   (README.md:72-74: they can never disagree). *)
ScrapeMatchesGraph ==
    behind = 0 =>
       LET s == Collect(caches, 0, NoRates, graph) IN
       /\ \A x \in DOMAIN graph.nodes :
          LET meta == graph.nodes[x].meta IN
          CASE x[1] = "Pod" ->
                 /\ HasSample(s, <<"pod_health_status", x, meta.phase>>, PodPhaseValue(State(x)))
                 /\ meta.restarts = ToString(MapThenSumSet(LAMBDA r : r.value,
                       {r \in s : r.series[1] = "pod_container_restarts" /\ r.series[2] = x}))
            [] x[1] = "Node" -> HasSample(s, <<"node_ready", x>>,
                                          OneIf(State(x) \notin {Unhealthy, Unknown}))
            [] x[1] \in WorkloadKinds ->
                 \E r \in s, d \in s :
                    /\ r.series = <<"workload_ready", x>> /\ d.series = <<"workload_desired", x>>
                    /\ meta.ready = ToString(<<r.value, d.value>>)
            [] x[1] = "Service" ->
                 \E r \in s : r.series = <<"service_endpoints_ready", x>>
                              /\ meta.endpoints = ToString(r.value)
            [] x[1] = "PersistentVolumeClaim" -> HasSample(s, <<"pvc_status", x, meta.phase>>, 1)
            [] x[1] = "PersistentVolume" -> HasSample(s, <<"pv_status", x, meta.phase>>, 1)
            [] OTHER -> HasSample(s, <<"health_score", x>>, graph.nodes[x].status[2])
       /\ \A r \in s : r.series[2] \in DOMAIN graph.nodes
       /\ \A r, t \in s : r.series = t.series => r = t

(* The kinds by which a reader may ask for an object. *)
Spellings(kind) == {k \in UNION {{f, ToLower(f)} : f \in DOMAIN LowerCase} : kind \in Named(k)}

(* Every object of the graph can be looked up, under each name of its kind:
   the panel shows the object with this id, and of the warnings about it,
   not of those about another of the same name, the newest ones, in order.
   Only what is not an object is not found: the cluster, and the namespace
   that is made up where one is configured. *)
DetailsAreOfTheNode ==
    behind = 0 =>
       \A x \in DOMAIN graph.nodes :
          LET a    == fetchResource(caches, x)
              mine == {e \in Events : /\ e.type = "Warning" /\ e.kind = x[1] /\ e.name = NameOf(x)
                                      /\ Len(x) = 3 => e.namespace = x[2]}
          IN  /\ a.code = 404 <=> x = ClusterId \/ (~clusterScope /\ x = NamespaceId(Watched))
              /\ a.code = 200 =>
                    /\ a.resource = caches[x]
                    /\ ToSet(a.warningEvents) \subseteq mine
                    /\ Len(a.warningEvents) = Lesser(Limit, Cardinality(mine))
                    /\ \A i \in DOMAIN a.warningEvents :
                          \A e \in mine \ {a.warningEvents[j] : j \in 1..i} :
                             e.at <= a.warningEvents[i].at
                    /\ \A k \in Spellings(x[1]) :
                          handleResource(caches, k, IF Len(x) = 3 THEN x[2] ELSE "-", NameOf(x)) = a
=============================================================================
