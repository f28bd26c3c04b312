-------------------------------- MODULE Graph --------------------------------
(***************************************************************************)
(* buildGraph, and the filter of GET api/topology/{namespace}:             *)
(* internal/collector/graph.go, and NamespaceSnapshot of collector.go.     *)
(*                                                                         *)
(* The informer caches are one table, from the id of an object to the      *)
(* fields that are read from it; owner references, claim names and the     *)
(* like are names, which need not belong to any cached object.  An id is   *)
(* <<kind, name>>, or <<kind, namespace, name>>; the Go program joins      *)
(* them with slashes.  A text that is absent is EmptyText.                 *)
(***************************************************************************)
EXTENDS Topology, Health, TLC

CONSTANTS
    Watched,        \* the namespace to which the watches may be restricted
    Grace,          \* PVCPendingGrace
    Lasting,        \* objects of the cluster that do not change
    Contents,       \* object id -> the contents it takes on in this instance
    MaxBehind       \* bound: events between two builds

ClusterKinds == {"Node", "PersistentVolume", "Namespace"}
WorkloadKinds == {"Deployment", "StatefulSet", "DaemonSet"}
ScoredKinds == WorkloadKinds \cup {"PersistentVolumeClaim", "Service", "Pod"}
HelperKinds == {"ReplicaSet", "Endpoints"}

IsId(x) ==
    \/ x = <<x[1], x[2]>> /\ x[1] \in ClusterKinds
    \/ x = <<x[1], x[2], x[3]>> /\ x[1] \in ScoredKinds \cup HelperKinds

PossibleContents(x) == IF x \in DOMAIN Lasting THEN {Lasting[x]} ELSE Contents[x]

(* Numbers of replicas are never negative: the API server refuses others. *)
CountsAreNatural(kind, o) ==
    CASE kind = "Deployment" -> {Replicas(o.replicas), o.ready, o.available} \subseteq Nat
      [] kind = "StatefulSet" -> {Replicas(o.replicas), o.ready, o.current} \subseteq Nat
      [] kind = "DaemonSet" -> {o.scheduled, o.ready, o.available} \subseteq Nat
      [] OTHER -> TRUE

(* The volume controller gives a claim its capacity when it binds it, and
   takes it away with the binding: the phase decides whether it has one.
   The API server refuses a container that names no image. *)
ASSUME GraphAssumption ==
    /\ MaxBehind \in Nat \ {0} /\ EmptyText # "true"
    /\ IsFiniteSet(DOMAIN Contents) /\ IsFiniteSet(DOMAIN Lasting)
    /\ DOMAIN Contents \cap DOMAIN Lasting = {}
    /\ \A x \in DOMAIN Contents \cup DOMAIN Lasting :
          /\ IsId(x)
          /\ \A o \in PossibleContents(x) : CountsAreNatural(x[1], o)
          /\ x[1] \in {"Pod", "ReplicaSet"} =>
                \A o \in PossibleContents(x) : DOMAIN o.owners \subseteq Nat
          /\ x[1] = "Pod" => \A o \in PossibleContents(x) : EmptyText \notin o.image
          /\ x[1] = "PersistentVolumeClaim" =>
                \A o, p \in PossibleContents(x) :
                   o.phase = p.phase => (o.capacity = EmptyText <=> p.capacity = EmptyText)

VARIABLES
    clusterScope,   \* no namespace is configured
    caches,         \* what the informers have stored
    graph,          \* lastGraph
    behind          \* events since it was built

graphVars == <<clusterScope, caches, graph, behind>>

ClusterId == <<"Cluster">>
NamespaceId(n) == <<"Namespace", n>>

OfKind(c, k) == {x \in DOMAIN c : x[1] = k}
Within(c, n) == {x \in DOMAIN c : x[1] \in ScoredKinds /\ x[2] = n}

(* The informers that New registers. *)
Watches(x) == clusterScope \/ (x[1] \notin ClusterKinds /\ x[2] = Watched)
Objects == {x \in DOMAIN Contents : Watches(x)}

-----------------------------------------------------------------------------
(***************************************************************************)
(* The owner of a pod: the first reference that leads to one.  A reference *)
(* to a ReplicaSet leads to the first Deployment that owns it; one to a    *)
(* StatefulSet or DaemonSet to that, cached or not.                        *)
(***************************************************************************)
NoOwner == <<>>

Resolve(c, n, ref) ==
    LET rs   == <<"ReplicaSet", n, ref[2]>>
        deps == {i \in DOMAIN c[rs].owners : c[rs].owners[i][1] = "Deployment"}
    IN  IF ref[1] \in {"StatefulSet", "DaemonSet"} THEN <<ref[1], n, ref[2]>>
        ELSE IF ref[1] = "ReplicaSet" /\ rs \in DOMAIN c /\ deps # {}
        THEN <<"Deployment", n, c[rs].owners[Min(deps)][2]>>
        ELSE NoOwner

workloadIDForPod(c, x) ==
    LET refs  == c[x].owners
        leads == {i \in DOMAIN refs : Resolve(c, x[2], refs[i]) # NoOwner}
    IN  IF leads = {} THEN NoOwner ELSE Resolve(c, x[2], refs[Min(leads)])

(* Fault: a pod hangs under its namespace, and under its workload as well. *)
ParentsBoth(c, x) ==
    IF x[1] \in {"Node", "Namespace"} THEN {ClusterId}
    ELSE IF x[1] \in ScoredKinds
    THEN {NamespaceId(x[2])} \cup
         (IF x[1] = "Pod" /\ workloadIDForPod(c, x) # NoOwner THEN {workloadIDForPod(c, x)} ELSE {})
    ELSE {}

(* Fault: a pod of a Deployment is not followed beyond its ReplicaSet. *)
ParentsOneHop(c, x) ==
    IF x[1] \in {"Node", "Namespace"} THEN {ClusterId}
    ELSE IF x[1] = "Pod" /\ c[x].owners # <<>>
    THEN {<<c[x].owners[1][1], x[2], c[x].owners[1][2]>>}
    ELSE IF x[1] \in ScoredKinds THEN {NamespaceId(x[2])} ELSE {}

(* What contains an object; a volume is in nothing. *)
Parents(c, x) ==
    IF x[1] \in {"Node", "Namespace"} THEN {ClusterId}
    ELSE IF x[1] = "Pod" /\ workloadIDForPod(c, x) # NoOwner THEN {workloadIDForPod(c, x)}
    ELSE IF x[1] \in ScoredKinds THEN {NamespaceId(x[2])} ELSE {}

-----------------------------------------------------------------------------
(* The nodes of the graph; with one namespace configured, its node is made
   up, since the Namespace itself is not watched. *)
Drawn(c) ==
    {x \in DOMAIN c : x[1] \in ClusterKinds \cup ScoredKinds} \cup {ClusterId} \cup
    (IF clusterScope THEN {} ELSE {NamespaceId(Watched)})

Edge(kind, src, dst) == <<kind, src, dst>>

endpointsFor(c, svc) ==
    LET ep == <<"Endpoints", svc[2], svc[3]>> IN
    IF ep \in DOMAIN c THEN c[ep] ELSE [ready |-> 0, pods |-> {}]

(* The text, unless it is empty. *)
Present(text) == {text} \ {EmptyText}

References(c, x) ==
    CASE x[1] = "Pod" ->
            {Edge("runs-on", x, <<"Node", n>>) : n \in Present(c[x].node)} \cup
            {Edge("mounts", x, <<"PersistentVolumeClaim", x[2], p>>) : p \in c[x].claims}
      [] x[1] = "PersistentVolumeClaim" ->
            {Edge("backs", x, <<"PersistentVolume", v>>) : v \in Present(c[x].volume)}
      [] x[1] = "Service" ->
            {Edge("routes", x, <<"Pod", x[2], p>>) : p \in endpointsFor(c, x).pods}
      [] OTHER -> {}

EdgesAround(c, x) == {Edge("contains", p, x) : p \in Parents(c, x)} \cup References(c, x)
ProposedEdges(c) == UNION {EdgesAround(c, x) : x \in Drawn(c)}

Edges(c) ==
    LET exists == Drawn(c) IN {e \in ProposedEdges(c) : {e[2], e[3]} \subseteq exists}

-----------------------------------------------------------------------------
(* The score of an object of its own, at some time and with the restart
   rates of the pods. *)
Scores(c, now, rates) ==
    [x \in {y \in DOMAIN c : y[1] \in ScoredKinds \cup {"Node", "PersistentVolume"}} |->
       CASE x[1] = "Node" -> Node(c[x])
         [] x[1] = "PersistentVolume" -> PV(c[x].phase)
         [] x[1] = "Deployment" -> Deployment(c[x])
         [] x[1] = "StatefulSet" -> StatefulSet(c[x])
         [] x[1] = "DaemonSet" -> DaemonSet(c[x])
         [] x[1] = "PersistentVolumeClaim" -> PVC(c[x].phase, now - c[x].created, Grace)
         [] x[1] = "Service" -> Service(c[x].selector, endpointsFor(c, x).ready)
         [] x[1] = "Pod" -> Pod(c[x], rates[x])]

BagOver(s, S) ==
    LET scored == {<<x, s[x]>> : x \in S} IN
    [r \in {p[2] : p \in scored} |-> Cardinality({p \in scored : p[2] = r})]

(* Fault: the claims and services of a namespace do not count. *)
RollUpsOfPods(c, s) ==
    [n \in {x \in Drawn(c) : x[1] = "Namespace"} |->
       Aggregate(BagOver(s, {x \in Within(c, n[2]) : x[1] = "Pod"}))]

RollUps(c, s) ==
    [n \in {x \in Drawn(c) : x[1] = "Namespace"} |-> Aggregate(BagOver(s, Within(c, n[2])))]

(* Nodes and namespaces make up the cluster; volumes are in no roll-up. *)
Root(c, s, up) ==
    Aggregate(BagOver(Upsert(s, up), OfKind(c, "Node") \cup DOMAIN up))

Entry(k, v) == [x \in {k} |-> v]

totalRestarts(pod) ==
    MapThenSumSet(LAMBDA k : pod.containers[k].restarts, DOMAIN pod.containers)

(* The GPUs of a node: as many as it counts, or some if it is labelled so. *)
nodeGPU(o) == o.gpu # EmptyText \/ o.accelerator

(* The entries of its meta map that an object has in any case, *)
Always(c, x) ==
    CASE x[1] = "Node" ->
            [schedulable |-> ToString(~c[x].unschedulable),
             kubelet |-> c[x].kubelet, roles |-> c[x].roles]
      [] x[1] \in WorkloadKinds ->
            [ready |-> ToString(<<c[x].ready, IF x[1] = "DaemonSet" THEN c[x].scheduled
                                              ELSE Replicas(c[x].replicas)>>)]
      [] x[1] = "Service" ->
            [type |-> c[x].type, clusterIP |-> c[x].clusterIP,
             endpoints |-> ToString(endpointsFor(c, x).ready)]
      [] x[1] = "Pod" ->
            [phase |-> c[x].phase, restarts |-> ToString(totalRestarts(c[x]))]
      [] OTHER -> [phase |-> c[x].phase]

(* Fault: the number of a node's GPUs stands for gpu, known or not. *)
AtTimesUnguarded(c, x) ==
    IF x[1] = "Node"
    THEN [gpuCount |-> IF nodeGPU(c[x]) THEN {c[x].gpu} ELSE {}, taints |-> Present(c[x].taints)]
    ELSE EmptyTable

(* and those that are made only if there is a text for them: at most one.
   A claim may name its storage class with the empty text, and image is that
   of a pod's first container. *)
AtTimes(c, x) ==
    CASE x[1] = "Node" ->
            [gpu |-> IF nodeGPU(c[x]) THEN {"true"} ELSE {},
             gpuCount |-> Present(c[x].gpu), taints |-> Present(c[x].taints)]
      [] x[1] = "PersistentVolume" ->
            [storageClass |-> Present(c[x].class), capacity |-> Present(c[x].capacity)]
      [] x[1] = "PersistentVolumeClaim" ->
            [storageClass |-> c[x].class, capacity |-> Present(c[x].capacity)]
      [] x[1] = "Pod" -> [node |-> Present(c[x].node), image |-> c[x].image]
      [] OTHER -> EmptyTable

Given(texts) == [k \in {j \in DOMAIN texts : texts[j] # {}} |-> CHOOSE t \in texts[k] : TRUE]

(* The whole meta map; a namespace that is made up has none. *)
Meta(c, x) ==
    IF x = ClusterId
    THEN [scope |-> IF clusterScope THEN "cluster-wide" ELSE <<"namespace", Watched>>]
    ELSE IF x \in DOMAIN c THEN Upsert(Always(c, x), Given(AtTimes(c, x)))
    ELSE EmptyTable

Content(c, x, r) ==
    [kind |-> x[1], status |-> <<r.state, r.score>>, reasons |-> <<r.reasons>>,
     meta |-> Meta(c, x)]

buildGraph(c, now, rates) ==
    LET own == Scores(c, now, rates)
        up  == RollUps(c, own)
        all == Upsert(Upsert(own, up), Entry(ClusterId, Root(c, own, up)))
    IN  [nodes |-> [x \in Drawn(c) |-> Content(c, x, all[x])],
         edges |-> [e \in Edges(c) |-> [source |-> e[2], target |-> e[3], kind |-> e[1]]]]

-----------------------------------------------------------------------------
(***************************************************************************)
(* NamespaceSnapshot.  It goes once through the edges, which are sorted by *)
(* id, and what it keeps on the way it follows from then on.  Edges of one *)
(* kind from one kind of source do not feed each other, so that the order  *)
(* within such a group plays no role; the groups come in this order.       *)
(***************************************************************************)
OwnOf(g, n) ==
    {x \in DOMAIN g.nodes : (Len(x) = 3 /\ x[2] = n) \/ x \in {NamespaceId(n), ClusterId}}

(* Fault: nodes that pods run on, and volumes, are not followed. *)
KeptOwnOnly(g, n) == OwnOf(g, n)

Follow(g, keep, kind, from) ==
    keep \cup {e[3] : e \in {f \in DOMAIN g.edges :
                               f[1] = kind /\ f[2][1] = from /\ f[2] \in keep}}

Kept(g, n) ==
    LET k1 == Follow(g, OwnOf(g, n), "backs", "PersistentVolumeClaim")
        k2 == Follow(g, k1, "contains", "Cluster")
        k3 == Follow(g, k2, "contains", "DaemonSet")
        k4 == Follow(g, k3, "contains", "Deployment")
        k5 == Follow(g, k4, "contains", "Namespace")
        k6 == Follow(g, k5, "contains", "StatefulSet")
        k7 == Follow(g, k6, "mounts", "Pod")
        k8 == Follow(g, k7, "routes", "Service")
    IN  Follow(g, k8, "runs-on", "Pod")

NamespaceSnapshot(g, n) ==
    LET keep == Kept(g, n) IN
    [nodes |-> [x \in DOMAIN g.nodes \cap keep |-> g.nodes[x]],
     edges |-> [e \in {f \in DOMAIN g.edges : {f[2], f[3]} \subseteq keep} |-> g.edges[e]]]

-----------------------------------------------------------------------------
(***************************************************************************)
(* Caches that change, and a graph that is rebuilt after some changes.     *)
(***************************************************************************)
NoRates == [x \in DOMAIN caches |-> 0]

(* New, and Start with its first build. *)
GraphInit ==
    /\ clusterScope \in BOOLEAN
    /\ caches = Only(Lasting, {x \in DOMAIN Lasting : Watches(x)})
    /\ graph = buildGraph(caches, 0, NoRates)
    /\ behind = 0

Behind ==
    /\ behind < MaxBehind
    /\ behind' = behind + 1
    /\ UNCHANGED <<clusterScope, graph>>

Stored(x) ==
    /\ \E o \in Contents[x] :
          /\ x \in DOMAIN caches => caches[x] # o
          /\ caches' = Upsert(caches, Entry(x, o))
    /\ Behind

Deleted(x) ==
    /\ x \in DOMAIN caches
    /\ caches' = Without(caches, {x})
    /\ Behind

Rebuild ==
    /\ behind > 0
    /\ graph' = buildGraph(caches, 0, NoRates)
    /\ behind' = 0
    /\ UNCHANGED <<clusterScope, caches>>

GraphNext == (\E x \in Objects : Stored(x) \/ Deleted(x)) \/ Rebuild
GraphSpec == GraphInit /\ [][GraphNext]_graphVars

-----------------------------------------------------------------------------
State(x) == graph.nodes[x].status[1]

(* Type invariant; every edge joins two nodes of the graph. *)
GraphTypeOK ==
    /\ clusterScope \in BOOLEAN
    /\ \A x \in DOMAIN caches :
          Watches(x) /\ (x \in DOMAIN Lasting \/ (x \in Objects /\ caches[x] \in Contents[x]))
    /\ behind \in 0..MaxBehind
    /\ \A x \in DOMAIN graph.nodes : graph.nodes[x].kind = x[1]
    /\ \A e \in DOMAIN graph.edges :
          /\ graph.edges[e] = [source |-> e[2], target |-> e[3], kind |-> e[1]]
          /\ {e[2], e[3]} \subseteq DOMAIN graph.nodes

ParentsIn(g, x) == {e \in DOMAIN g.edges : e[1] = "contains" /\ e[3] = x}

(* Whatever the caches hold, and however they refer to each other, no node
   hangs under two others (graph.go:225-230, Parent). *)
AtMostOneParent ==
    \A x \in DOMAIN graph.nodes : Cardinality(ParentsIn(graph, x)) <= 1

(* Every namespace is cached, and every owner of a kind that is watched. *)
RefersToCached(c) ==
    \A x \in DOMAIN c :
       /\ clusterScope /\ Len(x) = 3 => NamespaceId(x[2]) \in DOMAIN c
       /\ x[1] \in {"Pod", "ReplicaSet"} =>
             \A i \in {j \in DOMAIN c[x].owners :
                       c[x].owners[j][1] \in WorkloadKinds \cup HelperKinds} :
                <<c[x].owners[i][1], x[2], c[x].owners[i][2]>> \in DOMAIN c

(* What the cluster contains, through namespaces, workloads and pods. *)
Under(g, S) == {e[3] : e \in {f \in DOMAIN g.edges : f[1] = "contains" /\ f[2] \in S}}
Contained(g) ==
    LET level1 == Under(g, {ClusterId})
        level2 == Under(g, level1)
    IN  {ClusterId} \cup level1 \cup level2 \cup Under(g, level2)

(* Unless a reference leads to something that is not cached, the cluster
   contains all there is but the volumes: no object drifts off the tree by
   the way in which its owner is looked up. *)
EverythingHangsTogether ==
    behind = 0 /\ RefersToCached(caches) =>
       {x \in DOMAIN graph.nodes : x[1] # "PersistentVolume"} \subseteq Contained(graph)

TopLevel(g) == {x \in DOMAIN g.nodes : x[1] \in {"Node", "Namespace"}}
ObjectsOf(g, n) == {x \in DOMAIN g.nodes : Len(x) = 3 /\ x[2] = n}

(* An unhealthy object shows in the state of its namespace, if that is
   cached and has fewer than 80 objects; an unhealthy node in that of the
   cluster, if it has fewer than 80 nodes and namespaces; and an unhealthy
   namespace, which may score as little as 0.8 / its objects below 1, if fewer
   than 80 / its objects.  (A mean of 0.99 is healthy: health.go:337.) *)
FailureReachesTheRoot ==
    \A x \in {y \in DOMAIN graph.nodes : State(y) = Unhealthy} :
       /\ /\ Len(x) = 3 /\ NamespaceId(x[2]) \in DOMAIN graph.nodes
          /\ Cardinality(ObjectsOf(graph, x[2])) < 80
          => State(NamespaceId(x[2])) = Unhealthy
       /\ x[1] = "Node" /\ Cardinality(TopLevel(graph)) < 80 => State(ClusterId) = Unhealthy
       /\ /\ x[1] = "Namespace"
          /\ Cardinality(TopLevel(graph)) * Cardinality(ObjectsOf(graph, x[2])) < 80
          => State(ClusterId) = Unhealthy

(* The view of a namespace holds all that belongs to it, the nodes its pods
   run on and the volumes behind its claims, and every edge between what it
   holds (the comments in collector.go:213 and 223). *)
ViewIsComplete ==
    \A n \in {x[2] : x \in OfKind(caches, "Pod")} :
       LET v == NamespaceSnapshot(graph, n) IN
       /\ OwnOf(graph, n) \subseteq DOMAIN v.nodes
       /\ \A e \in DOMAIN graph.edges :
             /\ e[1] \in {"runs-on", "backs"} /\ e[2][2] = n => e[3] \in DOMAIN v.nodes
             /\ {e[2], e[3]} \subseteq DOMAIN v.nodes <=> e \in DOMAIN v.edges

(* The view of a namespace holds no other namespace, and nothing of one
   (README.md:282). *)
ViewIsScoped ==
    \A n \in {x[2] : x \in OfKind(caches, "Pod")} :
       \A x \in DOMAIN NamespaceSnapshot(graph, n).nodes :
          /\ Len(x) = 3 => x[2] = n
          /\ x[1] = "Namespace" => x[2] = n

(* What the comparison of node contents relies on holds of what two builds
   make of one object, also if it was deleted and created again in between:
   the assumption under which change sets are proved to be correct. *)
GraphsAreComparable == [][Comparable(graph, graph')]_graph

(* A tab that shows the last graph and applies the change set shows the new
   one; one that applies the snapshot shows it too. *)
PatchesOldToNew ==
    [][/\ ApplyMessage(graph, DiffAgainst(graph', graph)) = graph'
       /\ ApplyMessage(graph, AsSnapshot(graph')) = graph']_graph

(* A change set carries only what changed: nothing in it is already on a
   screen that shows the last graph, so that it is empty, and not broadcast,
   exactly when nothing changed (topology.go:77-81). *)
CarriesOnlyChanges ==
    [][LET d == DiffAgainst(graph', graph) IN
       /\ \A n \in DOMAIN d.upsertNodes :
             n \in DOMAIN graph.nodes => graph.nodes[n] # d.upsertNodes[n]
       /\ \A e \in DOMAIN d.upsertEdges :
             e \in DOMAIN graph.edges => graph.edges[e] # d.upsertEdges[e]
       /\ d.removeNodes \cap DOMAIN graph'.nodes = {}
       /\ IsEmptyDiff(d) <=> graph' = graph]_graphVars
=============================================================================
