---------------------------- MODULE GraphProofs ----------------------------
(***************************************************************************)
(* The graph, for any contents of the caches: its shape, the change sets   *)
(* between two of them, the failures that reach its root, and the other    *)
(* answers that are made from the same caches.                             *)
(***************************************************************************)
EXTENDS Outputs, HealthProofs, TopologyProofs, SequenceTheorems

(* The edges of a graph that is built. *)
LEMMA BuiltEdges ==
    ASSUME NEW c, NEW now, NEW rates
    PROVE  LET g == buildGraph(c, now, rates) IN
           /\ DOMAIN g.nodes = Drawn(c)
           /\ DOMAIN g.edges = Edges(c)
           /\ \A x \in Drawn(c) : g.nodes[x].kind = x[1]
           /\ \A e \in Edges(c) :
                 g.edges[e] = [source |-> e[2], target |-> e[3], kind |-> e[1]]
BY DEF buildGraph, Content

LEMMA EdgesAreJoined ==
    ASSUME NEW c, NEW e \in Edges(c)
    PROVE  e[2] \in Drawn(c) /\ e[3] \in Drawn(c)
BY DEF Edges

(* What a reference makes. *)
LEMMA ReferenceShape ==
    ASSUME NEW c, NEW x, NEW e \in References(c, x)
    PROVE  \E k \in {"runs-on", "mounts", "backs", "routes"} : \E d : e = <<k, x, d>>
<1>1. CASE x[1] = "Pod"
  BY <1>1 DEF References, Edge
<1>2. CASE x[1] = "PersistentVolumeClaim"
  BY <1>2 DEF References, Edge
<1>3. CASE x[1] = "Service"
  BY <1>3 DEF References, Edge
<1>4. CASE x[1] \notin {"Pod", "PersistentVolumeClaim", "Service"}
  BY <1>4 DEF References
<1> QED BY <1>1, <1>2, <1>3, <1>4

LEMMA ReferenceSource ==
    ASSUME NEW c, NEW x, NEW e \in References(c, x)
    PROVE  /\ x[1] \in {"Pod", "PersistentVolumeClaim", "Service"}
           /\ e[1] = "backs" => x[1] = "PersistentVolumeClaim"
           /\ e[1] = "routes" => x[1] = "Service"
           /\ e[1] \in {"runs-on", "mounts"} => x[1] = "Pod"
<1>1. CASE x[1] = "Pod"
  BY <1>1 DEF References, Edge
<1>2. CASE x[1] = "PersistentVolumeClaim"
  BY <1>2 DEF References, Edge
<1>3. CASE x[1] = "Service"
  BY <1>3 DEF References, Edge
<1>4. CASE x[1] \notin {"Pod", "PersistentVolumeClaim", "Service"}
  BY <1>4 DEF References
<1> QED BY <1>1, <1>2, <1>3, <1>4

LEMMA EdgeOrigin ==
    ASSUME NEW c, NEW e \in ProposedEdges(c)
    PROVE  \E x \in Drawn(c) :
              (\E p \in Parents(c, x) : e = <<"contains", p, x>>) \/ e \in References(c, x)
<1>1. PICK x \in Drawn(c) : e \in EdgesAround(c, x)
  BY DEF ProposedEdges
<1> QED BY <1>1 DEF EdgesAround, Edge

(* Only Parents makes edges that contain, and it names one parent at most. *)
LEMMA ContainsComesFromParents ==
    ASSUME NEW c, NEW e \in ProposedEdges(c), e[1] = "contains"
    PROVE  e[2] \in Parents(c, e[3])
BY EdgeOrigin, ReferenceShape

LEMMA OneParent ==
    ASSUME NEW c, NEW x
    PROVE  \E p : Parents(c, x) \subseteq {p}
BY DEF Parents

LEMMA EdgeIsTriple ==
    ASSUME NEW c, NEW e \in ProposedEdges(c)
    PROVE  e = <<e[1], e[2], e[3]>>
BY EdgeOrigin, ReferenceShape

LEMMA BuiltHasOneParent ==
    ASSUME NEW c, NEW now, NEW rates, NEW x
    PROVE  Cardinality(ParentsIn(buildGraph(c, now, rates), x)) <= 1
<1> DEFINE P == ParentsIn(buildGraph(c, now, rates), x)
<1>1. PICK p : Parents(c, x) \subseteq {p}
  BY OneParent
<1>2. \A e \in P : e \in ProposedEdges(c) /\ e[1] = "contains" /\ e[3] = x
  BY BuiltEdges DEF ParentsIn, Edges
<1>3. \A e \in P : e = <<"contains", p, x>>
  BY <1>1, <1>2, ContainsComesFromParents, EdgeIsTriple
<1> HIDE DEF P
<1>4. P = {} \/ P = {<<"contains", p, x>>}
  BY <1>3
<1>5. Cardinality(P) \in {0, 1}
  BY <1>4, FS_EmptySet, FS_Singleton
<1> QED BY <1>5 DEF P

-----------------------------------------------------------------------------
(* The inductive invariant: the caches hold what they may, and the graph is
   that of the caches as soon as no event is outstanding. *)
UpToDate == behind = 0 => graph = buildGraph(caches, 0, NoRates)
CachesOK ==
    \A x \in DOMAIN caches :
       /\ IsId(x) /\ Watches(x)
       /\ x[1] \in {"Pod", "ReplicaSet"} => DOMAIN caches[x].owners \subseteq Nat
SourceKind == [k \in {"runs-on", "mounts", "backs", "routes"} |->
    CASE k = "backs" -> "PersistentVolumeClaim" [] k = "routes" -> "Service" [] OTHER -> "Pod"]
SourcesIn(g) ==
    \A e \in DOMAIN g.edges :
       e[1] # "contains" => e[2][1] = SourceKind[e[1]] /\ Len(e[2]) = 3
SourcesOK == SourcesIn(graph)

(* Caches that the cluster can bring about; whatever has happened since,
   the graph is that of some such caches. *)
Legal(c) ==
    \A x \in DOMAIN c :
       /\ x \in DOMAIN Contents \cup DOMAIN Lasting
       /\ Watches(x) /\ c[x] \in PossibleContents(x)
Built(c) == buildGraph(c, 0, [x \in DOMAIN c |-> 0])
GraphIsBuilt == \E c : Legal(c) /\ graph = Built(c)

GInv ==
    /\ GraphTypeOK /\ CachesOK /\ AtMostOneParent /\ UpToDate /\ SourcesOK
    /\ Legal(caches) /\ GraphIsBuilt

LEMMA BuiltTypeOK ==
    ASSUME NEW c, NEW now, NEW rates, NEW g, g = buildGraph(c, now, rates)
    PROVE  /\ \A x \in DOMAIN g.nodes : g.nodes[x].kind = x[1]
           /\ \A e \in DOMAIN g.edges :
                 /\ g.edges[e] = [source |-> e[2], target |-> e[3], kind |-> e[1]]
                 /\ {e[2], e[3]} \subseteq DOMAIN g.nodes
BY BuiltEdges, EdgesAreJoined

LEMMA BuiltSourcesOK ==
    ASSUME CachesOK, NEW now, NEW rates
    PROVE  SourcesIn(buildGraph(caches, now, rates))
<1> SUFFICES ASSUME NEW e \in Edges(caches), e[1] # "contains"
             PROVE  e[2][1] = SourceKind[e[1]] /\ Len(e[2]) = 3
  BY BuiltEdges DEF SourcesIn
<1>1. PICK x \in Drawn(caches) : e \in References(caches, x)
  BY EdgeOrigin DEF Edges
<1>2. e[2] = x /\ e[1] \in {"runs-on", "mounts", "backs", "routes"}
  BY <1>1, ReferenceShape
<1>3. x[1] \in {"Pod", "PersistentVolumeClaim", "Service"}
  BY <1>1, ReferenceSource
<1>4. x \in DOMAIN caches
  BY <1>3 DEF Drawn, ClusterId, NamespaceId
<1>5. x = <<x[1], x[2], x[3]>>
  BY <1>3, <1>4 DEF CachesOK, IsId, ClusterKinds
<1>6. Len(x) = 3
  BY <1>5
<1> QED BY <1>1, <1>2, <1>6, ReferenceSource DEF SourceKind

LEMMA LegalCachesOK == Legal(caches) => CachesOK
BY GraphAssumption DEF Legal, CachesOK

(* The scope never changes, and with it what a build makes of given caches. *)
LEMMA SameScope ==
    ASSUME clusterScope' = clusterScope, NEW c
    PROVE  Built(c)' = Built(c) /\ (Legal(c)' <=> Legal(c))
<1> DEFINE rates == [x \in DOMAIN c |-> 0]
<1>1. Drawn(c)' = Drawn(c)
  BY DEF Drawn
<1>2. Edges(c)' = Edges(c)
  BY <1>1 DEF Edges, ProposedEdges
<1>3. RollUps(c, Scores(c, 0, rates))' = RollUps(c, Scores(c, 0, rates))
  BY <1>1 DEF RollUps
<1>4. Built(c)' = Built(c)
  BY <1>1, <1>2, <1>3 DEF Built, buildGraph, Content, Meta
<1>5. Legal(c)' <=> Legal(c)
  BY DEF Legal, Watches
<1> QED BY <1>4, <1>5

LEMMA SameBuild ==
    ASSUME clusterScope' = clusterScope, caches' = caches
    PROVE  buildGraph(caches, 0, NoRates)' = buildGraph(caches, 0, NoRates)
<1>1. Drawn(caches)' = Drawn(caches)
  BY DEF Drawn
<1>2. Edges(caches)' = Edges(caches)
  BY <1>1 DEF Edges, ProposedEdges
<1>3. Scores(caches, 0, NoRates)' = Scores(caches, 0, NoRates)
  BY DEF NoRates
<1>4. RollUps(caches, Scores(caches, 0, NoRates))' = RollUps(caches, Scores(caches, 0, NoRates))
  BY <1>1, <1>3 DEF RollUps
<1>5. ASSUME NEW x, NEW r PROVE Content(caches, x, r)' = Content(caches, x, r)
  BY DEF Content, Meta
<1> QED BY <1>1, <1>2, <1>3, <1>4, <1>5 DEF buildGraph

LEMMA StillBuilt ==
    ASSUME GraphIsBuilt, clusterScope' = clusterScope, graph' = graph
    PROVE  GraphIsBuilt'
<1>1. PICK c : Legal(c) /\ graph = Built(c)
  BY DEF GraphIsBuilt
<1>2. Legal(c)' /\ graph' = Built(c)'
  BY <1>1, SameScope
<1> QED BY <1>2 DEF GraphIsBuilt

LEMMA InitGInv == GraphInit => GInv
<1> SUFFICES ASSUME GraphInit PROVE GInv
  OBVIOUS
<1>1. AtMostOneParent /\ UpToDate
  BY BuiltHasOneParent DEF GraphInit, AtMostOneParent, UpToDate
<1>2. \A x \in DOMAIN caches : x \in DOMAIN Lasting /\ Watches(x) /\ caches[x] = Lasting[x]
  BY DEF GraphInit, Only
<1>3. Legal(caches) /\ CachesOK
  <2>1. Legal(caches)
    BY <1>2 DEF Legal, PossibleContents
  <2> QED BY <2>1, LegalCachesOK
<1>4. GraphTypeOK
  BY <1>2, BuiltTypeOK, GraphAssumption DEF GraphInit, GraphTypeOK
<1>5. SourcesOK
  BY <1>3, BuiltSourcesOK DEF GraphInit, SourcesOK
<1>6. GraphIsBuilt
  BY <1>3 DEF GraphInit, GraphIsBuilt, Built, NoRates
<1> QED BY <1>1, <1>3, <1>4, <1>5, <1>6 DEF GInv

LEMMA StepGInv == GInv /\ [GraphNext]_graphVars => GInv'
<1> SUFFICES ASSUME GInv, [GraphNext]_graphVars PROVE GInv'
  OBVIOUS
<1>0. /\ GraphTypeOK /\ CachesOK /\ AtMostOneParent /\ UpToDate /\ SourcesOK
      /\ Legal(caches) /\ GraphIsBuilt
  BY DEF GInv
<1>1. ASSUME NEW x \in Objects, Stored(x) PROVE GInv'
  <2>1. PICK o \in Contents[x] : caches' = Upsert(caches, Entry(x, o))
    BY <1>1 DEF Stored
  <2>2. DOMAIN caches' = DOMAIN caches \cup {x} /\ caches'[x] = o
        /\ \A y \in DOMAIN caches \ {x} : caches'[y] = caches[y]
    <3>1. caches' = [y \in DOMAIN caches \cup {x} |-> IF y = x THEN o ELSE caches[y]]
      BY <2>1 DEF Upsert, Entry
    <3> QED BY ONLY <3>1
  <2>3. clusterScope' = clusterScope /\ graph' = graph /\ behind' \in 1..MaxBehind
    BY <1>0, <1>1, GraphAssumption DEF Stored, Behind, GraphTypeOK
  <2>4. x \in DOMAIN Contents /\ Watches(x)
    BY DEF Objects
  <2>8. o \in PossibleContents(x)
    BY <2>1, <2>4, GraphAssumption DEF PossibleContents
  <2>9. Legal(caches)'
    BY <1>0, <2>2, <2>3, <2>4, <2>8 DEF Legal, Watches
  <2>10. GraphIsBuilt'
    BY <1>0, <2>3, StillBuilt
  <2>5. CachesOK'
    BY <1>0, <2>2, <2>3, <2>4, <2>8, GraphAssumption DEF CachesOK, Watches
  <2>6. GraphTypeOK'
    BY <1>0, <2>2, <2>3, <2>4 DEF GraphTypeOK, Watches, Objects
  <2>7. AtMostOneParent' /\ UpToDate' /\ SourcesOK'
    <3>1. AtMostOneParent' /\ SourcesOK'
      BY <1>0, <2>3 DEF AtMostOneParent, ParentsIn, SourcesOK, SourcesIn
    <3>2. UpToDate'
      BY <2>3 DEF UpToDate
    <3> QED BY <3>1, <3>2
  <2> QED BY <2>5, <2>6, <2>7, <2>9, <2>10 DEF GInv
<1>2. ASSUME NEW x \in Objects, Deleted(x) PROVE GInv'
  <2>1. DOMAIN caches' \subseteq DOMAIN caches /\ \A y \in DOMAIN caches' : caches'[y] = caches[y]
    BY <1>2 DEF Deleted, Without
  <2>2. clusterScope' = clusterScope /\ graph' = graph /\ behind' \in 1..MaxBehind
    BY <1>0, <1>2, GraphAssumption DEF Deleted, Behind, GraphTypeOK
  <2>3. CachesOK'
    BY <1>0, <2>1, <2>2 DEF CachesOK, Watches
  <2>4. GraphTypeOK'
    BY <1>0, <2>1, <2>2 DEF GraphTypeOK, Watches, Objects
  <2>5. AtMostOneParent' /\ UpToDate' /\ SourcesOK'
    <3>1. AtMostOneParent' /\ SourcesOK'
      BY <1>0, <2>2 DEF AtMostOneParent, ParentsIn, SourcesOK, SourcesIn
    <3>2. UpToDate'
      BY <2>2 DEF UpToDate
    <3> QED BY <3>1, <3>2
  <2>6. Legal(caches)'
    BY <1>0, <2>1, <2>2 DEF Legal, Watches
  <2>7. GraphIsBuilt'
    BY <1>0, <2>2, StillBuilt
  <2> QED BY <2>3, <2>4, <2>5, <2>6, <2>7 DEF GInv
<1>3. CASE Rebuild
  <2>1. graph' = buildGraph(caches, 0, NoRates) /\ behind' = 0
        /\ clusterScope' = clusterScope /\ caches' = caches
    BY <1>3 DEF Rebuild
  <2>2. AtMostOneParent' /\ UpToDate'
    <3>1. buildGraph(caches, 0, NoRates)' = buildGraph(caches, 0, NoRates)
      BY <2>1, SameBuild
    <3>2. AtMostOneParent'
      <4>1. \A x : Cardinality(ParentsIn(graph', x)) <= 1
        BY <2>1, BuiltHasOneParent
      <4> QED BY <4>1 DEF AtMostOneParent
    <3> QED BY <2>1, <3>1, <3>2 DEF UpToDate
  <2>3. CachesOK'
    BY <1>0, <2>1 DEF CachesOK, Watches
  <2>4. GraphTypeOK'
    BY <1>0, <2>1, BuiltTypeOK, GraphAssumption DEF GraphTypeOK, Watches, Objects
  <2>5. SourcesOK'
    <3>1. SourcesIn(graph')
      BY <1>0, <2>1, BuiltSourcesOK
    <3> QED BY <3>1 DEF SourcesOK, SourcesIn
  <2>6. Legal(caches)'
    BY <1>0, <2>1 DEF Legal, Watches
  <2>7. GraphIsBuilt'
    <3>1. Legal(caches) /\ graph' = Built(caches)
      BY <1>0, <2>1 DEF Built, NoRates
    <3>2. PICK c : c = caches
      OBVIOUS
    <3>3. Legal(c)' /\ graph' = Built(c)'
      BY <2>1, <3>1, <3>2, SameScope
    <3> QED BY <3>3 DEF GraphIsBuilt
  <2> QED BY <2>2, <2>3, <2>4, <2>5, <2>6, <2>7 DEF GInv
<1>4. CASE UNCHANGED graphVars
  <2>1. clusterScope' = clusterScope /\ caches' = caches /\ graph' = graph /\ behind' = behind
    BY <1>4 DEF graphVars
  <2>2. CachesOK' /\ GraphTypeOK'
    BY <1>0, <2>1 DEF CachesOK, GraphTypeOK, Watches, Objects
  <2>3. AtMostOneParent' /\ SourcesOK'
    BY <1>0, <2>1 DEF AtMostOneParent, ParentsIn, SourcesOK, SourcesIn
  <2>4. UpToDate'
    <3>1. buildGraph(caches, 0, NoRates)' = buildGraph(caches, 0, NoRates)
      BY <2>1, SameBuild
    <3> QED BY <1>0, <2>1, <3>1 DEF UpToDate
  <2>5. Legal(caches)'
    BY <1>0, <2>1 DEF Legal, Watches
  <2>6. GraphIsBuilt'
    BY <1>0, <2>1, StillBuilt
  <2> QED BY <2>2, <2>3, <2>4, <2>5, <2>6 DEF GInv
<1> QED BY <1>1, <1>2, <1>3, <1>4 DEF GraphNext

-----------------------------------------------------------------------------
(* The tree.  Where references lead to cached objects, the parent of an
   object is in the graph, one level further up. *)
LEMMA NamespaceIsDrawn ==
    ASSUME CachesOK, RefersToCached(caches), NEW x \in DOMAIN caches,
           x[1] \in ScoredKinds
    PROVE  NamespaceId(x[2]) \in Drawn(caches) /\ Len(x) = 3
<1>1. x = <<x[1], x[2], x[3]>>
  BY DEF CachesOK, IsId, ClusterKinds, ScoredKinds, WorkloadKinds
<1>2. Len(x) = 3
  BY <1>1
<1>3. CASE clusterScope
  <2>1. NamespaceId(x[2]) \in DOMAIN caches
    BY <1>2, <1>3 DEF RefersToCached
  <2>2. NamespaceId(x[2])[1] = "Namespace"
    BY DEF NamespaceId
  <2> QED BY <1>2, <2>1, <2>2 DEF Drawn, ClusterKinds
<1>4. CASE ~clusterScope
  <2>1. x[2] = Watched
    BY <1>4 DEF CachesOK, Watches, ScoredKinds, WorkloadKinds, ClusterKinds
  <2> QED BY <1>2, <1>4, <2>1 DEF Drawn
<1> QED BY <1>2, <1>3, <1>4

LEMMA WorkloadIsCached ==
    ASSUME CachesOK, RefersToCached(caches), NEW x \in DOMAIN caches, x[1] = "Pod",
           workloadIDForPod(caches, x) # NoOwner
    PROVE  /\ workloadIDForPod(caches, x) \in DOMAIN caches
           /\ workloadIDForPod(caches, x)[1] \in WorkloadKinds
<1> DEFINE refs  == caches[x].owners
           leads == {i \in DOMAIN refs : Resolve(caches, x[2], refs[i]) # NoOwner}
           i == Min(leads)
           rs == <<"ReplicaSet", x[2], refs[i][2]>>
<1>1. leads # {} /\ leads \subseteq Nat
  BY DEF workloadIDForPod, CachesOK
<1>2. i \in leads
  BY <1>1, MinIsIn
<1>3. workloadIDForPod(caches, x) = Resolve(caches, x[2], refs[i])
  BY <1>1 DEF workloadIDForPod
<1> HIDE DEF i
<1>4. CASE refs[i][1] \in {"StatefulSet", "DaemonSet"}
  <2>1. Resolve(caches, x[2], refs[i]) = <<refs[i][1], x[2], refs[i][2]>>
    BY <1>4 DEF Resolve
  <2>2. refs[i][1] \in WorkloadKinds
    BY <1>4 DEF WorkloadKinds
  <2>3. <<refs[i][1], x[2], refs[i][2]>> \in DOMAIN caches
    BY <1>2, <2>2 DEF RefersToCached
  <2>4. workloadIDForPod(caches, x) = <<refs[i][1], x[2], refs[i][2]>>
    BY <1>3, <2>1
  <2> HIDE DEF refs, rs
  <2>5. workloadIDForPod(caches, x)[1] = refs[i][1]
    BY <2>4
  <2> QED BY <2>2, <2>3, <2>4, <2>5
<1>5. CASE refs[i][1] \notin {"StatefulSet", "DaemonSet"}
  <2> DEFINE deps == {j \in DOMAIN caches[rs].owners : caches[rs].owners[j][1] = "Deployment"}
  <2>1. Resolve(caches, x[2], refs[i]) # NoOwner
    BY <1>2
  <2>2. /\ rs \in DOMAIN caches /\ deps # {}
        /\ Resolve(caches, x[2], refs[i]) = <<"Deployment", x[2], caches[rs].owners[Min(deps)][2]>>
    BY <1>5, <2>1 DEF Resolve
  <2>3. deps \subseteq Nat
    BY <2>2 DEF CachesOK
  <2>4. Min(deps) \in deps
    BY <2>2, <2>3, MinIsIn
  <2>5. <<"Deployment", x[2], caches[rs].owners[Min(deps)][2]>> \in DOMAIN caches
    BY <2>2, <2>4 DEF RefersToCached, WorkloadKinds
  <2>6. workloadIDForPod(caches, x) = <<"Deployment", x[2], caches[rs].owners[Min(deps)][2]>>
    BY <1>3, <2>2
  <2> HIDE DEF refs, rs, deps
  <2>7. workloadIDForPod(caches, x)[1] = "Deployment"
    BY <2>6
  <2> QED BY <2>5, <2>6, <2>7 DEF WorkloadKinds
<1> QED BY <1>4, <1>5

(* A proposed edge between two nodes is in the graph. *)
LEMMA ContainsEdge ==
    ASSUME NEW c, NEW x \in Drawn(c), NEW p \in Parents(c, x), p \in Drawn(c)
    PROVE  <<"contains", p, x>> \in Edges(c)
<1>1. <<"contains", p, x>> \in EdgesAround(c, x)
  BY DEF EdgesAround, Edge
<1>2. <<"contains", p, x>> \in ProposedEdges(c)
  BY <1>1 DEF ProposedEdges
<1> QED BY <1>2 DEF Edges

LEMMA OneStepDown ==
    ASSUME NEW now, NEW rates, NEW S, NEW p \in S,
           NEW x \in Drawn(caches), p \in Parents(caches, x), p \in Drawn(caches)
    PROVE  x \in Under(buildGraph(caches, now, rates), S)
<1> DEFINE e == <<"contains", p, x>>
<1>1. e \in DOMAIN buildGraph(caches, now, rates).edges
  BY ContainsEdge, BuiltEdges
<1>2. e[1] = "contains" /\ e[2] = p /\ e[3] = x
  OBVIOUS
<1> HIDE DEF e
<1> QED BY <1>1, <1>2 DEF Under

LEMMA BuiltHangsTogether ==
    ASSUME CachesOK, RefersToCached(caches), NEW now, NEW rates,
           NEW x \in Drawn(caches), x[1] # "PersistentVolume"
    PROVE  x \in Contained(buildGraph(caches, now, rates))
<1> DEFINE g == buildGraph(caches, now, rates)
           level1 == Under(g, {ClusterId})
           level2 == Under(g, level1)
<1>0. ClusterId \in Drawn(caches)
  BY DEF Drawn
<1>1. ASSUME NEW y \in Drawn(caches), y[1] \in {"Node", "Namespace"}
      PROVE  y \in level1
  BY <1>0, <1>1, OneStepDown DEF Parents
<1>2. ASSUME NEW y \in DOMAIN caches, y[1] \in ScoredKinds,
             y[1] # "Pod" \/ workloadIDForPod(caches, y) = NoOwner
      PROVE  y \in level2
  <2>1. NamespaceId(y[2]) \in Drawn(caches) /\ y \in Drawn(caches)
    BY <1>2, NamespaceIsDrawn DEF Drawn
  <2>2. NamespaceId(y[2]) \in level1
    BY <2>1, <1>1 DEF NamespaceId
  <2>3. NamespaceId(y[2]) \in Parents(caches, y)
    BY <1>2 DEF Parents, ScoredKinds, WorkloadKinds
  <2> QED BY <2>1, <2>2, <2>3, OneStepDown
<1>3. ASSUME NEW y \in DOMAIN caches, y[1] = "Pod", workloadIDForPod(caches, y) # NoOwner
      PROVE  y \in Under(g, level2)
  <2> DEFINE w == workloadIDForPod(caches, y)
  <2>1. w \in DOMAIN caches /\ w[1] \in WorkloadKinds
    BY <1>3, WorkloadIsCached
  <2>2. w \in level2
    BY <2>1, <1>2 DEF ScoredKinds, WorkloadKinds
  <2>3. w \in Drawn(caches) /\ y \in Drawn(caches)
    BY <2>1, <1>3 DEF Drawn, ScoredKinds
  <2>4. w \in Parents(caches, y)
    BY <1>3 DEF Parents
  <2> QED BY <2>2, <2>3, <2>4, OneStepDown
<1>4. Contained(g) = {ClusterId} \cup level1 \cup level2 \cup Under(g, level2)
  BY DEF Contained
<1> HIDE DEF g, level1, level2
<1>5. \/ x = ClusterId \/ x[1] \in {"Node", "Namespace"}
      \/ x \in DOMAIN caches /\ x[1] \in ScoredKinds
  BY DEF Drawn, NamespaceId, ClusterKinds
<1>6. x \in Contained(g)
  BY <1>1, <1>2, <1>3, <1>4, <1>5
<1> QED BY <1>6 DEF g

LEMMA HangsTogether == GInv => EverythingHangsTogether
<1> SUFFICES ASSUME GInv, behind = 0, RefersToCached(caches),
                    NEW x \in DOMAIN graph.nodes, x[1] # "PersistentVolume"
             PROVE  x \in Contained(graph)
  BY DEF EverythingHangsTogether
<1>1. graph = buildGraph(caches, 0, NoRates) /\ CachesOK
  BY DEF GInv, UpToDate
<1>2. x \in Drawn(caches)
  BY <1>1, BuiltEdges
<1> QED BY <1>1, <1>2, BuiltHangsTogether

-----------------------------------------------------------------------------
(* The view of a namespace. *)
LEMMA KeptGrows ==
    ASSUME NEW g, NEW n
    PROVE  /\ OwnOf(g, n) \subseteq Kept(g, n)
           /\ Follow(g, OwnOf(g, n), "backs", "PersistentVolumeClaim") \subseteq Kept(g, n)
           /\ \A e \in DOMAIN g.edges :
                 e[1] = "runs-on" /\ e[2][1] = "Pod" /\ e[2] \in OwnOf(g, n) => e[3] \in Kept(g, n)
<1>1. \A keep, kind, from : keep \subseteq Follow(g, keep, kind, from)
  BY DEF Follow
<1> DEFINE k1 == Follow(g, OwnOf(g, n), "backs", "PersistentVolumeClaim")
           k2 == Follow(g, k1, "contains", "Cluster")
           k3 == Follow(g, k2, "contains", "DaemonSet")
           k4 == Follow(g, k3, "contains", "Deployment")
           k5 == Follow(g, k4, "contains", "Namespace")
           k6 == Follow(g, k5, "contains", "StatefulSet")
           k7 == Follow(g, k6, "mounts", "Pod")
           k8 == Follow(g, k7, "routes", "Service")
<1>2. Kept(g, n) = Follow(g, k8, "runs-on", "Pod")
  BY DEF Kept
<1>3. OwnOf(g, n) \subseteq k1 /\ k1 \subseteq k2 /\ k2 \subseteq k3 /\ k3 \subseteq k4
      /\ k4 \subseteq k5 /\ k5 \subseteq k6 /\ k6 \subseteq k7 /\ k7 \subseteq k8
  BY <1>1
<1> HIDE DEF k1, k2, k3, k4, k5, k6, k7, k8
<1>4. k8 \subseteq Kept(g, n)
  BY <1>1, <1>2
<1>5. \A e \in DOMAIN g.edges :
         e[1] = "runs-on" /\ e[2][1] = "Pod" /\ e[2] \in k8 => e[3] \in Kept(g, n)
  BY <1>2 DEF Follow
<1>6. k1 = Follow(g, OwnOf(g, n), "backs", "PersistentVolumeClaim")
  BY DEF k1
<1> QED BY <1>3, <1>4, <1>5, <1>6

LEMMA ViewComplete == GInv => ViewIsComplete
<1> SUFFICES ASSUME GInv, NEW n
             PROVE  LET v == NamespaceSnapshot(graph, n) IN
                    /\ OwnOf(graph, n) \subseteq DOMAIN v.nodes
                    /\ \A e \in DOMAIN graph.edges :
                          /\ e[1] \in {"runs-on", "backs"} /\ e[2][2] = n => e[3] \in DOMAIN v.nodes
                          /\ {e[2], e[3]} \subseteq DOMAIN v.nodes <=> e \in DOMAIN v.edges
  BY DEF ViewIsComplete
<1> DEFINE v == NamespaceSnapshot(graph, n)
<1>1. /\ DOMAIN v.nodes = DOMAIN graph.nodes \cap Kept(graph, n)
      /\ DOMAIN v.edges = {f \in DOMAIN graph.edges : {f[2], f[3]} \subseteq Kept(graph, n)}
  BY DEF NamespaceSnapshot
<1> HIDE DEF v
<1>2. OwnOf(graph, n) \subseteq DOMAIN v.nodes
  BY <1>1, KeptGrows DEF OwnOf
<1>3. ASSUME NEW e \in DOMAIN graph.edges
      PROVE  {e[2], e[3]} \subseteq DOMAIN v.nodes <=> e \in DOMAIN v.edges
  BY <1>1, <1>3 DEF GInv, GraphTypeOK
<1>4. ASSUME NEW e \in DOMAIN graph.edges, e[1] \in {"runs-on", "backs"}, e[2][2] = n
      PROVE  e[3] \in DOMAIN v.nodes
  <2>1. Len(e[2]) = 3 /\ e[2][1] = SourceKind[e[1]]
        /\ e[2] \in DOMAIN graph.nodes /\ e[3] \in DOMAIN graph.nodes
    BY <1>4 DEF GInv, GraphTypeOK, SourcesOK, SourcesIn
  <2>2. e[2] \in OwnOf(graph, n)
    BY <1>4, <2>1 DEF OwnOf
  <2>3. e[3] \in Kept(graph, n)
    <3>1. CASE e[1] = "runs-on"
      BY <2>1, <2>2, <3>1, KeptGrows DEF SourceKind
    <3>2. CASE e[1] = "backs"
      <4>1. e[3] \in Follow(graph, OwnOf(graph, n), "backs", "PersistentVolumeClaim")
        BY <2>1, <2>2, <3>2 DEF SourceKind, Follow
      <4> QED BY <4>1, KeptGrows
    <3> QED BY <1>4, <3>1, <3>2
  <2> QED BY <1>1, <2>1, <2>3
<1> QED BY <1>2, <1>3, <1>4 DEF v

-----------------------------------------------------------------------------
(***************************************************************************)
(* What two builds make of one object can be compared.  Every meta map has *)
(* the entries that its kind always has, which may be empty, and some of   *)
(* those it has at times; these are not empty when they are there, but for *)
(* a claim's storage class, and there the capacity decides.                *)
(***************************************************************************)
IsMeta(m) == m = [k \in DOMAIN m |-> m[k]] /\ IsFiniteSet(DOMAIN m)

LEMMA UpsertShape ==
    ASSUME NEW a, NEW b, IsMeta(a), IsMeta(b)
    PROVE  IsMeta(Upsert(a, b)) /\ DOMAIN Upsert(a, b) = DOMAIN a \cup DOMAIN b
BY FS_Union DEF IsMeta, Upsert

LEMMA UpsertNew ==
    ASSUME NEW a, NEW b, NEW k \in DOMAIN b
    PROVE  Upsert(a, b)[k] = b[k]
BY DEF Upsert

LEMMA UpsertOld ==
    ASSUME NEW a, NEW b, NEW k \in DOMAIN a, k \notin DOMAIN b
    PROVE  Upsert(a, b)[k] = a[k]
BY DEF Upsert

LEMMA EmptyIsMeta == IsMeta(EmptyTable) /\ DOMAIN EmptyTable = {}
BY FS_EmptySet DEF IsMeta, EmptyTable

LEMMA PresentIsNotEmpty ==
    ASSUME NEW text
    PROVE  /\ \A t \in Present(text) : t # EmptyText
           /\ Present(text) = {} <=> text = EmptyText
BY DEF Present

(* Sets of at most three. *)
LEMMA FewKeys ==
    ASSUME NEW a, NEW b, NEW d
    PROVE  IsFiniteSet({a}) /\ IsFiniteSet({a, b}) /\ IsFiniteSet({a, b, d})
<1>1. IsFiniteSet({a}) /\ IsFiniteSet({b}) /\ IsFiniteSet({d})
  BY FS_Singleton
<1>2. IsFiniteSet({a} \cup {b})
  BY <1>1, FS_Union
<1>3. IsFiniteSet(({a} \cup {b}) \cup {d})
  BY <1>1, <1>2, FS_Union
<1>4. {a} \cup {b} = {a, b} /\ ({a} \cup {b}) \cup {d} = {a, b, d}
  OBVIOUS
<1> QED BY <1>1, <1>2, <1>3, <1>4

LEMMA GivenShape ==
    ASSUME NEW texts, IsFiniteSet(DOMAIN texts)
    PROVE  /\ IsMeta(Given(texts))
           /\ DOMAIN Given(texts) = {k \in DOMAIN texts : texts[k] # {}}
           /\ \A k \in DOMAIN Given(texts) : Given(texts)[k] \in texts[k]
<1>1. DOMAIN Given(texts) = {k \in DOMAIN texts : texts[k] # {}}
  BY DEF Given
<1>2. \A k \in DOMAIN Given(texts) : Given(texts)[k] \in texts[k]
  BY DEF Given
<1>3. IsFiniteSet(DOMAIN Given(texts))
  BY <1>1, FS_Subset
<1> QED BY <1>1, <1>2, <1>3 DEF IsMeta, Given

(* The keys of the entries that an object of some kind has in any case, and
   of those it may have. *)
Needed(kind) ==
    CASE kind = "Node" -> {"schedulable", "kubelet", "roles"}
      [] kind \in WorkloadKinds -> {"ready"}
      [] kind = "Service" -> {"type", "clusterIP", "endpoints"}
      [] kind = "Pod" -> {"phase", "restarts"}
      [] OTHER -> {"phase"}

Options(kind) ==
    CASE kind = "Node" -> {"gpu", "gpuCount", "taints"}
      [] kind \in {"PersistentVolume", "PersistentVolumeClaim"} -> {"storageClass", "capacity"}
      [] kind = "Pod" -> {"node", "image"}
      [] OTHER -> {}

LEMMA AlwaysShape ==
    ASSUME NEW c, NEW x
    PROVE  IsMeta(Always(c, x)) /\ DOMAIN Always(c, x) = Needed(x[1])
<1>1. DOMAIN Always(c, x) = Needed(x[1]) /\ Always(c, x) = [k \in DOMAIN Always(c, x) |-> Always(c, x)[k]]
  <2>1. CASE x[1] = "Node"
    BY <2>1 DEF Always, Needed
  <2>2. CASE x[1] \in WorkloadKinds
    BY <2>2 DEF Always, Needed, WorkloadKinds
  <2>3. CASE x[1] = "Service"
    BY <2>3 DEF Always, Needed, WorkloadKinds
  <2>4. CASE x[1] = "Pod"
    BY <2>4 DEF Always, Needed, WorkloadKinds
  <2>5. CASE x[1] \notin WorkloadKinds \cup {"Node", "Service", "Pod"}
    BY <2>5 DEF Always, Needed
  <2> QED BY <2>1, <2>2, <2>3, <2>4, <2>5
<1>2. IsFiniteSet(Needed(x[1]))
  BY FewKeys DEF Needed
<1> QED BY <1>1, <1>2 DEF IsMeta

LEMMA AtTimesShape ==
    ASSUME NEW c, NEW x
    PROVE  /\ DOMAIN AtTimes(c, x) = Options(x[1]) /\ IsFiniteSet(Options(x[1]))
           /\ Options(x[1]) \cap Needed(x[1]) = {}
<1>1. DOMAIN AtTimes(c, x) = Options(x[1])
  <2>1. CASE x[1] = "Node"
    BY <2>1 DEF AtTimes, Options
  <2>2. CASE x[1] \in {"PersistentVolume", "PersistentVolumeClaim"}
    BY <2>2 DEF AtTimes, Options
  <2>3. CASE x[1] = "Pod"
    BY <2>3 DEF AtTimes, Options
  <2>4. CASE x[1] \notin {"Node", "PersistentVolume", "PersistentVolumeClaim", "Pod"}
    BY <2>4, EmptyIsMeta DEF AtTimes, Options
  <2> QED BY <2>1, <2>2, <2>3, <2>4
<1>2. IsFiniteSet(Options(x[1]))
  BY FewKeys, FS_EmptySet DEF Options
<1>3. Options(x[1]) \cap Needed(x[1]) = {}
  BY DEF Options, Needed, WorkloadKinds
<1> QED BY <1>1, <1>2, <1>3

LEMMA IdIsNoCluster ==
    ASSUME NEW x, IsId(x)
    PROVE  x # ClusterId
BY DEF IsId, ClusterId, ClusterKinds, ScoredKinds, HelperKinds, WorkloadKinds

(* The meta map of a cached object. *)
LEMMA MetaOf ==
    ASSUME NEW c, NEW x \in DOMAIN c, IsId(x)
    PROVE  LET m == Meta(c, x)
               g == {k \in Options(x[1]) : AtTimes(c, x)[k] # {}}
           IN  /\ IsMeta(m) /\ DOMAIN m = Needed(x[1]) \cup g
               /\ \A k \in Needed(x[1]) : m[k] = Always(c, x)[k]
               /\ \A k \in g : m[k] \in AtTimes(c, x)[k]
<1> DEFINE m == Meta(c, x)
           a == Always(c, x)
           t == AtTimes(c, x)
           u == Given(t)
           g == {k \in Options(x[1]) : t[k] # {}}
<1>1. m = Upsert(a, u)
  BY IdIsNoCluster DEF Meta
<1>2. IsMeta(a) /\ DOMAIN a = Needed(x[1])
  BY AlwaysShape, Zenon
<1>3. /\ DOMAIN t = Options(x[1]) /\ IsFiniteSet(DOMAIN t)
      /\ Options(x[1]) \cap Needed(x[1]) = {}
  BY AtTimesShape
<1> HIDE DEF m, a, t
<1>4. /\ IsMeta(u) /\ DOMAIN u = g
      /\ \A k \in DOMAIN u : u[k] \in t[k]
  BY <1>3, GivenShape
<1> HIDE DEF u
<1>5. IsMeta(m) /\ DOMAIN m = Needed(x[1]) \cup g
  BY <1>1, <1>2, <1>4, UpsertShape
<1>6. \A k \in Needed(x[1]) : m[k] = a[k]
  <2> TAKE k \in Needed(x[1])
  <2>1. k \in DOMAIN a /\ k \notin DOMAIN u
    BY <1>2, <1>3, <1>4
  <2> QED BY <1>1, <2>1, UpsertOld, Zenon
<1>7. \A k \in g : m[k] \in t[k]
  <2> TAKE k \in g
  <2>1. m[k] = u[k]
    BY <1>1, <1>4, UpsertNew, Zenon
  <2> QED BY <1>4, <2>1
<1> QED BY <1>5, <1>6, <1>7 DEF m, a, t

(* The meta map of a cached object that is not a claim has the entries it
   must have, and others that are not empty. *)
GoodMeta(m, needed) ==
    /\ IsMeta(m) /\ needed \subseteq DOMAIN m
    /\ \A k \in DOMAIN m \ needed : m[k] # EmptyText

LEMMA TextsAreNotEmpty ==
    ASSUME NEW c, Legal(c), NEW x \in DOMAIN c, x[1] # "PersistentVolumeClaim",
           NEW k \in Options(x[1])
    PROVE  EmptyText \notin AtTimes(c, x)[k]
<1> USE PresentIsNotEmpty
<1>1. CASE x[1] = "Node"
  <2>1. EmptyText # "true"
    BY GraphAssumption
  <2>2. EmptyText \notin Present(c[x].gpu) /\ EmptyText \notin Present(c[x].taints)
    OBVIOUS
  <2>3. k \in {"gpu", "gpuCount", "taints"}
    BY <1>1 DEF Options
  <2> QED BY <1>1, <2>1, <2>2, <2>3 DEF AtTimes
<1>2. CASE x[1] = "PersistentVolume"
  <2>1. EmptyText \notin Present(c[x].class) /\ EmptyText \notin Present(c[x].capacity)
    OBVIOUS
  <2>2. k \in {"storageClass", "capacity"}
    BY <1>2 DEF Options
  <2> QED BY <1>2, <2>1, <2>2 DEF AtTimes
<1>3. CASE x[1] = "Pod"
  <2>1. EmptyText \notin c[x].image
    <3>1. x \in DOMAIN Contents \cup DOMAIN Lasting /\ c[x] \in PossibleContents(x)
      BY DEF Legal
    <3> QED BY <1>3, <3>1, GraphAssumption
  <2>2. EmptyText \notin Present(c[x].node)
    OBVIOUS
  <2>3. k \in {"node", "image"}
    BY <1>3 DEF Options
  <2> QED BY <1>3, <2>1, <2>2, <2>3 DEF AtTimes
<1> QED BY <1>1, <1>2, <1>3 DEF Options

LEMMA CachedIsId ==
    ASSUME NEW c, Legal(c), NEW x \in DOMAIN c
    PROVE  IsId(x)
BY GraphAssumption DEF Legal

LEMMA MetaOfOthers ==
    ASSUME NEW c, Legal(c), NEW x \in DOMAIN c, x[1] # "PersistentVolumeClaim"
    PROVE  GoodMeta(Meta(c, x), Needed(x[1]))
<1> DEFINE m == Meta(c, x)
           t == AtTimes(c, x)
<1>1. /\ IsMeta(m) /\ DOMAIN m = Needed(x[1]) \cup {k \in Options(x[1]) : t[k] # {}}
      /\ \A k \in {j \in Options(x[1]) : t[j] # {}} : m[k] \in t[k]
  BY CachedIsId, MetaOf
<1>2. \A k \in Options(x[1]) : EmptyText \notin t[k]
  BY TextsAreNotEmpty
<1> HIDE DEF m, t
<1>3. GoodMeta(m, Needed(x[1]))
  BY <1>1, <1>2 DEF GoodMeta
<1> QED BY <1>3 DEF m

(* A map with a phase, a storage class if there is one in classes, and a
   capacity if there is one in capacities. *)
ClaimMeta(m, phase, classes, capacities) ==
    /\ IsMeta(m) /\ m["phase"] = phase
    /\ DOMAIN m = {"phase"} \cup (IF classes = {} THEN {} ELSE {"storageClass"})
                            \cup (IF capacities = {} THEN {} ELSE {"capacity"})
    /\ capacities # {} => m["capacity"] \in capacities

LEMMA MetaOfClaim ==
    ASSUME NEW c, Legal(c), NEW x \in DOMAIN c, x[1] = "PersistentVolumeClaim"
    PROVE  ClaimMeta(Meta(c, x), c[x].phase, c[x].class, Present(c[x].capacity))
<1> DEFINE m == Meta(c, x)
           t == AtTimes(c, x)
           a == Always(c, x)
           p == c[x].phase
           t1 == c[x].class
           t2 == Present(c[x].capacity)
<1>1. /\ IsMeta(m) /\ DOMAIN m = Needed(x[1]) \cup {k \in Options(x[1]) : t[k] # {}}
      /\ \A k \in Needed(x[1]) : m[k] = a[k]
      /\ \A k \in {j \in Options(x[1]) : t[j] # {}} : m[k] \in t[k]
  BY CachedIsId, MetaOf
<1>2. Needed(x[1]) = {"phase"} /\ Options(x[1]) = {"storageClass", "capacity"}
  BY DEF Needed, Options, WorkloadKinds
<1>3. t["storageClass"] = t1 /\ t["capacity"] = t2 /\ a["phase"] = p
  BY DEF AtTimes, Always, WorkloadKinds
<1> HIDE DEF m, t, a, p, t1, t2
<1>4. m["phase"] = p /\ (t2 # {} => m["capacity"] \in t2)
  BY <1>1, <1>2, <1>3
<1>5. DOMAIN m = {"phase"} \cup (IF t1 = {} THEN {} ELSE {"storageClass"})
                           \cup (IF t2 = {} THEN {} ELSE {"capacity"})
  BY <1>1, <1>2, <1>3
<1>6. ClaimMeta(m, p, t1, t2)
  BY <1>1, <1>4, <1>5 DEF ClaimMeta
<1> QED BY <1>6 DEF m, p, t1, t2

(* An object that is drawn and not cached is made up: it is so in every
   build of the same scope. *)
LEMMA DrawnIsCached ==
    ASSUME NEW c, NEW d, Legal(c), Legal(d), NEW x \in Drawn(c), x \in Drawn(d), x \in DOMAIN c
    PROVE  x \in DOMAIN d /\ x[1] \in ClusterKinds \cup ScoredKinds
<1>1. IsId(x) /\ Watches(x)
  BY GraphAssumption DEF Legal
<1>2. x # ClusterId
  BY <1>1, IdIsNoCluster
<1>3. clusterScope \/ x # NamespaceId(Watched)
  BY <1>1 DEF Watches, NamespaceId, ClusterKinds
<1> QED BY <1>2, <1>3 DEF Drawn

(* The map of the cluster, and that of a namespace that is made up. *)
LEMMA MetaOfMadeUp ==
    ASSUME NEW c, NEW x, x \notin DOMAIN c
    PROVE  IsMeta(Meta(c, x)) /\ DOMAIN Meta(c, x) = IF x = ClusterId THEN {"scope"} ELSE {}
<1>1. CASE x = ClusterId
  <2> DEFINE v == IF clusterScope THEN "cluster-wide" ELSE <<"namespace", Watched>>
  <2>1. Meta(c, x) = [scope |-> v]
    BY <1>1 DEF Meta
  <2> HIDE DEF v
  <2> QED BY <1>1, <2>1, FewKeys DEF IsMeta
<1>2. CASE x # ClusterId
  BY <1>2, EmptyIsMeta DEF Meta
<1> QED BY <1>1, <1>2

LEMMA ClaimsComparable ==
    ASSUME NEW c, NEW d, NEW x, Legal(c), Legal(d), x \in DOMAIN c, x \in DOMAIN d,
           x[1] = "PersistentVolumeClaim",
           Cardinality(DOMAIN Meta(c, x)) = Cardinality(DOMAIN Meta(d, x)),
           \A k \in DOMAIN Meta(c, x) \cap DOMAIN Meta(d, x) : Meta(c, x)[k] = Meta(d, x)[k],
           NEW k \in DOMAIN Meta(c, x), Meta(c, x)[k] = EmptyText
    PROVE  k \in DOMAIN Meta(d, x)
<1> DEFINE m == Meta(c, x)
           w == Meta(d, x)
           cap == Present(c[x].capacity)
           dap == Present(d[x].capacity)
<1>1. /\ ClaimMeta(m, c[x].phase, c[x].class, cap)
      /\ ClaimMeta(w, d[x].phase, d[x].class, dap)
  BY MetaOfClaim, Zenon
<1>2. /\ \A t \in cap : t # EmptyText
      /\ cap = {} <=> c[x].capacity = EmptyText
      /\ dap = {} <=> d[x].capacity = EmptyText
  BY PresentIsNotEmpty, Zenon
<1> HIDE DEF m, w, cap, dap
<1>3. c[x].phase = d[x].phase
  <2>1. m["phase"] = c[x].phase /\ w["phase"] = d[x].phase
    BY <1>1 DEF ClaimMeta
  <2>2. "phase" \in DOMAIN m /\ "phase" \in DOMAIN w
    BY <1>1 DEF ClaimMeta
  <2> QED BY <2>1, <2>2 DEF m, w
<1>4. cap = {} <=> dap = {}
  <2>1. x \in DOMAIN Contents \cup DOMAIN Lasting /\ c[x] \in PossibleContents(x) /\ d[x] \in PossibleContents(x)
    BY DEF Legal
  <2> QED BY <1>2, <1>3, <2>1, GraphAssumption
<1>5. k \in DOMAIN m /\ m[k] = EmptyText /\ Cardinality(DOMAIN m) = Cardinality(DOMAIN w)
  BY DEF m, w
<1>6. CASE k # "storageClass"
  <2>1. k = "phase"
    BY <1>1, <1>2, <1>5, <1>6 DEF ClaimMeta
  <2>2. "phase" \in DOMAIN w
    BY <1>1 DEF ClaimMeta
  <2> QED BY <2>1, <2>2 DEF w
<1>7. CASE k = "storageClass" /\ k \notin DOMAIN w
  <2>1. DOMAIN w \subseteq DOMAIN m
    BY <1>1, <1>4, <1>7 DEF ClaimMeta
  <2>2. IsFiniteSet(DOMAIN m)
    BY <1>1 DEF ClaimMeta, IsMeta
  <2>3. DOMAIN w = DOMAIN m
    BY <1>5, <2>1, <2>2, FS_Subset
  <2> QED BY <1>5, <1>7, <2>3
<1> QED BY <1>6, <1>7 DEF w

LEMMA BuiltShape ==
    ASSUME NEW c, Legal(c), NEW g, g = Built(c)
    PROVE  /\ HasShape(g) /\ DOMAIN g.nodes = Drawn(c)
           /\ \A x \in Drawn(c) : g.nodes[x].kind = x[1] /\ g.nodes[x].meta = Meta(c, x)
<1>1. ASSUME NEW x \in Drawn(c) PROVE IsMeta(Meta(c, x))
  <2>1. CASE x \notin DOMAIN c
    BY <2>1, MetaOfMadeUp
  <2>2. CASE x \in DOMAIN c
    BY <2>2, CachedIsId, MetaOf
  <2> QED BY <2>1, <2>2
<1>2. \A x, r : IsMeta(Meta(c, x)) => IsContent(Content(c, x, r))
  <2> SUFFICES ASSUME NEW x, NEW r, IsMeta(Meta(c, x)) PROVE IsContent(Content(c, x, r))
    OBVIOUS
  <2> DEFINE a == Content(c, x, r)
             m == Meta(c, x)
  <2>1. a = [kind |-> x[1], status |-> <<r.state, r.score>>, reasons |-> <<r.reasons>>, meta |-> m]
    BY DEF Content
  <2> HIDE DEF a, m
  <2>2. a.reasons = <<r.reasons>> /\ a.meta = m
    BY <2>1
  <2>3. Len(a.reasons) = 1 /\ a.reasons = [i \in 1..1 |-> a.reasons[i]]
    BY <2>2
  <2>4. a = [kind |-> a.kind, status |-> a.status, reasons |-> a.reasons, meta |-> a.meta]
    BY <2>1
  <2> QED BY <2>2, <2>3, <2>4 DEF IsContent, IsMeta, m, a
<1> DEFINE own == Scores(c, 0, [x \in DOMAIN c |-> 0])
           up  == RollUps(c, own)
           all == Upsert(Upsert(own, up), Entry(ClusterId, Root(c, own, up)))
<1>3. g = [nodes |-> [x \in Drawn(c) |-> Content(c, x, all[x])],
           edges |-> [e \in Edges(c) |-> [source |-> e[2], target |-> e[3], kind |-> e[1]]]]
  BY DEF Built, buildGraph
<1> HIDE DEF all
<1>4. \A x \in Drawn(c) : g.nodes[x] = Content(c, x, all[x])
  BY <1>3
<1>5. \A x \in Drawn(c) : IsContent(g.nodes[x])
  BY <1>1, <1>2, <1>4
<1>6. DOMAIN g.nodes = Drawn(c) /\ g.nodes = [x \in DOMAIN g.nodes |-> g.nodes[x]]
      /\ g.edges = [x \in DOMAIN g.edges |-> g.edges[x]]
      /\ g = [nodes |-> g.nodes, edges |-> g.edges]
  BY <1>3
<1>7. \A x \in Drawn(c) : g.nodes[x].kind = x[1] /\ g.nodes[x].meta = Meta(c, x)
  <2>1. \A x, res : Content(c, x, res).kind = x[1] /\ Content(c, x, res).meta = Meta(c, x)
    BY DEF Content
  <2> QED BY <1>4, <2>1, Zenon
<1> QED BY <1>5, <1>6, <1>7 DEF HasShape

LEMMA BuiltComparable ==
    ASSUME NEW c, NEW d, Legal(c), Legal(d), NEW g, NEW h, g = Built(c), h = Built(d)
    PROVE  Comparable(g, h)
<1> SUFFICES ASSUME NEW x \in Drawn(c), x \in Drawn(d),
                    Cardinality(DOMAIN Meta(c, x)) = Cardinality(DOMAIN Meta(d, x)),
                    \A k \in DOMAIN Meta(c, x) \cap DOMAIN Meta(d, x) : Meta(c, x)[k] = Meta(d, x)[k],
                    NEW k \in DOMAIN Meta(c, x), Meta(c, x)[k] = EmptyText
             PROVE  k \in DOMAIN Meta(d, x)
  BY BuiltShape DEF Comparable, MetaComparable
<1>1. CASE x \notin DOMAIN c
  <2>1. x \notin DOMAIN d
    BY <1>1, DrawnIsCached
  <2> QED BY <1>1, <2>1, MetaOfMadeUp
<1>2. CASE x \in DOMAIN c
  <2>1. x \in DOMAIN d
    BY <1>2, DrawnIsCached
  <2>2. CASE x[1] = "PersistentVolumeClaim"
    BY <1>2, <2>1, <2>2, ClaimsComparable
  <2>3. CASE x[1] # "PersistentVolumeClaim"
    <3>1. GoodMeta(Meta(c, x), Needed(x[1])) /\ GoodMeta(Meta(d, x), Needed(x[1]))
      BY <1>2, <2>1, <2>3, MetaOfOthers
    <3> QED BY <3>1 DEF GoodMeta
  <2> QED BY <2>2, <2>3
<1> QED BY <1>1, <1>2

OnlyChanges(g, prev) ==
    LET d == DiffAgainst(g, prev) IN
    /\ \A n \in DOMAIN d.upsertNodes :
          n \in DOMAIN prev.nodes => prev.nodes[n] # d.upsertNodes[n]
    /\ \A e \in DOMAIN d.upsertEdges :
          e \in DOMAIN prev.edges => prev.edges[e] # d.upsertEdges[e]
    /\ d.removeNodes \cap DOMAIN g.nodes = {}

(* The graph before a step and the one after it. *)
LEMMA StepBuilds ==
    ASSUME GInv, [GraphNext]_graphVars
    PROVE  HasShape(graph) /\ HasShape(graph') /\ Comparable(graph, graph')
<1>1. clusterScope' = clusterScope
  BY DEF GraphNext, Stored, Deleted, Behind, Rebuild, graphVars
<1>2. PICK c : Legal(c) /\ graph = Built(c)
  BY DEF GInv, GraphIsBuilt
<1>3. GraphIsBuilt'
  BY StepGInv DEF GInv
<1>4. PICK d : Legal(d)' /\ graph' = Built(d)'
  BY <1>3 DEF GraphIsBuilt
<1>5. Legal(d) /\ graph' = Built(d)
  BY <1>1, <1>4, SameScope
<1> QED BY <1>2, <1>5, BuiltShape, BuiltComparable

-----------------------------------------------------------------------------
(***************************************************************************)
(* Failures on their way up: what an object scores of its own, what a      *)
(* namespace makes of it, and what the cluster makes of the namespace.     *)
(***************************************************************************)
IsScore(r) == r.state \in States /\ r.score \in 0..Unit
GoodResult(r) ==
    /\ r.state \in States /\ r.score \in 0..Unit
    /\ r.state = Unhealthy => HardFailure(r)

LEMMA TenthsAreScores ==
    /\ \A k \in 0..10 : Tenths(k) \in 0..Unit
    /\ Tenths(1) <= Tenths(2) /\ 0 <= Tenths(2) /\ Tenths(2) + 8 * (Unit \div 10) = Unit
    /\ Unit \in 0..Unit /\ 0 \in 0..Unit
BY UnitIsNat DEF Tenths

LEMMA Graded ==
    ASSUME NEW s \in States, NEW score \in 0..Unit, NEW why,
           s = Unhealthy => score <= Tenths(2)
    PROVE  GoodResult(Result(s, score, why))
BY DEF GoodResult, Result, HardFailure

LEMMA PlainIsGood ==
    ASSUME NEW s \in States
    PROVE  GoodResult(Plain(s))
<1>1. stateScore(s) \in 0..Unit /\ (s = Unhealthy => stateScore(s) <= Tenths(2))
  BY TenthsAreScores, Ranks DEF stateScore
<1> QED BY <1>1, Graded DEF Plain

LEMMA StatesAre == {Healthy, Degraded, Unhealthy, Unknown} \subseteq States
                   /\ Unknown # Unhealthy /\ Unknown # Healthy /\ Unknown # Degraded
BY DEF States, Healthy, Degraded, Unhealthy, Unknown

LEMMA SimpleResults ==
    /\ \A why : GoodResult(Result(Unhealthy, 0, why))
    /\ \A why : GoodResult(Result(Unhealthy, Tenths(1), why))
    /\ \A why : GoodResult(Result(Unhealthy, Tenths(2), why))
    /\ \A why : GoodResult(Result(Degraded, Tenths(4), why))
    /\ \A why : GoodResult(Result(Degraded, Tenths(5), why))
    /\ \A why : GoodResult(Result(Degraded, Tenths(6), why))
    /\ \A why : GoodResult(Result(Degraded, Tenths(7), why))
    /\ \A why : GoodResult(Result(Unknown, Tenths(5), why))
    /\ \A why : GoodResult(Result(Healthy, Unit, why))
    /\ GoodResult(Plain(Healthy)) /\ GoodResult(Plain(Unhealthy)) /\ GoodResult(Plain(Unknown))
<1>1. \A why : GoodResult(Result(Unhealthy, 0, why))
  BY TenthsAreScores, StatesAre, Graded
<1>2. \A why : GoodResult(Result(Unhealthy, Tenths(1), why))
  BY TenthsAreScores, StatesAre, Graded
<1>3. \A why : GoodResult(Result(Unhealthy, Tenths(2), why))
  <2>1. Tenths(2) \in 0..Unit /\ Tenths(2) <= Tenths(2)
    BY TenthsAreScores
  <2> QED BY <2>1, StatesAre, Graded
<1>4. ASSUME NEW why, NEW k \in 0..10
      PROVE  GoodResult(Result(Degraded, Tenths(k), why))
  <2>1. Tenths(k) \in 0..Unit
    BY TenthsAreScores
  <2> QED BY <2>1, StatesAre, Ranks, Graded
<1>5. \A why : GoodResult(Result(Unknown, Tenths(5), why))
  <2>1. Tenths(5) \in 0..Unit
    BY TenthsAreScores
  <2> QED BY <2>1, StatesAre, Graded
<1>6. \A why : GoodResult(Result(Healthy, Unit, why))
  BY TenthsAreScores, StatesAre, Ranks, Graded
<1> QED BY <1>1, <1>2, <1>3, <1>4, <1>5, <1>6, StatesAre, PlainIsGood

LEMMA NodeIsGood == ASSUME NEW n PROVE GoodResult(Node(n))
BY SimpleResults DEF Node

LEMMA PodIsGood == ASSUME NEW p, NEW rate PROVE GoodResult(Pod(p, rate))
BY SimpleResults, Zenon DEF Pod

LEMMA OthersAreGood ==
    /\ \A phase : GoodResult(PV(phase))
    /\ \A phase, age, grace : GoodResult(PVC(phase, age, grace))
    /\ \A sel, n : GoodResult(Service(sel, n))
<1>1. \A phase : GoodResult(PV(phase))
  BY SimpleResults DEF PV
<1>2. \A phase, age, grace : GoodResult(PVC(phase, age, grace))
  BY SimpleResults DEF PVC
<1>3. \A sel, n : GoodResult(Service(sel, n))
  BY SimpleResults DEF Service
<1> QED BY <1>1, <1>2, <1>3

LEMMA QuotientBelow ==
    ASSUME NEW a \in Nat, NEW u \in Nat, NEW d \in Nat, d >= 1, a <= u * d
    PROVE  a \div d \in 0..u
<1> DEFINE q == a \div d
<1>1. q \in Nat /\ q * d <= a
  BY Quotient
<1> HIDE DEF q
<1>2. ASSUME q >= u + 1 PROVE FALSE
  <2>1. q * d >= (u + 1) * d /\ (u + 1) * d = u * d + d /\ u * d \in Nat
    BY <1>1, <1>2
  <2> QED BY <1>1, <2>1
<1> QED BY <1>1, <1>2 DEF q

LEMMA WorkloadIsGood ==
    ASSUME NEW desired \in Nat, NEW ready \in Nat, NEW available \in Nat
    PROVE  GoodResult(Workload(desired, ready, available))
<1> DEFINE eff == Lesser(ready, available)
<1>1. eff \in Nat
  BY DEF Lesser
<1> HIDE DEF eff
<1>2. CASE desired = 0 \/ eff >= desired \/ eff = 0
  BY <1>2, SimpleResults DEF Workload, eff
<1>3. CASE desired # 0 /\ ~(eff >= desired) /\ eff # 0
  <2>1. eff * Unit \in Nat /\ eff * Unit <= Unit * desired
    BY <1>1, <1>3, UnitIsNat, \A a, u, d \in Nat : a <= d => a * u \in Nat /\ a * u <= u * d
  <2>2. (eff * Unit) \div desired \in 0..Unit
    <3> DEFINE a == eff * Unit
    <3>1. a \in Nat /\ a <= Unit * desired /\ desired >= 1 /\ Unit \in Nat
      BY <1>3, <2>1, UnitIsNat
    <3> HIDE DEF a
    <3>2. a \div desired \in 0..Unit
      BY <3>1, QuotientBelow
    <3> QED BY <3>2 DEF a
  <2>3. GoodResult(Result(Degraded, (eff * Unit) \div desired, {<<"ready", eff, desired>>}))
    BY <2>2, StatesAre, Ranks, Graded
  <2>4. Workload(desired, ready, available) =
           Result(Degraded, (eff * Unit) \div desired, {<<"ready", eff, desired>>})
    BY <1>3, Zenon DEF Workload, eff
  <2> QED BY <2>3, <2>4
<1> QED BY <1>2, <1>3

(* What is scored of its own. *)
Scorable == ScoredKinds \cup {"Node", "PersistentVolume"}

LEMMA OwnIsGood ==
    ASSUME NEW c, Legal(c), NEW now, NEW rates, NEW x \in DOMAIN c, x[1] \in Scorable
    PROVE  GoodResult(Scores(c, now, rates)[x])
<1> DEFINE r == Scores(c, now, rates)[x]
<1>0. CountsAreNatural(x[1], c[x])
  BY GraphAssumption DEF Legal
<1>1. CASE x[1] = "Node"
  <2>1. r = Node(c[x])
    BY <1>1 DEF Scores, Scorable
  <2> QED BY <2>1, NodeIsGood
<1>2. CASE x[1] = "PersistentVolume"
  <2>1. r = PV(c[x].phase)
    BY <1>2 DEF Scores, Scorable
  <2> QED BY <2>1, OthersAreGood
<1>3. CASE x[1] = "Deployment"
  <2>1. r = Workload(Replicas(c[x].replicas), c[x].ready, c[x].available)
    BY <1>3 DEF Scores, Scorable, Deployment
  <2>2. Replicas(c[x].replicas) \in Nat /\ c[x].ready \in Nat /\ c[x].available \in Nat
    BY <1>0, <1>3 DEF CountsAreNatural
  <2> QED BY <2>1, <2>2, WorkloadIsGood
<1>4. CASE x[1] = "StatefulSet"
  <2>1. r = Workload(Replicas(c[x].replicas), c[x].ready, c[x].current)
    BY <1>4 DEF Scores, Scorable, StatefulSet
  <2>2. Replicas(c[x].replicas) \in Nat /\ c[x].ready \in Nat /\ c[x].current \in Nat
    BY <1>0, <1>4 DEF CountsAreNatural
  <2> QED BY <2>1, <2>2, WorkloadIsGood
<1>5. CASE x[1] = "DaemonSet"
  <2>1. r = Workload(c[x].scheduled, c[x].ready, c[x].available)
    BY <1>5 DEF Scores, Scorable, DaemonSet
  <2>2. c[x].scheduled \in Nat /\ c[x].ready \in Nat /\ c[x].available \in Nat
    BY <1>0, <1>5 DEF CountsAreNatural
  <2> QED BY <2>1, <2>2, WorkloadIsGood
<1>6. CASE x[1] = "PersistentVolumeClaim"
  <2>1. r = PVC(c[x].phase, now - c[x].created, Grace)
    BY <1>6 DEF Scores, Scorable, ScoredKinds
  <2> QED BY <2>1, OthersAreGood
<1>7. CASE x[1] = "Service"
  <2>1. r = Service(c[x].selector, endpointsFor(c, x).ready)
    BY <1>7 DEF Scores, Scorable, ScoredKinds
  <2> QED BY <2>1, OthersAreGood
<1>8. CASE x[1] = "Pod"
  <2>1. r = Pod(c[x], rates[x])
    BY <1>8 DEF Scores, Scorable, ScoredKinds
  <2> QED BY <2>1, PodIsGood
<1> QED BY <1>1, <1>2, <1>3, <1>4, <1>5, <1>6, <1>7, <1>8 DEF Scorable, ScoredKinds, WorkloadKinds

(* A bag over the results of some objects. *)
LEMMA FibreOf ==
    ASSUME NEW s, NEW S, IsFiniteSet(S)
    PROVE  LET scored == {<<x, s[x]>> : x \in S} IN
           IsFiniteSet(scored) /\ Cardinality(scored) <= Cardinality(S)
<1> DEFINE scored == {<<x, s[x]>> : x \in S}
           f == [x \in S |-> <<x, s[x]>>]
<1>1. f \in Surjection(S, scored)
  BY DEF Surjection
<1> HIDE DEF f, scored
<1>2. IsFiniteSet(scored) /\ Cardinality(scored) <= Cardinality(S)
  BY <1>1, FS_Surjection
<1> QED BY <1>2 DEF scored

Pairs(s, S) == {<<x, s[x]>> : x \in S}
With(s, S, R) == {p \in Pairs(s, S) : p[2] \in R}

LEMMA BagIs ==
    ASSUME NEW s, NEW S, IsFiniteSet(S), NEW b, b = BagOver(s, S)
    PROVE  /\ IsFiniteSet(DOMAIN b)
           /\ \A x \in S : s[x] \in DOMAIN b
<1> DEFINE D == {p[2] : p \in Pairs(s, S)}
<1>1. IsFiniteSet(Pairs(s, S))
  BY FibreOf DEF Pairs
<1>2. IsFiniteSet(D)
  <2> DEFINE f == [p \in Pairs(s, S) |-> p[2]]
  <2>1. f \in Surjection(Pairs(s, S), D)
    BY DEF Surjection
  <2> HIDE DEF f, D
  <2> QED BY <1>1, <2>1, FS_Surjection
<1>3. \A x \in S : s[x] \in D
  <2> SUFFICES ASSUME NEW x \in S PROVE s[x] \in D
    OBVIOUS
  <2>1. <<x, s[x]>> \in Pairs(s, S)
    BY DEF Pairs
  <2>2. <<x, s[x]>>[2] = s[x]
    OBVIOUS
  <2> QED BY <2>1, <2>2
<1>4. DOMAIN b = D
  BY DEF BagOver, Pairs
<1> QED BY <1>2, <1>3, <1>4

LEMMA BagComesFrom ==
    ASSUME NEW s, NEW S, NEW r \in DOMAIN BagOver(s, S)
    PROVE  \E x \in S : r = s[x]
BY DEF BagOver

LEMMA BagHolds ==
    ASSUME NEW s, NEW S, IsFiniteSet(S), NEW b, b = BagOver(s, S), NEW r \in DOMAIN b
    PROVE  /\ b[r] = Cardinality(With(s, S, {r}))
           /\ b[r] \in Nat /\ b[r] > 0
           /\ \E x \in S : r = s[x]
<1>1. b[r] = Cardinality({p \in Pairs(s, S) : p[2] = r})
  BY DEF BagOver, Pairs
<1>2. {p \in Pairs(s, S) : p[2] = r} = With(s, S, {r})
  BY DEF With
<1>3. PICK x \in S : r = s[x]
  BY DEF BagOver
<1>4. IsFiniteSet(With(s, S, {r}))
  <2>1. IsFiniteSet(Pairs(s, S)) /\ With(s, S, {r}) \in SUBSET Pairs(s, S)
    BY FibreOf DEF Pairs, With
  <2> QED BY <2>1, FS_Subset
<1>5. <<x, s[x]>> \in With(s, S, {r})
  BY <1>3 DEF With, Pairs
<1>6. Cardinality(With(s, S, {r})) \in Nat /\ Cardinality(With(s, S, {r})) # 0
  BY <1>4, <1>5, FS_CardinalityType, FS_EmptySet
<1>7. b[r] = Cardinality(With(s, S, {r})) /\ b[r] \in Nat /\ b[r] > 0
  BY <1>1, <1>2, <1>6
<1> QED BY <1>3, <1>7

(* No more children are counted than there are objects. *)
LEMMA WithOneMore ==
    ASSUME NEW s, NEW S, IsFiniteSet(S), NEW R, NEW r, r \notin R
    PROVE  Cardinality(With(s, S, R \cup {r})) =
              Cardinality(With(s, S, R)) + Cardinality(With(s, S, {r}))
<1> DEFINE A == With(s, S, R)
           B == With(s, S, {r})
<1>1. IsFiniteSet(Pairs(s, S)) /\ A \in SUBSET Pairs(s, S) /\ B \in SUBSET Pairs(s, S)
  BY FibreOf DEF Pairs, With
<1>2. A \cap B = {} /\ With(s, S, R \cup {r}) = A \cup B
  BY DEF With
<1> HIDE DEF A, B
<1>3. IsFiniteSet(A) /\ IsFiniteSet(B)
  BY <1>1, FS_Subset
<1>4. Cardinality(A \cup B) = Cardinality(A) + Cardinality(B) - Cardinality(A \cap B)
  BY <1>3, FS_Union
<1>5. Cardinality(A) \in Nat /\ Cardinality(B) \in Nat /\ Cardinality(A \cap B) = 0
  BY <1>2, <1>3, FS_CardinalityType, FS_EmptySet
<1> QED BY <1>2, <1>4, <1>5 DEF A, B

LEMMA CountedOnce ==
    ASSUME NEW s, NEW S, IsFiniteSet(S), \A x \in S : IsScore(s[x])
    PROVE  /\ IsBag(BagOver(s, S))
           /\ \A r \in DOMAIN BagOver(s, S) : r.state \in States
           /\ CountOf(BagOver(s, S)) \in Nat /\ CountOf(BagOver(s, S)) <= Cardinality(S)
<1> DEFINE b == BagOver(s, S)
           D == DOMAIN b
           f == CountAt(b)
<1>1. /\ IsFiniteSet(D)
      /\ \A r \in D : /\ b[r] = Cardinality(With(s, S, {r})) /\ b[r] \in Nat
                      /\ IsScore(r)
  <2>1. IsFiniteSet(D)
    BY BagIs
  <2>2. ASSUME NEW r \in D
        PROVE  b[r] = Cardinality(With(s, S, {r})) /\ b[r] \in Nat /\ \E x \in S : r = s[x]
    BY BagHolds
  <2> HIDE DEF b, D
  <2>3. \A r \in D : IsScore(r)
    BY <2>2
  <2> QED BY <2>1, <2>2, <2>3
<1>2. IsBag(b) /\ \A r \in D : r.state \in States
  <2> HIDE DEF b
  <2> QED BY <1>1 DEF IsBag, IsScore
<1> HIDE DEF b
<1>3. CountOf(b) \in Nat /\ CountOf(b) = Sums(f, D)[D] /\ Counts(f, D)
  BY <1>2, CountIsTotal, BagCounts DEF Total
<1>4. \A r \in D : f[r] \in Nat /\ f[r] <= b[r]
  <2> SUFFICES ASSUME NEW r \in D PROVE f[r] \in Nat /\ f[r] <= b[r]
    OBVIOUS
  <2>1. f[r] = IF r.state = Unknown THEN 0 ELSE b[r]
    BY DEF CountAt
  <2>2. b[r] \in Nat
    BY <1>1
  <2> HIDE DEF f
  <2> QED BY <2>1, <2>2
<1> HIDE DEF f, D
<1> DEFINE G == {T \in SUBSET D : Sums(f, D)[T] <= Cardinality(With(s, S, T))}
<1>5. {} \in G
  <2>1. With(s, S, {}) = {}
    BY DEF With
  <2>2. Sums(f, D)[{}] = 0 /\ Cardinality({}) = 0
    BY <1>1, SumOfNone, FS_EmptySet
  <2> QED BY <2>1, <2>2
<1>6. ASSUME NEW T \in SUBSET D, T # {}, Rest(T) \in G PROVE T \in G
  <2> DEFINE y == OneOf(T)
             U == Rest(T)
  <2>0. IsPart(T, D)
    BY <1>6 DEF IsPart
  <2>1. Sums(f, D)[T] = f[y] + Sums(f, D)[U]
    BY <1>1, <2>0, SumsStep
  <2>2. y \in D /\ U \in SUBSET D /\ T = U \cup {y} /\ y \notin U
    BY <2>0, PartSplits
  <2>3. Sums(f, D)[U] <= Cardinality(With(s, S, U))
    BY <1>6
  <2> HIDE DEF y, U
  <2>4. Sums(f, D)[U] \in Nat
    BY <1>1, <1>3, <2>2, SumsAreNumbers
  <2>5. Cardinality(With(s, S, T)) = Cardinality(With(s, S, U)) + Cardinality(With(s, S, {y}))
    BY <2>2, WithOneMore
  <2>6. Cardinality(With(s, S, U)) \in Nat
    <3>1. IsFiniteSet(Pairs(s, S)) /\ With(s, S, U) \in SUBSET Pairs(s, S)
      BY FibreOf DEF With, Pairs
    <3> QED BY <3>1, FS_Subset, FS_CardinalityType
  <2>7. f[y] \in Nat /\ f[y] <= b[y] /\ b[y] = Cardinality(With(s, S, {y})) /\ b[y] \in Nat
    BY <1>1, <1>4, <2>2
  <2>8. Sums(f, D)[T] <= Cardinality(With(s, S, T))
    BY <2>1, <2>3, <2>4, <2>5, <2>6, <2>7
  <2> QED BY <2>8
<1> HIDE DEF G
<1>7. SUBSET D \subseteq G
  BY <1>1, <1>5, <1>6, FiniteInduction
<1>8. Sums(f, D)[D] <= Cardinality(With(s, S, D))
  BY <1>7 DEF G
<1>9. /\ Cardinality(With(s, S, D)) <= Cardinality(S) /\ Cardinality(S) \in Nat
      /\ Cardinality(With(s, S, D)) \in Nat
  <2>1. IsFiniteSet(Pairs(s, S)) /\ Cardinality(Pairs(s, S)) <= Cardinality(S)
    BY FibreOf DEF Pairs
  <2>2. With(s, S, D) \in SUBSET Pairs(s, S)
    BY DEF With
  <2>3. IsFiniteSet(With(s, S, D)) /\ Cardinality(With(s, S, D)) <= Cardinality(Pairs(s, S))
    BY <2>1, <2>2, FS_Subset
  <2> QED BY <2>1, <2>3, FS_CardinalityType
<1>10. CountOf(b) \in Nat /\ CountOf(b) <= Cardinality(S)
  BY <1>3, <1>8, <1>9
<1> QED BY <1>2, <1>10 DEF b, D

(* A roll-up over results that are good: its score, and what it lacks when
   it is unhealthy. *)
LEMMA RollUpIsResult ==
    ASSUME NEW b, IsBag(b), \A r \in DOMAIN b : r.state \in States
    PROVE  Aggregate(b).state \in States /\ Aggregate(b).score \in 0..Unit
<1>1. CASE CountOf(b) = 0
  <2>1. Aggregate(b) = Plain(Unknown)
    BY <1>1 DEF Aggregate
  <2> QED BY <2>1, SimpleResults DEF GoodResult
<1>2. CASE CountOf(b) # 0
  <2>1. SumOf(b) \in Nat /\ CountOf(b) \in Nat /\ SumOf(b) <= Unit * CountOf(b)
    BY SumIsTotal, CountIsTotal, SumIsBounded
  <2>2. SumOf(b) \div CountOf(b) \in 0..Unit
    BY <1>2, <2>1, UnitIsNat, QuotientBelow
  <2>3. WorstOf(b) \in {Healthy, Degraded, Unhealthy}
    <3>1. \A r \in Scored(b) : r.state \in States
      BY DEF Scored
    <3> QED BY <3>1, WorstIsWorst
  <2> QED BY <1>2, <2>2, <2>3, AggregateState, StatesAre
<1> QED BY <1>1, <1>2

LEMMA UnhealthyRollUp ==
    ASSUME NEW b, IsBag(b), \A r \in DOMAIN b : r.state \in States,
           Aggregate(b).state = Unhealthy
    PROVE  \E r \in Scored(b) : r.state = Unhealthy
<1>1. CountOf(b) # 0
  BY StatesAre DEF Aggregate, Plain, Result
<1>2. WorstOf(b) = Unhealthy
  BY <1>1, AggregateState, Ranks
<1>3. \A r \in Scored(b) : r.state \in States
  BY DEF Scored
<1> QED BY <1>2, <1>3, WorstIsWorst

(* What a roll-up over a hard failure lacks, times the number of children. *)
LEMMA RollUpLacks ==
    ASSUME NEW b, IsBag(b), \A r \in DOMAIN b : r.state \in States,
           NEW x \in Scored(b), HardFailure(x)
    PROVE  /\ Aggregate(b).score \in 0..Unit
           /\ (Unit - Aggregate(b).score) * CountOf(b) >= 8 * (Unit \div 10)
<1> DEFINE v == Aggregate(b).score
           n == CountOf(b)
           sum == SumOf(b)
           tenth == Unit \div 10
<1>1. n \in Nat /\ sum \in Nat /\ n # 0 /\ Unit \in Nat /\ tenth \in Nat
  BY CountIsTotal, SumIsTotal, NobodyCounted, UnitIsNat DEF Scored
<1>2. v \in 0..Unit
  BY RollUpIsResult
<1>3. v = sum \div n
  BY <1>1, AggregateState
<1>4. sum + 8 * tenth <= Unit * n
  <2>1. x.score \in Nat /\ x.score <= 2 * tenth
    BY UnitIsNat DEF Scored, IsBag, HardFailure, Tenths
  <2>2. 8 * tenth \in Nat /\ x.score + 8 * tenth <= Unit
    BY <2>1, UnitIsNat
  <2> QED BY <2>2, OneLowScore
<1> HIDE DEF v, n, sum, tenth
<1>5. v * n <= sum
  BY <1>1, <1>3, Quotient
<1>6. (Unit - v) * n = Unit * n - v * n /\ v * n \in Nat /\ Unit * n \in Nat
  BY <1>1, <1>2
<1>7. (Unit - v) * n >= 8 * tenth
  BY <1>1, <1>4, <1>5, <1>6
<1> QED BY <1>2, <1>7 DEF v, n, tenth

(* Of m children one lacks something; k times that is eight tenths or more. *)
LEMMA LackReachesUp ==
    ASSUME NEW b, IsBag(b), \A r \in DOMAIN b : r.state \in States,
           NEW x \in Scored(b), x.state = Unhealthy,
           NEW k \in Nat, NEW m \in Nat, CountOf(b) <= m, m * k < 80,
           (Unit - x.score) * k >= 8 * (Unit \div 10)
    PROVE  Aggregate(b).state = Unhealthy
<1> DEFINE n == CountOf(b)
           sum == SumOf(b)
           t == Unit \div 10
           gap == Unit - x.score
<1>1. n \in Nat /\ sum \in Nat /\ n # 0
  BY CountIsTotal, SumIsTotal, NobodyCounted DEF Scored
<1>2. t \in Nat /\ t >= 1 /\ Unit = 10 * t
  BY UnitIsNat
<1>3. gap \in Nat /\ x.score + gap <= Unit
  BY UnitIsNat DEF Scored, IsBag
<1> HIDE DEF gap, t
<1>4. sum + gap <= Unit * n
  BY <1>3, OneLowScore
<1>5. gap * k >= 8 * t
  BY DEF gap, t
<1>6. WorstOf(b) = Unhealthy
  <2>1. \A r \in Scored(b) : r.state \in States
    BY DEF Scored
  <2> QED BY <2>1, WorstIsWorst
<1> HIDE DEF n, sum
<1>7. n <= m
  BY DEF n
<1>8. 100 * sum < 99 * n * Unit
  <2> SUFFICES ASSUME 100 * sum >= 99 * n * Unit PROVE FALSE
    BY <1>1, <1>2, Means
  <2>1. Unit * n = 10 * (n * t) /\ 99 * n * Unit = 990 * (n * t) /\ n * t \in Nat
    BY <1>1, <1>2
  <2>2. 10 * gap <= n * t
    BY <1>1, <1>3, <1>4, <2>1
  <2>3. \A a, q \in Nat : 10 * a <= q => 10 * (a * k) <= q * k
    <3> SUFFICES ASSUME NEW a \in Nat, NEW q \in Nat, 10 * a <= q PROVE 10 * (a * k) <= q * k
      OBVIOUS
    <3>1. (10 * a) * k <= q * k
      OBVIOUS
    <3> QED BY <3>1
  <2>4. 10 * (gap * k) <= (n * t) * k
    BY <1>3, <2>1, <2>2, <2>3
  <2>5. (n * t) * k = (n * k) * t /\ n * k \in Nat
    BY <1>1, <1>2
  <2>6. n * k <= 79
    <3>1. \A p, q \in Nat : p <= q => p * k <= q * k
      OBVIOUS
    <3>2. n * k <= m * k /\ m * k \in Nat
      BY <1>1, <1>7, <3>1
    <3> QED BY <3>2, <2>5
  <2>7. \A p \in Nat : p <= 79 => p * t <= 79 * t /\ p * t \in Nat
    BY <1>2
  <2>8. (n * k) * t <= 79 * t
    BY <2>5, <2>6, <2>7
  <2>9. gap * k \in Nat /\ 10 * (gap * k) <= 79 * t
    <3>1. gap * k \in Nat
      BY <1>3
    <3>2. 10 * (gap * k) <= (n * k) * t
      BY <2>4, <2>5, Zenon
    <3>3. (n * k) * t \in Nat
      BY <1>2, <2>5
    <3> QED BY <1>2, <2>8, <3>1, <3>2, <3>3
  <2> QED BY <1>2, <1>5, <2>9
<1>9. 100 * sum \in Nat /\ 99 * n * Unit \in Nat
  BY <1>1, <1>2, Means
<1> QED BY <1>1, <1>6, <1>8, <1>9, AggregateState, Ranks DEF n, sum

(* What a graph shows of each object. *)
OwnResults(c) == Scores(c, 0, [x \in DOMAIN c |-> 0])
Ups(c) == RollUps(c, OwnResults(c))
RootOf(c) == Root(c, OwnResults(c), Ups(c))

LEMMA WhatIsShown ==
    ASSUME NEW c, NEW g, g = Built(c)
    PROVE  /\ \A x \in DOMAIN c : x[1] \in Scorable => g.nodes[x].status[1] = OwnResults(c)[x].state
           /\ \A x \in DOMAIN Ups(c) : g.nodes[x].status[1] = Ups(c)[x].state
           /\ g.nodes[ClusterId].status[1] = RootOf(c).state
<1> DEFINE own == OwnResults(c)
           up == Ups(c)
           all == Upsert(Upsert(own, up), Entry(ClusterId, RootOf(c)))
<1>1. g.nodes = [x \in Drawn(c) |-> Content(c, x, all[x])]
  BY DEF Built, buildGraph, OwnResults, Ups, RootOf
<1>2. /\ DOMAIN own = {y \in DOMAIN c : y[1] \in Scorable}
      /\ DOMAIN up = {x \in Drawn(c) : x[1] = "Namespace"}
  BY DEF OwnResults, Ups, Scores, RollUps, Scorable
<1>3. Scorable \subseteq ClusterKinds \cup ScoredKinds /\ "Namespace" \notin Scorable
      /\ ClusterId[1] = "Cluster" /\ "Cluster" \notin Scorable
  BY DEF Scorable, ClusterKinds, ScoredKinds, WorkloadKinds, ClusterId
<1>4. \A x, r : Content(c, x, r).status[1] = r.state
  BY DEF Content
<1> HIDE DEF own, up
<1>5. ASSUME NEW x \in DOMAIN own, x \notin DOMAIN up, x # ClusterId
      PROVE  all[x] = own[x]
  BY <1>5 DEF Upsert, Entry
<1>6. ASSUME NEW x \in DOMAIN up, x # ClusterId
      PROVE  all[x] = up[x]
  BY <1>6 DEF Upsert, Entry
<1>7. all[ClusterId] = RootOf(c)
  BY DEF Upsert, Entry
<1> HIDE DEF all
<1>8. \A x \in Drawn(c) : g.nodes[x].status[1] = all[x].state
  BY <1>1, <1>4
<1>9. /\ \A x \in DOMAIN own : x \in Drawn(c) /\ x \notin DOMAIN up /\ x # ClusterId
      /\ \A x \in DOMAIN up : x \in Drawn(c) /\ x # ClusterId
      /\ ClusterId \in Drawn(c)
  BY <1>2, <1>3 DEF Drawn
<1>10. \A x \in DOMAIN c : x[1] \in Scorable => g.nodes[x].status[1] = own[x].state
  BY <1>2, <1>5, <1>8, <1>9
<1>11. \A x \in DOMAIN up : g.nodes[x].status[1] = up[x].state
  BY <1>6, <1>8, <1>9
<1>12. g.nodes[ClusterId].status[1] = RootOf(c).state
  BY <1>7, <1>8, <1>9
<1> QED BY <1>10, <1>11, <1>12 DEF own, up

LEMMA ChildrenCounted ==
    ASSUME NEW c, Legal(c), NEW g, g = Built(c)
    PROVE  /\ IsFiniteSet(DOMAIN c)
           /\ IsFiniteSet(TopLevel(g))
           /\ TopLevel(g) = OfKind(c, "Node") \cup DOMAIN Ups(c)
           /\ \A n : ObjectsOf(g, n) = Within(c, n) /\ IsFiniteSet(Within(c, n))
<1>1. IsFiniteSet(DOMAIN c)
  <2>1. IsFiniteSet(DOMAIN Contents \cup DOMAIN Lasting)
    BY GraphAssumption, FS_Union
  <2>2. DOMAIN c \in SUBSET (DOMAIN Contents \cup DOMAIN Lasting)
    BY DEF Legal
  <2> QED BY <2>1, <2>2, FS_Subset
<1>2. DOMAIN g.nodes = Drawn(c)
  BY BuiltEdges DEF Built
<1>3. \A x \in DOMAIN c : IsId(x)
  BY GraphAssumption DEF Legal
<1>4. TopLevel(g) = OfKind(c, "Node") \cup DOMAIN Ups(c)
  <2>1. DOMAIN Ups(c) = {x \in Drawn(c) : x[1] = "Namespace"}
    BY DEF Ups, RollUps
  <2>2. {x \in Drawn(c) : x[1] = "Node"} = OfKind(c, "Node")
    BY DEF Drawn, OfKind, ClusterKinds, ClusterId, NamespaceId
  <2> QED BY <1>2, <2>1, <2>2 DEF TopLevel
<1>5. IsFiniteSet(TopLevel(g))
  <2>1. IsFiniteSet(DOMAIN c \cup {ClusterId} \cup {NamespaceId(Watched)})
    BY <1>1, FS_AddElement
  <2>2. TopLevel(g) \in SUBSET (DOMAIN c \cup {ClusterId} \cup {NamespaceId(Watched)})
    BY <1>2 DEF TopLevel, Drawn
  <2> QED BY <2>1, <2>2, FS_Subset
<1>6. ASSUME NEW n PROVE ObjectsOf(g, n) = Within(c, n) /\ IsFiniteSet(Within(c, n))
  <2>1. Within(c, n) \in SUBSET DOMAIN c
    BY DEF Within
  <2>2. \A x \in DOMAIN c : (x[1] \in ClusterKinds => Len(x) = 2) /\ (x[1] \in ScoredKinds => Len(x) = 3)
    <3> SUFFICES ASSUME NEW x \in DOMAIN c
                 PROVE  (x[1] \in ClusterKinds => Len(x) = 2) /\ (x[1] \in ScoredKinds => Len(x) = 3)
      OBVIOUS
    <3>1. CASE x = <<x[1], x[2]>> /\ x[1] \in ClusterKinds
      BY <3>1 DEF ClusterKinds, ScoredKinds, WorkloadKinds
    <3>2. CASE x = <<x[1], x[2], x[3]>> /\ x[1] \in ScoredKinds \cup HelperKinds
      BY <3>2 DEF ClusterKinds, ScoredKinds, WorkloadKinds, HelperKinds
    <3> QED BY <1>3, <3>1, <3>2 DEF IsId
  <2>3. Len(ClusterId) = 1 /\ \A w : Len(NamespaceId(w)) = 2
    BY DEF ClusterId, NamespaceId
  <2>4. ObjectsOf(g, n) = Within(c, n)
    BY <1>2, <2>2, <2>3 DEF ObjectsOf, Within, Drawn
  <2> QED BY <1>1, <2>1, <2>4, FS_Subset
<1> QED BY <1>1, <1>4, <1>5, <1>6

LEMMA BagOfGood ==
    ASSUME NEW s, NEW S, IsFiniteSet(S), \A x \in S : GoodResult(s[x]),
           NEW b, b = BagOver(s, S)
    PROVE  /\ \A r \in Scored(b) : r.state = Unhealthy => HardFailure(r)
           /\ \A x \in S : s[x].state = Unhealthy => s[x] \in Scored(b)
<1>1. ASSUME NEW r \in Scored(b), r.state = Unhealthy PROVE HardFailure(r)
  <2>1. r \in DOMAIN b
    BY DEF Scored
  <2>2. PICK x \in S : r = s[x]
    BY <2>1, BagComesFrom, Zenon
  <2> QED BY <1>1, <2>2 DEF GoodResult
<1>2. ASSUME NEW x \in S, s[x].state = Unhealthy PROVE s[x] \in Scored(b)
  <2>1. s[x] \in DOMAIN b
    BY BagIs
  <2>2. b[s[x]] > 0
    BY <2>1, BagHolds
  <2> QED BY <1>2, <2>1, <2>2, StatesAre DEF Scored
<1> QED BY <1>1, <1>2

(* The children of a namespace, and those of the cluster. *)
LEMMA OfNamespace ==
    ASSUME NEW c, Legal(c), NEW n
    PROVE  LET b == BagOver(OwnResults(c), Within(c, n)) IN
           /\ IsBag(b) /\ \A r \in DOMAIN b : r.state \in States
           /\ \A r \in Scored(b) : r.state = Unhealthy => HardFailure(r)
           /\ \A x \in Within(c, n) :
                 OwnResults(c)[x].state = Unhealthy => OwnResults(c)[x] \in Scored(b)
           /\ CountOf(b) \in Nat /\ CountOf(b) <= Cardinality(Within(c, n))
           /\ Cardinality(Within(c, n)) \in Nat
<1> DEFINE own == OwnResults(c)
           S == Within(c, n)
           b == BagOver(own, S)
<1>1. IsFiniteSet(S) /\ Cardinality(S) \in Nat
  BY ChildrenCounted, FS_CardinalityType
<1>2. \A x \in S : GoodResult(own[x])
  BY OwnIsGood DEF Within, Scorable, OwnResults
<1> HIDE DEF own, S
<1>3. \A x \in S : IsScore(own[x])
  BY <1>2 DEF GoodResult, IsScore
<1>4. IsBag(b) /\ (\A r \in DOMAIN b : r.state \in States)
      /\ CountOf(b) \in Nat /\ CountOf(b) <= Cardinality(S)
  BY <1>1, <1>3, CountedOnce
<1>5. /\ \A r \in Scored(b) : r.state = Unhealthy => HardFailure(r)
      /\ \A x \in S : own[x].state = Unhealthy => own[x] \in Scored(b)
  BY <1>1, <1>2, BagOfGood
<1> QED BY <1>1, <1>4, <1>5 DEF own, S, b

LEMMA NamespaceShows ==
    ASSUME NEW c, Legal(c), NEW x \in DOMAIN c, x[1] \in ScoredKinds,
           OwnResults(c)[x].state = Unhealthy, NamespaceId(x[2]) \in DOMAIN Ups(c),
           Cardinality(Within(c, x[2])) < 80
    PROVE  Ups(c)[NamespaceId(x[2])].state = Unhealthy
<1> DEFINE n == x[2]
           b == BagOver(OwnResults(c), Within(c, n))
           r == OwnResults(c)[x]
<1>1. Ups(c)[NamespaceId(n)] = Aggregate(b)
  BY DEF Ups, RollUps, NamespaceId
<1>2. x \in Within(c, n)
  BY DEF Within
<1>3. r \in Scored(b) /\ HardFailure(r)
  BY <1>2, OfNamespace
<1>4. IsBag(b) /\ (\A q \in DOMAIN b : q.state \in States) /\ CountOf(b) < 80
  BY OfNamespace
<1> HIDE DEF b, r
<1>5. Aggregate(b).state = Unhealthy
  BY <1>3, <1>4, RollUpShowsFailure
<1> QED BY <1>1, <1>5

LEMMA NamespaceLacks ==
    ASSUME NEW c, Legal(c), NEW y \in DOMAIN Ups(c)
    PROVE  /\ IsScore(Ups(c)[y])
           /\ Ups(c)[y].state = Unhealthy =>
                 (Unit - Ups(c)[y].score) * Cardinality(Within(c, y[2])) >= 8 * (Unit \div 10)
<1> DEFINE b == BagOver(OwnResults(c), Within(c, y[2]))
           k == Cardinality(Within(c, y[2]))
<1>1. Ups(c)[y] = Aggregate(b)
  BY DEF Ups, RollUps
<1>2. IsBag(b) /\ (\A r \in DOMAIN b : r.state \in States)
      /\ CountOf(b) \in Nat /\ CountOf(b) <= k /\ k \in Nat
      /\ \A r \in Scored(b) : r.state = Unhealthy => HardFailure(r)
  BY OfNamespace
<1> HIDE DEF b, k
<1>3. IsScore(Aggregate(b))
  BY <1>2, RollUpIsResult DEF IsScore
<1>4. ASSUME Aggregate(b).state = Unhealthy
      PROVE  (Unit - Aggregate(b).score) * k >= 8 * (Unit \div 10)
  <2>1. PICK r \in Scored(b) : r.state = Unhealthy
    BY <1>2, <1>4, UnhealthyRollUp
  <2>2. Aggregate(b).score \in 0..Unit /\ (Unit - Aggregate(b).score) * CountOf(b) >= 8 * (Unit \div 10)
    BY <1>2, <2>1, RollUpLacks
  <2>3. \A d, p, q \in Nat : p <= q => d * p <= d * q /\ d * p \in Nat /\ d * q \in Nat
    OBVIOUS
  <2>4. Unit - Aggregate(b).score \in Nat /\ Unit \div 10 \in Nat
    BY <2>2, UnitIsNat
  <2>5. (Unit - Aggregate(b).score) * CountOf(b) <= (Unit - Aggregate(b).score) * k
        /\ (Unit - Aggregate(b).score) * CountOf(b) \in Nat /\ (Unit - Aggregate(b).score) * k \in Nat
    BY <1>2, <2>3, <2>4
  <2> QED BY <2>2, <2>4, <2>5
<1> QED BY <1>1, <1>3, <1>4 DEF k

LEMMA ClusterShows ==
    ASSUME NEW c, Legal(c), NEW g, g = Built(c), NEW y \in TopLevel(g),
           g.nodes[y].status[1] = Unhealthy,
           y[1] = "Node" => Cardinality(TopLevel(g)) < 80,
           y[1] = "Namespace" => Cardinality(TopLevel(g)) * Cardinality(ObjectsOf(g, y[2])) < 80
    PROVE  g.nodes[ClusterId].status[1] = Unhealthy
<1> DEFINE own == OwnResults(c)
           up == Ups(c)
           s == Upsert(own, up)
           S == OfKind(c, "Node") \cup DOMAIN up
           b == BagOver(s, S)
           m == Cardinality(S)
           t == Unit \div 10
<1>1. TopLevel(g) = S /\ IsFiniteSet(S) /\ m \in Nat
  <2>1. TopLevel(g) = S /\ IsFiniteSet(S)
    BY ChildrenCounted
  <2> QED BY <2>1, FS_CardinalityType
<1>2. RootOf(c) = Aggregate(b)
  BY DEF RootOf, Root
<1>3. /\ \A x \in OfKind(c, "Node") : x \in DOMAIN c /\ x[1] = "Node" /\ x[1] \in Scorable
      /\ \A x \in DOMAIN up : x[1] = "Namespace"
      /\ DOMAIN own = {x \in DOMAIN c : x[1] \in Scorable} /\ "Namespace" \notin Scorable
  BY DEF OfKind, Scorable, ScoredKinds, WorkloadKinds, Ups, RollUps, OwnResults, Scores
<1> HIDE DEF own, up
<1>4. /\ \A x \in OfKind(c, "Node") : s[x] = own[x]
      /\ \A x \in DOMAIN up : s[x] = up[x]
  <2>1. ASSUME NEW x \in OfKind(c, "Node") PROVE s[x] = own[x]
    BY <1>3 DEF Upsert
  <2>2. ASSUME NEW x \in DOMAIN up PROVE s[x] = up[x]
    BY DEF Upsert
  <2> QED BY <2>1, <2>2
<1> HIDE DEF s
<1>5. \A x \in OfKind(c, "Node") : GoodResult(s[x]) /\ s[x].state = g.nodes[x].status[1]
  <2> SUFFICES ASSUME NEW x \in OfKind(c, "Node")
               PROVE  GoodResult(own[x]) /\ own[x].state = g.nodes[x].status[1]
    BY <1>4
  <2> QED BY <1>3, OwnIsGood, WhatIsShown DEF own, OwnResults
<1>6. \A x \in DOMAIN up : IsScore(s[x]) /\ s[x].state = g.nodes[x].status[1]
  <2> SUFFICES ASSUME NEW x \in DOMAIN up
               PROVE  IsScore(up[x]) /\ up[x].state = g.nodes[x].status[1]
    BY <1>4
  <2> QED BY NamespaceLacks, WhatIsShown DEF up
<1>7. \A x \in S : IsScore(s[x])
  BY <1>5, <1>6 DEF GoodResult, IsScore
<1> HIDE DEF S, m
<1>8. IsBag(b) /\ (\A r \in DOMAIN b : r.state \in States) /\ CountOf(b) <= m
  BY <1>1, <1>7, CountedOnce DEF m
<1>9. y \in S /\ s[y].state = Unhealthy
  BY <1>1, <1>5, <1>6 DEF S
<1>10. s[y] \in Scored(b)
  <2>1. s[y] \in DOMAIN b
    BY <1>1, <1>9, BagIs
  <2>2. b[s[y]] > 0
    BY <1>1, <2>1, BagHolds
  <2> HIDE DEF b
  <2> QED BY <1>9, <2>1, <2>2, StatesAre DEF Scored
<1>11. \E k \in Nat : m * k < 80 /\ (Unit - s[y].score) * k >= 8 * t
  <2>1. CASE y \in OfKind(c, "Node")
    <3>1. s[y].score \in 0..Unit /\ s[y].score <= 2 * t
      BY <1>5, <1>9, <2>1 DEF GoodResult, HardFailure, Tenths
    <3>2. (Unit - s[y].score) * 1 >= 8 * t
      BY <3>1, UnitIsNat
    <3>3. m * 1 < 80
      BY <1>1, <1>3, <2>1 DEF m
    <3> QED BY <3>2, <3>3
  <2>2. CASE y \in DOMAIN up
    <3> DEFINE k == Cardinality(Within(c, y[2]))
    <3>1. (Unit - s[y].score) * k >= 8 * t
      BY <1>4, <1>9, <2>2, NamespaceLacks DEF up
    <3>2. k \in Nat
      BY OfNamespace
    <3>3. m * k < 80
      <4>1. ObjectsOf(g, y[2]) = Within(c, y[2])
        BY ChildrenCounted
      <4> QED BY <1>1, <1>3, <2>2, <4>1 DEF m
    <3> HIDE DEF k
    <3> QED BY <3>1, <3>2, <3>3
  <2> QED BY <1>9, <2>1, <2>2 DEF S
<1>12. PICK k \in Nat : m * k < 80 /\ (Unit - s[y].score) * k >= 8 * t
  BY <1>11
<1> HIDE DEF b
<1>13. Aggregate(b).state = Unhealthy
  BY <1>1, <1>8, <1>9, <1>10, <1>12, LackReachesUp
<1> QED BY <1>2, <1>13, WhatIsShown

LEMMA ObjectShows ==
    ASSUME NEW c, Legal(c), NEW g, g = Built(c),
           NEW x \in DOMAIN g.nodes, g.nodes[x].status[1] = Unhealthy, Len(x) = 3,
           NamespaceId(x[2]) \in DOMAIN g.nodes, Cardinality(ObjectsOf(g, x[2])) < 80
    PROVE  g.nodes[NamespaceId(x[2])].status[1] = Unhealthy
<1> DEFINE n == NamespaceId(x[2])
<1>1. DOMAIN g.nodes = Drawn(c)
  BY BuiltEdges DEF Built
<1>2. \A z \in DOMAIN c : IsId(z)
  BY GraphAssumption DEF Legal
<1>3. x \in DOMAIN c /\ x[1] \in ScoredKinds
  <2>1. Len(ClusterId) = 1 /\ Len(NamespaceId(Watched)) = 2
    BY DEF ClusterId, NamespaceId
  <2>2. x \in DOMAIN c /\ x[1] \in ClusterKinds \cup ScoredKinds
    BY <1>1, <2>1 DEF Drawn
  <2>3. x[1] \notin ClusterKinds
    <3>1. IsId(x)
      BY <1>2, <2>2
    <3> QED BY <3>1 DEF IsId, ClusterKinds, ScoredKinds, WorkloadKinds, HelperKinds
  <2> QED BY <2>2, <2>3
<1>4. n \in DOMAIN Ups(c)
  BY <1>1 DEF Ups, RollUps, NamespaceId
<1>5. OwnResults(c)[x].state = Unhealthy
  BY <1>3, WhatIsShown DEF Scorable
<1>6. Cardinality(Within(c, x[2])) < 80
  BY <1>4, ChildrenCounted DEF NamespaceId, TopLevel
<1>7. Ups(c)[n].state = Unhealthy
  BY <1>3, <1>4, <1>5, <1>6, NamespaceShows
<1> QED BY <1>4, <1>7, WhatIsShown

(* An unhealthy object in its namespace, a node or a namespace in the root. *)
LEMMA FailureShows == GInv => FailureReachesTheRoot
<1> SUFFICES ASSUME GInv, NEW x \in DOMAIN graph.nodes, State(x) = Unhealthy
             PROVE  /\ /\ Len(x) = 3 /\ NamespaceId(x[2]) \in DOMAIN graph.nodes
                       /\ Cardinality(ObjectsOf(graph, x[2])) < 80
                       => State(NamespaceId(x[2])) = Unhealthy
                    /\ x[1] = "Node" /\ Cardinality(TopLevel(graph)) < 80
                       => State(ClusterId) = Unhealthy
                    /\ /\ x[1] = "Namespace"
                       /\ Cardinality(TopLevel(graph)) * Cardinality(ObjectsOf(graph, x[2])) < 80
                       => State(ClusterId) = Unhealthy
  BY DEF FailureReachesTheRoot
<1>1. PICK c : Legal(c) /\ graph = Built(c)
  BY DEF GInv, GraphIsBuilt
<1>2. ASSUME Len(x) = 3, NamespaceId(x[2]) \in DOMAIN graph.nodes,
             Cardinality(ObjectsOf(graph, x[2])) < 80
      PROVE  State(NamespaceId(x[2])) = Unhealthy
  BY <1>1, <1>2, ObjectShows DEF State
<1>3. ASSUME x[1] = "Node", Cardinality(TopLevel(graph)) < 80
      PROVE  State(ClusterId) = Unhealthy
  <2>1. x \in TopLevel(graph)
    BY <1>3 DEF TopLevel
  <2> QED BY <1>1, <1>3, <2>1, ClusterShows DEF State
<1>4. ASSUME x[1] = "Namespace",
             Cardinality(TopLevel(graph)) * Cardinality(ObjectsOf(graph, x[2])) < 80
      PROVE  State(ClusterId) = Unhealthy
  <2>1. x \in TopLevel(graph)
    BY <1>4 DEF TopLevel
  <2> QED BY <1>1, <1>4, <2>1, ClusterShows DEF State
<1> QED BY <1>2, <1>3, <1>4

-----------------------------------------------------------------------------
(***************************************************************************)
(* A scrape and the graph: every sample is made from what a node of the    *)
(* graph is made from.                                                     *)
(***************************************************************************)
(* A sum of a field, and one over a table of containers. *)
LEMMA SumOfValues ==
    ASSUME NEW R
    PROVE  MapThenSumSet(LAMBDA r : r.value, R) = Total([r \in R |-> r.value], R)
<1> DEFINE f == [r \in R |-> r.value]
           A(g) == [T \in SUBSET R |-> PlusStep(f, g, T)]
           B(g) == [T \in SUBSET R |-> IF T = {} THEN 0 ELSE OneOf(T).value + g[T \ {OneOf(T)}]]
<1>1. ASSUME NEW g PROVE A(g) = B(g)
  <2>1. \A T \in SUBSET R : T # {} => f[OneOf(T)] = OneOf(T).value
    BY OneOfIsIn
  <2> HIDE DEF f
  <2>2. \A T \in SUBSET R : PlusStep(f, g, T) = B(g)[T]
    BY <2>1, Zenon DEF PlusStep
  <2> QED BY <2>2
<1>2. (CHOOSE g : g = A(g)) = (CHOOSE g : g = B(g))
  <2> HIDE DEF A, B
  <2> QED BY <1>1
<1>3. MapThenSumSet(LAMBDA r : r.value, R) = (CHOOSE g : g = B(g))[R]
  BY Zenon DEF MapThenSumSet, MapThenFoldSet, OneOf
<1> QED BY <1>2, <1>3 DEF Total, Sums

LEMMA SumOfRestarts ==
    ASSUME NEW pod
    PROVE  totalRestarts(pod) =
              Total([k \in DOMAIN pod.containers |-> pod.containers[k].restarts], DOMAIN pod.containers)
<1> DEFINE K == DOMAIN pod.containers
           f == [k \in K |-> pod.containers[k].restarts]
           A(g) == [T \in SUBSET K |-> PlusStep(f, g, T)]
           B(g) == [T \in SUBSET K |-> IF T = {} THEN 0
                                     ELSE pod.containers[OneOf(T)].restarts + g[T \ {OneOf(T)}]]
<1> HIDE DEF K
<1>1. ASSUME NEW g PROVE A(g) = B(g)
  <2>1. \A T \in SUBSET K : T # {} => f[OneOf(T)] = pod.containers[OneOf(T)].restarts
    BY OneOfIsIn
  <2> HIDE DEF f
  <2>2. \A T \in SUBSET K : PlusStep(f, g, T) = B(g)[T]
    BY <2>1, Zenon DEF PlusStep
  <2> QED BY <2>2
<1>2. (CHOOSE g : g = A(g)) = (CHOOSE g : g = B(g))
  <2> HIDE DEF A, B
  <2> QED BY <1>1
<1>3. MapThenSumSet(LAMBDA k : pod.containers[k].restarts, K) = (CHOOSE g : g = B(g))[K]
  BY Zenon DEF MapThenSumSet, MapThenFoldSet, OneOf
<1>4. totalRestarts(pod) = Sums(f, K)[K]
  BY <1>2, <1>3 DEF totalRestarts, K, Sums
<1> QED BY <1>4 DEF Total, K

-----------------------------------------------------------------------------
(* What each series of a scrape stands for. *)
ValueOf(c, g, q) ==
    CASE q[1] = "node_ready" -> OneIf(c[q[2]].ready = "True")
      [] q[1] = "node_condition" -> OneIf(q[3] \in c[q[2]].pressures)
      [] q[1] = "pod_container_restarts" -> c[q[2]].containers[q[3]].restarts
      [] q[1] = "pod_health_status" -> PodPhaseValue(Pod(c[q[2]], 0).state)
      [] q[1] = "pod_restart_rate" -> 0
      [] q[1] = "workload_ready" -> c[q[2]].ready
      [] q[1] = "workload_desired" -> Desired(c[q[2]], q[2][1])
      [] q[1] = "pv_status" -> 1
      [] q[1] = "pvc_status" -> 1
      [] q[1] = "pvc_pending_seconds" ->
           IF c[q[2]].phase = "Pending" THEN 0 - c[q[2]].created ELSE 0
      [] q[1] = "service_endpoints_ready" -> endpointsFor(c, q[2]).ready
      [] q[1] = "health_score" -> g.nodes[q[2]].status[2]

Scraped(c, g) == Collect(c, 0, [x \in DOMAIN c |-> 0], g)
Shown(c) == {x \in DOMAIN c : x[1] \in ClusterKinds \cup ScoredKinds}
Told(c, g, r) ==
    /\ r = Sample(r.series, ValueOf(c, g, r.series))
    /\ r.series[2] \in Shown(c) \cup DOMAIN g.nodes

LEMMA ToldOfNodes ==
    ASSUME NEW c, NEW g, NEW r \in NodeGauges(c)
    PROVE  Told(c, g, r) /\ r.series[1] # "pod_container_restarts"
<1>1. \A x \in OfKind(c, "Node") : x \in Shown(c)
  BY DEF OfKind, Shown, ClusterKinds
<1>2. CASE \E x \in OfKind(c, "Node") : r = Sample(<<"node_ready", x>>, OneIf(c[x].ready = "True"))
  BY <1>1, <1>2 DEF Told, ValueOf, Sample
<1>3. CASE \E x \in OfKind(c, "Node"), k \in NodeConditions :
              r = Sample(<<"node_condition", x, k>>, OneIf(k \in c[x].pressures))
  BY <1>1, <1>3 DEF Told, ValueOf, Sample
<1> QED BY <1>2, <1>3 DEF NodeGauges

LEMMA ToldOfRestarts ==
    ASSUME NEW c, NEW g, NEW r \in RestartCounters(c)
    PROVE  Told(c, g, r)
<1>1. PICK x \in OfKind(c, "Pod") : \E k \in DOMAIN c[x].containers :
              r = Sample(<<"pod_container_restarts", x, k>>, c[x].containers[k].restarts)
  BY DEF RestartCounters
<1>2. x \in Shown(c)
  BY DEF OfKind, Shown, ScoredKinds
<1> QED BY <1>1, <1>2 DEF Told, ValueOf, Sample

LEMMA ToldOfPods ==
    ASSUME NEW c, NEW g, NEW r \in PodGauges(c, [x \in DOMAIN c |-> 0])
    PROVE  Told(c, g, r) /\ r.series[1] # "pod_container_restarts"
<1>1. \A x \in OfKind(c, "Pod") : x \in Shown(c) /\ [y \in DOMAIN c |-> 0][x] = 0
  BY DEF OfKind, Shown, ScoredKinds
<1>2. CASE \E x \in OfKind(c, "Pod") :
              r = Sample(<<"pod_health_status", x, c[x].phase>>, PodPhaseValue(Pod(c[x], 0).state))
  BY <1>1, <1>2 DEF Told, ValueOf, Sample
<1>3. CASE \E x \in OfKind(c, "Pod") : r = Sample(<<"pod_restart_rate", x>>, 0)
  BY <1>1, <1>3 DEF Told, ValueOf, Sample
<1> QED BY <1>1, <1>2, <1>3 DEF PodGauges

LEMMA ToldOfWorkloads ==
    ASSUME NEW c, NEW g, NEW r \in WorkloadGauges(c)
    PROVE  Told(c, g, r) /\ r.series[1] # "pod_container_restarts"
<1> DEFINE W == {x \in DOMAIN c : x[1] \in WorkloadKinds}
<1>1. \A x \in W : x \in Shown(c)
  BY DEF Shown, ScoredKinds
<1>2. CASE \E x \in W : r = Sample(<<"workload_ready", x>>, c[x].ready)
  BY <1>1, <1>2 DEF Told, ValueOf, Sample
<1>3. CASE \E x \in W : r = Sample(<<"workload_desired", x>>, Desired(c[x], x[1]))
  BY <1>1, <1>3 DEF Told, ValueOf, Sample
<1> QED BY <1>2, <1>3 DEF WorkloadGauges

LEMMA ToldOfVolumes ==
    ASSUME NEW c, NEW g, NEW r \in VolumeGauges(c, 0)
    PROVE  Told(c, g, r) /\ r.series[1] # "pod_container_restarts"
<1>1. /\ \A x \in OfKind(c, "PersistentVolume") : x \in Shown(c)
      /\ \A x \in OfKind(c, "PersistentVolumeClaim") : x \in Shown(c)
  BY DEF OfKind, Shown, ScoredKinds, ClusterKinds
<1>2. CASE \E x \in OfKind(c, "PersistentVolume") : r = Sample(<<"pv_status", x, c[x].phase>>, 1)
  BY <1>1, <1>2 DEF Told, ValueOf, Sample
<1>3. CASE \E x \in OfKind(c, "PersistentVolumeClaim") : r = Sample(<<"pvc_status", x, c[x].phase>>, 1)
  BY <1>1, <1>3 DEF Told, ValueOf, Sample
<1>4. CASE \E x \in OfKind(c, "PersistentVolumeClaim") :
              r = Sample(<<"pvc_pending_seconds", x>>,
                         IF c[x].phase = "Pending" THEN 0 - c[x].created ELSE 0)
  BY <1>1, <1>4 DEF Told, ValueOf, Sample
<1> QED BY <1>2, <1>3, <1>4 DEF VolumeGauges

LEMMA ToldOfServices ==
    ASSUME NEW c, NEW g, NEW r \in ServiceGauges(c)
    PROVE  Told(c, g, r) /\ r.series[1] # "pod_container_restarts"
<1>1. \A x \in OfKind(c, "Service") : x \in Shown(c)
  BY DEF OfKind, Shown, ScoredKinds
<1>2. PICK x \in OfKind(c, "Service") :
         r = Sample(<<"service_endpoints_ready", x>>, endpointsFor(c, x).ready)
  BY DEF ServiceGauges
<1> QED BY <1>1, <1>2 DEF Told, ValueOf, Sample

LEMMA ToldOfRollUps ==
    ASSUME NEW c, NEW g, NEW r \in RollUpGauges(g)
    PROVE  Told(c, g, r) /\ r.series[1] # "pod_container_restarts"
<1>1. PICK x \in DOMAIN g.nodes : r = Sample(<<"health_score", x>>, g.nodes[x].status[2])
  BY DEF RollUpGauges
<1> QED BY <1>1 DEF Told, ValueOf, Sample

(* Every sample of a scrape is about a node of the graph, and its series
   decides its value. *)
LEMMA EverySampleIsTold ==
    ASSUME NEW c, NEW g, NEW r \in Scraped(c, g)
    PROVE  Told(c, g, r) /\ (r.series[1] = "pod_container_restarts" => r \in RestartCounters(c))
<1>1. CASE r \in RestartCounters(c)
  BY <1>1, ToldOfRestarts
<1>2. CASE r \in NodeGauges(c)
  BY <1>2, ToldOfNodes
<1>3. CASE r \in PodGauges(c, [x \in DOMAIN c |-> 0])
  BY <1>3, ToldOfPods
<1>4. CASE r \in WorkloadGauges(c)
  BY <1>4, ToldOfWorkloads
<1>5. CASE r \in VolumeGauges(c, 0)
  BY <1>5, ToldOfVolumes
<1>6. CASE r \in ServiceGauges(c)
  BY <1>6, ToldOfServices
<1>7. CASE r \in RollUpGauges(g)
  BY <1>7, ToldOfRollUps
<1> QED BY <1>1, <1>2, <1>3, <1>4, <1>5, <1>6, <1>7 DEF Scraped, Collect

(* The counters of the containers of a pod. *)
LEMMA RestartsAddUp ==
    ASSUME NEW c, NEW g, NEW x \in DOMAIN c, x[1] = "Pod",
           IsFiniteSet(DOMAIN c[x].containers),
           \A k \in DOMAIN c[x].containers : c[x].containers[k].restarts \in Nat
    PROVE  totalRestarts(c[x]) =
              MapThenSumSet(LAMBDA r : r.value,
                 {r \in Scraped(c, g) : r.series[1] = "pod_container_restarts" /\ r.series[2] = x})
<1> DEFINE R == {r \in Scraped(c, g) : r.series[1] = "pod_container_restarts" /\ r.series[2] = x}
           K == DOMAIN c[x].containers
           f == [k \in K |-> c[x].containers[k].restarts]
           h == [k \in K |-> Sample(<<"pod_container_restarts", x, k>>, f[k])]
           v == [r \in R |-> r.value]
<1>1. \A k \in K : h[k] = Sample(<<"pod_container_restarts", x, k>>, c[x].containers[k].restarts)
  OBVIOUS
<1>2. ASSUME NEW k \in K PROVE h[k] \in R
  <2>1. h[k] \in RestartCounters(c)
    <3>1. x \in OfKind(c, "Pod")
      BY DEF OfKind
    <3>2. h[k] \in {Sample(<<"pod_container_restarts", x, l>>, c[x].containers[l].restarts) :
                       l \in DOMAIN c[x].containers}
      BY <1>1
    <3> HIDE DEF h
    <3> QED BY <3>1, <3>2, Zenon DEF RestartCounters
  <2>2. h[k] \in Scraped(c, g)
    BY <2>1 DEF Scraped, Collect
  <2>3. h[k].series[1] = "pod_container_restarts" /\ h[k].series[2] = x
    BY <1>1 DEF Sample
  <2> HIDE DEF h
  <2> QED BY <2>2, <2>3
<1>3. ASSUME NEW r \in R PROVE \E k \in K : r = h[k]
  <2>1. r \in RestartCounters(c) /\ r.series[2] = x
    BY EverySampleIsTold
  <2>2. PICK y \in OfKind(c, "Pod") : \E k \in DOMAIN c[y].containers :
           r = Sample(<<"pod_container_restarts", y, k>>, c[y].containers[k].restarts)
    BY <2>1 DEF RestartCounters
  <2>3. PICK k \in DOMAIN c[y].containers :
           r = Sample(<<"pod_container_restarts", y, k>>, c[y].containers[k].restarts)
    BY <2>2
  <2>4. y = x
    BY <2>1, <2>3 DEF Sample
  <2> QED BY <1>1, <2>3, <2>4
<1>4. \A k \in K : v[h[k]] = f[k]
  BY <1>1, <1>2 DEF Sample
<1>5. \A k, l \in K : h[k] = h[l] => k = l
  BY <1>1 DEF Sample
<1>6. \A r \in R : v[r] \in Nat
  <2> SUFFICES ASSUME NEW r \in R PROVE v[r] \in Nat
    OBVIOUS
  <2>1. PICK k \in K : r = h[k]
    BY <1>3
  <2>2. v[h[k]] = f[k] /\ f[k] \in Nat
    BY <1>4
  <2> QED BY <2>1, <2>2
<1> HIDE DEF R, K, f, h, v
<1>7. {h[k] : k \in K} = R
  BY <1>2, <1>3
<1>8. IsFiniteSet(R)
  <2> DEFINE q == [k \in K |-> h[k]]
  <2>1. q \in Surjection(K, R)
    BY <1>2, <1>3 DEF Surjection
  <2>2. IsFiniteSet(K)
    BY DEF K
  <2> HIDE DEF q
  <2> QED BY <2>1, <2>2, FS_Surjection
<1>9. Counts(v, R) /\ Carries(h, K, R, f, v)
  BY <1>2, <1>4, <1>5, <1>6 DEF Counts, Carries
<1>10. Sums(v, R)[{h[k] : k \in K}] = Sums(f, K)[K]
  <2>1. \A T \in SUBSET K : Sums(v, R)[{h[k] : k \in T}] = Sums(f, K)[T]
    BY <1>8, <1>9, SumsCarried DEF K
  <2> QED BY <2>1
<1>11. Total(v, R) = Total(f, K)
  BY <1>7, <1>10 DEF Total
<1>12. totalRestarts(c[x]) = Total(f, K)
  BY SumOfRestarts DEF f, K
<1>13. MapThenSumSet(LAMBDA r : r.value, R) = Total(v, R)
  BY SumOfValues DEF v
<1> QED BY <1>11, <1>12, <1>13 DEF R

(* What the graph shows of an object that is cached, and of its meta map. *)
LEMMA ShownOfCached ==
    ASSUME NEW c, Legal(c), NEW g, g = Built(c), NEW x \in Shown(c)
    PROVE  g.nodes[x].meta = Meta(c, x)
BY DEF Built, buildGraph, Content, Shown, Drawn

LEMMA MetaAlways ==
    ASSUME NEW c, Legal(c), NEW x \in DOMAIN c, NEW k \in Needed(x[1])
    PROVE  Meta(c, x)[k] = Always(c, x)[k]
BY CachedIsId, MetaOf

LEMMA MetaOfPod ==
    ASSUME NEW c, Legal(c), NEW x \in DOMAIN c, x[1] = "Pod"
    PROVE  /\ Meta(c, x)["phase"] = c[x].phase
           /\ Meta(c, x)["restarts"] = ToString(totalRestarts(c[x]))
<1>1. {"phase", "restarts"} \subseteq Needed(x[1])
  BY DEF Needed, WorkloadKinds
<1>2. Meta(c, x)["phase"] = Always(c, x)["phase"] /\ Meta(c, x)["restarts"] = Always(c, x)["restarts"]
  BY <1>1, MetaAlways
<1>3. Always(c, x)["phase"] = c[x].phase /\ Always(c, x)["restarts"] = ToString(totalRestarts(c[x]))
  BY DEF Always, WorkloadKinds
<1> QED BY <1>2, <1>3

LEMMA ResultOf ==
    ASSUME NEW c, NEW x \in DOMAIN c
    PROVE  /\ x[1] = "Pod" => OwnResults(c)[x] = Pod(c[x], 0)
           /\ x[1] = "Node" => OwnResults(c)[x] = Node(c[x])
<1>1. CASE x[1] = "Pod"
  <2>1. x \in {y \in DOMAIN c : y[1] \in ScoredKinds \cup {"Node", "PersistentVolume"}}
    BY <1>1 DEF ScoredKinds
  <2> HIDE DEF ScoredKinds
  <2> QED BY <1>1, <2>1 DEF OwnResults, Scores
<1>2. CASE x[1] = "Node"
  BY <1>2 DEF OwnResults, Scores
<1> QED BY <1>1, <1>2

LEMMA InScrape ==
    ASSUME NEW c, NEW g
    PROVE  /\ NodeGauges(c) \subseteq Scraped(c, g)
           /\ PodGauges(c, [x \in DOMAIN c |-> 0]) \subseteq Scraped(c, g)
           /\ WorkloadGauges(c) \subseteq Scraped(c, g)
           /\ VolumeGauges(c, 0) \subseteq Scraped(c, g)
           /\ ServiceGauges(c) \subseteq Scraped(c, g)
           /\ RollUpGauges(g) \subseteq Scraped(c, g)
BY DEF Scraped, Collect

LEMMA PodScrape ==
    ASSUME NEW c, Legal(c), NEW g, g = Built(c), NEW x \in DOMAIN c, x[1] = "Pod"
    PROVE  LET s == Scraped(c, g)
               meta == g.nodes[x].meta
           IN  /\ HasSample(s, <<"pod_health_status", x, meta.phase>>,
                            PodPhaseValue(g.nodes[x].status[1]))
               /\ meta.restarts = ToString(MapThenSumSet(LAMBDA r : r.value,
                     {r \in s : r.series[1] = "pod_container_restarts" /\ r.series[2] = x}))
<1>1. x \in Shown(c) /\ x \in OfKind(c, "Pod") /\ x[1] \in Scorable
  BY DEF Shown, OfKind, ScoredKinds, Scorable
<1>2. g.nodes[x].meta = Meta(c, x)
  BY <1>1, ShownOfCached
<1>3. g.nodes[x].status[1] = Pod(c[x], 0).state
  <2>1. g.nodes[x].status[1] = OwnResults(c)[x].state
    BY <1>1, WhatIsShown
  <2> QED BY <2>1, ResultOf
<1>4. Sample(<<"pod_health_status", x, c[x].phase>>, PodPhaseValue(Pod(c[x], 0).state))
         \in PodGauges(c, [y \in DOMAIN c |-> 0])
  <2>1. [y \in DOMAIN c |-> 0][x] = 0
    OBVIOUS
  <2> QED BY <1>1, <2>1 DEF PodGauges
<1>5. IsFiniteSet(DOMAIN c[x].containers)
      /\ \A k \in DOMAIN c[x].containers : c[x].containers[k].restarts \in Nat
  BY OutputsAssumption DEF Legal
<1>6. totalRestarts(c[x]) = MapThenSumSet(LAMBDA r : r.value,
         {r \in Scraped(c, g) : r.series[1] = "pod_container_restarts" /\ r.series[2] = x})
  BY <1>5, RestartsAddUp
<1>7. HasSample(Scraped(c, g), <<"pod_health_status", x, c[x].phase>>,
                PodPhaseValue(g.nodes[x].status[1]))
  BY <1>3, <1>4, InScrape DEF HasSample
<1>8. Meta(c, x).phase = c[x].phase /\ Meta(c, x).restarts = ToString(totalRestarts(c[x]))
  BY MetaOfPod
<1> QED BY <1>2, <1>6, <1>7, <1>8

LEMMA NodeScrape ==
    ASSUME NEW c, Legal(c), NEW g, g = Built(c), NEW x \in DOMAIN c, x[1] = "Node"
    PROVE  HasSample(Scraped(c, g), <<"node_ready", x>>,
                     OneIf(g.nodes[x].status[1] \notin {Unhealthy, Unknown}))
<1>1. x \in OfKind(c, "Node") /\ x[1] \in Scorable
  BY DEF OfKind, Scorable
<1>2. g.nodes[x].status[1] = Node(c[x]).state
  <2>1. g.nodes[x].status[1] = OwnResults(c)[x].state
    BY <1>1, WhatIsShown
  <2> QED BY <2>1, ResultOf
<1>3. c[x].ready \in {"True", "False", "Unknown"}
  BY OutputsAssumption DEF Legal
<1>4. c[x].ready = "True" <=> Node(c[x]).state \notin {Unhealthy, Unknown}
  BY <1>3 DEF Node, Result, Plain, Healthy, Degraded, Unhealthy, Unknown
<1>5. Sample(<<"node_ready", x>>, OneIf(c[x].ready = "True")) \in NodeGauges(c)
  BY <1>1 DEF NodeGauges
<1>6. OneIf(c[x].ready = "True") = OneIf(g.nodes[x].status[1] \notin {Unhealthy, Unknown})
  BY <1>2, <1>4 DEF OneIf
<1> QED BY <1>5, <1>6, InScrape DEF HasSample

HasReplicas(s, x, meta) ==
    \E r \in s, d \in s :
       /\ r.series = <<"workload_ready", x>> /\ d.series = <<"workload_desired", x>>
       /\ meta.ready = ToString(<<r.value, d.value>>)
HasEndpoints(s, x, meta) ==
    \E r \in s : r.series = <<"service_endpoints_ready", x>> /\ meta.endpoints = ToString(r.value)

LEMMA WorkloadScrape ==
    ASSUME NEW c, Legal(c), NEW g, g = Built(c), NEW x \in DOMAIN c, x[1] \in WorkloadKinds
    PROVE  HasReplicas(Scraped(c, g), x, g.nodes[x].meta)
<1> DEFINE r == Sample(<<"workload_ready", x>>, c[x].ready)
           d == Sample(<<"workload_desired", x>>, Desired(c[x], x[1]))
<1>1. r \in WorkloadGauges(c) /\ d \in WorkloadGauges(c)
  BY DEF WorkloadGauges
<1>2. r \in Scraped(c, g) /\ d \in Scraped(c, g)
  BY <1>1, InScrape
<1>3. r.series = <<"workload_ready", x>> /\ r.value = c[x].ready
      /\ d.series = <<"workload_desired", x>> /\ d.value = Desired(c[x], x[1])
  BY DEF Sample
<1>4. x \in Shown(c)
  BY DEF Shown, ScoredKinds
<1>5. g.nodes[x].meta = Meta(c, x)
  BY <1>4, ShownOfCached
<1>6. Always(c, x)["ready"] = ToString(<<c[x].ready, Desired(c[x], x[1])>>)
  <2>1. CASE x[1] = "DaemonSet"
    BY <2>1 DEF Always, Desired, WorkloadKinds
  <2>2. CASE x[1] \in {"Deployment", "StatefulSet"}
    BY <2>2 DEF Always, Desired, Replicas, WorkloadKinds
  <2> QED BY <2>1, <2>2 DEF WorkloadKinds
<1>7. Meta(c, x).ready = ToString(<<c[x].ready, Desired(c[x], x[1])>>)
  <2>1. "ready" \in Needed(x[1])
    BY DEF Needed, WorkloadKinds
  <2> QED BY <1>6, <2>1, MetaAlways
<1> HIDE DEF r, d
<1> QED BY <1>2, <1>3, <1>5, <1>7 DEF HasReplicas

LEMMA ServiceScrape ==
    ASSUME NEW c, Legal(c), NEW g, g = Built(c), NEW x \in DOMAIN c, x[1] = "Service"
    PROVE  HasEndpoints(Scraped(c, g), x, g.nodes[x].meta)
<1> DEFINE r == Sample(<<"service_endpoints_ready", x>>, endpointsFor(c, x).ready)
<1>1. r \in ServiceGauges(c)
  BY DEF ServiceGauges, OfKind
<1>2. r \in Scraped(c, g)
  BY <1>1, InScrape
<1>3. r.series = <<"service_endpoints_ready", x>> /\ r.value = endpointsFor(c, x).ready
  BY DEF Sample
<1>4. x \in Shown(c)
  BY DEF Shown, ScoredKinds
<1>5. g.nodes[x].meta = Meta(c, x)
  BY <1>4, ShownOfCached
<1>6. Always(c, x)["endpoints"] = ToString(endpointsFor(c, x).ready)
  BY DEF Always, WorkloadKinds
<1>7. Meta(c, x).endpoints = ToString(endpointsFor(c, x).ready)
  <2>1. "endpoints" \in Needed(x[1])
    BY DEF Needed, WorkloadKinds
  <2> QED BY <1>6, <2>1, MetaAlways
<1> HIDE DEF r
<1> QED BY <1>2, <1>3, <1>5, <1>7 DEF HasEndpoints

LEMMA VolumeScrape ==
    ASSUME NEW c, Legal(c), NEW g, g = Built(c), NEW x \in DOMAIN c
    PROVE  /\ x[1] = "PersistentVolumeClaim" =>
                 HasSample(Scraped(c, g), <<"pvc_status", x, g.nodes[x].meta.phase>>, 1)
           /\ x[1] = "PersistentVolume" =>
                 HasSample(Scraped(c, g), <<"pv_status", x, g.nodes[x].meta.phase>>, 1)
<1>1. CASE x[1] = "PersistentVolumeClaim"
  <2>1. x \in Shown(c) /\ x \in OfKind(c, "PersistentVolumeClaim")
    BY <1>1 DEF Shown, ScoredKinds, OfKind
  <2>2. g.nodes[x].meta = Meta(c, x)
    BY <2>1, ShownOfCached
  <2>3. Meta(c, x)["phase"] = c[x].phase
    BY <1>1, MetaOfClaim DEF ClaimMeta
  <2>4. Sample(<<"pvc_status", x, c[x].phase>>, 1) \in VolumeGauges(c, 0)
    BY <2>1 DEF VolumeGauges
  <2>5. HasSample(Scraped(c, g), <<"pvc_status", x, c[x].phase>>, 1)
    BY <2>4, InScrape DEF HasSample
  <2> QED BY <1>1, <2>2, <2>3, <2>5
<1>2. CASE x[1] = "PersistentVolume"
  <2>1. x \in Shown(c) /\ x \in OfKind(c, "PersistentVolume")
    BY <1>2 DEF Shown, ClusterKinds, OfKind
  <2>2. g.nodes[x].meta = Meta(c, x)
    BY <2>1, ShownOfCached
  <2>3. Meta(c, x)["phase"] = c[x].phase
    <3>1. "phase" \in Needed(x[1]) /\ Always(c, x)["phase"] = c[x].phase
      BY <1>2 DEF Needed, Always, WorkloadKinds
    <3> QED BY <3>1, MetaAlways
  <2>4. Sample(<<"pv_status", x, c[x].phase>>, 1) \in VolumeGauges(c, 0)
    BY <2>1 DEF VolumeGauges
  <2>5. HasSample(Scraped(c, g), <<"pv_status", x, c[x].phase>>, 1)
    BY <2>4, InScrape DEF HasSample
  <2> QED BY <1>2, <2>2, <2>3, <2>5
<1> QED BY <1>1, <1>2

LEMMA RollUpScrape ==
    ASSUME NEW c, NEW g, NEW x \in DOMAIN g.nodes, x[1] \in {"Namespace", "Cluster"}
    PROVE  HasSample(Scraped(c, g), <<"health_score", x>>, g.nodes[x].status[2])
<1>1. Sample(<<"health_score", x>>, g.nodes[x].status[2]) \in RollUpGauges(g)
  BY DEF RollUpGauges
<1> QED BY <1>1, InScrape DEF HasSample

LEMMA ScrapeMatches == GInv => ScrapeMatchesGraph
<1> SUFFICES ASSUME GInv, behind = 0 PROVE ScrapeMatchesGraph
  BY DEF ScrapeMatchesGraph
<1> DEFINE s == Collect(caches, 0, NoRates, graph)
           meta(x) == graph.nodes[x].meta
           pod(x) ==
              /\ HasSample(s, <<"pod_health_status", x, meta(x).phase>>, PodPhaseValue(State(x)))
              /\ meta(x).restarts = ToString(MapThenSumSet(LAMBDA r : r.value,
                    {r \in s : r.series[1] = "pod_container_restarts" /\ r.series[2] = x}))
           node(x) == HasSample(s, <<"node_ready", x>>, OneIf(State(x) \notin {Unhealthy, Unknown}))
           workload(x) ==
              \E r \in s, d \in s :
                 /\ r.series = <<"workload_ready", x>> /\ d.series = <<"workload_desired", x>>
                 /\ meta(x).ready = ToString(<<r.value, d.value>>)
           service(x) ==
              \E r \in s : r.series = <<"service_endpoints_ready", x>>
                           /\ meta(x).endpoints = ToString(r.value)
           claim(x) == HasSample(s, <<"pvc_status", x, meta(x).phase>>, 1)
           volume(x) == HasSample(s, <<"pv_status", x, meta(x).phase>>, 1)
           rollUp(x) == HasSample(s, <<"health_score", x>>, graph.nodes[x].status[2])
           All(x) ==
              CASE x[1] = "Pod" -> pod(x)
                [] x[1] = "Node" -> node(x)
                [] x[1] \in WorkloadKinds -> workload(x)
                [] x[1] = "Service" -> service(x)
                [] x[1] = "PersistentVolumeClaim" -> claim(x)
                [] x[1] = "PersistentVolume" -> volume(x)
                [] OTHER -> rollUp(x)
<1>1. Legal(caches) /\ graph = Built(caches) /\ s = Scraped(caches, graph)
  BY DEF GInv, UpToDate, NoRates, Built, Scraped
<1>2. DOMAIN graph.nodes = Drawn(caches)
  BY <1>1, BuiltEdges DEF Built
<1>3. \A x \in DOMAIN graph.nodes :
         \/ x \in DOMAIN caches /\ x[1] \in ScoredKinds \cup {"Node", "PersistentVolume"}
         \/ x[1] \in {"Namespace", "Cluster"}
  BY <1>2 DEF Drawn, ClusterKinds, ClusterId, NamespaceId
<1>4. ASSUME NEW x \in DOMAIN caches
      PROVE  /\ x[1] = "Pod" => pod(x)
             /\ x[1] = "Node" => node(x)
             /\ x[1] \in WorkloadKinds => workload(x)
             /\ x[1] = "Service" => service(x)
             /\ x[1] = "PersistentVolumeClaim" => claim(x)
             /\ x[1] = "PersistentVolume" => volume(x)
  <2> HIDE DEF s
  <2>1. ASSUME x[1] = "Pod" PROVE pod(x)
    BY <1>1, <2>1, PodScrape DEF State
  <2>2. ASSUME x[1] = "Node" PROVE node(x)
    BY <1>1, <2>2, NodeScrape DEF State
  <2>3. ASSUME x[1] \in WorkloadKinds PROVE workload(x)
    <3>1. HasReplicas(s, x, graph.nodes[x].meta)
      BY <1>1, <2>3, WorkloadScrape
    <3> QED BY <3>1 DEF HasReplicas
  <2>4. ASSUME x[1] = "Service" PROVE service(x)
    <3>1. HasEndpoints(s, x, graph.nodes[x].meta)
      BY <1>1, <2>4, ServiceScrape
    <3> QED BY <3>1 DEF HasEndpoints
  <2>5. ASSUME x[1] = "PersistentVolumeClaim" PROVE claim(x)
    BY <1>1, <2>5, VolumeScrape
  <2>6. ASSUME x[1] = "PersistentVolume" PROVE volume(x)
    BY <1>1, <2>6, VolumeScrape
  <2> QED BY <2>1, <2>2, <2>3, <2>4, <2>5, <2>6
<1>5. \A x \in DOMAIN graph.nodes : x[1] \in {"Namespace", "Cluster"} => rollUp(x)
  <2> HIDE DEF s
  <2> QED BY <1>1, RollUpScrape
<1>6. \A x \in DOMAIN graph.nodes : All(x)
  <2> SUFFICES ASSUME NEW x \in DOMAIN graph.nodes PROVE All(x)
    OBVIOUS
  <2> HIDE DEF pod, node, workload, service, claim, volume, rollUp
  <2> QED BY <1>3, <1>4, <1>5 DEF ScoredKinds, WorkloadKinds
<1>7. \A r \in s : Told(caches, graph, r)
  BY <1>1, EverySampleIsTold
<1>8. \A r \in s : r.series[2] \in DOMAIN graph.nodes
  <2>1. Shown(caches) \subseteq DOMAIN graph.nodes
    BY <1>2 DEF Shown, Drawn
  <2> HIDE DEF s
  <2> QED BY <1>7, <2>1 DEF Told
<1>9. \A r, t \in s : r.series = t.series => r = t
  <2> HIDE DEF s
  <2> QED BY <1>7, Zenon DEF Told
<1> QED BY <1>6, <1>8, <1>9, Zenon DEF ScrapeMatchesGraph

-----------------------------------------------------------------------------
(***************************************************************************)
(* The details of a resource: the order of events, the names of kinds, and *)
(* the object that a request leads to.                                     *)
(***************************************************************************)
(* A finite set can be put into an order in which nothing is newer than what
   comes before it. *)
InOrder(f, S) ==
    /\ f \in [1..Cardinality(S) -> S]
    /\ \A i, j \in 1..Cardinality(S) : f[i] = f[j] => i = j
    /\ \A i, j \in 1..Cardinality(S) : i < j => f[i].at >= f[j].at

LEMMA OldestOf ==
    ASSUME NEW T, T # {}, \A e \in T : e.at \in Nat
    PROVE  \E e \in T : \A d \in T : d.at >= e.at
<1> DEFINE A == {e.at : e \in T}
<1>1. A \subseteq Nat /\ A # {}
  OBVIOUS
<1> HIDE DEF A
<1>2. PICK m \in A : \A j \in A : <<j, m>> \notin OpToRel(<, Nat)
  BY <1>1, NatLessThanWellFounded, WFMin
<1>3. \A j \in A : j >= m
  <2>1. m \in Nat /\ \A j \in A : j \in Nat
    BY <1>1, <1>2
  <2>2. \A j \in Nat : j < m => <<j, m>> \in OpToRel(<, Nat)
    BY <2>1 DEF OpToRel
  <2> SUFFICES ASSUME NEW j \in A, j < m PROVE FALSE
    BY <2>1
  <2>3. <<j, m>> \in OpToRel(<, Nat)
    BY <2>1, <2>2
  <2> QED BY <1>2, <2>3
<1>4. PICK e \in T : e.at = m
  BY <1>2 DEF A
<1>5. \A d \in T : d.at \in A
  BY DEF A
<1> QED BY <1>3, <1>4, <1>5

LEMMA OneMoreInOrder ==
    ASSUME NEW T, IsFiniteSet(T), \A d \in T : d.at \in Nat,
           NEW e \in T, \A d \in T : d.at >= e.at, NEW f, InOrder(f, T \ {e})
    PROVE  \E g : InOrder(g, T)
<1> DEFINE n == Cardinality(T \ {e})
           g == [i \in 1..(n + 1) |-> IF i = n + 1 THEN e ELSE f[i]]
<1>1. n \in Nat /\ Cardinality(T) = n + 1
  <2>1. IsFiniteSet(T \ {e}) /\ Cardinality(T \ {e}) = Cardinality(T) - 1
    BY FS_RemoveElement
  <2>2. Cardinality(T) \in Nat /\ Cardinality(T \ {e}) \in Nat
    BY <2>1, FS_CardinalityType
  <2> QED BY <2>1, <2>2
<1>2. /\ f \in [1..n -> T \ {e}]
      /\ \A i, j \in 1..n : f[i] = f[j] => i = j
      /\ \A i, j \in 1..n : i < j => f[i].at >= f[j].at
  BY DEF InOrder
<1> HIDE DEF n
<1>3. \A i \in 1..n : g[i] = f[i] /\ f[i] \in T /\ f[i] # e
  BY <1>1, <1>2
<1>4. g[n + 1] = e
  BY <1>1
<1>5. \A i \in 1..(n + 1) : i \in 1..n \/ i = n + 1
  BY <1>1
<1>6. g \in [1..(n + 1) -> T]
  BY <1>3, <1>4, <1>5
<1> HIDE DEF g
<1>7. ASSUME NEW i \in 1..(n + 1), NEW j \in 1..(n + 1)
      PROVE  (g[i] = g[j] => i = j) /\ (i < j => g[i].at >= g[j].at)
  <2>1. CASE i \in 1..n /\ j \in 1..n
    BY <1>2, <1>3, <2>1
  <2>2. CASE i = n + 1
    BY <1>1, <1>3, <1>4, <1>5, <2>2
  <2>3. CASE i \in 1..n /\ j = n + 1
    BY <1>1, <1>3, <1>4, <2>3
  <2> QED BY <1>5, <2>1, <2>2, <2>3
<1>8. InOrder(g, T)
  BY <1>1, <1>6, <1>7 DEF InOrder
<1> QED BY <1>8

LEMMA OrderExists ==
    ASSUME NEW S, IsFiniteSet(S), \A e \in S : e.at \in Nat
    PROVE  \E f : InOrder(f, S)
<1> DEFINE G == {T \in SUBSET S : \E f : InOrder(f, T)}
<1>1. ASSUME NEW T \in SUBSET S, \A U \in SUBSET T : U # T => U \in G
      PROVE  T \in G
  <2>1. CASE T = {}
    <3>1. Cardinality(T) = 0
      BY <2>1, FS_EmptySet
    <3>2. InOrder([i \in 1..0 |-> i], T)
      BY <3>1 DEF InOrder
    <3> QED BY <3>2
  <2>2. CASE T # {}
    <3>1. PICK e \in T : \A d \in T : d.at >= e.at
      BY <2>2, OldestOf
    <3>2. T \ {e} \in G
      BY <1>1
    <3>3. PICK f : InOrder(f, T \ {e})
      BY <3>2
    <3>4. IsFiniteSet(T)
      BY FS_Subset
    <3>5. \E g : InOrder(g, T)
      BY <3>1, <3>3, <3>4, OneMoreInOrder
    <3> QED BY <3>5
  <2> QED BY <2>1, <2>2
<1> HIDE DEF G
<1>2. Inherits(G, S)
  BY <1>1 DEF Inherits
<1>3. SUBSET S \subseteq G
  BY <1>2, SmallerFirst
<1> QED BY <1>3 DEF G

LEMMA NewestFirstIsInOrder ==
    ASSUME NEW S, IsFiniteSet(S), \A e \in S : e.at \in Nat
    PROVE  InOrder(NewestFirst(S), S)
<1> DEFINE n == Cardinality(S)
           P(f) == /\ IsInjective(f)
                   /\ \A i, j \in DOMAIN f : i < j => f[i].at >= f[j].at
<1>1. PICK f : InOrder(f, S)
  BY OrderExists
<1>2. f \in [1..n -> S] /\ P(f)
  BY <1>1 DEF InOrder, IsInjective
<1>3. NewestFirst(S) = CHOOSE g \in [1..n -> S] : P(g)
  BY Zenon DEF NewestFirst
<1> HIDE DEF P
<1>4. NewestFirst(S) \in [1..n -> S] /\ P(NewestFirst(S))
  BY <1>2, <1>3
<1> HIDE DEF n
<1>5. DOMAIN NewestFirst(S) = 1..n
  BY <1>4
<1> QED BY <1>4, <1>5 DEF P, InOrder, IsInjective, n

(* All of the set occurs. *)
LEMMA InOrderIsOnto ==
    ASSUME NEW S, IsFiniteSet(S), NEW f, InOrder(f, S)
    PROVE  \A e \in S : \E i \in 1..Cardinality(S) : f[i] = e
<1> DEFINE n == Cardinality(S)
<1>1. n \in Nat
  BY FS_CardinalityType
<1> HIDE DEF n
<1>2. f \in [1..n -> S] /\ f \in Injection(1..n, S)
  BY DEF InOrder, Injection, IsInjective, n
<1>3. Cardinality(1..n) = n
  BY <1>1, FS_Interval
<1>4. f \in Surjection(1..n, S)
  BY <1>2, <1>3, FS_Injection DEF n
<1> QED BY <1>4 DEF Surjection, n

(* The first ones of an order are the newest. *)
LEMMA FirstOnes ==
    ASSUME NEW S, IsFiniteSet(S), NEW f, InOrder(f, S), \A e \in S : e.at \in Nat,
           NEW k \in Nat, k <= Cardinality(S)
    PROVE  LET w == SubSeq(f, 1, k) IN
           /\ ToSet(w) \subseteq S
           /\ Len(w) = k
           /\ \A i \in DOMAIN w :
                 \A e \in S \ {w[j] : j \in 1..i} : e.at <= w[i].at
<1> DEFINE n == Cardinality(S)
           w == SubSeq(f, 1, k)
<1>1. n \in Nat
  BY FS_CardinalityType
<1>2. /\ f \in [1..n -> S]
      /\ \A i, j \in 1..n : i < j => f[i].at >= f[j].at
      /\ \A e \in S : \E i \in 1..n : f[i] = e
  <2>1. /\ f \in [1..n -> S]
        /\ \A i, j \in 1..n : i < j => f[i].at >= f[j].at
    BY DEF InOrder
  <2>2. \A e \in S : \E i \in 1..n : f[i] = e
    BY InOrderIsOnto
  <2> QED BY <2>1, <2>2
<1>3. k <= n
  OBVIOUS
<1> HIDE DEF n
<1>4. \A i \in 1..k : i \in 1..n /\ f[i] \in S
  BY <1>1, <1>2, <1>3
<1>5. w \in Seq(S) /\ Len(w) = k /\ \A i \in 1..k : w[i] = f[i]
  <2>1. /\ SubSeq(f, 1, k) \in Seq(S)
        /\ Len(SubSeq(f, 1, k)) = IF 1 <= k THEN k - 1 + 1 ELSE 0
        /\ \A i \in 1..(k - 1 + 1) : SubSeq(f, 1, k)[i] = f[1 + i - 1]
    BY <1>4, SubSeqProperties
  <2> HIDE DEF w
  <2>2. \A i \in 1..k : f[1 + i - 1] = f[i]
    OBVIOUS
  <2> QED BY <2>1, <2>2 DEF w
<1> HIDE DEF w
<1>6. DOMAIN w = 1..k
  BY <1>5, LenProperties
<1>7. ToSet(w) \subseteq S
  BY <1>4, <1>5, <1>6 DEF ToSet
<1>8. ASSUME NEW i \in 1..k, NEW e \in S \ {w[j] : j \in 1..i} PROVE e.at <= w[i].at
  <2>1. PICK m \in 1..n : f[m] = e
    BY <1>2
  <2>2. ~(m \in 1..i)
    <3>1. \A j \in 1..i : w[j] = f[j]
      BY <1>5
    <3> QED BY <2>1, <3>1
  <2>3. i \in 1..n /\ i < m
    BY <1>1, <1>3, <2>2
  <2>4. f[i].at >= e.at /\ f[i].at \in Nat /\ e.at \in Nat
    BY <1>2, <1>4, <2>1, <2>3
  <2> QED BY <1>5, <2>4
<1> QED BY <1>5, <1>6, <1>7, <1>8 DEF w

-----------------------------------------------------------------------------
(* The names of the kinds: each is named by itself, and by whatever names it,
   nothing else is. *)
LEMMA LowerCases ==
    /\ ToLower("Pod") = "pod" /\ ToLower("Node") = "node"
    /\ ToLower("Namespace") = "namespace" /\ ToLower("Deployment") = "deployment"
    /\ ToLower("StatefulSet") = "statefulset" /\ ToLower("DaemonSet") = "daemonset"
    /\ ToLower("Service") = "service"
    /\ ToLower("PersistentVolumeClaim") = "persistentvolumeclaim"
    /\ ToLower("PersistentVolume") = "persistentvolume"
    /\ ToLower("Cluster") = "Cluster"
BY DEF ToLower, LowerCase

LEMMA KindsAreTold ==
    ASSUME NEW k \in FullNames
    PROVE  /\ \A l \in FullNames : ToLower(k) = ToLower(l) => k = l
           /\ ToLower(k) \notin {"pvc", "pv", "Cluster"}
BY LowerCases DEF FullNames

LEMMA NamedOnly ==
    ASSUME NEW kind, NEW k \in Named(kind)
    PROVE  Named(kind) = {k}
<1> SUFFICES ASSUME NEW l \in Named(kind) PROVE l = k
  OBVIOUS
<1>1. /\ k \in FullNames /\ l \in FullNames
      /\ ToLower(k) = ToLower(kind) \/ <<ToLower(kind), k>> \in ShortNames
      /\ ToLower(l) = ToLower(kind) \/ <<ToLower(kind), l>> \in ShortNames
  BY DEF Named
<1>2. \A q : <<ToLower(kind), q>> \in ShortNames =>
         \/ ToLower(kind) = "pvc" /\ q = "PersistentVolumeClaim"
         \/ ToLower(kind) = "pv" /\ q = "PersistentVolume"
  BY DEF ShortNames
<1> QED BY <1>1, <1>2, KindsAreTold

LEMMA NamedByItself ==
    ASSUME NEW kind \in FullNames
    PROVE  Named(kind) = {kind}
<1>1. kind \in Named(kind)
  BY DEF Named
<1> QED BY <1>1, NamedOnly

LEMMA NoClusterKind == Named("Cluster") = {}
BY LowerCases, KindsAreTold DEF Named, ShortNames

-----------------------------------------------------------------------------
(* What a request finds: the object with the id that it spells out. *)
KeyOf(kind, ns, name) == IF kind \in ClusterKinds THEN <<kind, name>> ELSE <<kind, ns, name>>

LEMMA FoundOnly ==
    ASSUME NEW c, NEW kind, NEW k \in Named(kind), NEW ns, NEW name
    PROVE  GetResource(c, kind, ns, name) =
              {x \in {KeyOf(k, ns, name)} : x \in DOMAIN c /\ (clusterScope \/ k \notin ClusterKinds)}
<1>1. Named(kind) = {k}
  BY NamedOnly
<1>2. {IF l \in ClusterKinds THEN <<l, name>> ELSE <<l, ns, name>> : l \in Named(kind)} =
         {KeyOf(k, ns, name)}
  BY <1>1 DEF KeyOf
<1>3. KeyOf(k, ns, name)[1] = k
  BY DEF KeyOf
<1> QED BY <1>2, <1>3 DEF GetResource

LEMMA NothingFound ==
    ASSUME NEW c, NEW kind, NEW k \in Named(kind), NEW ns, NEW name,
           k \in ClusterKinds, ~clusterScope
    PROVE  GetResource(c, kind, ns, name) = {}
BY FoundOnly

Asked(c, kind, x) == handleResource(c, kind, IF Len(x) = 3 THEN x[2] ELSE "-", NameOf(x))
ScopeOf(x) == IF Len(x) = 3 THEN x[2] ELSE ""

LEMMA NoScope ==
    ASSUME NEW x, Len(x) = 2
    PROVE  ScopeOf(x) = ""
BY DEF ScopeOf

StandsFor(n, ns) == (IF n = "-" THEN "" ELSE n) = ns

AnswerTo(c, kind, ns, name, found) ==
    IF found = {} THEN [code |-> 404]
    ELSE [code |-> 200, resource |-> c[CHOOSE x \in found : TRUE],
          warningEvents |-> WarningEvents(canonicalKind(kind), ns, name)]

LEMMA AnswerIs ==
    ASSUME NEW c, NEW kind, NEW n, NEW name, NEW ns, StandsFor(n, ns)
    PROVE  handleResource(c, kind, n, name) =
              AnswerTo(c, kind, ns, name, GetResource(c, kind, ns, name))
<1> DEFINE m == IF n = "-" THEN "" ELSE n
<1>1. handleResource(c, kind, n, name) = AnswerTo(c, kind, m, name, GetResource(c, kind, m, name))
  BY Zenon DEF handleResource, AnswerTo
<1>2. m = ns
  BY DEF StandsFor
<1> HIDE DEF m
<1> QED BY <1>1, <1>2

LEMMA AnswerFound ==
    ASSUME NEW c, NEW kind, NEW n, NEW name, NEW ns, StandsFor(n, ns),
           NEW x, GetResource(c, kind, ns, name) = {x}
    PROVE  handleResource(c, kind, n, name) =
              [code |-> 200, resource |-> c[x],
               warningEvents |-> WarningEvents(canonicalKind(kind), ns, name)]
<1>1. (CHOOSE y \in {x} : TRUE) = x /\ {x} # {}
  OBVIOUS
<1>2. handleResource(c, kind, n, name) = AnswerTo(c, kind, ns, name, {x})
  BY AnswerIs
<1> QED BY <1>1, <1>2 DEF AnswerTo

LEMMA AnswerNotFound ==
    ASSUME NEW c, NEW kind, NEW n, NEW name, NEW ns, StandsFor(n, ns),
           GetResource(c, kind, ns, name) = {}
    PROVE  handleResource(c, kind, n, name) = [code |-> 404]
<1>1. handleResource(c, kind, n, name) = AnswerTo(c, kind, ns, name, {})
  BY AnswerIs
<1> QED BY <1>1 DEF AnswerTo

LEMMA NoMeaning == StandsFor("-", "")
BY DEF StandsFor

LEMMA NotFoundAnywhere ==
    ASSUME NEW c, NEW kind, NEW name, \A ns : GetResource(c, kind, ns, name) = {}
    PROVE  handleResource(c, kind, "-", name) = [code |-> 404]
<1>1. PICK ns : ns = ""
  OBVIOUS
<1>2. PICK n : n = "-" /\ StandsFor(n, ns)
  BY <1>1, NoMeaning
<1>3. handleResource(c, kind, n, name) = [code |-> 404]
  BY <1>2, AnswerNotFound
<1> QED BY <1>2, <1>3

(* A node's id names a namespace, or says that there is none. *)
LEMMA AskedScope ==
    ASSUME NEW x, Len(x) = 3 => x[2] # "-", NEW n, n = IF Len(x) = 3 THEN x[2] ELSE "-"
    PROVE  StandsFor(n, ScopeOf(x))
BY DEF ScopeOf, StandsFor

(* The key of an object is its id. *)
LEMMA KeyIsId ==
    ASSUME NEW x, IsId(x), x[1] \in FullNames
    PROVE  KeyOf(x[1], ScopeOf(x), NameOf(x)) = x
<1>1. CASE x = <<x[1], x[2]>> /\ x[1] \in ClusterKinds
  <2>1. Len(x) = 2
    BY <1>1
  <2> QED BY <1>1, <2>1 DEF KeyOf, ScopeOf, NameOf
<1>2. CASE x = <<x[1], x[2], x[3]>> /\ x[1] \in ScoredKinds \cup HelperKinds
  <2>1. Len(x) = 3
    BY <1>2
  <2>2. x[1] \notin ClusterKinds
    BY <1>2 DEF ClusterKinds, ScoredKinds, WorkloadKinds, HelperKinds
  <2> QED BY <1>2, <2>1, <2>2 DEF KeyOf, ScopeOf, NameOf
<1> QED BY <1>1, <1>2 DEF IsId

LEMMA LengthOfId ==
    ASSUME NEW x, IsId(x)
    PROVE  x[1] \in ClusterKinds => Len(x) = 2
BY DEF IsId, ClusterKinds, ScoredKinds, WorkloadKinds, HelperKinds

(* The warnings about an object. *)
Mine(x) ==
    {e \in Events : /\ e.type = "Warning" /\ e.kind = x[1] /\ e.name = NameOf(x)
                    /\ Len(x) = 3 => e.namespace = x[2]}

LEMMA WarningsAre ==
    ASSUME NEW x, IsId(x), x[1] \in FullNames, Len(x) = 3 => x[2] # ""
    PROVE  WarningEvents(x[1], ScopeOf(x), NameOf(x)) =
              SubSeq(NewestFirst(Mine(x)), 1, Lesser(Limit, Cardinality(Mine(x))))
<1> DEFINE scope == IF x[1] \in {"Node", "PersistentVolume"} THEN "" ELSE ScopeOf(x)
           matches == {e \in Events : /\ scope = "" \/ e.namespace = scope
                                      /\ e.type = "Warning" /\ e.kind = x[1] /\ e.name = NameOf(x)}
<1>1. scope = ScopeOf(x)
  <2>1. x[1] \in {"Node", "PersistentVolume"} => Len(x) = 2
    BY LengthOfId DEF ClusterKinds
  <2>2. CASE x[1] \in {"Node", "PersistentVolume"}
    <3>1. ScopeOf(x) = ""
      BY <2>1, <2>2, NoScope
    <3>2. scope = ""
      BY <2>2, Zenon
    <3> QED BY <3>1, <3>2
  <2>3. CASE x[1] \notin {"Node", "PersistentVolume"}
    BY <2>3
  <2> QED BY <2>2, <2>3
<1>2. \A e : (scope = "" \/ e.namespace = scope) <=> (Len(x) = 3 => e.namespace = x[2])
  BY <1>1 DEF ScopeOf
<1>3. matches = Mine(x)
  BY <1>2 DEF Mine
<1> HIDE DEF scope
<1> QED BY <1>3, Zenon DEF WarningEvents, scope

LEMMA MineShown ==
    ASSUME NEW x
    PROVE  LET w == SubSeq(NewestFirst(Mine(x)), 1, Lesser(Limit, Cardinality(Mine(x)))) IN
           /\ ToSet(w) \subseteq Mine(x)
           /\ Len(w) = Lesser(Limit, Cardinality(Mine(x)))
           /\ \A i \in DOMAIN w :
                 \A e \in Mine(x) \ {w[j] : j \in 1..i} : e.at <= w[i].at
<1>1. IsFiniteSet(Mine(x)) /\ \A e \in Mine(x) : e.at \in Nat
  <2>1. Mine(x) \in SUBSET Events
    BY DEF Mine
  <2> QED BY <2>1, OutputsAssumption, FS_Subset
<1> DEFINE k == Lesser(Limit, Cardinality(Mine(x)))
<1>2. k \in Nat /\ k <= Cardinality(Mine(x))
  <2>1. Cardinality(Mine(x)) \in Nat /\ Limit \in Nat
    BY <1>1, OutputsAssumption, FS_CardinalityType
  <2> QED BY <2>1 DEF Lesser
<1>3. InOrder(NewestFirst(Mine(x)), Mine(x))
  BY <1>1, NewestFirstIsInOrder
<1> HIDE DEF k
<1> QED BY <1>1, <1>2, <1>3, FirstOnes DEF k

(* An object that is cached, asked for under any name of its kind. *)
LEMMA CachedIsFound ==
    ASSUME NEW c, Legal(c), NEW x \in DOMAIN c, x[1] \in FullNames,
           NEW kind, x[1] \in Named(kind)
    PROVE  Asked(c, kind, x) =
              [code |-> 200, resource |-> c[x],
               warningEvents |-> SubSeq(NewestFirst(Mine(x)), 1, Lesser(Limit, Cardinality(Mine(x))))]
<1>1. /\ IsId(x) /\ (clusterScope \/ x[1] \notin ClusterKinds)
      /\ Len(x) = 3 => x[2] # "" /\ x[2] # "-"
  BY GraphAssumption, OutputsAssumption DEF Legal, Watches
<1> DEFINE sc == ScopeOf(x)
           n == IF Len(x) = 3 THEN x[2] ELSE "-"
           name == NameOf(x)
<1>2. KeyOf(x[1], sc, name) = x
  BY <1>1, KeyIsId
<1>3. WarningEvents(x[1], sc, name) =
         SubSeq(NewestFirst(Mine(x)), 1, Lesser(Limit, Cardinality(Mine(x))))
  BY <1>1, WarningsAre
<1>4. StandsFor(n, sc)
  BY <1>1, AskedScope
<1> HIDE DEF sc, name, n
<1>5. GetResource(c, kind, sc, name) = {x}
  <2>1. GetResource(c, kind, sc, name) =
           {y \in {KeyOf(x[1], sc, name)} : y \in DOMAIN c /\ (clusterScope \/ x[1] \notin ClusterKinds)}
    BY FoundOnly
  <2> QED BY <1>1, <1>2, <2>1
<1>6. canonicalKind(kind) = x[1]
  <2>1. Named(kind) = {x[1]}
    BY NamedOnly
  <2> QED BY <2>1 DEF canonicalKind
<1>7. handleResource(c, kind, n, name) =
         [code |-> 200, resource |-> c[x], warningEvents |-> WarningEvents(x[1], sc, name)]
  <2>1. handleResource(c, kind, n, name) =
           [code |-> 200, resource |-> c[x], warningEvents |-> WarningEvents(canonicalKind(kind), sc, name)]
    BY <1>4, <1>5, AnswerFound
  <2> QED BY <1>6, <2>1
<1> QED BY <1>3, <1>7 DEF Asked, n, name

LEMMA OthersAreNotFound ==
    ASSUME NEW c
    PROVE  /\ Asked(c, "Cluster", ClusterId) = [code |-> 404]
           /\ ~clusterScope => Asked(c, "Namespace", NamespaceId(Watched)) = [code |-> 404]
<1>1. Asked(c, "Cluster", ClusterId) = [code |-> 404]
  <2> DEFINE name == NameOf(ClusterId)
  <2>1. Len(ClusterId) = 1
    BY DEF ClusterId
  <2> HIDE DEF name
  <2>2. PICK kind : kind = "Cluster"
    OBVIOUS
  <2>3. \A ns : GetResource(c, kind, ns, name) = {}
    BY <2>2, NoClusterKind DEF GetResource
  <2>4. handleResource(c, kind, "-", name) = [code |-> 404]
    BY <2>3, NotFoundAnywhere
  <2> QED BY <2>1, <2>2, <2>4 DEF Asked, name
<1>2. ASSUME ~clusterScope
      PROVE  Asked(c, "Namespace", NamespaceId(Watched)) = [code |-> 404]
  <2> DEFINE name == NameOf(NamespaceId(Watched))
  <2>1. Len(NamespaceId(Watched)) = 2
    BY DEF NamespaceId
  <2> HIDE DEF name
  <2>2. PICK kind : kind = "Namespace"
    OBVIOUS
  <2>3. kind \in Named(kind) /\ kind \in ClusterKinds
    BY <2>2 DEF Named, FullNames, ClusterKinds
  <2>4. \A ns : GetResource(c, kind, ns, name) = {}
    BY <1>2, <2>3, NothingFound
  <2>5. handleResource(c, kind, "-", name) = [code |-> 404]
    BY <2>4, NotFoundAnywhere
  <2> QED BY <2>1, <2>2, <2>5 DEF Asked, name
<1> QED BY <1>1, <1>2

(* The details of an object x, when the answer is a. *)
RightDetails(x, a, mine) ==
    /\ a.code = 404 <=> x = ClusterId \/ (~clusterScope /\ x = NamespaceId(Watched))
    /\ a.code = 200 =>
          /\ a.resource = caches[x]
          /\ ToSet(a.warningEvents) \subseteq mine
          /\ Len(a.warningEvents) = Lesser(Limit, Cardinality(mine))
          /\ \A i \in DOMAIN a.warningEvents :
                \A e \in mine \ {a.warningEvents[j] : j \in 1..i} :
                   e.at <= a.warningEvents[i].at
          /\ \A k \in Spellings(x[1]) : Asked(caches, k, x) = a

LEMMA DetailsAreRight == GInv => DetailsAreOfTheNode
<1>0. ASSUME \A x \in DOMAIN graph.nodes : RightDetails(x, Asked(caches, x[1], x), Mine(x))
      PROVE  DetailsAreOfTheNode
  BY <1>0, Zenon DEF DetailsAreOfTheNode, RightDetails, Asked, fetchResource, Mine
<1> SUFFICES ASSUME GInv, behind = 0, NEW x \in DOMAIN graph.nodes
             PROVE  RightDetails(x, Asked(caches, x[1], x), Mine(x))
  BY <1>0 DEF DetailsAreOfTheNode
<1> DEFINE a == Asked(caches, x[1], x)
<1>1. Legal(caches) /\ graph = Built(caches)
  BY DEF GInv, UpToDate, NoRates, Built
<1>3. x \in Drawn(caches)
  BY <1>1, BuiltEdges DEF Built
<1>4. CASE x \in DOMAIN caches /\ x[1] \in FullNames
  <2> DEFINE w == SubSeq(NewestFirst(Mine(x)), 1, Lesser(Limit, Cardinality(Mine(x))))
  <2>1. \A k : x[1] \in Named(k) =>
           Asked(caches, k, x) = [code |-> 200, resource |-> caches[x], warningEvents |-> w]
    BY <1>1, <1>4, CachedIsFound
  <2>2. x[1] \in Named(x[1])
    BY <1>4, NamedByItself
  <2>3. a = [code |-> 200, resource |-> caches[x], warningEvents |-> w]
    BY <2>1, <2>2
  <2>4. ~(x = ClusterId \/ (~clusterScope /\ x = NamespaceId(Watched)))
    <3>1. IsId(x) /\ Watches(x)
      BY <1>1, <1>4, GraphAssumption DEF Legal
    <3> QED BY <1>4, <3>1 DEF ClusterId, NamespaceId, Watches, ClusterKinds, FullNames
  <2>5. /\ ToSet(w) \subseteq Mine(x)
        /\ Len(w) = Lesser(Limit, Cardinality(Mine(x)))
        /\ \A i \in DOMAIN w : \A e \in Mine(x) \ {w[j] : j \in 1..i} : e.at <= w[i].at
    BY MineShown
  <2>6. \A k \in Spellings(x[1]) : Asked(caches, k, x) = a
    BY <2>1, <2>3 DEF Spellings
  <2> HIDE DEF a, w
  <2>7. a.code = 200 /\ a.resource = caches[x] /\ a.warningEvents = w /\ a.code # 404
    BY <2>3
  <2> DEFINE v == a.warningEvents
  <2>8. /\ ToSet(v) \subseteq Mine(x)
        /\ Len(v) = Lesser(Limit, Cardinality(Mine(x)))
        /\ \A i \in DOMAIN v : \A e \in Mine(x) \ {v[j] : j \in 1..i} : e.at <= v[i].at
    <3>1. v = w
      BY <2>7
    <3> HIDE DEF v
    <3> QED BY <2>5, <3>1
  <2>9. RightDetails(x, a, Mine(x))
    BY <2>4, <2>6, <2>7, <2>8, Zenon DEF RightDetails
  <2> QED BY <2>9 DEF a
<1>5. CASE x = ClusterId \/ (~clusterScope /\ x = NamespaceId(Watched))
  <2>1. a = [code |-> 404]
    <3>1. CASE x = ClusterId
      <4>1. x[1] = "Cluster"
        BY <3>1 DEF ClusterId
      <4> QED BY <3>1, <4>1, OthersAreNotFound
    <3>2. CASE ~clusterScope /\ x = NamespaceId(Watched)
      <4>1. x[1] = "Namespace"
        BY <3>2 DEF NamespaceId
      <4> QED BY <3>2, <4>1, OthersAreNotFound
    <3> QED BY <1>5, <3>1, <3>2
  <2> HIDE DEF a
  <2>2. a.code = 404 /\ a.code # 200
    BY <2>1
  <2>3. RightDetails(x, a, Mine(x))
    BY <1>5, <2>2, Zenon DEF RightDetails
  <2> QED BY <2>3 DEF a
<1> QED BY <1>3, <1>4, <1>5 DEF Drawn, ClusterKinds, ScoredKinds, WorkloadKinds, FullNames

-----------------------------------------------------------------------------
(* What follows for every behaviour, whatever the caches come to hold. *)
THEOREM GraphInvariant == GraphSpec => []GInv
BY InitGInv, StepGInv, PTL DEF GraphSpec

(* Every edge of every graph joins two of its nodes (graph.go:38, addEdge). *)
THEOREM GraphTypeCorrect == GraphSpec => []GraphTypeOK
<1>1. GInv => GraphTypeOK
  BY DEF GInv
<1> QED BY <1>1, GraphInvariant, PTL

(* No node hangs under two parents (graph.go:225-230). *)
THEOREM GraphOneParent == GraphSpec => []AtMostOneParent
<1>1. GInv => AtMostOneParent
  BY DEF GInv
<1> QED BY <1>1, GraphInvariant, PTL

(* Where no reference leads out of the caches, the containment edges hold
   the whole graph together, in any cluster. *)
THEOREM GraphHangsTogether == GraphSpec => []EverythingHangsTogether
BY HangsTogether, GraphInvariant, PTL

(* NamespaceSnapshot leaves nothing out (collector.go:213-241). *)
THEOREM NamespaceViewIsComplete == GraphSpec => []ViewIsComplete
BY ViewComplete, GraphInvariant, PTL

(* Whatever the caches hold when a graph is built and when the next one is,
   and whichever of its meta entries are there, nodeEqual can tell the
   contents of each object apart (topology.go:147). *)
THEOREM BuildsAreComparable == GraphSpec => GraphsAreComparable
<1>1. GInv /\ [GraphNext]_graphVars => [Comparable(graph, graph')]_graph
  BY StepBuilds
<1> QED BY <1>1, GraphInvariant, PTL DEF GraphSpec, GraphsAreComparable

(* Every change set that is computed between two graphs turns the screen
   that shows the one into a screen that shows the other. *)
THEOREM ChangeSetsPatch == GraphSpec => PatchesOldToNew
<1>1. GInv /\ [GraphNext]_graphVars =>
        [/\ ApplyMessage(graph, DiffAgainst(graph', graph)) = graph'
         /\ ApplyMessage(graph, AsSnapshot(graph')) = graph']_graph
  BY StepBuilds, ShapeApplyDiff, ShapeApplySnapshot
<1> QED BY <1>1, GraphInvariant, PTL DEF GraphSpec, PatchesOldToNew

(* And it carries only what changed: it is empty exactly when nothing did. *)
THEOREM ChangeSetsAreMinimal == GraphSpec => CarriesOnlyChanges
<1>1. ASSUME GInv, [GraphNext]_graphVars
      PROVE  LET d == DiffAgainst(graph', graph) IN
             /\ \A n \in DOMAIN d.upsertNodes :
                   n \in DOMAIN graph.nodes => graph.nodes[n] # d.upsertNodes[n]
             /\ \A e \in DOMAIN d.upsertEdges :
                   e \in DOMAIN graph.edges => graph.edges[e] # d.upsertEdges[e]
             /\ d.removeNodes \cap DOMAIN graph'.nodes = {}
             /\ IsEmptyDiff(d) <=> graph' = graph
  <2>1. HasShape(graph) /\ HasShape(graph') /\ Comparable(graph, graph')
    BY <1>1, StepBuilds, Zenon
  <2>2. OnlyChanges(graph', graph)
    BY <2>1, ShapeOnlyChanges, Zenon DEF OnlyChanges
  <2>3. IsEmptyDiff(DiffAgainst(graph', graph)) <=> graph' = graph
    BY <2>1, ShapeEmptyDiff, Zenon
  <2> QED BY <2>2, <2>3, Zenon DEF OnlyChanges
<1>2. GInv /\ [GraphNext]_graphVars =>
        [LET d == DiffAgainst(graph', graph) IN
         /\ \A n \in DOMAIN d.upsertNodes :
               n \in DOMAIN graph.nodes => graph.nodes[n] # d.upsertNodes[n]
         /\ \A e \in DOMAIN d.upsertEdges :
               e \in DOMAIN graph.edges => graph.edges[e] # d.upsertEdges[e]
         /\ d.removeNodes \cap DOMAIN graph'.nodes = {}
         /\ IsEmptyDiff(d) <=> graph' = graph]_graphVars
  BY <1>1, Zenon
<1> QED BY <1>2, GraphInvariant, PTL DEF GraphSpec, CarriesOnlyChanges

(* In every graph and whatever has failed, an unhealthy object shows in the
   state of its namespace if that has fewer than 80 objects; an unhealthy
   node in that of the cluster if it has fewer than 80 nodes and namespaces;
   an unhealthy namespace if their number, times that of its own objects, is
   below 80 (health.go:288, Aggregate). *)
THEOREM FailuresReachTheRoot == GraphSpec => []FailureReachesTheRoot
BY FailureShows, GraphInvariant, PTL

(* With no event outstanding a scrape and the graph say the same of every
   object, whatever the caches hold (metrics.go, README.md:72-74). *)
THEOREM ScrapesMatchTheGraph == GraphSpec => []ScrapeMatchesGraph
BY ScrapeMatches, GraphInvariant, PTL

(* The details that the dashboard asks for are those of the node that was
   selected, with the newest of the warnings about it (api.go:67-101). *)
THEOREM DetailsBelongToTheNode == GraphSpec => []DetailsAreOfTheNode
BY DetailsAreRight, GraphInvariant, PTL
=============================================================================
