--------------------------- MODULE TopologyProofs ---------------------------
(***************************************************************************)
(* The contract between DiffAgainst and applyMessage, for every graph that *)
(* the collector can build.                                                *)
(***************************************************************************)
EXTENDS Topology, FiniteSetTheorems, TLAPS

(* All that the comparison and the change sets need of contents and graphs:
   texts and ids may be any. *)
IsContent(a) ==
    /\ a = [kind |-> a.kind, status |-> a.status, reasons |-> a.reasons, meta |-> a.meta]
    /\ Len(a.reasons) \in Nat
    /\ a.reasons = [i \in 1..Len(a.reasons) |-> a.reasons[i]]
    /\ a.meta = [k \in DOMAIN a.meta |-> a.meta[k]]
    /\ IsFiniteSet(DOMAIN a.meta)

HasShape(g) ==
    /\ g = [nodes |-> g.nodes, edges |-> g.edges]
    /\ g.nodes = [x \in DOMAIN g.nodes |-> g.nodes[x]]
    /\ g.edges = [x \in DOMAIN g.edges |-> g.edges[x]]
    /\ \A n \in DOMAIN g.nodes : IsContent(g.nodes[n])

LEMMA NodeValIsContent ==
    ASSUME NEW a \in NodeVal
    PROVE  IsContent(a)
<1>1. PICK A \in SUBSET MetaKeys : a.meta \in [A -> MetaVals]
  BY DEF NodeVal, MetaMaps, Tables
<1>2. IsFiniteSet(DOMAIN a.meta)
  BY <1>1, KeysFinite, FS_Subset
<1>3. a.reasons \in Seq(ReasonTexts)
  BY DEF NodeVal
<1>4. Len(a.reasons) \in Nat /\ a.reasons = [i \in 1..Len(a.reasons) |-> a.reasons[i]]
  BY <1>3
<1> QED BY <1>1, <1>2, <1>4 DEF IsContent, NodeVal

(* Two contents of one node are equal for nodeEqual only if they are equal:
   no change of a node is ever taken for no change. *)
LEMMA ContentEqualExact ==
    ASSUME NEW a, NEW b, IsContent(a), IsContent(b), MetaComparable(a, b)
    PROVE  NodeEqual(a, b) <=> a = b
<1>1. ASSUME a = b PROVE NodeEqual(a, b)
  BY <1>1 DEF NodeEqual, Lookup
<1>2. ASSUME NodeEqual(a, b) PROVE a = b
  <2>1. a.kind = b.kind /\ a.status = b.status
    BY <1>2 DEF NodeEqual
  <2>2. a.reasons = b.reasons
    <3>1. Len(a.reasons) = Len(b.reasons)
          /\ \A i \in DOMAIN a.reasons : a.reasons[i] = b.reasons[i]
      BY <1>2 DEF NodeEqual
    <3> QED BY <3>1 DEF IsContent
  <2>3. a.meta = b.meta
    <3> DEFINE A == DOMAIN a.meta
               B == DOMAIN b.meta
    <3>1. \A k \in A : k \in B /\ a.meta[k] = b.meta[k]
      BY <1>2, <2>1 DEF NodeEqual, Lookup, MetaComparable
    <3>2. IsFiniteSet(B) /\ Cardinality(A) = Cardinality(B)
      BY <1>2 DEF NodeEqual, IsContent
    <3>3. A = B
      BY <3>1, <3>2, FS_Subset
    <3> QED BY <3>1, <3>3 DEF IsContent
  <2> QED BY <2>1, <2>2, <2>3 DEF IsContent
<1> QED BY <1>1, <1>2

(* The table part of the contract: replacing what changed and dropping what
   disappeared turns the old table into the new one. *)
LEMMA PatchTable ==
    ASSUME NEW new, NEW old, NEW C,
           new = [x \in DOMAIN new |-> new[x]],
           \A x \in DOMAIN new \ C : x \in DOMAIN old /\ old[x] = new[x]
    PROVE  Without(Upsert(old, Only(new, C)), DOMAIN old \ DOMAIN new) = new
BY DEF Without, Upsert, Only

LEMMA GraphShape ==
    ASSUME NEW g, IsGraph(g)
    PROVE  HasShape(g)
<1>1. PICK S \in SUBSET EdgeIds : g.edges \in [S -> EdgeVals]
  BY DEF IsGraph, Tables
<1> QED BY <1>1, NodeValIsContent DEF IsGraph, HasShape

(* applyMessage of the diff between two graphs, on the older one, gives the
   newer one: an incremental client shows exactly what the server holds. *)
LEMMA ShapeApplyDiff ==
    ASSUME NEW g, NEW prev, HasShape(g), HasShape(prev), Comparable(prev, g)
    PROVE  ApplyMessage(prev, DiffAgainst(g, prev)) = g
<1> DEFINE CN == ChangedNodes(g.nodes, prev.nodes)
           CE == ChangedEdges(g.edges, prev.edges)
<1>1. \A x \in DOMAIN g.nodes \ CN :
         x \in DOMAIN prev.nodes /\ prev.nodes[x] = g.nodes[x]
  BY ContentEqualExact DEF ChangedNodes, Comparable, HasShape
<1>2. \A x \in DOMAIN g.edges \ CE :
         x \in DOMAIN prev.edges /\ prev.edges[x] = g.edges[x]
  BY DEF ChangedEdges
<1> HIDE DEF CN, CE
<1>3. Without(Upsert(prev.nodes, Only(g.nodes, CN)), DOMAIN prev.nodes \ DOMAIN g.nodes) = g.nodes
  BY <1>1, PatchTable DEF HasShape
<1>4. Without(Upsert(prev.edges, Only(g.edges, CE)), DOMAIN prev.edges \ DOMAIN g.edges) = g.edges
  BY <1>2, PatchTable DEF HasShape
<1>5. ApplyMessage(prev, DiffAgainst(g, prev)) = [nodes |-> g.nodes, edges |-> g.edges]
  BY <1>3, <1>4 DEF ApplyMessage, DiffAgainst, CN, CE
<1> QED BY <1>5 DEF HasShape

LEMMA ShapeApplySnapshot ==
    ASSUME NEW g, NEW shown, HasShape(g)
    PROVE  ApplyMessage(shown, AsSnapshot(g)) = g
<1>1. \A t : t = [x \in DOMAIN t |-> t[x]] => Without(Upsert(EmptyTable, t), {}) = t
  BY DEF Without, Upsert, EmptyTable
<1>2. ApplyMessage(shown, AsSnapshot(g)) = [nodes |-> g.nodes, edges |-> g.edges]
  BY <1>1 DEF ApplyMessage, AsSnapshot, ZeroGraph, HasShape
<1> QED BY <1>2 DEF HasShape

LEMMA ShapeEmptyDiff ==
    ASSUME NEW g, NEW prev, HasShape(g), HasShape(prev), Comparable(prev, g)
    PROVE  IsEmptyDiff(DiffAgainst(g, prev)) <=> g = prev
<1>1. ASSUME IsEmptyDiff(DiffAgainst(g, prev)) PROVE g = prev
  <2>1. /\ ChangedNodes(g.nodes, prev.nodes) = {}
        /\ ChangedEdges(g.edges, prev.edges) = {}
        /\ DOMAIN prev.nodes \subseteq DOMAIN g.nodes
        /\ DOMAIN prev.edges \subseteq DOMAIN g.edges
    BY <1>1 DEF IsEmptyDiff, DiffAgainst, Only, ChangedNodes, ChangedEdges
  <2>2. \A x \in DOMAIN g.nodes : x \in DOMAIN prev.nodes /\ prev.nodes[x] = g.nodes[x]
    BY <2>1, ContentEqualExact DEF ChangedNodes, Comparable, HasShape
  <2>3. \A x \in DOMAIN g.edges : x \in DOMAIN prev.edges /\ prev.edges[x] = g.edges[x]
    BY <2>1 DEF ChangedEdges
  <2>4. DOMAIN g.nodes = DOMAIN prev.nodes /\ DOMAIN g.edges = DOMAIN prev.edges
    BY <2>1, <2>2, <2>3
  <2>5. g.nodes = prev.nodes
    BY <2>2, <2>4 DEF HasShape
  <2>6. g.edges = prev.edges
    BY <2>3, <2>4 DEF HasShape
  <2> QED BY <2>5, <2>6 DEF HasShape
<1>2. ASSUME g = prev PROVE IsEmptyDiff(DiffAgainst(g, prev))
  <2>1. \A x \in DOMAIN g.nodes : NodeEqual(g.nodes[x], g.nodes[x])
    BY DEF NodeEqual, Lookup
  <2>2. ChangedNodes(g.nodes, g.nodes) = {} /\ ChangedEdges(g.edges, g.edges) = {}
    BY <2>1 DEF ChangedNodes, ChangedEdges
  <2> QED BY <1>2, <2>2 DEF IsEmptyDiff, DiffAgainst, Only
<1> QED BY <1>1, <1>2

(* What is upserted is new, and what is removed is gone. *)
LEMMA ShapeOnlyChanges ==
    ASSUME NEW g, NEW prev, HasShape(g), HasShape(prev), Comparable(prev, g)
    PROVE  LET d == DiffAgainst(g, prev) IN
           /\ \A n \in DOMAIN d.upsertNodes :
                 n \in DOMAIN prev.nodes => prev.nodes[n] # d.upsertNodes[n]
           /\ \A e \in DOMAIN d.upsertEdges :
                 e \in DOMAIN prev.edges => prev.edges[e] # d.upsertEdges[e]
           /\ d.removeNodes \cap DOMAIN g.nodes = {}
<1> DEFINE d == DiffAgainst(g, prev)
<1>1. /\ d.upsertNodes = Only(g.nodes, ChangedNodes(g.nodes, prev.nodes))
      /\ d.upsertEdges = Only(g.edges, ChangedEdges(g.edges, prev.edges))
      /\ d.removeNodes = DOMAIN prev.nodes \ DOMAIN g.nodes
  BY DEF DiffAgainst
<1> HIDE DEF d
<1>2. ASSUME NEW n \in DOMAIN d.upsertNodes, n \in DOMAIN prev.nodes
      PROVE  prev.nodes[n] # d.upsertNodes[n]
  <2>1. n \in DOMAIN g.nodes /\ ~NodeEqual(prev.nodes[n], g.nodes[n]) /\ d.upsertNodes[n] = g.nodes[n]
    BY <1>1, <1>2 DEF Only, ChangedNodes
  <2>2. NodeEqual(g.nodes[n], g.nodes[n])
    BY DEF NodeEqual, Lookup
  <2> QED BY <2>1, <2>2
<1>3. ASSUME NEW e \in DOMAIN d.upsertEdges, e \in DOMAIN prev.edges
      PROVE  prev.edges[e] # d.upsertEdges[e]
  BY <1>1, <1>3 DEF Only, ChangedEdges
<1>4. d.removeNodes \cap DOMAIN g.nodes = {}
  BY <1>1
<1> QED BY <1>2, <1>3, <1>4 DEF d

(* The contract for the graphs of Stream and Dashboard: a tab that shows the
   graph before and applies the change set shows the graph after. *)
THEOREM ApplyDiff ==
    ASSUME NEW g, NEW prev, IsGraph(g), IsGraph(prev), Comparable(prev, g)
    PROVE  ApplyMessage(prev, DiffAgainst(g, prev)) = g
BY GraphShape, ShapeApplyDiff

(* applyMessage of a snapshot gives the graph, whatever was shown before. *)
THEOREM ApplySnapshot ==
    ASSUME NEW g, NEW shown, IsGraph(g)
    PROVE  ApplyMessage(shown, AsSnapshot(g)) = g
BY GraphShape, ShapeApplySnapshot

(* A change set is empty only when nothing changed, so a rebuild that
   broadcasts nothing published nothing new. *)
THEOREM EmptyDiffExact ==
    ASSUME NEW g, NEW prev, IsGraph(g), IsGraph(prev), Comparable(prev, g)
    PROVE  IsEmptyDiff(DiffAgainst(g, prev)) <=> g = prev
BY GraphShape, ShapeEmptyDiff

(* Whatever a tab shows, what it shows after a change set is a graph. *)
LEMMA ApplyKeepsGraph ==
    ASSUME NEW shown, NEW g, NEW prev, IsGraph(shown), IsGraph(g)
    PROVE  IsGraph(ApplyMessage(shown, DiffAgainst(g, prev)))
<1> DEFINE d == DiffAgainst(g, prev)
           ns == Without(Upsert(shown.nodes, d.upsertNodes), d.removeNodes)
           es == Without(Upsert(shown.edges, d.upsertEdges), d.removeEdges)
<1>1. ApplyMessage(shown, d) = [nodes |-> ns, edges |-> es]
  BY DEF ApplyMessage, DiffAgainst
<1>2. /\ DOMAIN d.upsertNodes \subseteq DOMAIN g.nodes
      /\ \A n \in DOMAIN d.upsertNodes : d.upsertNodes[n] = g.nodes[n]
      /\ DOMAIN d.upsertEdges \subseteq DOMAIN g.edges
      /\ \A e \in DOMAIN d.upsertEdges : d.upsertEdges[e] = g.edges[e]
  BY DEF DiffAgainst, Only
<1>3. /\ DOMAIN ns \subseteq NodeIds
      /\ ns = [n \in DOMAIN ns |-> ns[n]]
      /\ \A n \in DOMAIN ns : ns[n] \in NodeVal /\ ns[n].kind = KindOf[n]
  BY <1>2 DEF IsGraph, Without, Upsert
<1>4. es \in Tables(EdgeIds, EdgeVals)
  <2>1. PICK S \in SUBSET EdgeIds : shown.edges \in [S -> EdgeVals]
    BY DEF IsGraph, Tables
  <2>2. PICK T \in SUBSET EdgeIds : g.edges \in [T -> EdgeVals]
    BY DEF IsGraph, Tables
  <2>3. es \in [DOMAIN es -> EdgeVals] /\ DOMAIN es \subseteq EdgeIds
    BY <1>2, <2>1, <2>2 DEF Without, Upsert
  <2> QED BY <2>3 DEF Tables
<1> HIDE DEF ns, es
<1> QED BY <1>1, <1>3, <1>4 DEF IsGraph
=============================================================================
