------------------------------ MODULE Topology ------------------------------
(***************************************************************************)
(* The topology graph and the change sets computed between two graphs:     *)
(* internal/topology/topology.go, and applyMessage of the dashboard        *)
(* (internal/web/static/app.js), which is the other half of the contract.  *)
(*                                                                         *)
(* A graph is a pair of tables, from node ids to node contents and from    *)
(* edge ids to edge contents: the slices of the Go program hold one entry  *)
(* per id, and index() turns them into these tables.  The id of a node     *)
(* fixes its kind, namespace and name; a content keeps the kind, the       *)
(* status (state and score), the reasons and the meta map.                 *)
(***************************************************************************)
EXTENDS Naturals, Sequences, FiniteSets

CONSTANTS
    NodeIds,        \* node ids, "Kind/name" or "Kind/ns/name"
    EdgeIds,        \* edge ids, "kind:source->target"
    EdgeVals,       \* edge contents: source, target and kind
    KindOf,         \* the kind that a node id begins with
    Statuses,       \* pairs of a health state and a score
    ReasonTexts,    \* the lines of Reasons
    MetaKeys,       \* keys of Meta
    MetaVals,       \* values of Meta
    EmptyText       \* the empty string, what Go reads for a missing key

ASSUME KeysFinite == IsFiniteSet(MetaKeys)

Tables(Ids, Vals) == UNION {[S -> Vals] : S \in SUBSET Ids}
EmptyTable == [x \in {} |-> EmptyText]

MetaMaps == Tables(MetaKeys, MetaVals)
NodeVal ==
    [kind : {KindOf[n] : n \in NodeIds}, status : Statuses,
     reasons : Seq(ReasonTexts), meta : MetaMaps]

IsGraph(g) ==
    /\ g = [nodes |-> g.nodes, edges |-> g.edges]
    /\ DOMAIN g.nodes \subseteq NodeIds
    /\ g.nodes = [n \in DOMAIN g.nodes |-> g.nodes[n]]
    /\ \A n \in DOMAIN g.nodes :
          g.nodes[n] \in NodeVal /\ g.nodes[n].kind = KindOf[n]
    /\ g.edges \in Tables(EdgeIds, EdgeVals)

ZeroGraph == [nodes |-> EmptyTable, edges |-> EmptyTable]

(***************************************************************************)
(* nodeEqual.  Indexing a Go map with a missing key yields "".             *)
(***************************************************************************)
Lookup(m, k) == IF k \in DOMAIN m THEN m[k] ELSE EmptyText

(* Fault: of the reasons, only their number is compared. *)
NodeEqualByLength(a, b) ==
    /\ a.kind = b.kind /\ a.status = b.status
    /\ Len(a.reasons) = Len(b.reasons)
    /\ a.meta = b.meta

NodeEqual(a, b) ==
    /\ a.kind = b.kind
    /\ a.status = b.status
    /\ Len(a.reasons) = Len(b.reasons)
    /\ Cardinality(DOMAIN a.meta) = Cardinality(DOMAIN b.meta)
    /\ \A i \in DOMAIN a.reasons : a.reasons[i] = b.reasons[i]
    /\ \A k \in DOMAIN a.meta : Lookup(b.meta, k) = a.meta[k]

(***************************************************************************)
(* What buildGraph gives nodeEqual to compare: of two contents of one node *)
(* with equally many keys that agree on the keys they share, neither has   *)
(* an empty value under a key that the other lacks.  Most keys that may be *)
(* absent are written only when they have a value; a claim may name its    *)
(* storage class with the empty text, but an equally long map without one  *)
(* has a capacity, and so another phase.                                   *)
(***************************************************************************)
MetaComparable(a, b) ==
    /\ a.kind = b.kind
    /\ Cardinality(DOMAIN a.meta) = Cardinality(DOMAIN b.meta)
    /\ \A k \in DOMAIN a.meta \cap DOMAIN b.meta : a.meta[k] = b.meta[k]
    => \A k \in DOMAIN a.meta : a.meta[k] = EmptyText => k \in DOMAIN b.meta

Comparable(g, h) ==
    \A n \in DOMAIN g.nodes \cap DOMAIN h.nodes :
       MetaComparable(g.nodes[n], h.nodes[n])

-----------------------------------------------------------------------------
Upsert(t, u) ==
    [x \in DOMAIN t \cup DOMAIN u |-> IF x \in DOMAIN u THEN u[x] ELSE t[x]]
Without(t, S) == [x \in DOMAIN t \ S |-> t[x]]
Only(t, S) == [x \in DOMAIN t \cap S |-> t[x]]

(* Fault: every node is sent each time. *)
ChangedNodesAll(new, old) == DOMAIN new

(* Ids whose content is new, or differs from the old one. *)
ChangedNodes(new, old) ==
    {x \in DOMAIN new : x \in DOMAIN old => ~NodeEqual(old[x], new[x])}
ChangedEdges(new, old) ==
    {x \in DOMAIN new : x \in DOMAIN old => old[x] # new[x]}

DiffAgainst(g, prev) ==
    [type        |-> "diff",
     upsertNodes |-> Only(g.nodes, ChangedNodes(g.nodes, prev.nodes)),
     upsertEdges |-> Only(g.edges, ChangedEdges(g.edges, prev.edges)),
     removeNodes |-> DOMAIN prev.nodes \ DOMAIN g.nodes,
     removeEdges |-> DOMAIN prev.edges \ DOMAIN g.edges]

AsSnapshot(g) ==
    [type        |-> "snapshot",
     upsertNodes |-> g.nodes,
     upsertEdges |-> g.edges,
     removeNodes |-> {},
     removeEdges |-> {}]

IsEmptyDiff(d) ==
    /\ DOMAIN d.upsertNodes = {} /\ DOMAIN d.upsertEdges = {}
    /\ d.removeNodes = {} /\ d.removeEdges = {}

(***************************************************************************)
(* applyMessage of the dashboard: a snapshot clears both maps first; then  *)
(* the upserts, then the removals.                                         *)
(***************************************************************************)
(* Fault: removals are not applied. *)
ApplyMessageNoRemoval(shown, d) ==
    LET base == IF d.type = "snapshot" THEN ZeroGraph ELSE shown
    IN  [nodes |-> Upsert(base.nodes, d.upsertNodes),
         edges |-> Upsert(base.edges, d.upsertEdges)]

(* Fault: a snapshot is merged into what is shown. *)
ApplyMessageMerging(shown, d) ==
    [nodes |-> Without(Upsert(shown.nodes, d.upsertNodes), d.removeNodes),
     edges |-> Without(Upsert(shown.edges, d.upsertEdges), d.removeEdges)]

ApplyMessage(shown, d) ==
    LET base == IF d.type = "snapshot" THEN ZeroGraph ELSE shown
    IN  [nodes |-> Without(Upsert(base.nodes, d.upsertNodes), d.removeNodes),
         edges |-> Without(Upsert(base.edges, d.upsertEdges), d.removeEdges)]
=============================================================================
