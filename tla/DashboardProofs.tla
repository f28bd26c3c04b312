-------------------------- MODULE DashboardProofs --------------------------
(***************************************************************************)
(* What holds of a tab for any number of requests in flight, any graphs    *)
(* and any number of failures.                                             *)
(***************************************************************************)
EXTENDS Panel, TopologyProofs

USE DEF Idle, Asked, Latest

LEMMA ZeroIsGraph == IsGraph(ZeroGraph)
<1>1. ZeroGraph.nodes = EmptyTable /\ ZeroGraph.edges = EmptyTable
  BY DEF ZeroGraph
<1>2. DOMAIN EmptyTable = {} /\ EmptyTable = [n \in DOMAIN EmptyTable |-> EmptyTable[n]]
  BY DEF EmptyTable
<1>3. EmptyTable \in [{} -> EdgeVals]
  BY DEF EmptyTable
<1>4. EmptyTable \in Tables(EdgeIds, EdgeVals)
  BY <1>3 DEF Tables
<1> QED BY <1>1, <1>2, <1>4 DEF IsGraph, ZeroGraph

LEMMA InitIInv == Init => IInv
<1> SUFFICES ASSUME Init PROVE IInv
  OBVIOUS
<1>1. PICK g \in Graphs : hist = <<g>>
  BY DEF Init
<1>2. MaxPublish \in Nat \ {0} /\ MaxFail \in Nat /\ NoSlot \notin Slots
  BY DashboardAssumption
<1>3. TypeOK
  <2>1. hist \in Seq(Graphs) /\ Len(hist) = 1
    BY <1>1
  <2>2. fetch \in [Slots -> {Idle, Asked} \cup 1..MaxPublish] /\ booting \in Slots
    BY DEF Init
  <2>3. /\ ws = "none" /\ joined = 0 /\ at = 0 /\ retries = 0 /\ polling = FALSE
        /\ IsGraph(view) /\ shown = 0 /\ overtaken = FALSE /\ fails = 0
    BY ZeroIsGraph DEF Init
  <2>4. /\ ws \in {"none", "connecting", "open"} /\ polling \in BOOLEAN
        /\ overtaken \in BOOLEAN
    BY <2>3
  <2>5. /\ joined \in 0..MaxPublish /\ at \in 0..MaxPublish /\ shown \in 0..MaxPublish
        /\ retries \in Nat /\ fails \in 0..MaxFail
    BY <1>2, <2>3
  <2>6. Latest \in 1..MaxPublish
    BY <1>2, <2>1
  <2> QED BY <2>1, <2>2, <2>3, <2>4, <2>5, <2>6 DEF TypeOK
<1>4. OneConnection /\ PollsExactlyWhileDown /\ Undisturbed
  BY <1>2 DEF Init, OneConnection, PollsExactlyWhileDown, Undisturbed
<1>5. VersionsInOrder
  BY <1>1 DEF Init, VersionsInOrder
<1> QED BY <1>3, <1>4, <1>5 DEF IInv, Init

-----------------------------------------------------------------------------
(* The parts of a step that several actions share. *)
LEMMA ShownGraph ==
    ASSUME IInv, NEW v \in 1..Latest
    PROVE  /\ hist[v] \in Graphs /\ IsGraph(hist[v])
           /\ ApplyMessage(view, AsSnapshot(hist[v])) = hist[v]
BY DashboardAssumption, ApplySnapshot DEF IInv, TypeOK

LEMMA PatchedGraph ==
    ASSUME IInv, NEW v \in 2..Latest
    PROVE  LET w == ApplyMessage(view, DiffAgainst(hist[v], hist[v - 1])) IN
           /\ IsGraph(w)
           /\ view = hist[v - 1] => w = hist[v]
<1>1. hist[v] \in Graphs /\ hist[v - 1] \in Graphs
  BY DEF IInv, TypeOK
<1>2. /\ IsGraph(hist[v]) /\ IsGraph(hist[v - 1]) /\ IsGraph(view)
      /\ Comparable(hist[v - 1], hist[v])
  BY <1>1, DashboardAssumption DEF IInv, TypeOK
<1> QED BY <1>2, ApplyKeepsGraph, ApplyDiff

LEMMA FetchEndsKeeps ==
    ASSUME IInv, NEW s \in Slots, fetch[s] # Idle, FetchEnds(s)
    PROVE  /\ fetch' \in [Slots -> {Idle, Asked} \cup 1..MaxPublish]
           /\ \A t \in Slots : fetch'[t] <= Latest
           /\ booting' \in Slots \cup {NoSlot}
           /\ booting' # NoSlot => ~polling'
           /\ ws' \in {"none", "connecting", "open"} /\ retries' \in Nat
           /\ UNCHANGED <<joined, at, polling>>
           /\ OneConnection' /\ PollsExactlyWhileDown'
           /\ ws' # "open" => joined' = 0
           /\ ws' = "open" => ws = "open" /\ InFlight # {}
<1> USE DashboardAssumption DEF IInv, TypeOK
<1>1. Latest \in Nat
  OBVIOUS
<1>2. /\ fetch' = [fetch EXCEPT ![s] = Idle]
      /\ \A t \in Slots : fetch'[t] <= Latest
  BY <1>1 DEF FetchEnds, VersionsInOrder
<1>3. CASE s = booting
  BY <1>1, <1>2, <1>3 DEF FetchEnds, Connect, OneConnection, PollsExactlyWhileDown, VersionsInOrder
<1>4. CASE s # booting
  BY <1>1, <1>2, <1>4 DEF FetchEnds, OneConnection, PollsExactlyWhileDown, VersionsInOrder,
     netVars, InFlight
<1> QED BY <1>3, <1>4

-----------------------------------------------------------------------------
LEMMA StepIInv == IInv /\ [Next]_vars => IInv'
<1> SUFFICES ASSUME IInv, [Next]_vars PROVE IInv'
  OBVIOUS
<1> USE DashboardAssumption
<1>0. Latest \in Nat /\ \A v \in 1..Latest : hist[v] \in Graphs
  BY DEF IInv, TypeOK
<1>1. ASSUME NEW g \in Graphs, Publish(g) PROVE IInv'
  <2>1. hist' \in Seq(Graphs) /\ Latest' = Latest + 1
        /\ \A v \in 1..Latest : hist'[v] = hist[v]
    BY <1>1 DEF Publish, IInv, TypeOK
  <2>2. TypeOK'
    BY <1>1, <2>1 DEF Publish, IInv, TypeOK, netVars, viewVars
  <2>3. VersionsInOrder'
    BY <1>0, <1>1, <2>1 DEF Publish, IInv, TypeOK, VersionsInOrder, netVars, viewVars
  <2>4. Undisturbed'
    BY <1>0, <1>1, <2>1 DEF Publish, IInv, TypeOK, VersionsInOrder, Undisturbed, InFlight,
       netVars, viewVars
  <2> QED
    BY <1>1, <2>2, <2>3, <2>4 DEF Publish, IInv, OneConnection, PollsExactlyWhileDown, netVars
<1>2. ASSUME NEW s \in Slots, Respond(s) PROVE IInv'
  <2>1. Latest \in 1..MaxPublish
    BY <1>2 DEF Respond, IInv, TypeOK
  <2> QED
    BY <1>2, <2>1 DEF Respond, IInv, TypeOK, VersionsInOrder, Undisturbed, InFlight,
       OneConnection, PollsExactlyWhileDown, netVars, viewVars
<1>3. ASSUME NEW s \in Slots, FetchArrives(s) PROVE IInv'
  <2>1. /\ fetch[s] \in 1..Latest /\ FetchEnds(s)
        /\ UNCHANGED <<hist, overtaken, fails>>
        /\ view' = hist[fetch[s]] /\ shown' = fetch[s]
    BY <1>3, ShownGraph DEF FetchArrives, Show
  <2>2. IsGraph(view') /\ fetch[s] # Idle /\ shown' \in 0..MaxPublish
    BY <2>1, ShownGraph DEF IInv, TypeOK
  <2>3. TypeOK'
    BY <2>1, <2>2, FetchEndsKeeps DEF IInv, TypeOK
  <2>4. VersionsInOrder'
    BY <2>1, <2>2, FetchEndsKeeps DEF IInv, VersionsInOrder
  <2>5. Undisturbed'
    BY <2>1, <2>2, FetchEndsKeeps DEF IInv, Undisturbed
  <2> QED BY <2>1, <2>2, <2>3, <2>4, <2>5, FetchEndsKeeps DEF IInv
<1>4. ASSUME NEW s \in Slots, FetchFails(s) PROVE IInv'
  <2>1. /\ fetch[s] # Idle /\ FetchEnds(s) /\ fails' \in 0..MaxFail
        /\ UNCHANGED <<hist, view, shown, overtaken>>
    BY <1>4 DEF FetchFails, viewVars, IInv, TypeOK
  <2>3. TypeOK'
    BY <2>1, FetchEndsKeeps DEF IInv, TypeOK
  <2>4. VersionsInOrder'
    BY <2>1, FetchEndsKeeps DEF IInv, VersionsInOrder
  <2>5. Undisturbed'
    BY <2>1, FetchEndsKeeps DEF IInv, Undisturbed
  <2> QED BY <2>1, <2>3, <2>4, <2>5, FetchEndsKeeps DEF IInv
<1>5. ASSUME NEW s \in Slots, Poll(s) PROVE IInv'
  BY <1>0, <1>5 DEF Poll, IInv, TypeOK, VersionsInOrder, Undisturbed, InFlight,
     OneConnection, PollsExactlyWhileDown, netVars, viewVars
<1>6. CASE Subscribe
  <2>1. /\ ws = "open" /\ joined = 0 /\ at = 0 /\ joined' = Latest
        /\ UNCHANGED <<hist, fetch, booting, ws, at, retries, polling, view, shown,
                       overtaken, fails>>
    BY <1>6 DEF Subscribe, viewVars, IInv, VersionsInOrder
  <2>2. TypeOK' /\ VersionsInOrder'
    BY <1>0, <2>1 DEF IInv, TypeOK, VersionsInOrder
  <2> QED BY <2>1, <2>2 DEF IInv, TypeOK, OneConnection, PollsExactlyWhileDown, Undisturbed
<1>7. CASE OnOpen
  <2>1. /\ ws = "connecting" /\ ws' = "open" /\ ~polling' /\ polling' = FALSE
        /\ joined = 0 /\ at = 0
        /\ UNCHANGED <<hist, fetch, booting, joined, at, retries, view, shown,
                       overtaken, fails>>
    BY <1>7 DEF OnOpen, StopPolling, viewVars, IInv, VersionsInOrder
  <2>2. retries = 0 /\ OneConnection'
    BY <2>1 DEF IInv, TypeOK, OneConnection
  <2>3. TypeOK' /\ VersionsInOrder'
    BY <1>0, <2>1 DEF IInv, TypeOK, VersionsInOrder
  <2> QED BY <2>1, <2>2, <2>3 DEF IInv, PollsExactlyWhileDown, Undisturbed
<1>8. CASE OnMessage
  <2> DEFINE v == IF at = 0 THEN joined ELSE at + 1
  <2>1. /\ ws = "open" /\ joined > 0 /\ v \in 1..Latest /\ v <= MaxPublish
        /\ at' = v /\ shown' = v
        /\ UNCHANGED <<hist, fetch, booting, ws, joined, retries, polling, fails>>
    BY <1>0, <1>8 DEF OnMessage, Show, IInv, TypeOK, VersionsInOrder
  <2>2. IsGraph(view') /\ (at = 0 \/ view = hist[at] => view' = hist[v])
    <3>1. CASE at = 0
      BY <1>8, <2>1, <3>1, ShownGraph DEF OnMessage, Show
    <3>2. CASE at # 0
      <4>1. v \in 2..Latest /\ v - 1 = at
        BY <2>1, <3>2 DEF IInv, TypeOK
      <4>2. view' = ApplyMessage(view, DiffAgainst(hist[v], hist[v - 1]))
        BY <1>8, <3>2 DEF OnMessage, Show
      <4> QED BY <4>1, <4>2, <3>2, PatchedGraph
    <3> QED BY <3>1, <3>2
  <2>3. overtaken' \in BOOLEAN
        /\ (~overtaken' => (at = 0 /\ InFlight = {}) \/ (at # 0 /\ ~overtaken))
    BY <1>8 DEF OnMessage, IInv, TypeOK
  <2> HIDE DEF v
  <2>4. TypeOK'
    BY <2>1, <2>2, <2>3 DEF IInv, TypeOK
  <2>5. VersionsInOrder' /\ OneConnection' /\ PollsExactlyWhileDown'
    BY <1>0, <2>1 DEF IInv, VersionsInOrder, OneConnection, PollsExactlyWhileDown
  <2>6. Undisturbed'
    BY <2>1, <2>2, <2>3 DEF IInv, TypeOK, Undisturbed, InFlight
  <2> QED BY <2>1, <2>4, <2>5, <2>6 DEF IInv
<1>9. CASE OnClose
  <2>1. PICK s \in Slots : ScheduleReconnect(s)
    BY <1>9 DEF OnClose
  <2>2. /\ ws # "none" /\ ws' = "none" /\ joined' = 0 /\ at' = 0 /\ retries' = retries + 1
        /\ polling' = TRUE /\ fails' \in 0..MaxFail
        /\ UNCHANGED <<hist, booting, view, shown, overtaken>>
    BY <1>9, <2>1 DEF OnClose, ScheduleReconnect, StartPolling, viewVars, IInv, TypeOK
  <2>3. fetch' = fetch \/ fetch' = [fetch EXCEPT ![s] = Asked]
    BY <2>1 DEF ScheduleReconnect, StartPolling
  <2>4. TypeOK'
    BY <2>2, <2>3 DEF IInv, TypeOK
  <2>5. VersionsInOrder'
    BY <1>0, <2>2, <2>3 DEF IInv, TypeOK, VersionsInOrder
  <2>6. booting = NoSlot /\ OneConnection'
    BY <2>2 DEF IInv, TypeOK, OneConnection
  <2> QED BY <2>2, <2>4, <2>5, <2>6 DEF IInv, PollsExactlyWhileDown, Undisturbed
<1>10. CASE RetryFires
  BY <1>0, <1>10 DEF RetryFires, Connect, IInv, TypeOK, VersionsInOrder, Undisturbed, InFlight,
     OneConnection, PollsExactlyWhileDown, viewVars
<1>11. CASE UNCHANGED vars
  BY <1>11 DEF vars, netVars, viewVars, IInv, TypeOK, VersionsInOrder, Undisturbed, InFlight,
     OneConnection, PollsExactlyWhileDown
<1> QED
  BY <1>1, <1>2, <1>3, <1>4, <1>5, <1>6, <1>7, <1>8, <1>9, <1>10, <1>11 DEF Next

-----------------------------------------------------------------------------
(* The inductive invariant holds of every tab. *)
THEOREM DashboardInvariant == Spec => []IInv
BY InitIInv, StepIInv, PTL DEF Spec

(* A tab never runs two connections, and is never left without one. *)
THEOREM DashboardOneConnection == Spec => []OneConnection
<1>1. IInv => OneConnection
  BY DEF IInv
<1> QED BY <1>1, DashboardInvariant, PTL

(* A tab polls while the stream is down, and not while it is open. *)
THEOREM DashboardPollsWhileDown == Spec => []PollsExactlyWhileDown
<1>1. IInv => PollsExactlyWhileDown
  BY DEF IInv
<1> QED BY <1>1, DashboardInvariant, PTL

(* A live tab that no late response overtook shows exactly the version of
   the graph that the stream last gave it. *)
THEOREM DashboardLiveView == Spec => []LiveViewMatches
<1>1. IInv => LiveViewMatches
  BY DEF IInv, Undisturbed, LiveViewMatches
<1> QED BY <1>1, DashboardInvariant, PTL

-----------------------------------------------------------------------------
(* The panel. *)
LEMMA PanelStepIsStep == [PanelNext]_allVars => [Next]_vars
BY DEF PanelNext, Draw, Connection, selectNode, CloseButton, ResourceArrives, ResourceFails,
   allVars, Next

LEMMA InitPanel == PanelInit => DetailsAreOfTheSelected /\ ClosesWithItsNode
BY DEF PanelInit, DetailsAreOfTheSelected, ClosesWithItsNode

(* A message leaves the panel of a node that is still in the tables. *)
LEMMA DrawKeepsPanel ==
    ASSUME IInv, DetailsAreOfTheSelected, ClosesWithItsNode, Draw
    PROVE  DetailsAreOfTheSelected' /\ ClosesWithItsNode'
<1>1. ASSUME NEW d, PanelFollows(d) PROVE DetailsAreOfTheSelected'
  BY <1>1 DEF PanelFollows, closeDetail, DetailsAreOfTheSelected
<1>2. ASSUME NEW d, PanelFollows(d), d.type = "snapshot" PROVE ClosesWithItsNode'
  BY <1>2 DEF PanelFollows, ClosesWithItsNode
<1>3. CASE \E s \in Slots : FetchArrives(s) /\ PanelFollows(AsSnapshot(hist[fetch[s]]))
  BY <1>1, <1>2, <1>3 DEF AsSnapshot
<1>4. CASE OnMessage /\ PanelFollows(Delivered)
  <2>1. CASE at = 0
    BY <1>1, <1>2, <1>4, <2>1 DEF Delivered, AsSnapshot
  <2>2. CASE at # 0
    <3> DEFINE d == DiffAgainst(hist[at + 1], hist[at])
    <3>1. at \in Nat
      BY DEF IInv, TypeOK
    <3> DEFINE v == IF at = 0 THEN joined ELSE at + 1
               m == IF at = 0 THEN AsSnapshot(hist[v]) ELSE DiffAgainst(hist[v], hist[v - 1])
    <3>2. at' = v /\ view' = ApplyMessage(view, m)
      BY <1>4 DEF OnMessage, Show
    <3>3. at' = at + 1 /\ v = at + 1 /\ v - 1 = at
      BY <2>2, <3>1, <3>2
    <3>4. m = d
      BY <2>2, <3>3
    <3>5. view' = ApplyMessage(view, d)
      BY <3>2, <3>4
    <3>6. Delivered = d
      BY <2>2, <3>3 DEF Delivered, OnMessage
    <3>7. d.type = "diff"
      BY DEF DiffAgainst
    <3>8. DOMAIN view'.nodes = (DOMAIN view.nodes \cup DOMAIN d.upsertNodes) \ d.removeNodes
      BY <3>5, <3>7 DEF ApplyMessage, Without, Upsert
    <3>9. IF selected \in d.removeNodes THEN closeDetail ELSE UNCHANGED <<selected, extra>>
      BY <1>4, <3>6 DEF PanelFollows
    <3>10. replaced' = (replaced \/ d.type = "snapshot")
      BY <1>4, <3>6 DEF PanelFollows
    <3>11. ClosesWithItsNode'
      BY <3>7, <3>8, <3>9, <3>10 DEF closeDetail, ClosesWithItsNode
    <3> QED BY <1>1, <1>4, <3>11
  <2> QED BY <2>1, <2>2
<1> QED BY <1>3, <1>4 DEF Draw

LEMMA StepPanel ==
    ASSUME IInv, DetailsAreOfTheSelected, ClosesWithItsNode, [PanelNext]_allVars
    PROVE  DetailsAreOfTheSelected' /\ ClosesWithItsNode'
<1>1. CASE Draw
  BY <1>1, DrawKeepsPanel
<1>2. CASE Connection
  <2>1. UNCHANGED panelVars
    BY <1>2 DEF Connection
  <2>2. view' = view
    BY <1>2 DEF Connection, Publish, Respond, FetchFails, Poll, Subscribe, OnOpen, OnClose,
       RetryFires, viewVars
  <2> QED BY <2>1, <2>2 DEF panelVars, DetailsAreOfTheSelected, ClosesWithItsNode
<1>3. ASSUME NEW n \in NodeIds, selectNode(n)
      PROVE  DetailsAreOfTheSelected' /\ ClosesWithItsNode'
  BY <1>3 DEF selectNode, vars, viewVars, DetailsAreOfTheSelected, ClosesWithItsNode
<1>4. CASE CloseButton
  BY <1>4 DEF CloseButton, closeDetail, DetailsAreOfTheSelected, ClosesWithItsNode
<1>5. ASSUME NEW a \in Asks, ResourceArrives(a) \/ ResourceFails(a)
      PROVE  DetailsAreOfTheSelected' /\ ClosesWithItsNode'
  BY <1>5 DEF ResourceArrives, ResourceFails, RenderAnswer, vars, viewVars,
     DetailsAreOfTheSelected, ClosesWithItsNode
<1>6. CASE UNCHANGED allVars
  BY <1>6 DEF allVars, vars, viewVars, panelVars, DetailsAreOfTheSelected, ClosesWithItsNode
<1> QED BY <1>1, <1>2, <1>3, <1>4, <1>5, <1>6 DEF PanelNext

(* With the panel or without, the connection behaves as Dashboard says, so
   that all of the above holds of a tab with its panel. *)
THEOREM PanelImplementsDashboard == PanelSpec => Spec
<1>1. PanelInit => Init
  BY DEF PanelInit
<1> QED BY <1>1, PanelStepIsStep, PTL DEF PanelSpec, Spec

LEMMA PanelInvariant == PanelSpec => [](DetailsAreOfTheSelected /\ ClosesWithItsNode)
BY PanelImplementsDashboard, DashboardInvariant, InitPanel, StepPanel, PTL DEF PanelSpec

(* The panel shows details of the selected node only. *)
THEOREM PanelOfTheSelected == PanelSpec => []DetailsAreOfTheSelected
BY PanelInvariant, PTL

(* The panel closes when a change set removes its node. *)
THEOREM PanelCloses == PanelSpec => []ClosesWithItsNode
BY PanelInvariant, PTL
=============================================================================
