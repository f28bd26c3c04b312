-------------------------------- MODULE Panel --------------------------------
(***************************************************************************)
(* The panel of the selected node in internal/web/static/app.js, on top of *)
(* the tab's connection: selectNode, closeDetail, fetchResource, and what  *)
(* applyMessage does to the panel.  Every selection but that of the        *)
(* cluster asks the server for the whole object; the answer comes when the *)
(* user may have selected something else, and changes may have come in     *)
(* between.  Of an answer the node remains that it is about.               *)
(***************************************************************************)
EXTENDS Dashboard

CONSTANTS
    Asks,           \* GETs of api/resource that may be on their way
    NoNode

ASSUME PanelAssumption == NoNode \notin NodeIds

VARIABLES
    selected,       \* selectedId
    extra,          \* detailExtra: what it is about, or NoNode for null
    asked,          \* ask -> the node of a pending request, or NoNode
    replaced        \* a snapshot has replaced the tables since the selection

panelVars == <<selected, extra, asked, replaced>>
allVars == <<vars, panelVars>>

PanelInit ==
    /\ Init
    /\ selected = NoNode /\ extra = NoNode /\ replaced = FALSE
    /\ asked = [a \in Asks |-> NoNode]

closeDetail == selected' = NoNode /\ extra' = NoNode

-----------------------------------------------------------------------------
(* A click on a node, or on a related one in the panel; on the canvas a
   click on the cluster does something else. *)
selectNode(n) ==
    /\ n \in DOMAIN view.nodes
    /\ view.nodes[n].kind = "Cluster" => selected # NoNode
    /\ selected' = n /\ extra' = NoNode /\ replaced' = FALSE
    /\ IF view.nodes[n].kind = "Cluster" THEN UNCHANGED asked
       ELSE \E a \in Asks : asked[a] = NoNode /\ asked' = [asked EXCEPT ![a] = n]
    /\ UNCHANGED vars

CloseButton ==
    /\ selected # NoNode
    /\ closeDetail
    /\ UNCHANGED <<asked, replaced, vars>>

(* Fault: the answer is shown whatever is selected by now. *)
RenderAnswerAlways(a) == extra' = asked[a]

RenderAnswer(a) == extra' = IF selected = asked[a] THEN asked[a] ELSE extra

ResourceArrives(a) ==
    /\ asked[a] # NoNode
    /\ RenderAnswer(a)
    /\ asked' = [asked EXCEPT ![a] = NoNode]
    /\ UNCHANGED <<selected, replaced, vars>>

(* Fault: an error is not caught. *)
ResourceFailsSilently(a) ==
    /\ asked[a] # NoNode
    /\ asked' = [asked EXCEPT ![a] = NoNode]
    /\ UNCHANGED <<selected, extra, replaced, vars>>

(* An answer that is not ok, or none, counts as one without events. *)
ResourceFails(a) ==
    /\ asked[a] # NoNode
    /\ RenderAnswer(a)
    /\ asked' = [asked EXCEPT ![a] = NoNode]
    /\ UNCHANGED <<selected, replaced, vars>>

-----------------------------------------------------------------------------
(* Fault: applyMessage does not look at the panel. *)
PanelStays(d) ==
    /\ replaced' = (replaced \/ d.type = "snapshot")
    /\ UNCHANGED <<selected, extra, asked>>

(* What applyMessage does to the panel. *)
PanelFollows(d) ==
    /\ IF selected \in d.removeNodes THEN closeDetail ELSE UNCHANGED <<selected, extra>>
    /\ replaced' = (replaced \/ d.type = "snapshot")
    /\ UNCHANGED asked

Delivered == IF at = 0 THEN AsSnapshot(hist[at']) ELSE DiffAgainst(hist[at'], hist[at])

Draw ==
    \/ \E s \in Slots : FetchArrives(s) /\ PanelFollows(AsSnapshot(hist[fetch[s]]))
    \/ OnMessage /\ PanelFollows(Delivered)

Connection ==
    /\ \/ \E g \in Graphs : Publish(g)
       \/ \E s \in Slots : Respond(s) \/ FetchFails(s) \/ Poll(s)
       \/ Subscribe \/ OnOpen \/ OnClose \/ RetryFires
    /\ UNCHANGED panelVars

PanelNext ==
    \/ Draw \/ Connection
    \/ \E n \in NodeIds : selectNode(n)
    \/ CloseButton
    \/ \E a \in Asks : ResourceArrives(a) \/ ResourceFails(a)

PanelSpec == PanelInit /\ [][PanelNext]_allVars

(* A request ends in one way or the other. *)
FairPanelSpec ==
    /\ PanelSpec /\ Fairness
    /\ \A a \in Asks : WF_allVars(ResourceArrives(a) \/ ResourceFails(a))

-----------------------------------------------------------------------------
(* The panel never shows the details of another node than the selected one,
   in whatever order requests end and nodes are selected (app.js:446-454:
   selectedId is compared after the await). *)
DetailsAreOfTheSelected == extra \in {NoNode, selected}

(* The panel closes with its node: what is selected is in the tables, unless
   a snapshot has replaced them since, which only empties them
   (app.js:48, 51). *)
ClosesWithItsNode ==
    selected # NoNode /\ ~replaced => selected \in DOMAIN view.nodes

(* A panel does not go on loading: the answer comes, or an error in its
   place, or another node is selected, whatever was asked before.  Only the
   panel of the cluster, for which nothing is asked, loads for ever
   (app.js:364, 441). *)
DetailsCome ==
    \A n \in NodeIds :
       selected = n /\ KindOf[n] # "Cluster" ~> selected # n \/ extra = n
=============================================================================
