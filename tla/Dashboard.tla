----------------------------- MODULE Dashboard -----------------------------
(***************************************************************************)
(* One browser tab (internal/web/static/app.js): the first fetch, the      *)
(* WebSocket with its reconnection timer, and the polling that replaces it *)
(* while it is down.  The server is the feed that LiveFeed specifies: a    *)
(* socket first delivers the graph current when it subscribed, then the    *)
(* change set to each later one; a GET of api/topology answers with the    *)
(* graph of some moment between its request and its response.              *)
(*                                                                         *)
(* The tab keeps no list of its requests: a fetch runs in a slot here so   *)
(* that several can be on their way at once, as setInterval allows.        *)
(* The panel of the selected node is in Panel; drawing, the overlay and    *)
(* the filters are left out.                                               *)
(***************************************************************************)
EXTENDS Topology, Integers

CONSTANTS
    Graphs,         \* graphs that the collector publishes
    Slots,          \* fetches of api/topology that may be in flight
    NoSlot,
    MaxPublish,     \* bound: number of graphs published
    MaxFail         \* bound: failed fetches, refused or broken sockets

ASSUME DashboardAssumption ==
    /\ MaxPublish \in Nat \ {0} /\ MaxFail \in Nat /\ IsFiniteSet(Slots) /\ Slots # {}
    /\ \A g \in Graphs : IsGraph(g)
    /\ \A g, p \in Graphs : Comparable(p, g)
    /\ NoSlot \notin Slots

VARIABLES
    hist,           \* the graphs published so far, the last is current
    fetch,          \* slot -> Idle, Asked, or the version in its response
    booting,        \* slot of the first fetch, whose end calls connect, or NoSlot
    ws,             \* "none", "connecting" or "open"
    joined, at,     \* version the socket subscribed at, and last delivered
    retries,        \* pending setTimeout(connect)
    polling,        \* pollTimer is set
    view, shown,    \* the tables, and the version of the last message applied
    overtaken,      \* a fetch was in flight when the snapshot was applied
    fails

vars == <<hist, fetch, booting, ws, joined, at, retries, polling, view, shown,
          overtaken, fails>>
netVars == <<ws, joined, at, retries, polling>>
viewVars == <<view, shown, overtaken>>

Idle == -1
Asked == 0
Latest == Len(hist)
InFlight == {s \in Slots : fetch[s] # Idle}

Init ==
    /\ \E g \in Graphs : hist = <<g>>
    /\ \E s \in Slots :
          booting = s /\ fetch = [t \in Slots |-> IF t = s THEN Asked ELSE Idle]
    /\ ws = "none" /\ joined = 0 /\ at = 0 /\ retries = 0 /\ polling = FALSE
    /\ view = ZeroGraph /\ shown = 0 /\ overtaken = FALSE /\ fails = 0

-----------------------------------------------------------------------------
(* The server. *)
Publish(g) ==
    /\ Latest < MaxPublish /\ g # hist[Latest]
    /\ hist' = Append(hist, g)
    /\ UNCHANGED <<fetch, booting, netVars, viewVars, fails>>

Respond(s) ==
    /\ fetch[s] = Asked
    /\ fetch' = [fetch EXCEPT ![s] = Latest]
    /\ UNCHANGED <<hist, booting, netVars, viewVars, fails>>

Subscribe ==
    /\ ws = "open" /\ joined = 0
    /\ joined' = Latest
    /\ UNCHANGED <<hist, fetch, booting, ws, at, retries, polling, viewVars, fails>>

-----------------------------------------------------------------------------
(* The tab. *)
Show(d, v) ==
    /\ view' = ApplyMessage(view, d)
    /\ shown' = v

(* startPolling, with the poll that it runs at once (s). *)
StartPolling(s) ==
    IF polling
    THEN UNCHANGED <<polling, fetch>>
    ELSE /\ fetch[s] = Idle
         /\ polling' = TRUE
         /\ fetch' = [fetch EXCEPT ![s] = Asked]

(* Fault: the timer is not cleared. *)
StopPollingNot == UNCHANGED polling

StopPolling == polling' = FALSE

(* Fault: the error and the close of one socket both schedule a retry. *)
ScheduleReconnectTwice(s) ==
    /\ ws' = "none" /\ joined' = 0 /\ at' = 0
    /\ retries' = retries + 2
    /\ StartPolling(s)

ScheduleReconnect(s) ==
    /\ ws' = "none" /\ joined' = 0 /\ at' = 0
    /\ retries' = retries + 1
    /\ StartPolling(s)

(* connect: the constructor returns a socket that is connecting. *)
Connect ==
    /\ ws' = "connecting"
    /\ UNCHANGED <<joined, at, polling>>

FetchEnds(s) ==
    /\ fetch' = [fetch EXCEPT ![s] = Idle]
    /\ IF s = booting
       THEN booting' = NoSlot /\ Connect /\ UNCHANGED retries
       ELSE UNCHANGED <<booting, netVars>>

FetchArrives(s) ==
    /\ fetch[s] \in 1..Latest
    /\ Show(AsSnapshot(hist[fetch[s]]), fetch[s])
    /\ FetchEnds(s)
    /\ UNCHANGED <<hist, overtaken, fails>>

(* Fault: connect runs only if the first fetch succeeded. *)
FetchFailsForGood(s) ==
    /\ fetch[s] # Idle /\ fails < MaxFail
    /\ fetch' = [fetch EXCEPT ![s] = Idle]
    /\ booting' = IF s = booting THEN NoSlot ELSE booting
    /\ fails' = fails + 1
    /\ UNCHANGED <<hist, netVars, viewVars>>

FetchFails(s) ==
    /\ fetch[s] # Idle /\ fails < MaxFail
    /\ FetchEnds(s)
    /\ fails' = fails + 1
    /\ UNCHANGED <<hist, viewVars>>

Poll(s) ==
    /\ polling /\ fetch[s] = Idle
    /\ fetch' = [fetch EXCEPT ![s] = Asked]
    /\ UNCHANGED <<hist, booting, netVars, viewVars, fails>>

OnOpen ==
    /\ ws = "connecting"
    /\ ws' = "open"
    /\ StopPolling
    /\ UNCHANGED <<hist, fetch, booting, joined, at, retries, viewVars, fails>>

OnMessage ==
    /\ ws = "open" /\ joined > 0
    /\ LET v == IF at = 0 THEN joined ELSE at + 1 IN
       /\ v <= Latest
       /\ at' = v
       /\ Show(IF at = 0 THEN AsSnapshot(hist[v]) ELSE DiffAgainst(hist[v], hist[v - 1]), v)
       /\ overtaken' = IF at = 0 THEN InFlight # {} ELSE overtaken
    /\ UNCHANGED <<hist, fetch, booting, ws, joined, retries, polling, fails>>

(* The socket could not open, broke, or was closed by the server. *)
OnClose ==
    /\ ws # "none" /\ fails < MaxFail
    /\ fails' = fails + 1
    /\ \E s \in Slots : ScheduleReconnect(s)
    /\ UNCHANGED <<hist, booting, viewVars>>

RetryFires ==
    /\ retries > 0
    /\ retries' = retries - 1
    /\ Connect
    /\ UNCHANGED <<hist, fetch, booting, viewVars, fails>>

-----------------------------------------------------------------------------
Next ==
    \/ \E g \in Graphs : Publish(g)
    \/ \E s \in Slots : Respond(s) \/ FetchArrives(s) \/ FetchFails(s) \/ Poll(s)
    \/ Subscribe \/ OnOpen \/ OnMessage \/ OnClose \/ RetryFires

Spec == Init /\ [][Next]_vars

(***************************************************************************)
(* Timers fire, and what the network does not break it delivers.           *)
(***************************************************************************)
Fairness ==
    /\ \A s \in Slots : WF_vars(Respond(s)) /\ WF_vars(FetchArrives(s))
    /\ WF_vars(\E s \in Slots : Poll(s))
    /\ WF_vars(Subscribe) /\ WF_vars(OnOpen) /\ WF_vars(OnMessage)
    /\ WF_vars(RetryFires)

FairSpec == Spec /\ Fairness

-----------------------------------------------------------------------------
(* Type invariant. *)
TypeOK ==
    /\ hist \in Seq(Graphs) /\ Latest \in 1..MaxPublish
    /\ fetch \in [Slots -> {Idle, Asked} \cup 1..MaxPublish]
    /\ booting \in Slots \cup {NoSlot}
    /\ ws \in {"none", "connecting", "open"}
    /\ joined \in 0..MaxPublish /\ at \in 0..MaxPublish
    /\ retries \in Nat /\ polling \in BOOLEAN
    /\ IsGraph(view) /\ shown \in 0..MaxPublish
    /\ overtaken \in BOOLEAN /\ fails \in 0..MaxFail

(* A tab never runs two connections side by side: after the first fetch
   there is one socket or one pending reconnection, never both or neither,
   however often sockets fail (app.js:547-555). *)
OneConnection ==
    (IF booting = NoSlot THEN 0 ELSE 1) + (IF ws = "none" THEN 0 ELSE 1) + retries = 1

(* While the stream is down after having been tried, the tab polls, and
   while it is up it does not start to (README: degrades to polling). *)
PollsExactlyWhileDown ==
    /\ ws = "open" => ~polling
    /\ retries > 0 => polling

(* A live tab whose requests had all ended when its snapshot came shows
   exactly the version that the socket last delivered. *)
LiveViewMatches ==
    ws = "open" /\ at > 0 /\ ~overtaken => view = hist[at]

(* The same without the condition on requests, as the README has it: a tab
   in the live state shows what the stream delivered. *)
LiveViewIsTheStream ==
    ws = "open" /\ at > 0 => view = hist[at]

(* Whatever is published is shown some time later, by the stream or by
   polling, once failures end; unless a response that was still due when the
   stream came back is drawn over it (scheduleReconnect, startPolling). *)
EveryGraphIsReached ==
    \A v \in 1..MaxPublish : Latest >= v ~> shown >= v \/ overtaken

-----------------------------------------------------------------------------
(* The inductive invariant adds where versions are, and that no request is
   on its way behind a socket whose snapshot found none. *)
VersionsInOrder ==
    /\ \A s \in Slots : fetch[s] <= Latest
    /\ joined <= Latest /\ at <= Latest /\ shown <= Latest
    /\ ws # "open" => joined = 0
    /\ joined = 0 => at = 0

Undisturbed ==
    ws = "open" /\ at > 0 /\ ~overtaken => InFlight = {} /\ view = hist[at]

IInv ==
    /\ TypeOK /\ OneConnection /\ PollsExactlyWhileDown
    /\ VersionsInOrder /\ Undisturbed
    /\ booting # NoSlot => ~polling
=============================================================================
