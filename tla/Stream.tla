------------------------------- MODULE Stream -------------------------------
(***************************************************************************)
(* The live feed: rebuild and Subscribe of the collector, the broker, one  *)
(* handleStream per WebSocket, and the tables of each dashboard.           *)
(*                                                                         *)
(* A connection h is used once: a browser that reconnects is a new member  *)
(* of Conns, and may start from any tables (view[h] is arbitrary at first).*)
(* The critical sections under c.mu are split at the points where code     *)
(* that does not take c.mu (unsubscribe, the handlers, the clients) can    *)
(* run in between; those under broker.mu alone are single steps.           *)
(*                                                                         *)
(* Three variables record history and drive nothing: hist is the sequence  *)
(* of the graphs published so far, first[h] the version that h subscribed  *)
(* at and seen[h] the version that h was last given.  A message carries    *)
(* the version it leads to, which stands for its timestamp.                *)
(***************************************************************************)
EXTENDS Topology

CONSTANTS
    Conns,          \* WebSocket connections
    Graphs,         \* the graphs that buildGraph may return
    Cap,            \* capacity of a subscriber's channel (32)
    WireCap,        \* messages that fit the socket buffers of a connection
    MaxPublish,     \* bound: number of graphs published in a behaviour
    Free, Builder, NoMsg

ASSUME StreamAssumption ==
    /\ Cap \in Nat \ {0} /\ WireCap \in Nat \ {0} /\ MaxPublish \in Nat
    /\ Free # Builder /\ Free \notin Conns /\ Builder \notin Conns

(* The cluster node is part of every graph built, so none is the zero Graph. *)
ASSUME GraphsAssumption ==
    /\ \A g \in Graphs : IsGraph(g) /\ DOMAIN g.nodes # {}
    /\ \A g, p \in Graphs : Comparable(p, g)

VARIABLES
    mu,             \* who holds c.mu for writing
    lastGraph,      \* c.lastGraph
    diff,           \* rebuild's local d, from the swap to the broadcast
    hist,
    next, subs,     \* broker.next, broker.subs (id to connection)
    subId,          \* the id that h's unsubscribe func captured, or NoId
    chan, closed,   \* h's channel: its buffer, and whether it was closed
    pc, held,       \* handleStream of h, and the message it is writing
    sock, wire,     \* h's connection, and what is in flight to the client
    readerDone,     \* the `closed` channel of h's reader pump
    view,           \* the tables of h's dashboard
    first, seen,
    panicked        \* a send on, or a close of, a closed channel

graphVars == <<mu, lastGraph, diff, hist>>
brokerVars == <<next, subs, chan, closed, panicked>>
handlerVars == <<subId, pc, held, sock, readerDone>>
clientVars == <<view, seen>>
vars == <<graphVars, brokerVars, handlerVars, wire, clientVars, first>>

NoId == 0
Latest == Len(hist)
Message(d, v) == [body |-> d, ver |-> v]

Init ==
    /\ mu = Free /\ lastGraph = ZeroGraph /\ diff = NoMsg /\ hist = <<>>
    /\ next = 1 /\ subs = [i \in {} |-> Builder]
    /\ subId = [h \in Conns |-> NoId]
    /\ chan = [h \in Conns |-> <<>>] /\ closed = [h \in Conns |-> FALSE]
    /\ pc = [h \in Conns |-> "idle"] /\ held = [h \in Conns |-> NoMsg]
    /\ sock = [h \in Conns |-> "none"] /\ wire = [h \in Conns |-> <<>>]
    /\ readerDone = [h \in Conns |-> FALSE]
    /\ view \in [Conns -> Graphs \cup {ZeroGraph}]
    /\ first = [h \in Conns |-> 0] /\ seen = [h \in Conns |-> 0]
    /\ panicked = FALSE

Lock(p) == mu = Free /\ mu' = p
Unlock(p) == mu = p /\ mu' = Free

-----------------------------------------------------------------------------
(* rebuild: buildGraph returned g; swap the graph and compute the change set. *)
RebuildSwap(g) ==
    /\ g = lastGraph \/ Latest < MaxPublish
    /\ Lock(Builder)
    /\ lastGraph' = g
    /\ diff' = IF lastGraph = ZeroGraph THEN AsSnapshot(g)
                                        ELSE DiffAgainst(g, lastGraph)
    /\ UNCHANGED <<hist, brokerVars, handlerVars, wire, clientVars, first>>

(* broadcast: never blocks; a subscriber whose buffer is full is dropped. *)
Full(h) == Len(chan[h]) >= Cap

(* Fault: a full subscriber misses the message and stays. *)
BroadcastSkipsFull(m) ==
    /\ chan' = [h \in Conns |->
          IF h \in {subs[i] : i \in DOMAIN subs} /\ ~Full(h)
          THEN Append(chan[h], m) ELSE chan[h]]
    /\ panicked' = (panicked \/ \E i \in DOMAIN subs : closed[subs[i]])
    /\ UNCHANGED <<next, subs, closed>>

(* Fault: a full subscriber is removed, but its channel is not closed. *)
BroadcastForgetsClose(m) ==
    LET sent == {subs[i] : i \in DOMAIN subs} IN
    /\ chan' = [h \in Conns |->
          IF h \in sent /\ ~Full(h) THEN Append(chan[h], m) ELSE chan[h]]
    /\ subs' = Only(subs, {i \in DOMAIN subs : ~Full(subs[i])})
    /\ panicked' = (panicked \/ \E h \in sent : closed[h])
    /\ UNCHANGED <<next, closed>>

Broadcast(m) ==
    LET sent    == {subs[i] : i \in DOMAIN subs}
        dropped == {h \in sent : Full(h)}
    IN  /\ chan' = [h \in Conns |->
              IF h \in sent \ dropped THEN Append(chan[h], m) ELSE chan[h]]
        /\ closed' = [h \in Conns |-> closed[h] \/ h \in dropped]
        /\ subs' = Only(subs, {i \in DOMAIN subs : subs[i] \notin dropped})
        /\ panicked' = (panicked \/ \E h \in sent : closed[h])
        /\ UNCHANGED next

RebuildPublish ==
    /\ Unlock(Builder)
    /\ IF IsEmptyDiff(diff)
       THEN UNCHANGED <<hist, brokerVars>>
       ELSE /\ hist' = Append(hist, lastGraph)
            /\ Broadcast(Message(diff, Latest + 1))
    /\ diff' = NoMsg
    /\ UNCHANGED <<lastGraph, handlerVars, wire, clientVars, first>>

-----------------------------------------------------------------------------
(* The servers start only after Start has built the first graph. *)
Upgrade(h) ==
    /\ pc[h] = "idle" /\ lastGraph # ZeroGraph
    /\ \/ /\ pc' = [pc EXCEPT ![h] = "upgraded"]
          /\ sock' = [sock EXCEPT ![h] = "open"]
       \/ /\ pc' = [pc EXCEPT ![h] = "done"]
          /\ UNCHANGED sock
    /\ UNCHANGED <<graphVars, brokerVars, subId, held, readerDone, wire,
                   clientVars, first>>

(* Fault: Subscribe registers and reads the graph without taking c.mu. *)
RegisterWithoutLock(h) ==
    /\ pc[h] = "upgraded" /\ hist # <<>>
    /\ subs' = Upsert(subs, [i \in {next} |-> h])
    /\ next' = next + 1
    /\ subId' = [subId EXCEPT ![h] = next]
    /\ pc' = [pc EXCEPT ![h] = "writing"]
    /\ held' = [held EXCEPT ![h] = Message(AsSnapshot(lastGraph), Latest)]
    /\ first' = [first EXCEPT ![h] = Latest]
    /\ seen' = [seen EXCEPT ![h] = Latest - 1]
    /\ UNCHANGED <<graphVars, chan, closed, panicked, sock, readerDone, wire, view>>

(* Subscribe, first half: lock and register with the broker. *)
Register(h) ==
    /\ pc[h] = "upgraded"
    /\ Lock(h)
    /\ subs' = Upsert(subs, [i \in {next} |-> h])
    /\ next' = next + 1
    /\ subId' = [subId EXCEPT ![h] = next]
    /\ pc' = [pc EXCEPT ![h] = "registered"]
    /\ first' = [first EXCEPT ![h] = Latest]
    /\ seen' = [seen EXCEPT ![h] = Latest - 1]
    /\ UNCHANGED <<lastGraph, diff, hist, chan, closed, panicked, held, sock,
                   readerDone, wire, view>>

(* Subscribe, second half: the snapshot of the graph, then unlock; the
   handler goes on to write it. *)
Capture(h) ==
    /\ pc[h] = "registered"
    /\ Unlock(h)
    /\ held' = [held EXCEPT ![h] = Message(AsSnapshot(lastGraph), Latest)]
    /\ pc' = [pc EXCEPT ![h] = "writing"]
    /\ UNCHANGED <<lastGraph, diff, hist, brokerVars, subId, sock, readerDone,
                   wire, clientVars, first>>

(* writeMsg succeeds: the message is in the socket buffer, or was lost in
   it if the peer is gone and the kernel has not found out. *)
WriteOk(h) ==
    /\ pc[h] = "writing"
    /\ \/ /\ sock[h] = "open" /\ Len(wire[h]) < WireCap
          /\ wire' = [wire EXCEPT ![h] = Append(wire[h], held[h])]
       \/ /\ sock[h] = "broken"
          /\ UNCHANGED wire
    /\ held' = [held EXCEPT ![h] = NoMsg]
    /\ pc' = [pc EXCEPT ![h] = "loop"]
    /\ UNCHANGED <<graphVars, brokerVars, subId, sock, readerDone, clientVars,
                   first>>

(* A write fails on a broken connection, or at its deadline when the
   client does not drain the socket. *)
WriteCanFail(h) == sock[h] = "broken" \/ Len(wire[h]) = WireCap

(* Fault: the handler returns before unsubscribe was deferred. *)
WriteFailNotDeferred(h) ==
    /\ pc[h] = "writing" /\ WriteCanFail(h)
    /\ held' = [held EXCEPT ![h] = NoMsg]
    /\ pc' = [pc EXCEPT ![h] = "done"]
    /\ UNCHANGED <<graphVars, brokerVars, subId, sock, readerDone, wire,
                   clientVars, first>>

WriteFail(h) ==
    /\ pc[h] = "writing" /\ WriteCanFail(h)
    /\ held' = [held EXCEPT ![h] = NoMsg]
    /\ pc' = [pc EXCEPT ![h] = "returning"]
    /\ UNCHANGED <<graphVars, brokerVars, subId, sock, readerDone, wire,
                   clientVars, first>>

-----------------------------------------------------------------------------
(* The select loop. *)
TakeDiff(h) ==
    /\ pc[h] = "loop" /\ chan[h] # <<>>
    /\ held' = [held EXCEPT ![h] = Head(chan[h])]
    /\ chan' = [chan EXCEPT ![h] = Tail(chan[h])]
    /\ pc' = [pc EXCEPT ![h] = "writing"]
    /\ UNCHANGED <<graphVars, next, subs, closed, panicked, subId, sock,
                   readerDone, wire, clientVars, first>>

Leave(h) ==
    /\ pc[h] = "loop"
    /\ pc' = [pc EXCEPT ![h] = "returning"]
    /\ UNCHANGED <<graphVars, brokerVars, subId, held, sock, readerDone, wire,
                   clientVars, first>>

(* Fault: the closed channel is not told from one that delivers. *)
SeeDroppedWritesZero(h) ==
    /\ pc[h] = "loop" /\ chan[h] = <<>> /\ closed[h]
    /\ held' = [held EXCEPT ![h] = Message(DiffAgainst(lastGraph, lastGraph), Latest)]
    /\ pc' = [pc EXCEPT ![h] = "writing"]
    /\ UNCHANGED <<graphVars, brokerVars, subId, sock, readerDone, wire,
                   clientVars, first>>

(* The channel is closed and drained: the broker dropped this client. *)
SeeDropped(h) == chan[h] = <<>> /\ closed[h] /\ Leave(h)
SeeReaderDone(h) == readerDone[h] /\ Leave(h)
PingFails(h) == WriteCanFail(h) /\ Leave(h)

(* Fault: unsubscribe closes the channel without looking it up. *)
UnsubscribeUnchecked(h) ==
    /\ pc[h] = "returning"
    /\ subs' = Without(subs, {subId[h]})
    /\ closed' = [closed EXCEPT ![h] = TRUE]
    /\ panicked' = (panicked \/ closed[h])
    /\ pc' = [pc EXCEPT ![h] = "unsubscribed"]
    /\ UNCHANGED <<graphVars, next, chan, subId, held, sock, readerDone, wire,
                   clientVars, first>>

(* Deferred calls, last in first out: unsubscribe, then conn.Close. *)
Unsubscribe(h) ==
    /\ pc[h] = "returning"
    /\ IF subId[h] \in DOMAIN subs
       THEN LET c == subs[subId[h]] IN
            /\ subs' = Without(subs, {subId[h]})
            /\ closed' = [closed EXCEPT ![c] = TRUE]
            /\ panicked' = (panicked \/ closed[c])
       ELSE UNCHANGED <<subs, closed, panicked>>
    /\ pc' = [pc EXCEPT ![h] = "unsubscribed"]
    /\ UNCHANGED <<graphVars, next, chan, subId, held, sock, readerDone, wire,
                   clientVars, first>>

CloseConn(h) ==
    /\ pc[h] = "unsubscribed"
    /\ sock' = [sock EXCEPT ![h] = IF sock[h] = "open" THEN "closed" ELSE @]
    /\ pc' = [pc EXCEPT ![h] = "done"]
    /\ UNCHANGED <<graphVars, brokerVars, subId, held, readerDone, wire,
                   clientVars, first>>

(* Fault: the reader pump ends without closing its channel. *)
ReaderExitSilent(h) ==
    /\ pc[h] = "loop" /\ sock[h] = "broken"
    /\ UNCHANGED vars

(* The reader pump, started before the snapshot is written: ReadMessage
   fails once the peer or the handler has closed the connection. *)
ReaderExit(h) ==
    /\ pc[h] \in {"writing", "loop", "returning", "unsubscribed", "done"}
    /\ sock[h] \in {"broken", "closed"} /\ ~readerDone[h]
    /\ readerDone' = [readerDone EXCEPT ![h] = TRUE]
    /\ UNCHANGED <<graphVars, brokerVars, subId, pc, held, sock, wire,
                   clientVars, first>>

-----------------------------------------------------------------------------
(* The client: the tab receives a message, or goes away with its network. *)
Deliver(h) ==
    /\ wire[h] # <<>>
    /\ view' = [view EXCEPT ![h] = ApplyMessage(@, Head(wire[h]).body)]
    /\ seen' = [seen EXCEPT ![h] = Head(wire[h]).ver]
    /\ wire' = [wire EXCEPT ![h] = Tail(wire[h])]
    /\ UNCHANGED <<graphVars, brokerVars, handlerVars, first>>

Break(h) ==
    /\ sock[h] \in {"open", "closed"}
    /\ sock' = [sock EXCEPT ![h] = "broken"]
    /\ wire' = [wire EXCEPT ![h] = <<>>]
    /\ UNCHANGED <<graphVars, brokerVars, subId, pc, held, readerDone,
                   clientVars, first>>

-----------------------------------------------------------------------------
Handler(h) ==
    \/ Register(h) \/ Capture(h) \/ WriteOk(h) \/ WriteFail(h)
    \/ TakeDiff(h) \/ SeeDropped(h) \/ SeeReaderDone(h) \/ PingFails(h)
    \/ Unsubscribe(h) \/ CloseConn(h)

Next ==
    \/ \E g \in Graphs : RebuildSwap(g)
    \/ RebuildPublish
    \/ \E h \in Conns :
          Upgrade(h) \/ Handler(h) \/ ReaderExit(h) \/ Deliver(h) \/ Break(h)

Spec == Init /\ [][Next]_vars

(***************************************************************************)
(* A goroutine that can run does: Register needs strong fairness because   *)
(* c.mu comes and goes (a Go mutex is starvation-free), SeeReaderDone      *)
(* because select chooses at random among what is ready.  A browser that   *)
(* is connected handles its messages; nothing makes a connection break,    *)
(* but a broken one is noticed (by a reset, or when TCP gives up).         *)
(***************************************************************************)
FairServer ==
    /\ WF_vars(RebuildPublish)
    /\ \A h \in Conns :
          /\ WF_vars(Handler(h)) /\ SF_vars(Register(h))
          /\ SF_vars(SeeReaderDone(h)) /\ WF_vars(ReaderExit(h))

FairClient == \A h \in Conns : WF_vars(Deliver(h))
FairSpec == Spec /\ FairServer

-----------------------------------------------------------------------------
(* Type invariant: the broker's map, each channel (never above its
   capacity), each handler's position and each socket. *)
Versions == 0..MaxPublish
Bodies == {AsSnapshot(g) : g \in Graphs} \cup {DiffAgainst(g, p) : g, p \in Graphs}
Messages == [body : Bodies, ver : Versions]
PcValues == {"idle", "upgraded", "registered", "writing", "loop", "returning",
             "unsubscribed", "done"}

TypeOK ==
    /\ mu \in {Free, Builder} \cup Conns
    /\ lastGraph \in Graphs \cup {ZeroGraph}
    /\ diff \in Bodies \cup {NoMsg}
    /\ hist \in Seq(Graphs) /\ Latest <= MaxPublish
    /\ next \in Nat \ {0} /\ DOMAIN subs \subseteq 1..(next - 1)
    /\ \A i \in DOMAIN subs : subs[i] \in Conns
    /\ subId \in [Conns -> 0..(next - 1)]
    /\ chan \in [Conns -> Seq(Messages)] /\ \A h \in Conns : Len(chan[h]) <= Cap
    /\ closed \in [Conns -> BOOLEAN]
    /\ pc \in [Conns -> PcValues]
    /\ held \in [Conns -> Messages \cup {NoMsg}]
    /\ \A h \in Conns : pc[h] = "writing" => held[h] \in Messages
    /\ sock \in [Conns -> {"none", "open", "broken", "closed"}]
    /\ wire \in [Conns -> Seq(Messages)] /\ \A h \in Conns : Len(wire[h]) <= WireCap
    /\ readerDone \in [Conns -> BOOLEAN]
    /\ view \in [Conns -> Graphs \cup {ZeroGraph}]
    /\ first \in [Conns -> Versions] /\ seen \in [Conns -> Versions]
    /\ panicked \in BOOLEAN

Subscribed(h) == subId[h] # NoId /\ subId[h] \in DOMAIN subs
Snapped(h) == first[h] > 0 /\ seen[h] >= first[h]

(* What a tab shows after its snapshot is, node for node and edge for edge,
   a graph that the collector held: the one of the last message given to it
   (applyMessage after DiffAgainst; broker.go and app.js). *)
ShowsAPublishedGraph ==
    \A h \in Conns : Snapped(h) => view[h] = hist[seen[h]]

(* Subscribe and the broker lose nothing and duplicate nothing
   (collector.go:243-246): what is on its way to a subscriber, in the
   socket, in the handler's hand and in the channel, is every version after
   the one it shows up to the latest published, each once and in order. *)
Pending(h) ==
    wire[h] \o (IF pc[h] = "writing" THEN <<held[h]>> ELSE <<>>) \o chan[h]

NothingLostOrRepeated ==
    \A h \in Conns :
       Subscribed(h) /\ pc[h] \in {"writing", "loop"} /\ sock[h] = "open" =>
          /\ Len(Pending(h)) = Latest - seen[h]
          /\ \A j \in DOMAIN Pending(h) : Pending(h)[j].ver = seen[h] + j

(* Neither broadcast nor unsubscribe touches a channel that is already
   closed, whatever the order of a drop and of the handler's own
   unsubscribe: a panic in broadcast would end the process. *)
NeverPanics == ~panicked

(* A handler that returned left nothing behind: its subscription is gone
   and its channel closed, and every registration in the broker belongs to
   a live handler that holds its id. *)
NoSubscriptionLeaks ==
    /\ \A i \in DOMAIN subs :
          /\ subId[subs[i]] = i /\ ~closed[subs[i]]
          /\ pc[subs[i]] \in {"registered", "writing", "loop", "returning"}
    /\ \A h \in Conns :
          pc[h] = "done" /\ subId[h] # NoId => ~Subscribed(h) /\ closed[h]

(* The stream implements the abstract feed. *)
Feed == INSTANCE LiveFeed WITH
    published <- hist, joined <- first, screen <- view,
    at <- [h \in Conns |-> IF Snapped(h) THEN seen[h] ELSE 0]
ImplementsLiveFeed == Feed!Spec

(* A subscriber that the broker dropped is disconnected, even if its client
   reads nothing, so that it can come back for a fresh snapshot
   (broker.go:9-11). *)
DroppedIsDisconnected == \A h \in Conns : closed[h] ~> pc[h] = "done"

(* The handler and the reader pump of a connection whose peer is gone both
   end: neither goroutine nor subscription is kept. *)
GoneIsReaped ==
    \A h \in Conns :
       sock[h] = "broken" /\ pc[h] \notin {"idle", "done"} ~>
          pc[h] = "done" /\ (subId[h] # NoId => readerDone[h])

(* A connected tab whose client goes on reading its messages catches up
   with every graph published, or is disconnected. *)
CatchesUp ==
    FairClient =>
       \A h \in Conns : \A v \in 1..MaxPublish :
          sock[h] = "open" /\ Latest >= v ~> seen[h] >= v \/ sock[h] # "open"

-----------------------------------------------------------------------------
(***************************************************************************)
(* The inductive invariant.  It says where each version is: a message at   *)
(* distance j from a tab, counted through its socket, its handler's hand   *)
(* and its channel, leads to version seen[h] + j of the history.           *)
(***************************************************************************)
LockInv ==
    /\ \A h \in Conns : pc[h] = "registered" <=> mu = h
    /\ IF mu = Builder
       THEN /\ lastGraph \in Graphs
            /\ diff = IF hist = <<>> THEN AsSnapshot(lastGraph)
                                     ELSE DiffAgainst(lastGraph, hist[Latest])
            /\ Latest = MaxPublish => hist # <<>> /\ lastGraph = hist[Latest]
       ELSE lastGraph = IF hist = <<>> THEN ZeroGraph ELSE hist[Latest]
    /\ \A h \in Conns : pc[h] # "idle" => lastGraph # ZeroGraph

BrokerAt(h) ==
    /\ Subscribed(h) => /\ ~closed[h]
                        /\ pc[h] \in {"registered", "writing", "loop", "returning"}
    /\ subId[h] # NoId /\ ~Subscribed(h) => closed[h]
    /\ pc[h] \in {"idle", "upgraded"} => subId[h] = NoId /\ ~closed[h]
    /\ pc[h] \in {"registered", "writing", "loop", "returning", "unsubscribed"} =>
          subId[h] # NoId
    /\ pc[h] \notin {"idle", "done"} => sock[h] \in {"open", "broken"}

BrokerInv ==
    /\ \A h, k \in Conns : subId[h] # NoId /\ subId[h] = subId[k] => h = k
    /\ \A i \in DOMAIN subs : subId[subs[i]] = i
    /\ \A h \in Conns : BrokerAt(h)
    /\ ~panicked

InHand(h) == IF pc[h] \in {"registered", "writing"} THEN 1 ELSE 0

Leads(log, from, m, v) ==
    /\ m.ver = v /\ from \in 1..v /\ v \in 1..Len(log)
    /\ m.body = IF v = from THEN AsSnapshot(log[v])
                            ELSE DiffAgainst(log[v], log[v - 1])

DataAt(h) ==
    /\ first[h] <= Latest /\ seen[h] <= Latest
    /\ subId[h] = NoId <=> first[h] = 0
    /\ subId[h] = NoId => chan[h] = <<>> /\ wire[h] = <<>> /\ seen[h] = 0
    /\ first[h] > 0 => seen[h] + 1 >= first[h]
    /\ Snapped(h) => view[h] = hist[seen[h]]
    /\ \A j \in 1..Len(wire[h]) : Leads(hist, first[h], wire[h][j], seen[h] + j)
    /\ pc[h] = "registered" =>
          /\ chan[h] = <<>> /\ wire[h] = <<>>
          /\ seen[h] + 1 = first[h] /\ first[h] = Latest
    /\ pc[h] \in {"registered", "writing", "loop"} /\ sock[h] = "open" =>
          /\ pc[h] = "writing" => Leads(hist, first[h], held[h], seen[h] + Len(wire[h]) + 1)
          /\ \A j \in 1..Len(chan[h]) :
                Leads(hist, first[h], chan[h][j],
                      seen[h] + Len(wire[h]) + InHand(h) + j)
          /\ Subscribed(h) =>
                seen[h] + Len(wire[h]) + InHand(h) + Len(chan[h]) = Latest

DataInv == \A h \in Conns : DataAt(h)

IInv == TypeOK /\ LockInv /\ BrokerInv /\ DataInv
=============================================================================
