---------------------------- MODULE StreamProofs ----------------------------
(***************************************************************************)
(* Safety of the live feed for any number of connections, any capacities   *)
(* and any set of graphs.                                                  *)
(***************************************************************************)
EXTENDS Stream, TopologyProofs, SequenceTheorems

LEMMA GraphFacts ==
    /\ ZeroGraph \notin Graphs
    /\ \A g, p \in Graphs : IsGraph(g) /\ IsGraph(p) /\ Comparable(p, g)
<1>1. DOMAIN ZeroGraph.nodes = {}
  BY DEF ZeroGraph, EmptyTable
<1> QED BY <1>1, GraphsAssumption

(* What a dashboard does with the two kinds of message. *)
LEMMA ApplyFacts ==
    /\ \A g \in Graphs : \A s : ApplyMessage(s, AsSnapshot(g)) = g
    /\ \A g, p \in Graphs : ApplyMessage(p, DiffAgainst(g, p)) = g
    /\ \A g, p \in Graphs : IsEmptyDiff(DiffAgainst(g, p)) <=> g = p
    /\ \A g \in Graphs : ~IsEmptyDiff(AsSnapshot(g))
<1>1. \A g \in Graphs : ~IsEmptyDiff(AsSnapshot(g))
  BY GraphsAssumption DEF IsEmptyDiff, AsSnapshot
<1> QED BY <1>1, GraphFacts, ApplySnapshot, ApplyDiff, EmptyDiffExact

LEMMA InitIInv == Init => IInv
<1> SUFFICES ASSUME Init PROVE IInv
  OBVIOUS
<1> USE StreamAssumption DEF Init
<1>1. TypeOK
  <2>1. hist \in Seq(Graphs) /\ Latest <= MaxPublish
    BY DEF Latest
  <2>2. /\ next \in Nat \ {0} /\ DOMAIN subs \subseteq 1..(next - 1)
        /\ \A i \in DOMAIN subs : subs[i] \in Conns
        /\ subId \in [Conns -> 0..(next - 1)]
    BY DEF NoId
  <2>3. /\ chan \in [Conns -> Seq(Messages)] /\ \A h \in Conns : Len(chan[h]) <= Cap
        /\ wire \in [Conns -> Seq(Messages)] /\ \A h \in Conns : Len(wire[h]) <= WireCap
    OBVIOUS
  <2>4. /\ pc \in [Conns -> PcValues]
        /\ held \in [Conns -> Messages \cup {NoMsg}]
        /\ \A h \in Conns : pc[h] = "writing" => held[h] \in Messages
        /\ sock \in [Conns -> {"none", "open", "broken", "closed"}]
    BY DEF PcValues
  <2>5. first \in [Conns -> Versions] /\ seen \in [Conns -> Versions]
    BY DEF Versions
  <2> QED BY <2>1, <2>2, <2>3, <2>4, <2>5 DEF TypeOK
<1>2. LockInv
  BY DEF LockInv, Latest
<1>3. BrokerInv
  BY DEF BrokerInv, BrokerAt, Subscribed, NoId
<1>4. DataInv
  BY DEF DataInv, DataAt, Latest, Snapped, Subscribed, NoId
<1> QED BY <1>1, <1>2, <1>3, <1>4 DEF IInv

-----------------------------------------------------------------------------
(* The steps of the collector. *)

LEMMA SwapStep ==
    ASSUME IInv, NEW g \in Graphs, RebuildSwap(g)
    PROVE  IInv'
<1> USE DEF RebuildSwap, Lock, brokerVars, handlerVars, clientVars
<1>0. /\ mu = Free /\ mu' = Builder /\ lastGraph' = g
      /\ diff' = IF hist = <<>> THEN AsSnapshot(g) ELSE DiffAgainst(g, hist[Latest])
      /\ hist = <<>> => lastGraph = ZeroGraph
      /\ hist # <<>> => lastGraph = hist[Latest] /\ hist[Latest] \in Graphs
  BY GraphFacts, StreamAssumption DEF IInv, LockInv, TypeOK, Latest
<1>1. TypeOK'
  <2>1. diff' \in Bodies
    BY <1>0 DEF Bodies
  <2> QED BY <1>0, <2>1 DEF IInv, TypeOK, Latest
<1>2. LockInv'
  BY <1>0, GraphFacts, StreamAssumption DEF IInv, LockInv, TypeOK, Latest
<1>3. BrokerInv'
  BY DEF IInv, BrokerInv, BrokerAt, Subscribed
<1>4. DataInv'
  BY DEF IInv, DataInv, DataAt, Snapped, Subscribed, Leads, Latest, InHand
<1> QED BY <1>1, <1>2, <1>3, <1>4 DEF IInv

LEMMA QuietPublishStep ==
    ASSUME IInv, RebuildPublish, IsEmptyDiff(diff)
    PROVE  IInv'
<1> USE DEF RebuildPublish, Unlock, brokerVars, handlerVars, clientVars
<1>0. /\ mu = Builder /\ mu' = Free /\ hist # <<>> /\ lastGraph = hist[Latest]
  BY ApplyFacts, StreamAssumption DEF IInv, LockInv, TypeOK, Latest
<1>1. TypeOK'
  BY <1>0 DEF IInv, TypeOK, Latest
<1>2. LockInv'
  BY <1>0, StreamAssumption DEF IInv, LockInv, TypeOK, Latest
<1>3. BrokerInv'
  BY DEF IInv, BrokerInv, BrokerAt, Subscribed
<1>4. DataInv'
  BY DEF IInv, DataInv, DataAt, Snapped, Subscribed, Leads, Latest, InHand
<1> QED BY <1>1, <1>2, <1>3, <1>4 DEF IInv

(* What broadcast does to each connection: it reaches exactly the
   subscribed ones, appends to the channels that have room, and drops the
   others. *)
LEMMA BroadcastEffect ==
    ASSUME TypeOK, BrokerInv, NEW m, Broadcast(m)
    PROVE  /\ \A h \in Conns : Subscribed(h) /\ Len(chan[h]) < Cap =>
                 /\ chan'[h] = Append(chan[h], m) /\ closed'[h] = closed[h]
                 /\ subId[h] \in DOMAIN subs'
           /\ \A h \in Conns : Subscribed(h) /\ Len(chan[h]) >= Cap =>
                 /\ chan'[h] = chan[h] /\ closed'[h] = TRUE
                 /\ subId[h] \notin DOMAIN subs'
           /\ \A h \in Conns : ~Subscribed(h) =>
                 chan'[h] = chan[h] /\ closed'[h] = closed[h]
           /\ DOMAIN subs' \subseteq DOMAIN subs
           /\ \A i \in DOMAIN subs' : subs'[i] = subs[i]
           /\ chan' = [h \in Conns |-> chan'[h]]
           /\ closed' = [h \in Conns |-> closed'[h]]
           /\ panicked' = FALSE /\ next' = next
<1> DEFINE sent == {subs[i] : i \in DOMAIN subs}
           dropped == {h \in sent : Full(h)}
<1>1. \A h \in Conns : h \in sent <=> Subscribed(h)
  BY DEF TypeOK, BrokerInv, BrokerAt, Subscribed, NoId
<1>2. \A h \in Conns : Subscribed(h) => subs[subId[h]] = h
  BY DEF TypeOK, BrokerInv, BrokerAt, Subscribed, NoId
<1>3. \A h \in Conns : h \in dropped <=> Subscribed(h) /\ Len(chan[h]) >= Cap
  BY <1>1 DEF Full
<1>4. sent \subseteq Conns
  BY DEF TypeOK
<1>5. panicked' = FALSE
  BY <1>1, <1>4 DEF Broadcast, BrokerInv, BrokerAt
<1>6. /\ chan' = [h \in Conns |->
              IF h \in sent \ dropped THEN Append(chan[h], m) ELSE chan[h]]
      /\ closed' = [h \in Conns |-> closed[h] \/ h \in dropped]
      /\ subs' = Only(subs, {i \in DOMAIN subs : subs[i] \notin dropped})
      /\ next' = next
  BY DEF Broadcast
<1>7. /\ DOMAIN subs' = {i \in DOMAIN subs : subs[i] \notin dropped}
      /\ \A i \in DOMAIN subs' : subs'[i] = subs[i]
  BY <1>6 DEF Only
<1> HIDE DEF sent, dropped
<1>8. \A h \in Conns : Subscribed(h) => subId[h] \in DOMAIN subs
  BY DEF Subscribed
<1>9. \A h \in Conns : /\ Len(chan[h]) \in Nat /\ Cap \in Nat
                       /\ closed[h] \in BOOLEAN
  BY StreamAssumption DEF TypeOK
<1>10. \A h \in Conns : Subscribed(h) /\ Len(chan[h]) < Cap =>
                 /\ chan'[h] = Append(chan[h], m) /\ closed'[h] = closed[h]
                 /\ subId[h] \in DOMAIN subs'
  BY <1>1, <1>2, <1>3, <1>6, <1>7, <1>8, <1>9
<1>11. \A h \in Conns : Subscribed(h) /\ Len(chan[h]) >= Cap =>
                 /\ chan'[h] = chan[h] /\ closed'[h] = TRUE
                 /\ subId[h] \notin DOMAIN subs'
  BY <1>1, <1>2, <1>3, <1>6, <1>7, <1>8
<1>12. \A h \in Conns : ~Subscribed(h) =>
                 chan'[h] = chan[h] /\ closed'[h] = closed[h]
  BY <1>1, <1>3, <1>6, <1>9
<1>13. chan' = [h \in Conns |-> chan'[h]] /\ closed' = [h \in Conns |-> closed'[h]]
  BY <1>6
<1> QED BY <1>5, <1>6, <1>7, <1>10, <1>11, <1>12, <1>13

LEMMA LoudPublishStep ==
    ASSUME IInv, RebuildPublish, ~IsEmptyDiff(diff)
    PROVE  IInv'
<1> DEFINE m == Message(diff, Latest + 1)
<1>0. /\ mu = Builder /\ mu' = Free /\ lastGraph' = lastGraph /\ diff' = NoMsg
      /\ hist' = Append(hist, lastGraph) /\ Broadcast(m)
      /\ UNCHANGED <<handlerVars, wire, clientVars, first>>
  BY DEF RebuildPublish, Unlock
<1>1. /\ lastGraph \in Graphs
      /\ m.ver = Latest + 1
      /\ m.body = IF hist = <<>> THEN AsSnapshot(lastGraph)
                                 ELSE DiffAgainst(lastGraph, hist[Latest])
  BY <1>0 DEF IInv, LockInv, Message
<1>2. Latest < MaxPublish
  BY <1>0, <1>1, ApplyFacts, StreamAssumption DEF IInv, LockInv, TypeOK, Latest
<1>3. m.ver \in Versions /\ m.body \in Bodies /\ m = [body |-> m.body, ver |-> m.ver]
  <2>1. hist # <<>> => hist[Latest] \in Graphs
    BY DEF IInv, TypeOK, Latest
  <2> QED BY <1>1, <1>2, <2>1, StreamAssumption DEF IInv, TypeOK, Latest, Versions, Bodies, Message
<1>4. m \in Messages
  BY <1>3 DEF Messages
<1> HIDE DEF m
<1>5. /\ hist' \in Seq(Graphs) /\ Latest' = Latest + 1 /\ Latest \in Nat
      /\ hist'[Latest'] = lastGraph
      /\ \A v \in 1..Latest : hist'[v] = hist[v]
  BY <1>0, <1>1 DEF IInv, TypeOK, Latest
<1>6. /\ \A h \in Conns : Subscribed(h) /\ Len(chan[h]) < Cap =>
            /\ chan'[h] = Append(chan[h], m) /\ closed'[h] = closed[h]
            /\ subId[h] \in DOMAIN subs'
      /\ \A h \in Conns : Subscribed(h) /\ Len(chan[h]) >= Cap =>
            /\ chan'[h] = chan[h] /\ closed'[h] = TRUE
            /\ subId[h] \notin DOMAIN subs'
      /\ \A h \in Conns : ~Subscribed(h) =>
            chan'[h] = chan[h] /\ closed'[h] = closed[h]
      /\ DOMAIN subs' \subseteq DOMAIN subs
      /\ \A i \in DOMAIN subs' : subs'[i] = subs[i]
      /\ chan' = [h \in Conns |-> chan'[h]]
      /\ closed' = [h \in Conns |-> closed'[h]]
      /\ panicked' = FALSE /\ next' = next
  BY <1>0, BroadcastEffect DEF IInv
<1>7. /\ subId' = subId /\ pc' = pc /\ held' = held /\ sock' = sock
      /\ readerDone' = readerDone /\ wire' = wire
      /\ view' = view /\ seen' = seen /\ first' = first
  BY <1>0 DEF handlerVars, clientVars
<1>8. TypeOK'
  <2>1. \A h \in Conns : chan'[h] \in Seq(Messages) /\ Len(chan'[h]) <= Cap
    <3> SUFFICES ASSUME NEW h \in Conns
                 PROVE  chan'[h] \in Seq(Messages) /\ Len(chan'[h]) <= Cap
      OBVIOUS
    <3>1. chan[h] \in Seq(Messages) /\ Len(chan[h]) <= Cap /\ Cap \in Nat
      BY StreamAssumption DEF IInv, TypeOK
    <3>2. CASE Subscribed(h) /\ Len(chan[h]) < Cap
      <4>1. chan'[h] = Append(chan[h], m)
        BY <1>6, <3>2
      <4>2. /\ Append(chan[h], m) \in Seq(Messages)
            /\ Len(Append(chan[h], m)) = Len(chan[h]) + 1 /\ Len(chan[h]) \in Nat
        BY <1>4, <3>1
      <4> QED BY <3>1, <3>2, <4>1, <4>2
    <3>3. CASE ~(Subscribed(h) /\ Len(chan[h]) < Cap)
      BY <1>6, <3>1, <3>3
    <3> QED BY <3>2, <3>3
  <2>2. \A h \in Conns : closed'[h] \in BOOLEAN
    <3> SUFFICES ASSUME NEW h \in Conns PROVE closed'[h] \in BOOLEAN
      OBVIOUS
    <3>1. closed[h] \in BOOLEAN /\ Len(chan[h]) \in Nat /\ Cap \in Nat
      BY StreamAssumption DEF IInv, TypeOK
    <3>2. closed'[h] = closed[h] \/ closed'[h] = TRUE
      BY <1>6, <3>1
    <3> QED BY <3>1, <3>2
  <2>3. chan' \in [Conns -> Seq(Messages)] /\ closed' \in [Conns -> BOOLEAN]
    BY <1>6, <2>1, <2>2
  <2>4. /\ next' \in Nat \ {0} /\ DOMAIN subs' \subseteq 1..(next' - 1)
        /\ \A i \in DOMAIN subs' : subs'[i] \in Conns
        /\ subId' \in [Conns -> 0..(next' - 1)]
    BY <1>6, <1>7 DEF IInv, TypeOK
  <2>5. hist' \in Seq(Graphs) /\ Latest' <= MaxPublish
    BY <1>2, <1>5, StreamAssumption
  <2> QED BY <1>0, <1>1, <1>6, <1>7, <2>1, <2>3, <2>4, <2>5
        DEF IInv, TypeOK
<1>9. LockInv'
  <2>1. hist' # <<>>
    BY <1>5 DEF Latest
  <2> QED BY <1>0, <1>1, <1>5, <1>7, <2>1, StreamAssumption DEF IInv, LockInv
<1>10. BrokerInv'
  <2>1. \A h \in Conns : Subscribed(h) =>
              IF Len(chan[h]) < Cap
              THEN closed'[h] = closed[h] /\ subId[h] \in DOMAIN subs'
              ELSE closed'[h] = TRUE /\ subId[h] \notin DOMAIN subs'
    <3>1. \A h \in Conns : Len(chan[h]) \in Nat /\ Cap \in Nat
      BY StreamAssumption DEF IInv, TypeOK
    <3> QED BY <1>6, <3>1
  <2> QED BY <1>6, <1>7, <2>1 DEF IInv, BrokerInv, BrokerAt, Subscribed
<1>11. DataInv'
  <2> SUFFICES ASSUME NEW h \in Conns PROVE DataAt(h)'
    BY DEF DataInv
  <2>0. DataAt(h)
    BY DEF IInv, DataInv
  <2>1. /\ first[h] \in Nat /\ seen[h] \in Nat /\ Latest \in Nat
        /\ chan[h] \in Seq(Messages) /\ wire[h] \in Seq(Messages)
        /\ Cap \in Nat
    BY StreamAssumption DEF IInv, TypeOK, Versions, Latest
  <2>2. \A x, v : Leads(hist, first[h], x, v) => Leads(hist', first'[h], x, v)
    BY <1>5, <1>7, <2>1 DEF Leads, Latest
  <2>3. first[h] > 0 => Leads(hist', first'[h], m, Latest + 1)
    <3> SUFFICES ASSUME first[h] > 0
                 PROVE  Leads(hist', first[h], m, Latest + 1)
      BY <1>7
    <3>1. first[h] <= Latest /\ Latest > 0
      BY <2>0, <2>1 DEF DataAt
    <3>2. hist # <<>>
      BY <3>1 DEF Latest
    <3>3. hist'[Latest + 1] = lastGraph /\ hist'[(Latest + 1) - 1] = hist[Latest]
      BY <1>5, <2>1, <3>1
    <3>4. Len(hist') = Latest + 1
      BY <1>5 DEF Latest
    <3> QED BY <1>1, <2>1, <3>1, <3>2, <3>3, <3>4 DEF Leads
  <2>4. Subscribed(h)' => Subscribed(h) /\ chan'[h] = Append(chan[h], m)
    BY <1>6, <1>7, <2>1 DEF Subscribed
  <2>5. ~Subscribed(h)' => chan'[h] = chan[h] \/ chan'[h] = Append(chan[h], m)
    BY <1>6, <1>7, <2>1 DEF Subscribed
  <2>6. pc[h] # "registered"
    BY <1>0, StreamAssumption DEF IInv, LockInv
  <2>7. subId[h] = NoId => ~Subscribed(h)
    BY DEF Subscribed
  <2>8. /\ InHand(h)' = InHand(h) /\ InHand(h) \in Nat
        /\ Snapped(h)' = Snapped(h) /\ Latest' = Latest + 1
    BY <1>5, <1>7 DEF InHand, Snapped
  <2>9. Snapped(h) => view'[h] = hist'[seen[h]]
    BY <1>5, <1>7, <2>0, <2>1 DEF DataAt, Snapped
  <2>10. ASSUME pc[h] \in {"registered", "writing", "loop"}, sock[h] = "open"
         PROVE  /\ pc[h] = "writing" =>
                     Leads(hist', first'[h], held[h], seen[h] + Len(wire[h]) + 1)
                /\ \A j \in 1..Len(chan'[h]) :
                     Leads(hist', first'[h], chan'[h][j],
                           seen[h] + Len(wire[h]) + InHand(h) + j)
                /\ Subscribed(h)' =>
                     seen[h] + Len(wire[h]) + InHand(h) + Len(chan'[h]) = Latest + 1
    <3> DEFINE base == seen[h] + Len(wire[h]) + InHand(h)
    <3>0. base \in Nat /\ Len(chan[h]) \in Nat
      BY <2>1, <2>8
    <3>1. /\ pc[h] = "writing" =>
                Leads(hist, first[h], held[h], seen[h] + Len(wire[h]) + 1)
          /\ \A j \in 1..Len(chan[h]) : Leads(hist, first[h], chan[h][j], base + j)
          /\ Subscribed(h) => base + Len(chan[h]) = Latest
      BY <2>0, <2>10 DEF DataAt
    <3> HIDE DEF base
    <3>2. CASE Subscribed(h)'
      <4>1. chan'[h] = Append(chan[h], m) /\ base + Len(chan[h]) = Latest /\ first[h] > 0
        BY <2>0, <2>1, <2>4, <2>7, <3>1, <3>2 DEF DataAt
      <4>2. Len(chan'[h]) = Len(chan[h]) + 1 /\ chan'[h][Len(chan[h]) + 1] = m
            /\ \A j \in 1..Len(chan[h]) : chan'[h][j] = chan[h][j]
        BY <1>4, <2>1, <4>1
      <4>3. base + (Len(chan[h]) + 1) = Latest + 1
        <5>1. base + Len(chan[h]) = Latest
          BY <4>1
        <5> QED BY <3>0, <5>1
      <4>4. Leads(hist', first'[h], m, base + (Len(chan[h]) + 1))
        BY <2>3, <4>1, <4>3
      <4>5. \A j \in 1..Len(chan'[h]) : Leads(hist', first'[h], chan'[h][j], base + j)
        <5> SUFFICES ASSUME NEW j \in 1..Len(chan'[h])
                     PROVE  Leads(hist', first'[h], chan'[h][j], base + j)
          OBVIOUS
        <5>1. CASE j \in 1..Len(chan[h])
          BY <2>2, <3>1, <4>2, <5>1
        <5>2. CASE j = Len(chan[h]) + 1
          BY <4>2, <4>4, <5>2
        <5> QED BY <3>0, <4>2, <5>1, <5>2
      <4>6. base + Len(chan'[h]) = Latest + 1
        BY <4>2, <4>3
      <4> QED BY <2>2, <3>1, <4>5, <4>6 DEF base
    <3>3. CASE ~Subscribed(h)'
      <4>1. chan'[h] = chan[h]
        BY <1>6, <1>7, <2>1, <3>3 DEF Subscribed
      <4> QED BY <2>2, <3>1, <3>3, <4>1 DEF base
    <3> QED BY <3>2, <3>3
  <2>11. \A j \in 1..Len(wire[h]) : Leads(hist', first'[h], wire[h][j], seen[h] + j)
    BY <2>0, <2>2 DEF DataAt
  <2>12. subId[h] = NoId => chan'[h] = <<>>
    BY <1>6, <2>0, <2>7 DEF DataAt
  <2>13. first[h] <= Latest + 1 /\ seen[h] <= Latest + 1
    BY <2>0, <2>1 DEF DataAt
  <2>14. /\ subId[h] = NoId <=> first[h] = 0
         /\ subId[h] = NoId => wire[h] = <<>> /\ seen[h] = 0
         /\ first[h] > 0 => seen[h] + 1 >= first[h]
    BY <2>0 DEF DataAt
  <2> QED BY <1>7, <2>6, <2>8, <2>9, <2>10, <2>11, <2>12, <2>13, <2>14 DEF DataAt
<1> QED BY <1>8, <1>9, <1>10, <1>11 DEF IInv

-----------------------------------------------------------------------------
(* The steps of one connection. *)

(* A step that touches nothing of k, and subscribes nobody, keeps k's part
   of the invariant. *)
LEMMA Frame ==
    ASSUME NEW k \in Conns, DataAt(k), hist' = hist,
           first'[k] = first[k], seen'[k] = seen[k], view'[k] = view[k],
           chan'[k] = chan[k], wire'[k] = wire[k], held'[k] = held[k],
           pc'[k] = pc[k], sock'[k] = sock[k], subId'[k] = subId[k],
           Subscribed(k)' => Subscribed(k)
    PROVE  DataAt(k)'
<1>1. Latest' = Latest /\ InHand(k)' = InHand(k) /\ Snapped(k)' = Snapped(k)
  BY DEF Latest, InHand, Snapped
<1> QED BY <1>1 DEF DataAt

LEMMA UpgradeStep ==
    ASSUME IInv, NEW h \in Conns, Upgrade(h)
    PROVE  IInv'
<1> USE DEF Upgrade, graphVars, brokerVars, clientVars
<1>0. /\ pc[h] = "idle" /\ pc'[h] \in {"upgraded", "done"}
      /\ pc'[h] = "upgraded" => sock'[h] = "open"
      /\ \A k \in Conns : k # h => pc'[k] = pc[k] /\ sock'[k] = sock[k]
      /\ UNCHANGED <<mu, lastGraph, diff, hist, next, subs, chan, closed, panicked,
                     subId, held, readerDone, wire, view, seen, first>>
  BY DEF IInv, TypeOK
<1>1. TypeOK'
  BY DEF IInv, TypeOK, PcValues, Latest
<1>2. LockInv'
  BY DEF IInv, TypeOK, LockInv, Latest
<1>3. BrokerInv'
  <2>1. subId[h] = NoId /\ ~closed[h]
    BY <1>0 DEF IInv, BrokerInv, BrokerAt
  <2> QED BY <1>0, <2>1 DEF IInv, BrokerInv, BrokerAt, Subscribed
<1>4. DataInv'
  <2>1. ASSUME NEW k \in Conns, k # h PROVE DataAt(k)'
    BY <1>0, <2>1, Frame DEF IInv, DataInv, Subscribed
  <2>2. DataAt(h)'
    BY <1>0 DEF IInv, DataInv, DataAt, Snapped, Latest
  <2> QED BY <2>1, <2>2 DEF DataInv
<1> QED BY <1>1, <1>2, <1>3, <1>4 DEF IInv

LEMMA RegisterStep ==
    ASSUME IInv, NEW h \in Conns, Register(h)
    PROVE  IInv'
<1>0. /\ pc[h] = "upgraded" /\ mu = Free /\ mu' = h
      /\ subs' = Upsert(subs, [i \in {next} |-> h]) /\ next' = next + 1
      /\ subId' = [subId EXCEPT ![h] = next]
      /\ pc' = [pc EXCEPT ![h] = "registered"]
      /\ first' = [first EXCEPT ![h] = Latest]
      /\ seen' = [seen EXCEPT ![h] = Latest - 1]
      /\ UNCHANGED <<lastGraph, diff, hist, chan, closed, panicked, held, sock,
                     readerDone, wire, view>>
  BY DEF Register, Lock
<1>1. /\ DOMAIN subs' = DOMAIN subs \cup {next} /\ subs'[next] = h
      /\ \A i \in DOMAIN subs : subs'[i] = subs[i] /\ i # next
      /\ next \in Nat \ {0}
  BY <1>0 DEF Upsert, IInv, TypeOK
<1>2. hist # <<>> /\ Latest \in Nat /\ Latest > 0 /\ Latest \in Versions /\ Latest - 1 \in Versions
  <2>1. hist # <<>>
    BY <1>0, StreamAssumption DEF IInv, LockInv
  <2>2. hist \in Seq(Graphs) /\ Latest <= MaxPublish
    BY DEF IInv, TypeOK
  <2> QED BY <2>1, <2>2, StreamAssumption DEF Latest, Versions
<1>3. subId[h] = NoId /\ ~Subscribed(h)
  BY <1>0 DEF IInv, BrokerInv, BrokerAt, Subscribed
<1>4. TypeOK'
  <2>1. /\ next' \in Nat \ {0} /\ DOMAIN subs' \subseteq 1..(next' - 1)
        /\ \A i \in DOMAIN subs' : subs'[i] \in Conns
        /\ subId' \in [Conns -> 0..(next' - 1)]
    <3>1. /\ DOMAIN subs \subseteq 1..(next - 1) /\ subId \in [Conns -> 0..(next - 1)]
          /\ \A i \in DOMAIN subs : subs[i] \in Conns
      BY DEF IInv, TypeOK
    <3>2. next' \in Nat \ {0} /\ next' - 1 = next
      BY <1>0, <1>1
    <3>3. DOMAIN subs' \subseteq 1..next /\ \A i \in DOMAIN subs' : subs'[i] \in Conns
      BY <1>1, <3>1
    <3>4. subId' \in [Conns -> 0..next]
      BY <1>0, <1>1, <3>1
    <3> QED BY <3>2, <3>3, <3>4
  <2>2. /\ pc' \in [Conns -> PcValues]
        /\ \A k \in Conns : pc'[k] = "writing" => held'[k] \in Messages
    BY <1>0 DEF IInv, TypeOK, PcValues
  <2>3. first' \in [Conns -> Versions] /\ seen' \in [Conns -> Versions]
    BY <1>0, <1>2 DEF IInv, TypeOK
  <2> QED BY <1>0, <2>1, <2>2, <2>3 DEF IInv, TypeOK, Latest
<1>5. LockInv'
  BY <1>0, StreamAssumption DEF IInv, TypeOK, LockInv, Latest
<1>6. \A k \in Conns : k # h => (Subscribed(k)' <=> Subscribed(k))
  <2>1. \A k \in Conns : k # h => subId'[k] = subId[k] /\ subId[k] # next
    BY <1>0 DEF IInv, TypeOK
  <2> QED BY <1>1, <2>1 DEF Subscribed
<1>7. BrokerInv'
  <2>1. \A k \in Conns : subId[k] # next /\ (subId'[k] = IF k = h THEN next ELSE subId[k])
    BY <1>0 DEF IInv, TypeOK
  <2>2. \A j, k \in Conns : subId'[j] # NoId /\ subId'[j] = subId'[k] => j = k
    BY <2>1 DEF IInv, BrokerInv, BrokerAt
  <2>3. \A i \in DOMAIN subs' : subId'[subs'[i]] = i
    <3>1. subId'[subs'[next]] = next
      BY <1>1, <2>1
    <3>2. \A i \in DOMAIN subs : subs[i] \in Conns /\ subId[subs[i]] = i /\ i # 0
      BY DEF IInv, BrokerInv, BrokerAt, TypeOK
    <3>3. \A i \in DOMAIN subs : subs[i] # h
      BY <1>3, <3>2 DEF NoId
    <3>4. \A i \in DOMAIN subs : subId'[subs'[i]] = i
      BY <1>1, <2>1, <3>2, <3>3
    <3> QED BY <1>1, <3>1, <3>4
  <2>4. ~closed[h] /\ sock[h] \in {"open", "broken"}
    BY <1>0 DEF IInv, BrokerInv, BrokerAt
  <2>5. \A k \in Conns : pc'[k] = IF k = h THEN "registered" ELSE pc[k]
    BY <1>0 DEF IInv, TypeOK
  <2>6. Subscribed(h)'
    BY <1>1, <2>1 DEF Subscribed, NoId
  <2>7. \A k \in Conns : BrokerAt(k)'
    BY <1>0, <1>1, <1>6, <2>1, <2>4, <2>5, <2>6 DEF IInv, BrokerInv, BrokerAt, NoId
  <2> QED BY <1>0, <2>2, <2>3, <2>7 DEF IInv, BrokerInv
<1>8. DataInv'
  <2>1. ASSUME NEW k \in Conns, k # h PROVE DataAt(k)'
    BY <1>0, <1>6, <2>1, Frame DEF IInv, TypeOK, DataInv
  <2>2. DataAt(h)'
    <3>1. /\ first'[h] = Latest /\ seen'[h] = Latest - 1 /\ subId'[h] = next
          /\ pc'[h] = "registered" /\ chan'[h] = <<>> /\ wire'[h] = <<>>
      BY <1>0, <1>3 DEF IInv, TypeOK, DataInv, DataAt
    <3>2. Latest' = Latest /\ InHand(h)' = 1 /\ ~Snapped(h)'
      BY <1>0, <1>2, <3>1 DEF Latest, InHand, Snapped
    <3> QED BY <1>1, <1>2, <3>1, <3>2 DEF DataAt, NoId
  <2> QED BY <2>1, <2>2 DEF DataInv
<1> QED BY <1>4, <1>5, <1>7, <1>8 DEF IInv

LEMMA CaptureStep ==
    ASSUME IInv, NEW h \in Conns, Capture(h)
    PROVE  IInv'
<1>0. /\ pc[h] = "registered" /\ mu = h /\ mu' = Free
      /\ held' = [held EXCEPT ![h] = Message(AsSnapshot(lastGraph), Latest)]
      /\ pc' = [pc EXCEPT ![h] = "writing"]
      /\ UNCHANGED <<lastGraph, diff, hist, next, subs, chan, closed, panicked,
                     subId, sock, readerDone, wire, view, seen, first>>
  BY DEF Capture, Unlock, brokerVars, clientVars
<1>1. /\ held'[h] = Message(AsSnapshot(lastGraph), Latest) /\ pc'[h] = "writing"
      /\ \A k \in Conns : k # h => held'[k] = held[k] /\ pc'[k] = pc[k]
  <2>1. pc \in [Conns -> PcValues] /\ DOMAIN held = Conns
    BY DEF IInv, TypeOK
  <2> QED BY <1>0, <2>1
<1>2. hist # <<>> /\ lastGraph = hist[Latest] /\ lastGraph \in Graphs /\ Latest \in 1..MaxPublish
  <2>1. hist # <<>> /\ lastGraph = hist[Latest]
    BY <1>0, StreamAssumption DEF IInv, LockInv
  <2> QED BY <2>1, StreamAssumption DEF IInv, TypeOK, Latest
<1>3. Message(AsSnapshot(lastGraph), Latest) \in Messages
  BY <1>2, StreamAssumption DEF Message, Messages, Bodies, Versions
<1>4. TypeOK'
  <2>1. pc' \in [Conns -> PcValues]
    BY <1>0 DEF IInv, TypeOK, PcValues
  <2>2. /\ held' \in [Conns -> Messages \cup {NoMsg}]
        /\ \A k \in Conns : pc'[k] = "writing" => held'[k] \in Messages
    BY <1>0, <1>1, <1>3 DEF IInv, TypeOK
  <2> QED BY <1>0, <2>1, <2>2 DEF IInv, TypeOK, Latest
<1>5. LockInv'
  BY <1>0, <1>1, StreamAssumption DEF IInv, LockInv, Latest
<1>6. BrokerInv'
  BY <1>0, <1>1 DEF IInv, BrokerInv, BrokerAt, Subscribed
<1>7. DataInv'
  <2>1. ASSUME NEW k \in Conns, k # h PROVE DataAt(k)'
    BY <1>0, <1>1, <2>1, Frame DEF IInv, DataInv, Subscribed
  <2>2. DataAt(h)'
    <3>1. /\ chan[h] = <<>> /\ wire[h] = <<>> /\ seen[h] + 1 = first[h]
          /\ DataAt(h) /\ first[h] = Latest /\ seen[h] \in Nat
      BY <1>0 DEF IInv, TypeOK, DataInv, DataAt, Versions
    <3>2. Latest' = Latest /\ InHand(h)' = 1 /\ InHand(h) = 1
          /\ Snapped(h)' = Snapped(h) /\ Subscribed(h)' = Subscribed(h)
      BY <1>0, <1>1 DEF Latest, InHand, Snapped, Subscribed
    <3>3. Leads(hist, first[h], held'[h], first[h])
      BY <1>1, <1>2, <3>1 DEF Leads, Message, Latest
    <3> QED BY <1>0, <1>1, <1>2, <3>1, <3>2, <3>3 DEF DataAt
  <2> QED BY <2>1, <2>2 DEF DataInv
<1> QED BY <1>4, <1>5, <1>6, <1>7 DEF IInv

(* Steps that end the writing or the loop of a handler, or come after it:
   they move only pc[h], held[h], sock[h] and readerDone[h]. *)
LEMMA LeavingStep ==
    ASSUME IInv, NEW h \in Conns,
           \/ /\ pc[h] \in {"writing", "loop"}
              /\ pc' = [pc EXCEPT ![h] = "returning"] /\ sock' = sock
              /\ held' \in {held, [held EXCEPT ![h] = NoMsg]}
           \/ /\ pc[h] = "unsubscribed"
              /\ pc' = [pc EXCEPT ![h] = "done"]
              /\ sock' \in {sock, [sock EXCEPT ![h] = "closed"]}
              /\ held' = held
           \/ /\ pc' = pc /\ sock' = sock /\ held' = held,
           readerDone' \in [Conns -> BOOLEAN],
           UNCHANGED <<graphVars, brokerVars, subId, wire, clientVars, first>>
    PROVE  IInv'
<1>0. /\ UNCHANGED <<mu, lastGraph, diff, hist, next, subs, chan, closed, panicked,
                     subId, wire, view, seen, first>>
      /\ \A k \in Conns : k # h =>
            pc'[k] = pc[k] /\ sock'[k] = sock[k] /\ held'[k] = held[k]
  BY DEF IInv, TypeOK, graphVars, brokerVars, clientVars
<1>1. TypeOK'
  <2>1. pc' \in [Conns -> PcValues] /\ sock' \in [Conns -> {"none", "open", "broken", "closed"}]
    BY DEF IInv, TypeOK, PcValues
  <2>2. /\ held' \in [Conns -> Messages \cup {NoMsg}]
        /\ \A k \in Conns : pc'[k] = "writing" => held'[k] \in Messages
    BY DEF IInv, TypeOK
  <2> QED BY <1>0, <2>1, <2>2 DEF IInv, TypeOK, Latest
<1>2. LockInv'
  BY <1>0, StreamAssumption DEF IInv, TypeOK, LockInv, Latest
<1>3. BrokerInv'
  <2>1. \A k \in Conns : Subscribed(k)' <=> Subscribed(k)
    BY <1>0 DEF Subscribed
  <2>2. BrokerAt(h)'
    BY <1>0, <2>1 DEF IInv, TypeOK, BrokerInv, BrokerAt
  <2>3. \A k \in Conns : BrokerAt(k)'
    BY <1>0, <2>1, <2>2 DEF IInv, BrokerInv, BrokerAt
  <2> QED BY <1>0, <2>3 DEF IInv, BrokerInv
<1>4. DataInv'
  <2>1. ASSUME NEW k \in Conns, k # h PROVE DataAt(k)'
    BY <1>0, <2>1, Frame DEF IInv, DataInv, Subscribed
  <2>2. DataAt(h)'
    <3>1. CASE pc' = pc /\ sock' = sock /\ held' = held
      BY <1>0, <3>1, Frame DEF IInv, DataInv, Subscribed
    <3>2. CASE pc'[h] \in {"returning", "done"}
      BY <1>0, <3>2 DEF IInv, DataInv, DataAt, Snapped, Latest
    <3>3. DOMAIN pc = Conns
      BY DEF IInv, TypeOK
    <3> QED BY <3>1, <3>2, <3>3
  <2> QED BY <2>1, <2>2 DEF DataInv
<1> QED BY <1>1, <1>2, <1>3, <1>4 DEF IInv

LEMMA WriteOkStep ==
    ASSUME IInv, NEW h \in Conns, WriteOk(h)
    PROVE  IInv'
<1>0. /\ pc[h] = "writing"
      /\ \/ /\ sock[h] = "open" /\ Len(wire[h]) < WireCap
            /\ wire' = [wire EXCEPT ![h] = Append(wire[h], held[h])]
         \/ sock[h] = "broken" /\ wire' = wire
      /\ held' = [held EXCEPT ![h] = NoMsg]
      /\ pc' = [pc EXCEPT ![h] = "loop"]
      /\ UNCHANGED <<mu, lastGraph, diff, hist, next, subs, chan, closed, panicked,
                     subId, sock, readerDone, view, seen, first>>
  BY DEF WriteOk, graphVars, brokerVars, clientVars
<1>1. /\ pc'[h] = "loop"
      /\ wire'[h] = IF sock[h] = "open" THEN Append(wire[h], held[h]) ELSE wire[h]
      /\ \A k \in Conns : k # h => held'[k] = held[k] /\ pc'[k] = pc[k] /\ wire'[k] = wire[k]
  BY <1>0 DEF IInv, TypeOK
<1>2. /\ held[h] \in Messages /\ wire[h] \in Seq(Messages) /\ chan[h] \in Seq(Messages)
      /\ seen[h] \in Nat /\ first[h] \in Nat /\ Latest \in Nat
  BY <1>0, StreamAssumption DEF IInv, TypeOK, Versions, Latest
<1>3. TypeOK'
  <2>1. pc' \in [Conns -> PcValues]
    BY <1>0 DEF IInv, TypeOK, PcValues
  <2>2. /\ held' \in [Conns -> Messages \cup {NoMsg}]
        /\ \A k \in Conns : pc'[k] = "writing" => held'[k] \in Messages
    BY <1>0, <1>1 DEF IInv, TypeOK
  <2>3. wire'[h] \in Seq(Messages) /\ Len(wire'[h]) <= WireCap
    <3>1. Append(wire[h], held[h]) \in Seq(Messages)
          /\ Len(Append(wire[h], held[h])) = Len(wire[h]) + 1 /\ Len(wire[h]) \in Nat
      BY <1>2
    <3>2. Len(wire[h]) <= WireCap /\ WireCap \in Nat
      BY StreamAssumption DEF IInv, TypeOK
    <3> QED BY <1>0, <1>1, <1>2, <3>1, <3>2
  <2>4. /\ wire' \in [Conns -> Seq(Messages)]
        /\ \A k \in Conns : Len(wire'[k]) <= WireCap
    BY <1>0, <1>1, <2>3 DEF IInv, TypeOK
  <2> QED BY <1>0, <2>1, <2>2, <2>4 DEF IInv, TypeOK, Latest
<1>4. LockInv'
  BY <1>0, <1>1, StreamAssumption DEF IInv, LockInv, Latest
<1>5. BrokerInv'
  BY <1>0, <1>1 DEF IInv, BrokerInv, BrokerAt, Subscribed
<1>6. DataInv'
  <2>1. ASSUME NEW k \in Conns, k # h PROVE DataAt(k)'
    BY <1>0, <1>1, <2>1, Frame DEF IInv, DataInv, Subscribed
  <2>2. DataAt(h)'
    <3>0. DataAt(h) /\ subId[h] # NoId
      BY <1>0 DEF IInv, DataInv, BrokerInv, BrokerAt
    <3>1. /\ Latest' = Latest /\ InHand(h) = 1 /\ InHand(h)' = 0
          /\ Snapped(h)' = Snapped(h) /\ Subscribed(h)' = Subscribed(h)
      BY <1>0, <1>1 DEF Latest, InHand, Snapped, Subscribed
    <3>2. CASE sock[h] = "broken"
      BY <1>0, <1>1, <3>0, <3>1, <3>2 DEF DataAt
    <3>3. CASE sock[h] = "open"
      <4>1. /\ wire'[h] = Append(wire[h], held[h]) /\ Len(wire'[h]) = Len(wire[h]) + 1
            /\ wire'[h][Len(wire[h]) + 1] = held[h]
            /\ \A j \in 1..Len(wire[h]) : wire'[h][j] = wire[h][j]
            /\ Len(wire[h]) \in Nat
        BY <1>1, <1>2, <3>3
      <4>2. Leads(hist, first[h], held[h], seen[h] + Len(wire[h]) + 1)
        BY <1>0, <3>0, <3>3 DEF DataAt
      <4>3. seen[h] \in Nat /\ Len(wire[h]) \in Nat
        BY <1>2, <4>1
      <4>4. seen[h] + (Len(wire[h]) + 1) = seen[h] + Len(wire[h]) + 1
        BY <4>3
      <4>5. \A j \in 1..Len(wire'[h]) : Leads(hist, first[h], wire'[h][j], seen[h] + j)
        <5> SUFFICES ASSUME NEW j \in 1..Len(wire'[h])
                     PROVE  Leads(hist, first[h], wire'[h][j], seen[h] + j)
          OBVIOUS
        <5>1. CASE j \in 1..Len(wire[h])
          BY <3>0, <4>1, <5>1 DEF DataAt
        <5>2. CASE j = Len(wire[h]) + 1
          BY <4>1, <4>2, <4>4, <5>2
        <5> QED BY <4>1, <5>1, <5>2
      <4>6. seen[h] + Len(wire'[h]) + 0 = seen[h] + Len(wire[h]) + InHand(h)
        <5>1. seen[h] + (Len(wire[h]) + 1) + 0 = seen[h] + Len(wire[h]) + 1
          BY <4>3
        <5> QED BY <3>1, <4>1, <5>1
      <4> QED BY <1>0, <1>1, <3>0, <3>1, <3>3, <4>5, <4>6 DEF DataAt
    <3> QED BY <1>0, <3>2, <3>3
  <2> QED BY <2>1, <2>2 DEF DataInv
<1> QED BY <1>3, <1>4, <1>5, <1>6 DEF IInv

LEMMA TakeDiffStep ==
    ASSUME IInv, NEW h \in Conns, TakeDiff(h)
    PROVE  IInv'
<1>0. /\ pc[h] = "loop" /\ chan[h] # <<>>
      /\ held' = [held EXCEPT ![h] = Head(chan[h])]
      /\ chan' = [chan EXCEPT ![h] = Tail(chan[h])]
      /\ pc' = [pc EXCEPT ![h] = "writing"]
      /\ UNCHANGED <<mu, lastGraph, diff, hist, next, subs, closed, panicked,
                     subId, sock, readerDone, wire, view, seen, first>>
  BY DEF TakeDiff, graphVars, clientVars
<1>1. /\ pc'[h] = "writing" /\ held'[h] = Head(chan[h]) /\ chan'[h] = Tail(chan[h])
      /\ \A k \in Conns : k # h => held'[k] = held[k] /\ pc'[k] = pc[k] /\ chan'[k] = chan[k]
  BY <1>0 DEF IInv, TypeOK
<1>2. /\ chan[h] \in Seq(Messages) /\ wire[h] \in Seq(Messages) /\ Len(chan[h]) <= Cap
      /\ Cap \in Nat /\ seen[h] \in Nat /\ first[h] \in Nat /\ Latest \in Nat
  BY StreamAssumption DEF IInv, TypeOK, Versions, Latest
<1>3. /\ Head(chan[h]) = chan[h][1] /\ Head(chan[h]) \in Messages
      /\ Tail(chan[h]) \in Seq(Messages) /\ Len(Tail(chan[h])) = Len(chan[h]) - 1
      /\ Len(chan[h]) \in Nat \ {0}
      /\ \A j \in 1..Len(Tail(chan[h])) : Tail(chan[h])[j] = chan[h][j + 1]
  BY <1>0, <1>2
<1>4. TypeOK'
  <2>1. pc' \in [Conns -> PcValues]
    BY <1>0 DEF IInv, TypeOK, PcValues
  <2>2. /\ held' \in [Conns -> Messages \cup {NoMsg}]
        /\ \A k \in Conns : pc'[k] = "writing" => held'[k] \in Messages
    BY <1>0, <1>1, <1>3 DEF IInv, TypeOK
  <2>3. chan'[h] \in Seq(Messages) /\ Len(chan'[h]) <= Cap
    BY <1>1, <1>2, <1>3
  <2>4. chan' \in [Conns -> Seq(Messages)] /\ \A k \in Conns : Len(chan'[k]) <= Cap
    BY <1>0, <1>1, <2>3 DEF IInv, TypeOK
  <2> QED BY <1>0, <2>1, <2>2, <2>4 DEF IInv, TypeOK, Latest
<1>5. LockInv'
  BY <1>0, <1>1, StreamAssumption DEF IInv, LockInv, Latest
<1>6. BrokerInv'
  BY <1>0, <1>1 DEF IInv, BrokerInv, BrokerAt, Subscribed
<1>7. DataInv'
  <2>1. ASSUME NEW k \in Conns, k # h PROVE DataAt(k)'
    BY <1>0, <1>1, <2>1, Frame DEF IInv, DataInv, Subscribed
  <2>2. DataAt(h)'
    <3>0. DataAt(h) /\ subId[h] # NoId
      BY <1>0 DEF IInv, DataInv, BrokerInv, BrokerAt
    <3>1. /\ Latest' = Latest /\ InHand(h) = 0 /\ InHand(h)' = 1
          /\ Snapped(h)' = Snapped(h) /\ Subscribed(h)' = Subscribed(h)
      BY <1>0, <1>1 DEF Latest, InHand, Snapped, Subscribed
    <3>2. ASSUME sock[h] = "open"
          PROVE  /\ Leads(hist, first[h], held'[h], seen[h] + Len(wire[h]) + 1)
                 /\ \A j \in 1..Len(chan'[h]) :
                      Leads(hist, first[h], chan'[h][j], seen[h] + Len(wire[h]) + 1 + j)
                 /\ Subscribed(h) => seen[h] + Len(wire[h]) + 1 + Len(chan'[h]) = Latest
      <4> DEFINE base == seen[h] + Len(wire[h])
      <4>0. base \in Nat
        BY <1>2
      <4>1. /\ \A j \in 1..Len(chan[h]) : Leads(hist, first[h], chan[h][j], base + 0 + j)
            /\ Subscribed(h) => base + 0 + Len(chan[h]) = Latest
        BY <1>0, <3>0, <3>1, <3>2 DEF DataAt
      <4> HIDE DEF base
      <4>2. Leads(hist, first[h], chan[h][1], base + 1)
        <5>1. 1 \in 1..Len(chan[h]) /\ base + 0 + 1 = base + 1
          BY <1>3, <4>0
        <5> QED BY <4>1, <5>1
      <4>3. \A j \in 1..Len(chan'[h]) : Leads(hist, first[h], chan'[h][j], base + 1 + j)
        <5> SUFFICES ASSUME NEW j \in 1..Len(chan'[h])
                     PROVE  Leads(hist, first[h], chan'[h][j], base + 1 + j)
          OBVIOUS
        <5>1. j + 1 \in 1..Len(chan[h]) /\ chan'[h][j] = chan[h][j + 1]
          BY <1>1, <1>3
        <5>2. base + 0 + (j + 1) = base + 1 + j
          BY <4>0, <5>1
        <5> QED BY <4>1, <5>1, <5>2
      <4>4. Subscribed(h) => base + 1 + Len(chan'[h]) = Latest
        <5>1. Len(chan'[h]) = Len(chan[h]) - 1 /\ Len(chan[h]) \in Nat
          BY <1>1, <1>3
        <5>2. \A b, n \in Nat : b + 1 + (n - 1) = b + 0 + n
          OBVIOUS
        <5>3. base + 1 + Len(chan'[h]) = base + 0 + Len(chan[h])
          BY <4>0, <5>1, <5>2
        <5> QED BY <4>1, <5>3
      <4> QED BY <1>1, <1>3, <4>2, <4>3, <4>4 DEF base
    <3> QED BY <1>0, <1>1, <3>0, <3>1, <3>2 DEF DataAt
  <2> QED BY <2>1, <2>2 DEF DataInv
<1> QED BY <1>4, <1>5, <1>6, <1>7 DEF IInv

LEMMA UnsubscribeStep ==
    ASSUME IInv, NEW h \in Conns, Unsubscribe(h)
    PROVE  IInv'
<1>0. /\ pc[h] = "returning" /\ pc' = [pc EXCEPT ![h] = "unsubscribed"]
      /\ UNCHANGED <<mu, lastGraph, diff, hist, next, chan, subId, held, sock,
                     readerDone, wire, view, seen, first>>
  BY DEF Unsubscribe, graphVars, clientVars
<1>1. pc'[h] = "unsubscribed" /\ \A k \in Conns : k # h => pc'[k] = pc[k]
  BY <1>0 DEF IInv, TypeOK
<1>2. Subscribed(h) => subs[subId[h]] = h
  BY DEF IInv, TypeOK, BrokerInv, Subscribed
<1>3. /\ DOMAIN subs' = DOMAIN subs \ {subId[h]}
      /\ \A i \in DOMAIN subs' : subs'[i] = subs[i]
      /\ closed' = [closed EXCEPT ![h] = TRUE]
      /\ panicked' = FALSE
  <2>1. subId[h] # NoId /\ NoId \notin DOMAIN subs
    BY <1>0 DEF IInv, TypeOK, BrokerInv, BrokerAt, NoId
  <2>2. CASE Subscribed(h)
    <3>1. ~closed[h] /\ ~panicked
      BY <2>2 DEF IInv, BrokerInv, BrokerAt
    <3> QED BY <1>2, <2>2, <3>1 DEF Unsubscribe, Without, Subscribed
  <2>3. CASE ~Subscribed(h)
    <3>1. closed[h] /\ ~panicked /\ closed \in [Conns -> BOOLEAN]
      BY <2>1, <2>3 DEF IInv, BrokerInv, BrokerAt, TypeOK
    <3>2. subId[h] \notin DOMAIN subs
      BY <2>1, <2>3 DEF Subscribed
    <3>3. subs' = subs /\ closed' = closed /\ panicked' = panicked
      BY <3>2 DEF Unsubscribe
    <3>4. closed = [closed EXCEPT ![h] = TRUE]
      BY <3>1
    <3> QED BY <3>1, <3>2, <3>3, <3>4
  <2> QED BY <2>2, <2>3
<1>4. \A k \in Conns : /\ Subscribed(k)' => Subscribed(k)
                       /\ k # h => (Subscribed(k)' <=> Subscribed(k))
  <2>1. \A k \in Conns : k # h /\ subId[k] # NoId => subId[k] # subId[h]
    BY DEF IInv, BrokerInv
  <2> QED BY <1>0, <1>3, <2>1 DEF Subscribed
<1>5. TypeOK'
  <2>1. pc' \in [Conns -> PcValues] /\ closed' \in [Conns -> BOOLEAN]
    BY <1>0, <1>3 DEF IInv, TypeOK, PcValues
  <2>2. /\ DOMAIN subs' \subseteq 1..(next' - 1) /\ panicked' \in BOOLEAN
        /\ \A i \in DOMAIN subs' : subs'[i] \in Conns
    BY <1>0, <1>3 DEF IInv, TypeOK
  <2>3. \A k \in Conns : pc'[k] = "writing" => held'[k] \in Messages
    BY <1>0, <1>1 DEF IInv, TypeOK
  <2> QED BY <1>0, <2>1, <2>2, <2>3 DEF IInv, TypeOK, Latest
<1>6. LockInv'
  BY <1>0, <1>1, StreamAssumption DEF IInv, LockInv, Latest
<1>7. BrokerInv'
  <2>1. closed'[h] = TRUE /\ \A k \in Conns : k # h => closed'[k] = closed[k]
    BY <1>3 DEF IInv, TypeOK
  <2>2. ~Subscribed(h)'
    BY <1>0, <1>3 DEF Subscribed
  <2>3. BrokerAt(h)'
    BY <1>0, <1>1, <2>1, <2>2 DEF IInv, BrokerInv, BrokerAt
  <2>4. \A k \in Conns : BrokerAt(k)'
    BY <1>0, <1>1, <1>4, <2>1, <2>3 DEF IInv, BrokerInv, BrokerAt
  <2> QED BY <1>0, <1>3, <2>4 DEF IInv, BrokerInv
<1>8. DataInv'
  <2>1. ASSUME NEW k \in Conns, k # h PROVE DataAt(k)'
    BY <1>0, <1>1, <1>4, <2>1, Frame DEF IInv, DataInv
  <2>2. DataAt(h)'
    BY <1>0, <1>1 DEF IInv, DataInv, DataAt, Snapped, Latest
  <2> QED BY <2>1, <2>2 DEF DataInv
<1> QED BY <1>5, <1>6, <1>7, <1>8 DEF IInv

LEMMA BreakStep ==
    ASSUME IInv, NEW h \in Conns, Break(h)
    PROVE  IInv'
<1>0. /\ sock' = [sock EXCEPT ![h] = "broken"] /\ wire' = [wire EXCEPT ![h] = <<>>]
      /\ UNCHANGED <<mu, lastGraph, diff, hist, next, subs, chan, closed, panicked,
                     subId, pc, held, readerDone, view, seen, first>>
  BY DEF Break, graphVars, brokerVars, clientVars
<1>1. /\ sock'[h] = "broken" /\ wire'[h] = <<>>
      /\ \A k \in Conns : k # h => sock'[k] = sock[k] /\ wire'[k] = wire[k]
  BY <1>0 DEF IInv, TypeOK
<1>2. TypeOK'
  <2>1. sock' \in [Conns -> {"none", "open", "broken", "closed"}]
    BY <1>0 DEF IInv, TypeOK
  <2>2. wire'[h] \in Seq(Messages) /\ Len(wire'[h]) <= WireCap
    BY <1>1, StreamAssumption
  <2>3. wire' \in [Conns -> Seq(Messages)] /\ \A k \in Conns : Len(wire'[k]) <= WireCap
    BY <1>0, <1>1, <2>2 DEF IInv, TypeOK
  <2> QED BY <1>0, <2>1, <2>3 DEF IInv, TypeOK, Latest
<1>3. LockInv'
  BY <1>0 DEF IInv, LockInv, Latest
<1>4. BrokerInv'
  BY <1>0, <1>1 DEF IInv, BrokerInv, BrokerAt, Subscribed
<1>5. DataInv'
  <2>1. ASSUME NEW k \in Conns, k # h PROVE DataAt(k)'
    BY <1>0, <1>1, <2>1, Frame DEF IInv, DataInv, Subscribed
  <2>2. DataAt(h)'
    <3>1. Len(wire'[h]) = 0
      BY <1>1
    <3>2. DataAt(h) /\ Latest' = Latest /\ Snapped(h)' = Snapped(h)
      BY <1>0 DEF IInv, DataInv, Latest, Snapped
    <3> QED BY <1>0, <1>1, <3>1, <3>2 DEF DataAt
  <2> QED BY <2>1, <2>2 DEF DataInv
<1> QED BY <1>2, <1>3, <1>4, <1>5 DEF IInv

(* The message at the head of the socket leads to the next version, and
   applying it to the tables shown gives exactly that version. *)
LEMMA DeliverShows ==
    ASSUME IInv, NEW h \in Conns, wire[h] # <<>>
    PROVE  /\ Head(wire[h]).ver = seen[h] + 1 /\ seen[h] + 1 \in 1..Latest
           /\ first[h] \in 1..(seen[h] + 1)
           /\ ApplyMessage(view[h], Head(wire[h]).body) = hist[seen[h] + 1]
<1>1. /\ wire[h] \in Seq(Messages) /\ hist \in Seq(Graphs)
      /\ seen[h] \in Nat /\ first[h] \in Nat /\ Latest \in Nat /\ Latest = Len(hist)
  BY StreamAssumption DEF IInv, TypeOK, Versions, Latest
<1>2. DataAt(h)
  BY DEF IInv, DataInv
<1>3. 1 \in 1..Len(wire[h]) /\ Head(wire[h]) = wire[h][1]
  BY <1>1
<1>4. Leads(hist, first[h], Head(wire[h]), seen[h] + 1)
  BY <1>2, <1>3 DEF DataAt
<1>5. /\ Head(wire[h]).ver = seen[h] + 1 /\ seen[h] + 1 \in 1..Latest
      /\ first[h] \in 1..(seen[h] + 1)
      /\ Head(wire[h]).body = IF seen[h] + 1 = first[h]
            THEN AsSnapshot(hist[seen[h] + 1])
            ELSE DiffAgainst(hist[seen[h] + 1], hist[(seen[h] + 1) - 1])
  BY <1>1, <1>4 DEF Leads
<1>6. hist[seen[h] + 1] \in Graphs
  BY <1>1, <1>5
<1>7. CASE seen[h] + 1 = first[h]
  BY <1>5, <1>6, <1>7, ApplyFacts
<1>8. CASE seen[h] + 1 # first[h]
  <2>1. Snapped(h) /\ seen[h] \in 1..Latest /\ (seen[h] + 1) - 1 = seen[h]
    BY <1>1, <1>5, <1>8 DEF Snapped
  <2>2. view[h] = hist[seen[h]] /\ hist[seen[h]] \in Graphs
    BY <1>1, <1>2, <2>1 DEF DataAt
  <2>3. Head(wire[h]).body = DiffAgainst(hist[seen[h] + 1], hist[seen[h]])
    BY <1>5, <1>8, <2>1
  <2> QED BY <1>5, <1>6, <2>2, <2>3, ApplyFacts
<1> QED BY <1>7, <1>8

LEMMA DeliverStep ==
    ASSUME IInv, NEW h \in Conns, Deliver(h)
    PROVE  IInv'
<1>0. /\ wire[h] # <<>>
      /\ view' = [view EXCEPT ![h] = ApplyMessage(@, Head(wire[h]).body)]
      /\ seen' = [seen EXCEPT ![h] = Head(wire[h]).ver]
      /\ wire' = [wire EXCEPT ![h] = Tail(wire[h])]
      /\ UNCHANGED <<mu, lastGraph, diff, hist, next, subs, chan, closed, panicked,
                     subId, pc, held, sock, readerDone, first>>
  BY DEF Deliver, graphVars, brokerVars, handlerVars
<1>1. /\ view'[h] = hist[seen[h] + 1] /\ seen'[h] = seen[h] + 1
      /\ wire'[h] = Tail(wire[h])
      /\ \A k \in Conns : k # h =>
            view'[k] = view[k] /\ seen'[k] = seen[k] /\ wire'[k] = wire[k]
  BY <1>0, DeliverShows DEF IInv, TypeOK
<1>2. /\ wire[h] \in Seq(Messages) /\ hist \in Seq(Graphs) /\ chan[h] \in Seq(Messages)
      /\ seen[h] \in Nat /\ first[h] \in Nat /\ Latest \in Nat /\ Latest = Len(hist)
      /\ Latest <= MaxPublish /\ MaxPublish \in Nat /\ Len(wire[h]) <= WireCap
      /\ WireCap \in Nat
  BY StreamAssumption DEF IInv, TypeOK, Versions, Latest
<1>3. /\ Tail(wire[h]) \in Seq(Messages) /\ Len(Tail(wire[h])) = Len(wire[h]) - 1
      /\ Len(wire[h]) \in Nat \ {0}
      /\ \A j \in 1..Len(Tail(wire[h])) : Tail(wire[h])[j] = wire[h][j + 1]
  BY <1>0, <1>2
<1>4. seen[h] + 1 \in 1..Latest /\ first[h] \in 1..(seen[h] + 1)
  BY <1>0, DeliverShows
<1>5. TypeOK'
  <2>1. view'[h] \in Graphs /\ seen'[h] \in Versions
    BY <1>1, <1>2, <1>4 DEF Versions
  <2>2. wire'[h] \in Seq(Messages) /\ Len(wire'[h]) <= WireCap
    BY <1>1, <1>2, <1>3
  <2>3. /\ wire' \in [Conns -> Seq(Messages)] /\ \A k \in Conns : Len(wire'[k]) <= WireCap
        /\ view' \in [Conns -> Graphs \cup {ZeroGraph}] /\ seen' \in [Conns -> Versions]
    <3>1. \A k \in Conns : /\ wire'[k] \in Seq(Messages) /\ Len(wire'[k]) <= WireCap
                           /\ view'[k] \in Graphs \cup {ZeroGraph}
                           /\ seen'[k] \in Versions
      BY <1>1, <2>1, <2>2 DEF IInv, TypeOK
    <3>2. /\ wire' = [k \in Conns |-> wire'[k]] /\ view' = [k \in Conns |-> view'[k]]
          /\ seen' = [k \in Conns |-> seen'[k]]
      BY <1>0 DEF IInv, TypeOK
    <3> QED BY <3>1, <3>2
  <2> QED BY <1>0, <2>3 DEF IInv, TypeOK, Latest
<1>6. LockInv'
  BY <1>0 DEF IInv, LockInv, Latest
<1>7. BrokerInv'
  BY <1>0 DEF IInv, BrokerInv, BrokerAt, Subscribed
<1>8. DataInv'
  <2>1. ASSUME NEW k \in Conns, k # h PROVE DataAt(k)'
    BY <1>0, <1>1, <2>1, Frame DEF IInv, DataInv, Subscribed
  <2>2. DataAt(h)'
    <3>0. DataAt(h)
      BY DEF IInv, DataInv
    <3>1. /\ Latest' = Latest /\ Snapped(h)' /\ InHand(h)' = InHand(h)
          /\ Subscribed(h)' = Subscribed(h) /\ InHand(h) \in Nat
      BY <1>0, <1>1, <1>4 DEF Latest, Snapped, InHand, Subscribed
    <3>2. seen'[h] + Len(wire'[h]) = seen[h] + Len(wire[h])
      BY <1>1, <1>2, <1>3
    <3>3. \A j \in 1..Len(wire'[h]) : Leads(hist, first[h], wire'[h][j], seen'[h] + j)
      <4> SUFFICES ASSUME NEW j \in 1..Len(wire'[h])
                   PROVE  Leads(hist, first[h], wire'[h][j], seen'[h] + j)
        OBVIOUS
      <4>1. j + 1 \in 1..Len(wire[h]) /\ wire'[h][j] = wire[h][j + 1]
        BY <1>1, <1>3
      <4>2. seen'[h] + j = seen[h] + (j + 1)
        <5>1. seen'[h] = seen[h] + 1 /\ seen[h] \in Nat /\ j \in Int
          BY <1>1, <1>2
        <5> QED BY <5>1
      <4>3. Leads(hist, first[h], wire[h][j + 1], seen[h] + (j + 1))
        BY <3>0, <4>1 DEF DataAt
      <4> QED BY <4>1, <4>2, <4>3
    <3>4. pc[h] # "registered" /\ subId[h] # NoId /\ first[h] # 0
      BY <1>0, <1>2, <1>4, <3>0 DEF DataAt
    <3>5. /\ first[h] <= Latest /\ seen'[h] <= Latest /\ seen'[h] + 1 >= first[h]
          /\ view'[h] = hist[seen'[h]]
      BY <1>1, <1>2, <1>4
    <3> QED BY <1>0, <3>0, <3>1, <3>2, <3>3, <3>4, <3>5 DEF DataAt
  <2> QED BY <2>1, <2>2 DEF DataInv
<1> QED BY <1>5, <1>6, <1>7, <1>8 DEF IInv

-----------------------------------------------------------------------------
LEMMA StepIInv == IInv /\ [Next]_vars => IInv'
<1> SUFFICES ASSUME IInv, [Next]_vars PROVE IInv'
  OBVIOUS
<1>1. ASSUME NEW g \in Graphs, RebuildSwap(g) PROVE IInv'
  BY <1>1, SwapStep
<1>2. CASE RebuildPublish
  BY <1>2, QuietPublishStep, LoudPublishStep
<1>3. ASSUME NEW h \in Conns, Upgrade(h) PROVE IInv'
  BY <1>3, UpgradeStep
<1>4. ASSUME NEW h \in Conns, Handler(h) PROVE IInv'
  <2>1. CASE Register(h)
    BY <2>1, RegisterStep
  <2>2. CASE Capture(h)
    BY <2>2, CaptureStep
  <2>3. CASE WriteOk(h)
    BY <2>3, WriteOkStep
  <2>4. CASE WriteFail(h)
    <3>1. readerDone' \in [Conns -> BOOLEAN]
      BY <2>4 DEF WriteFail, IInv, TypeOK
    <3> QED BY <2>4, <3>1, LeavingStep DEF WriteFail
  <2>5. CASE TakeDiff(h)
    BY <2>5, TakeDiffStep
  <2>6. CASE Leave(h)
    <3>1. readerDone' \in [Conns -> BOOLEAN]
      BY <2>6 DEF Leave, IInv, TypeOK
    <3> QED BY <2>6, <3>1, LeavingStep DEF Leave
  <2>7. CASE Unsubscribe(h)
    BY <2>7, UnsubscribeStep
  <2>8. CASE CloseConn(h)
    <3>1. readerDone' \in [Conns -> BOOLEAN]
      BY <2>8 DEF CloseConn, IInv, TypeOK
    <3>2. sock' \in {sock, [sock EXCEPT ![h] = "closed"]}
      BY <2>8 DEF CloseConn, IInv, TypeOK
    <3> QED BY <2>8, <3>1, <3>2, LeavingStep DEF CloseConn
  <2> QED BY <1>4, <2>1, <2>2, <2>3, <2>4, <2>5, <2>6, <2>7, <2>8
        DEF Handler, SeeDropped, SeeReaderDone, PingFails
<1>5. ASSUME NEW h \in Conns, ReaderExit(h) PROVE IInv'
  <2>1. readerDone' \in [Conns -> BOOLEAN]
    BY <1>5 DEF ReaderExit, IInv, TypeOK
  <2> QED BY <1>5, <2>1, LeavingStep DEF ReaderExit
<1>6. ASSUME NEW h \in Conns, Deliver(h) PROVE IInv'
  BY <1>6, DeliverStep
<1>7. ASSUME NEW h \in Conns, Break(h) PROVE IInv'
  BY <1>7, BreakStep
<1>8. CASE UNCHANGED vars
  <2>1. UNCHANGED <<mu, lastGraph, diff, hist, next, subs, chan, closed, panicked,
                    subId, pc, held, sock, readerDone, wire, view, seen, first>>
    BY <1>8 DEF vars, graphVars, brokerVars, handlerVars, clientVars
  <2>2. TypeOK' /\ LockInv'
    BY <2>1 DEF IInv, TypeOK, LockInv, Latest
  <2>3. BrokerInv'
    BY <2>1 DEF IInv, BrokerInv, BrokerAt, Subscribed
  <2>4. DataInv'
    BY <2>1, Frame DEF IInv, DataInv, Subscribed
  <2> QED BY <2>2, <2>3, <2>4 DEF IInv
<1> QED BY <1>1, <1>2, <1>3, <1>4, <1>5, <1>6, <1>7, <1>8 DEF Next

(* The inductive invariant holds in every reachable state. *)
THEOREM StreamInvariant == Spec => []IInv
<1> QED BY InitIInv, StepIInv, PTL DEF Spec

(* Type correctness; a channel and a socket never exceed their capacity. *)
THEOREM StreamTypeCorrect == Spec => []TypeOK
<1>1. IInv => TypeOK
  BY DEF IInv
<1> QED BY <1>1, StreamInvariant, PTL

(* Every tab that has its snapshot shows exactly a graph that the collector
   published, for any number of drops, breaks and reconnections. *)
THEOREM StreamShowsAPublishedGraph == Spec => []ShowsAPublishedGraph
<1>1. IInv => ShowsAPublishedGraph
  BY DEF IInv, DataInv, DataAt, ShowsAPublishedGraph
<1> QED BY <1>1, StreamInvariant, PTL

(* No order of broadcasts, drops and unsubscribes closes a channel twice or
   sends on a closed one. *)
THEOREM StreamNeverPanics == Spec => []NeverPanics
<1>1. IInv => NeverPanics
  BY DEF IInv, BrokerInv, NeverPanics
<1> QED BY <1>1, StreamInvariant, PTL

(* The broker keeps no subscription of a handler that has returned. *)
THEOREM StreamNoSubscriptionLeaks == Spec => []NoSubscriptionLeaks
<1>1. IInv => NoSubscriptionLeaks
  <2> SUFFICES ASSUME IInv PROVE NoSubscriptionLeaks
    OBVIOUS
  <2>1. ASSUME NEW i \in DOMAIN subs
        PROVE  /\ subId[subs[i]] = i /\ ~closed[subs[i]]
               /\ pc[subs[i]] \in {"registered", "writing", "loop", "returning"}
    <3>1. subs[i] \in Conns /\ subId[subs[i]] = i /\ i # NoId
      BY DEF IInv, TypeOK, BrokerInv, NoId
    <3>2. Subscribed(subs[i]) /\ BrokerAt(subs[i])
      BY <3>1 DEF IInv, BrokerInv, Subscribed
    <3> QED BY <3>1, <3>2 DEF BrokerAt
  <2>2. ASSUME NEW h \in Conns, pc[h] = "done", subId[h] # NoId
        PROVE  ~Subscribed(h) /\ closed[h]
    BY <2>2 DEF IInv, BrokerInv, BrokerAt
  <2> QED BY <2>1, <2>2 DEF NoSubscriptionLeaks
<1> QED BY <1>1, StreamInvariant, PTL

(* Subscribe's promise: what is on its way to a subscriber is every version
   after the one it shows, up to the latest, once each and in order. *)
THEOREM StreamNothingLost == Spec => []NothingLostOrRepeated
<1>1. IInv => NothingLostOrRepeated
  <2> SUFFICES ASSUME IInv, NEW h \in Conns, Subscribed(h),
                      pc[h] \in {"writing", "loop"}, sock[h] = "open"
               PROVE  /\ Len(Pending(h)) = Latest - seen[h]
                      /\ \A j \in DOMAIN Pending(h) : Pending(h)[j].ver = seen[h] + j
    BY DEF NothingLostOrRepeated
  <2> DEFINE hand == IF pc[h] = "writing" THEN <<held[h]>> ELSE <<>>
             ahead == wire[h] \o hand
  <2>1. /\ wire[h] \in Seq(Messages) /\ chan[h] \in Seq(Messages)
        /\ seen[h] \in Nat /\ Latest \in Nat
        /\ pc[h] = "writing" => held[h] \in Messages
    BY StreamAssumption DEF IInv, TypeOK, Versions, Latest
  <2>2. hand \in Seq(Messages) /\ Len(hand) = InHand(h) /\ InHand(h) \in Nat
    BY <2>1 DEF InHand
  <2>3. DataAt(h)
    BY DEF IInv, DataInv
  <2>4. /\ \A j \in 1..Len(wire[h]) : wire[h][j].ver = seen[h] + j
        /\ \A j \in 1..Len(hand) : hand[j].ver = seen[h] + Len(wire[h]) + j
        /\ \A j \in 1..Len(chan[h]) :
              chan[h][j].ver = seen[h] + Len(wire[h]) + InHand(h) + j
        /\ seen[h] + Len(wire[h]) + InHand(h) + Len(chan[h]) = Latest
    <3>1. \A j \in 1..Len(hand) : j = 1 /\ hand[j] = held[h] /\ pc[h] = "writing"
      OBVIOUS
    <3> QED BY <2>3, <3>1 DEF DataAt, Leads
  <2> HIDE DEF hand
  <2>5. /\ ahead \in Seq(Messages) /\ Len(ahead) = Len(wire[h]) + InHand(h)
        /\ \A j \in 1..Len(ahead) :
              ahead[j] = IF j <= Len(wire[h]) THEN wire[h][j] ELSE hand[j - Len(wire[h])]
    <3>1. /\ wire[h] \o hand \in Seq(Messages)
          /\ Len(wire[h] \o hand) = Len(wire[h]) + Len(hand)
          /\ \A j \in 1..(Len(wire[h]) + Len(hand)) :
                (wire[h] \o hand)[j] = IF j <= Len(wire[h]) THEN wire[h][j]
                                                          ELSE hand[j - Len(wire[h])]
      BY <2>1, <2>2, ConcatProperties
    <3>2. Len(hand) = InHand(h)
      BY <2>2
    <3> QED BY <3>1, <3>2
  <2>6. \A j \in 1..Len(ahead) : ahead[j].ver = seen[h] + j
    <3> SUFFICES ASSUME NEW j \in 1..Len(ahead) PROVE ahead[j].ver = seen[h] + j
      OBVIOUS
    <3>0. Len(wire[h]) \in Nat
      BY <2>1
    <3>1. CASE j <= Len(wire[h])
      <4>1. j \in 1..Len(wire[h])
        BY <3>0, <3>1
      <4> QED BY <2>4, <2>5, <3>1, <4>1
    <3>2. CASE ~(j <= Len(wire[h]))
      <4>1. j - Len(wire[h]) \in 1..Len(hand)
        BY <2>2, <2>5, <3>0, <3>2
      <4>2. ahead[j] = hand[j - Len(wire[h])]
        BY <2>5, <3>2
      <4>3. seen[h] + Len(wire[h]) + (j - Len(wire[h])) = seen[h] + j
        BY <2>1, <3>0
      <4> QED BY <2>4, <4>1, <4>2, <4>3
    <3> QED BY <3>1, <3>2
  <2>7. Pending(h) = ahead \o chan[h]
    BY DEF Pending, hand
  <2> HIDE DEF ahead
  <2>8. /\ Len(Pending(h)) = Len(ahead) + Len(chan[h])
        /\ DOMAIN Pending(h) = 1..(Len(ahead) + Len(chan[h]))
        /\ Len(ahead) \in Nat /\ Len(chan[h]) \in Nat /\ Len(wire[h]) \in Nat
        /\ \A j \in 1..(Len(ahead) + Len(chan[h])) :
              Pending(h)[j] = IF j <= Len(ahead) THEN ahead[j]
                                                 ELSE chan[h][j - Len(ahead)]
    <3>0. ahead \in Seq(Messages)
      BY <2>5
    <3>1. /\ ahead \o chan[h] \in Seq(Messages)
          /\ Len(ahead \o chan[h]) = Len(ahead) + Len(chan[h])
          /\ \A j \in 1..(Len(ahead) + Len(chan[h])) :
                (ahead \o chan[h])[j] = IF j <= Len(ahead) THEN ahead[j]
                                                        ELSE chan[h][j - Len(ahead)]
      BY <2>1, <3>0, ConcatProperties
    <3>2. DOMAIN (ahead \o chan[h]) = 1..Len(ahead \o chan[h])
      BY <3>1
    <3>3. Len(ahead) \in Nat /\ Len(chan[h]) \in Nat /\ Len(wire[h]) \in Nat
      BY <2>1, <3>0
    <3> QED BY <2>7, <3>1, <3>2, <3>3
  <2>9. Len(Pending(h)) = Latest - seen[h]
    <3> DEFINE s == seen[h]
               w == Len(wire[h])
               k == InHand(h)
               c == Len(chan[h])
               n == Latest
    <3>1. s \in Nat /\ w \in Nat /\ k \in Nat /\ c \in Nat /\ n \in Nat
      BY <2>1, <2>2, <2>8
    <3>2. s + w + k + c = n
      BY <2>4
    <3>3. Len(Pending(h)) = w + k + c
      BY <2>5, <2>8
    <3> HIDE DEF s, w, k, c, n
    <3>4. w + k + c = n - s
      BY <3>1, <3>2
    <3> QED BY <3>3, <3>4 DEF s, n
  <2>10. ASSUME NEW j \in DOMAIN Pending(h) PROVE Pending(h)[j].ver = seen[h] + j
    <3>1. CASE j <= Len(ahead)
      <4>1. j \in 1..Len(ahead)
        BY <2>8, <2>10, <3>1
      <4> QED BY <2>6, <2>8, <2>10, <3>1, <4>1
    <3>2. CASE ~(j <= Len(ahead))
      <4>1. j - Len(ahead) \in 1..Len(chan[h])
        BY <2>8, <2>10, <3>2
      <4>2. Pending(h)[j] = chan[h][j - Len(ahead)]
        BY <2>8, <2>10, <3>2
      <4>3. seen[h] + Len(wire[h]) + InHand(h) + (j - Len(ahead)) = seen[h] + j
        <5> DEFINE s == seen[h]
                   w == Len(wire[h])
                   k == InHand(h)
        <5>1. s \in Nat /\ w \in Nat /\ k \in Nat /\ j \in Int
          BY <2>1, <2>2, <2>8, <2>10
        <5>2. Len(ahead) = w + k
          BY <2>5
        <5> HIDE DEF s, w, k
        <5>3. s + w + k + (j - (w + k)) = s + j
          BY <5>1
        <5> QED BY <5>2, <5>3 DEF s, w, k
      <4> QED BY <2>4, <4>1, <4>2, <4>3
    <3> QED BY <3>1, <3>2
  <2> QED BY <2>9, <2>10
<1> QED BY <1>1, StreamInvariant, PTL

-----------------------------------------------------------------------------
(* The refinement. *)

LEMMA RefinesInit == Init => Feed!Init
<1> SUFFICES ASSUME Init PROVE Feed!Init
  OBVIOUS
<1>1. \A h \in Conns : ~Snapped(h)
  BY DEF Init, Snapped
<1> QED BY <1>1 DEF Init, Feed!Init

LEMMA RefinesStep == IInv /\ IInv' /\ [Next]_vars => [Feed!Next]_(Feed!feedVars)
<1> SUFFICES ASSUME IInv, IInv', [Next]_vars
             PROVE  Feed!Next \/ UNCHANGED Feed!feedVars
  OBVIOUS
<1>1. ASSUME UNCHANGED <<hist, first, view, seen>> PROVE UNCHANGED Feed!feedVars
  BY <1>1 DEF Feed!feedVars, Snapped
<1>2. ASSUME NEW g \in Graphs, RebuildSwap(g) PROVE UNCHANGED Feed!feedVars
  BY <1>1, <1>2 DEF RebuildSwap, clientVars
<1>3. CASE RebuildPublish
  <2>0. UNCHANGED <<first, view, seen>>
    BY <1>3 DEF RebuildPublish, clientVars
  <2>1. CASE IsEmptyDiff(diff)
    BY <1>1, <1>3, <2>0, <2>1 DEF RebuildPublish
  <2>2. CASE ~IsEmptyDiff(diff)
    <3>1. hist' = Append(hist, lastGraph)
      BY <1>3, <2>2 DEF RebuildPublish
    <3>2. /\ lastGraph \in Graphs
          /\ diff = IF hist = <<>> THEN AsSnapshot(lastGraph)
                                   ELSE DiffAgainst(lastGraph, hist[Latest])
      BY <1>3 DEF RebuildPublish, Unlock, IInv, LockInv
    <3>3. hist # <<>> => lastGraph # hist[Len(hist)]
      BY <2>2, <3>2, ApplyFacts DEF Latest
    <3>4. UNCHANGED [h \in Conns |-> IF Snapped(h) THEN seen[h] ELSE 0]
      BY <2>0 DEF Snapped
    <3> QED BY <2>0, <3>1, <3>2, <3>3, <3>4 DEF Feed!Next, Feed!Publish
  <2> QED BY <2>1, <2>2
<1>4. ASSUME NEW h \in Conns, Upgrade(h) PROVE UNCHANGED Feed!feedVars
  BY <1>1, <1>4 DEF Upgrade, graphVars, clientVars
<1>5. ASSUME NEW h \in Conns, Register(h) PROVE Feed!Join(h)
  <2>0. /\ pc[h] = "upgraded" /\ mu = Free /\ UNCHANGED <<hist, view>>
        /\ first' = [first EXCEPT ![h] = Latest] /\ seen' = [seen EXCEPT ![h] = Latest - 1]
    BY <1>5 DEF Register, Lock
  <2>1. hist # <<>>
    BY <2>0, StreamAssumption DEF IInv, LockInv
  <2>2. first[h] = 0 /\ Latest \in Nat \ {0}
    BY <2>0, <2>1 DEF IInv, BrokerInv, BrokerAt, DataInv, DataAt, TypeOK, Latest
  <2>3. ~Snapped(h) /\ ~Snapped(h)'
    BY <2>0, <2>2 DEF Snapped, IInv, TypeOK
  <2>4. \A k \in Conns : k # h => Snapped(k)' = Snapped(k) /\ seen'[k] = seen[k]
    BY <2>0 DEF Snapped, IInv, TypeOK
  <2>5. UNCHANGED [k \in Conns |-> IF Snapped(k) THEN seen[k] ELSE 0]
    BY <2>3, <2>4
  <2> QED BY <2>0, <2>1, <2>2, <2>5 DEF Feed!Join, Latest
<1>6. ASSUME NEW h \in Conns, Handler(h), ~Register(h) PROVE UNCHANGED Feed!feedVars
  BY <1>1, <1>6 DEF Handler, Capture, WriteOk, WriteFail, TakeDiff, SeeDropped,
        SeeReaderDone, PingFails, Leave, Unsubscribe, CloseConn, graphVars, clientVars
<1>7. ASSUME NEW h \in Conns, ReaderExit(h) PROVE UNCHANGED Feed!feedVars
  BY <1>1, <1>7 DEF ReaderExit, graphVars, clientVars
<1>8. ASSUME NEW h \in Conns, Deliver(h) PROVE Feed!Show(h)
  <2> DEFINE at == [k \in Conns |-> IF Snapped(k) THEN seen[k] ELSE 0]
  <2>0. /\ wire[h] # <<>> /\ UNCHANGED <<hist, first>>
        /\ view' = [view EXCEPT ![h] = ApplyMessage(@, Head(wire[h]).body)]
        /\ seen' = [seen EXCEPT ![h] = Head(wire[h]).ver]
    BY <1>8 DEF Deliver, graphVars
  <2>1. /\ Head(wire[h]).ver = seen[h] + 1 /\ seen[h] + 1 \in 1..Latest
        /\ first[h] \in 1..(seen[h] + 1)
        /\ ApplyMessage(view[h], Head(wire[h]).body) = hist[seen[h] + 1]
    BY <2>0, DeliverShows
  <2>2. /\ seen' = [seen EXCEPT ![h] = seen[h] + 1]
        /\ view' = [view EXCEPT ![h] = hist[seen[h] + 1]]
    BY <2>0, <2>1
  <2>3. seen[h] \in Nat /\ first[h] \in Nat /\ DOMAIN seen = Conns /\ Latest \in Nat
    BY StreamAssumption DEF IInv, TypeOK, Versions, Latest
  <2>4. Snapped(h)' /\ at'[h] = seen[h] + 1
    BY <2>0, <2>1, <2>2, <2>3 DEF Snapped
  <2>5. at' = [at EXCEPT ![h] = seen[h] + 1]
    <3>1. \A k \in Conns : k # h => Snapped(k)' = Snapped(k) /\ seen'[k] = seen[k]
      BY <2>0, <2>3 DEF Snapped
    <3> QED BY <2>4, <3>1
  <2>6. (IF at[h] = 0 THEN first[h] ELSE at[h] + 1) = seen[h] + 1
    <3>1. seen[h] + 1 >= first[h] /\ first[h] > 0
      BY <2>1, <2>3
    <3> QED BY <2>3, <3>1 DEF Snapped
  <2>7. first[h] # 0 /\ seen[h] + 1 <= Len(hist)
    BY <2>1, <2>3 DEF Latest
  <2> QED BY <2>0, <2>2, <2>5, <2>6, <2>7 DEF Feed!Show, Feed!Upcoming
<1>9. ASSUME NEW h \in Conns, Break(h) PROVE UNCHANGED Feed!feedVars
  BY <1>1, <1>9 DEF Break, graphVars, clientVars
<1>10. CASE UNCHANGED vars
  BY <1>1, <1>10 DEF vars, graphVars, clientVars
<1> QED BY <1>2, <1>3, <1>4, <1>5, <1>6, <1>7, <1>8, <1>9, <1>10 DEF Next, Feed!Next

(* The stream, with its broker, channels, sockets and change sets, is the
   abstract feed: each tab is shown the graph current when it subscribed and
   then every later graph in turn, until it stops. *)
THEOREM StreamImplementsLiveFeed == Spec => ImplementsLiveFeed
<1> QED BY RefinesInit, RefinesStep, StreamInvariant, PTL
        DEF Spec, ImplementsLiveFeed, Feed!Spec
=============================================================================
