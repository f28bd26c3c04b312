------------------------------ MODULE LiveFeed ------------------------------
(***************************************************************************)
(* What the stream promises to a dashboard, with no broker, channel,       *)
(* socket or change set: the collector publishes a sequence of graphs; a   *)
(* dashboard that joins is first shown the graph that was current when it  *)
(* joined, and then every later one in turn, each of them exactly as it    *)
(* was published.  It may stop at any point (it is dropped, or it leaves); *)
(* it never skips a graph, goes back, or shows a mixture of two.           *)
(***************************************************************************)
EXTENDS Naturals, Sequences

CONSTANTS Conns, Graphs

VARIABLES
    published,      \* the graphs published so far
    joined,         \* version current when the dashboard joined, or 0
    at,             \* version last shown, 0 before the first
    screen          \* what the dashboard shows

feedVars == <<published, joined, at, screen>>

Init ==
    /\ published = <<>>
    /\ joined = [h \in Conns |-> 0] /\ at = [h \in Conns |-> 0]
    /\ DOMAIN screen = Conns

Publish(g) ==
    /\ published # <<>> => g # published[Len(published)]
    /\ published' = Append(published, g)
    /\ UNCHANGED <<joined, at, screen>>

Join(h) ==
    /\ joined[h] = 0 /\ published # <<>>
    /\ joined' = [joined EXCEPT ![h] = Len(published)]
    /\ UNCHANGED <<published, at, screen>>

Upcoming(h) == IF at[h] = 0 THEN joined[h] ELSE at[h] + 1

Show(h) ==
    /\ joined[h] # 0 /\ Upcoming(h) <= Len(published)
    /\ at' = [at EXCEPT ![h] = Upcoming(h)]
    /\ screen' = [screen EXCEPT ![h] = published[Upcoming(h)]]
    /\ UNCHANGED <<published, joined>>

Next ==
    \/ \E g \in Graphs : Publish(g)
    \/ \E h \in Conns : Join(h) \/ Show(h)

Spec == Init /\ [][Next]_feedVars
=============================================================================
