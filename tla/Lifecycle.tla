----------------------------- MODULE Lifecycle -----------------------------
(***************************************************************************)
(* The process: main of cmd/pulsebox with Start of the collector, the two  *)
(* HTTP servers with the requests that they serve, the signal to stop, and *)
(* the shutdown, one server after the other under a common deadline.       *)
(*                                                                         *)
(* The servers are Go's net/http: Shutdown closes the listener and waits   *)
(* for requests, but not for connections that a handler has taken over, as *)
(* the WebSockets are.  A request is a place that is filled again and      *)
(* again; what it holds last is the answer.  The platform starts the       *)
(* program anew whenever it ends.                                          *)
(***************************************************************************)
EXTENDS FiniteSets

CONSTANTS
    Requests,       \* places for requests
    Streams,        \* those for WebSockets
    ServerOf        \* request -> the server that takes it

Servers == {"metrics", "http"}

ASSUME LifecycleAssumption ==
    /\ Streams \subseteq Requests
    /\ ServerOf \in [Requests -> Servers]

VARIABLES
    pc,             \* where main is
    cancelled,      \* ctx is done
    full,           \* the informers have stored all there was at the start
    synced,
    graph,          \* what the last graph was built from: "nothing" before
    server, request,
    deadline        \* shutdownCtx: "off", "running" or "expired"

vars == <<pc, cancelled, full, synced, graph, server, request, deadline>>

Ordinary == Requests \ Streams
Over == pc \in {"exited", "crashed"}
Open(s) == {r \in Ordinary : ServerOf[r] = s /\ request[r] = "open"}

Fresh ==
    [pc |-> "syncing", cancelled |-> FALSE, full |-> FALSE, synced |-> FALSE,
     graph |-> "nothing", server |-> [s \in Servers |-> "off"],
     request |-> [r \in Requests |-> "none"], deadline |-> "off"]

Init ==
    /\ pc = Fresh.pc /\ cancelled = Fresh.cancelled /\ full = Fresh.full
    /\ synced = Fresh.synced /\ graph = Fresh.graph /\ server = Fresh.server
    /\ request = Fresh.request /\ deadline = Fresh.deadline

-----------------------------------------------------------------------------
(* The informers, which stop with ctx. *)
CachesFill ==
    /\ ~Over /\ ~cancelled /\ ~full
    /\ full' = TRUE
    /\ UNCHANGED <<pc, cancelled, synced, graph, server, request, deadline>>

(* SIGINT or SIGTERM; a second one changes nothing. *)
Signal ==
    /\ ~Over /\ ~cancelled
    /\ cancelled' = TRUE
    /\ UNCHANGED <<pc, full, synced, graph, server, request, deadline>>

(* Fault: it goes on after some time. *)
WaitGivesUp ==
    /\ pc = "syncing"
    /\ synced' = TRUE /\ pc' = "synced"
    /\ UNCHANGED <<cancelled, full, graph, server, request, deadline>>

(* Start: WaitForCacheSync ends, for one reason or the other. *)
WaitEnds ==
    /\ pc = "syncing" /\ (full \/ cancelled)
    /\ synced' = TRUE /\ pc' = "synced"
    /\ UNCHANGED <<cancelled, full, graph, server, request, deadline>>

FirstBuild ==
    /\ pc = "synced"
    /\ graph' = IF full THEN "whole" ELSE "partial"
    /\ pc' = "starting"
    /\ UNCHANGED <<cancelled, full, synced, server, request, deadline>>

(* Fault: the first is not started in a goroutine of its own. *)
StartOneServer ==
    /\ pc = "starting"
    /\ server' = [server EXCEPT !["metrics"] = "starting"]
    /\ pc' = "waiting"
    /\ UNCHANGED <<cancelled, full, synced, graph, request, deadline>>

StartServers ==
    /\ pc = "starting"
    /\ server' = [s \in Servers |-> "starting"]
    /\ pc' = "waiting"
    /\ UNCHANGED <<cancelled, full, synced, graph, request, deadline>>

(* serve; a server that was shut down before does not come to listen. *)
Listen(s) ==
    /\ ~Over /\ server[s] = "starting"
    /\ server' = [server EXCEPT ![s] = "listening"]
    /\ UNCHANGED <<pc, cancelled, full, synced, graph, request, deadline>>

Ended(how) ==
    /\ pc' = how
    /\ server' = [s \in Servers |-> "off"]
    /\ request' = [r \in Requests |-> IF request[r] = "open" THEN "cut" ELSE request[r]]
    /\ UNCHANGED <<cancelled, full, synced, graph, deadline>>

(* The address cannot be had, or accepting fails: log.Fatalf. *)
ServerFails(s) ==
    /\ ~Over /\ server[s] \in {"starting", "listening"}
    /\ Ended("crashed")

-----------------------------------------------------------------------------
Arrive(r) ==
    /\ server[ServerOf[r]] = "listening" /\ request[r] # "open"
    /\ request' = [request EXCEPT ![r] = "open"]
    /\ UNCHANGED <<pc, cancelled, full, synced, graph, server, deadline>>

(* A handler answers from the last graph, or says whether it is ready. *)
Answer(r) ==
    /\ ~Over /\ request[r] = "open" /\ r \in Ordinary
    /\ \E a \in {graph, IF synced THEN "ready" ELSE "unready"} :
          request' = [request EXCEPT ![r] = a]
    /\ UNCHANGED <<pc, cancelled, full, synced, graph, server, deadline>>

(* A peer gives up, or closes its WebSocket. *)
Leave(r) ==
    /\ ~Over /\ request[r] = "open"
    /\ request' = [request EXCEPT ![r] = "none"]
    /\ UNCHANGED <<pc, cancelled, full, synced, graph, server, deadline>>

-----------------------------------------------------------------------------
(* <-ctx.Done, and metricsSrv.Shutdown begins. *)
ShutMetrics ==
    /\ pc = "waiting" /\ cancelled
    /\ pc' = "metrics" /\ deadline' = "running"
    /\ server' = [server EXCEPT !["metrics"] = "closed"]
    /\ UNCHANGED <<cancelled, full, synced, graph, request>>

Expire ==
    /\ ~Over /\ deadline = "running"
    /\ deadline' = "expired"
    /\ UNCHANGED <<pc, cancelled, full, synced, graph, server, request>>

(* It returns; httpSrv.Shutdown begins. *)
ShutHttp ==
    /\ pc = "metrics" /\ (Open("metrics") = {} \/ deadline = "expired")
    /\ pc' = "http"
    /\ server' = [server EXCEPT !["http"] = "closed"]
    /\ UNCHANGED <<cancelled, full, synced, graph, request, deadline>>

(* Fault: Close in place of Shutdown. *)
ExitAtOnce ==
    /\ pc = "http"
    /\ Ended("exited")

(* Fault: Shutdown without a deadline. *)
ExitWhenIdle ==
    /\ pc = "http" /\ Open("http") = {}
    /\ Ended("exited")

(* That returns, and main with it. *)
Exit ==
    /\ pc = "http" /\ (Open("http") = {} \/ deadline = "expired")
    /\ Ended("exited")

Restart ==
    /\ Over
    /\ pc' = Fresh.pc /\ cancelled' = Fresh.cancelled /\ full' = Fresh.full
    /\ synced' = Fresh.synced /\ graph' = Fresh.graph /\ server' = Fresh.server
    /\ request' = Fresh.request /\ deadline' = Fresh.deadline

-----------------------------------------------------------------------------
Next ==
    \/ CachesFill \/ Signal
    \/ WaitEnds \/ FirstBuild \/ StartServers
    \/ \E s \in Servers : Listen(s) \/ ServerFails(s)
    \/ \E r \in Requests : Arrive(r) \/ Answer(r) \/ Leave(r)
    \/ ShutMetrics \/ Expire \/ ShutHttp \/ Exit \/ Restart

Spec == Init /\ [][Next]_vars

(***************************************************************************)
(* Goroutines run and the timer fires; the API server answers the lists of *)
(* the informers.  Nothing is assumed of the peers: a handler may wait for *)
(* one for ever, since the servers set no write timeout.                   *)
(***************************************************************************)
FairSpec ==
    /\ Spec
    /\ WF_vars(CachesFill) /\ WF_vars(WaitEnds) /\ WF_vars(FirstBuild) /\ WF_vars(StartServers)
    /\ \A s \in Servers : WF_vars(Listen(s))
    /\ WF_vars(ShutMetrics) /\ WF_vars(Expire) /\ WF_vars(ShutHttp) /\ WF_vars(Exit)

-----------------------------------------------------------------------------
Answers == {"ready", "unready", "nothing", "partial", "whole"}

(* Type invariant. *)
TypeOK ==
    /\ pc \in {"syncing", "synced", "starting", "waiting", "metrics", "http", "exited", "crashed"}
    /\ cancelled \in BOOLEAN /\ full \in BOOLEAN /\ synced \in BOOLEAN
    /\ graph \in {"nothing", "partial", "whole"}
    /\ server \in [Servers -> {"off", "starting", "listening", "closed"}]
    /\ request \in [Requests -> {"none", "open", "cut"} \cup Answers]
    /\ deadline \in {"off", "running", "expired"}

(* No answer comes from before the first graph; a process that says it is
   ready, or shows a graph of caches that had not filled, before they have,
   was told to stop (collector.go:155-176, api.go:87-89). *)
AnswersAreComplete ==
    \A r \in Requests :
       /\ request[r] \notin {"unready", "nothing"}
       /\ request[r] = "partial" => cancelled /\ ~full
       /\ request[r] = "ready" => full \/ cancelled

(* An ordinary request that was taken on is never cut off by a shutdown that
   still has time, though a scrape that hangs may use up the time of both
   servers (main.go:111-115). *)
CutOffOnlyWhenLate ==
    [][\A r \in Ordinary :
          request[r] = "open" /\ request'[r] = "cut" =>
             deadline = "expired" \/ pc' = "crashed"]_vars

(* A signal ends the process, whatever it was doing and whoever it serves. *)
Stops == cancelled ~> Over

(* Without a signal or a failure both servers come to listen: neither a
   dashboard without metrics nor metrics without a dashboard remains. *)
Starts ==
    pc = "syncing" ~> (\A s \in Servers : server[s] = "listening") \/ cancelled \/ Over

-----------------------------------------------------------------------------
(* The inductive invariant adds how far main has come. *)
Running == {"waiting", "metrics", "http"}
Started == Running \cup {"exited", "crashed"}
Progress ==
    /\ \A s \in Servers : server[s] # "off" => pc \in Running
    /\ pc # "syncing" => synced /\ (full \/ cancelled)
    /\ pc \in Started \cup {"starting"} => graph # "nothing"
    /\ graph = "partial" => cancelled /\ ~full
    /\ \A r \in Requests : request[r] = "open" => pc \in Running

(* What the first server left behind when the second is shut down. *)
MetricsAreShut ==
    /\ pc \in {"metrics", "http"} => server["metrics"] = "closed"
    /\ pc = "http" => Open("metrics") = {} \/ deadline = "expired"

IInv == TypeOK /\ AnswersAreComplete /\ Progress /\ MetricsAreShut
=============================================================================
