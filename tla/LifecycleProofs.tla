-------------------------- MODULE LifecycleProofs --------------------------
(***************************************************************************)
(* Proofs about the process, for any number of requests: what is answered  *)
(* is complete, and a shutdown cuts nothing off while it has time.         *)
(***************************************************************************)
EXTENDS Lifecycle, TLAPS

LEMMA InitIInv == Init => IInv
BY LifecycleAssumption DEF Init, Fresh, IInv, TypeOK, AnswersAreComplete, Progress,
   MetricsAreShut, Started, Running

(* The steps of main, from the start to the end. *)
LEMMA StartIInv ==
    ASSUME IInv, WaitEnds \/ FirstBuild \/ StartServers
    PROVE  IInv'
<1> USE DEF IInv, TypeOK, AnswersAreComplete, Progress, MetricsAreShut, Started, Running, Servers
<1>1. CASE WaitEnds
  BY <1>1 DEF WaitEnds, Open
<1>2. CASE FirstBuild
  BY <1>2 DEF FirstBuild, Open
<1>3. CASE StartServers
  BY <1>3 DEF StartServers, Open
<1> QED BY <1>1, <1>2, <1>3

LEMMA EndIInv ==
    ASSUME IInv, NEW how \in {"exited", "crashed"}, Ended(how),
           pc \in Started
    PROVE  IInv'
BY DEF IInv, TypeOK, AnswersAreComplete, Progress, MetricsAreShut, Started, Running, Servers, Ended, Answers

LEMMA StopIInv ==
    ASSUME IInv, ShutMetrics \/ Expire \/ ShutHttp \/ Restart
    PROVE  IInv'
<1> USE DEF IInv, TypeOK, AnswersAreComplete, Progress, MetricsAreShut, Started, Running, Servers, Answers
<1>1. CASE ShutMetrics
  BY <1>1 DEF ShutMetrics, Open
<1>2. CASE Expire
  BY <1>2 DEF Expire, Open
<1>3. CASE ShutHttp
  BY <1>3 DEF ShutHttp, Open
<1>4. CASE Restart
  BY <1>4, InitIInv DEF Restart, Fresh, Open
<1> QED BY <1>1, <1>2, <1>3, <1>4

LEMMA RequestIInv ==
    ASSUME IInv, NEW r \in Requests, Arrive(r) \/ Answer(r) \/ Leave(r)
    PROVE  IInv'
<1> USE DEF IInv, TypeOK, AnswersAreComplete, Progress, MetricsAreShut, Started, Running, Servers, Answers
<1>0. ServerOf[r] \in Servers
  BY LifecycleAssumption
<1>1. CASE Arrive(r)
  <2>1. pc \in Running
    BY <1>0, <1>1 DEF Arrive
  <2>2. TypeOK' /\ AnswersAreComplete' /\ Progress'
    BY <1>1, <2>1 DEF Arrive
  <2>3. pc \in {"metrics", "http"} => Open("metrics")' = Open("metrics")
    BY <1>1, <1>0 DEF Arrive, Open
  <2>4. MetricsAreShut'
    BY <1>1, <2>3 DEF Arrive
  <2> QED BY <2>2, <2>4
<1>2. CASE Answer(r)
  <2>1. PICK a \in {graph, IF synced THEN "ready" ELSE "unready"} :
           request' = [request EXCEPT ![r] = a]
    BY <1>2 DEF Answer
  <2>2. pc \in Running
    BY <1>2 DEF Answer
  <2>3. TypeOK' /\ AnswersAreComplete' /\ Progress'
    BY <1>2, <2>1, <2>2 DEF Answer
  <2>4. Open("metrics")' \subseteq Open("metrics")
    BY <1>2, <2>1, <2>2 DEF Answer, Open
  <2>5. MetricsAreShut'
    BY <1>2, <2>4 DEF Answer
  <2> QED BY <2>3, <2>5
<1>3. CASE Leave(r)
  <2>1. Open("metrics")' \subseteq Open("metrics")
    BY <1>3 DEF Leave, Open
  <2> QED BY <1>3, <2>1 DEF Leave
<1> QED BY <1>1, <1>2, <1>3

LEMMA StepIInv == IInv /\ [Next]_vars => IInv'
<1> SUFFICES ASSUME IInv, [Next]_vars PROVE IInv'
  OBVIOUS
<1>1. CASE CachesFill
  BY <1>1 DEF CachesFill, IInv, TypeOK, AnswersAreComplete, Progress, MetricsAreShut, Started, Running, Open
<1>2. CASE Signal
  BY <1>2 DEF Signal, IInv, TypeOK, AnswersAreComplete, Progress, MetricsAreShut, Started, Running, Open
<1>3. CASE WaitEnds \/ FirstBuild \/ StartServers
  BY <1>3, StartIInv
<1>4. ASSUME NEW s \in Servers, Listen(s) PROVE IInv'
  BY <1>4 DEF Listen, IInv, TypeOK, AnswersAreComplete, Progress, MetricsAreShut, Started, Running, Open
<1>5. ASSUME NEW s \in Servers, ServerFails(s) PROVE IInv'
  <2>1. pc \in Started
    BY <1>5 DEF ServerFails, IInv, Progress, Started, Running
  <2> QED BY <1>5, <2>1, EndIInv DEF ServerFails
<1>6. ASSUME NEW r \in Requests, Arrive(r) \/ Answer(r) \/ Leave(r) PROVE IInv'
  BY <1>6, RequestIInv
<1>7. CASE ShutMetrics \/ Expire \/ ShutHttp \/ Restart
  BY <1>7, StopIInv
<1>8. CASE Exit
  BY <1>8, EndIInv DEF Exit, Started, Running
<1>9. CASE UNCHANGED vars
  BY <1>9 DEF vars, IInv, TypeOK, AnswersAreComplete, Progress, MetricsAreShut, Started, Running, Open
<1> QED BY <1>1, <1>2, <1>3, <1>4, <1>5, <1>6, <1>7, <1>8, <1>9 DEF Next

(* Which requests a step can cut off. *)
LEMMA StepCutsOnlyLate ==
    ASSUME IInv, [Next]_vars, NEW r \in Ordinary,
           request[r] = "open", request'[r] = "cut"
    PROVE  deadline = "expired" \/ pc' = "crashed"
<1> USE DEF IInv, TypeOK
<1>0. r \in Requests /\ ServerOf[r] \in Servers
  BY LifecycleAssumption DEF Ordinary
<1>1. ASSUME request' = request PROVE FALSE
  BY <1>1
<1>2. CASE Exit
  <2>1. CASE ServerOf[r] = "http"
    BY <1>2, <2>1 DEF Exit, Open
  <2>2. CASE ServerOf[r] = "metrics"
    BY <1>2, <2>2 DEF Exit, MetricsAreShut, Open
  <2> QED BY <1>0, <2>1, <2>2 DEF Servers
<1>3. ASSUME NEW s \in Servers, ServerFails(s) PROVE pc' = "crashed"
  BY <1>3 DEF ServerFails, Ended
<1>4. ASSUME NEW q \in Requests, Arrive(q) \/ Answer(q) \/ Leave(q) PROVE FALSE
  <2>1. CASE Arrive(q)
    BY <1>0, <2>1 DEF Arrive
  <2>2. CASE Answer(q)
    BY <1>0, <2>2 DEF Answer
  <2>3. CASE Leave(q)
    BY <1>0, <2>3 DEF Leave
  <2> QED BY <1>4, <2>1, <2>2, <2>3
<1>5. CASE Restart
  BY <1>0, <1>5 DEF Restart, Fresh
<1>6. ASSUME \/ CachesFill \/ Signal \/ WaitEnds \/ FirstBuild \/ StartServers
             \/ (\E s \in Servers : Listen(s)) \/ ShutMetrics \/ Expire \/ ShutHttp
             \/ UNCHANGED vars
      PROVE  FALSE
  BY <1>1, <1>6 DEF CachesFill, Signal, WaitEnds, FirstBuild, StartServers, Listen,
     ShutMetrics, Expire, ShutHttp, vars
<1> QED BY <1>2, <1>3, <1>4, <1>5, <1>6 DEF Next

-----------------------------------------------------------------------------
THEOREM LifecycleInvariant == Spec => []IInv
BY InitIInv, StepIInv, PTL DEF Spec

(* No answer before the first graph, none from half-filled caches while the
   process is to go on (collector.go:155-176, api.go:87-89). *)
THEOREM AnswersComplete == Spec => []AnswersAreComplete
<1>1. IInv => AnswersAreComplete
  BY DEF IInv
<1> QED BY <1>1, LifecycleInvariant, PTL

(* A shutdown cuts requests off only when its time is over (main.go:111-115). *)
THEOREM NothingCutOffEarly == Spec => CutOffOnlyWhenLate
<1>1. IInv /\ [Next]_vars =>
         [\A r \in Ordinary :
             request[r] = "open" /\ request'[r] = "cut" => deadline = "expired" \/ pc' = "crashed"]_vars
  BY StepCutsOnlyLate
<1> QED BY <1>1, LifecycleInvariant, PTL DEF Spec, CutOffOnlyWhenLate
=============================================================================
