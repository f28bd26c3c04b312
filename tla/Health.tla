------------------------------- MODULE Health -------------------------------
(***************************************************************************)
(* The scoring functions of internal/health/health.go, over the fields of  *)
(* the resources that they read.                                           *)
(*                                                                         *)
(* A score is counted in units of 1/Unit, so that it is exact where Unit   *)
(* is a multiple of the number of replicas.  The reasons of a result are a *)
(* set of names (the container and what is wrong with it): their order and *)
(* wording are left out, and so is the cut of topReasons to five of them.  *)
(* A restart rate is counted in hundredths of a restart per minute.        *)
(***************************************************************************)
EXTENDS Integers, FiniteSets, FiniteSetsExt

CONSTANT Unit

ASSUME UnitAssumption == Unit \in Nat \ {0} /\ Unit % 10 = 0

Healthy == "healthy"
Degraded == "degraded"
Unhealthy == "unhealthy"
Unknown == "unknown"

Tenths(k) == k * (Unit \div 10)
Result(s, score, why) == [state |-> s, score |-> score, reasons |-> why]

stateScore(s) ==
    IF s = Healthy THEN Unit ELSE IF s = Unhealthy THEN 0 ELSE Tenths(5)

Plain(s) == Result(s, stateScore(s), {})

stateRank(s) ==
    IF s = Healthy THEN 0
    ELSE IF s = Degraded THEN 1 ELSE IF s = Unhealthy THEN 2 ELSE -1

-----------------------------------------------------------------------------
(***************************************************************************)
(* A node: the status of its Ready condition ("Unknown" too where it has   *)
(* none), the other watched conditions that are True, and cordoning.       *)
(***************************************************************************)
Node(n) ==
    LET why == {<<c>> : c \in n.pressures} \cup
               (IF n.unschedulable THEN {<<"cordoned">>} ELSE {})
    IN  IF n.ready = "Unknown" THEN Result(Unknown, Tenths(5), {<<"NodeReady=Unknown">>})
        ELSE IF n.ready = "False"
             THEN Result(Unhealthy, 0, {<<"NodeReady=False">>} \cup
                                       {<<c>> : c \in n.pressures})
        ELSE IF why = {} THEN Plain(Healthy)
        ELSE Result(Degraded, IF Cardinality(why) > 1 THEN Tenths(5) ELSE Tenths(7), why)

-----------------------------------------------------------------------------
(***************************************************************************)
(* A pod: its phase and containers, a function from names to               *)
(* [ready, state, reason], where reason is why a container waits, or "0"   *)
(* or an error for one that has terminated.                                *)
(***************************************************************************)
containerWaitReasonsDown ==
    {"CrashLoopBackOff", "ImagePullBackOff", "ErrImagePull",
     "CreateContainerConfigError", "CreateContainerError", "InvalidImageName",
     "RunContainerError"}
startReasons == {"ContainerCreating", "PodInitializing", ""}

Waiting(c) == c.state = "waiting"
IsDown(c) == Waiting(c) /\ c.reason \in containerWaitReasonsDown
IsStarting(c) == Waiting(c) /\ c.reason \in startReasons
Crashed(c) == c.state = "terminated" /\ c.reason # "0"

(* The reasons that the loop over the containers collects. *)
Complaints(p) ==
    {<<n, p.containers[n].reason>> : n \in
        {m \in DOMAIN p.containers :
           LET c == p.containers[m] IN
           \/ Waiting(c) /\ ~IsDown(c) /\ ~IsStarting(c)
           \/ Crashed(c) /\ p.phase = "Running"}}

Elevated(rate) == IF rate >= 20 THEN {<<"elevated restarts">>} ELSE {}

(* Fault: the containers that are not ready are looked at before the rate. *)
PodRateLast(p, rate) ==
    LET down == {n \in DOMAIN p.containers : IsDown(p.containers[n])}
        idle == {n \in DOMAIN p.containers : ~p.containers[n].ready}
        why  == Complaints(p) \cup Elevated(rate)
    IN  IF p.phase = "Succeeded" THEN Plain(Healthy)
        ELSE IF p.phase = "Failed" \/ down # {} THEN Result(Unhealthy, 0, {<<"failed">>})
        ELSE IF p.phase = "Pending" \/ \E n \in DOMAIN p.containers : IsStarting(p.containers[n])
             THEN Result(Degraded, Tenths(4), why \cup {<<"Pending">>})
        ELSE IF idle # {} /\ idle # DOMAIN p.containers
             THEN Result(Degraded, Tenths(5), why \cup {<<"containers not ready">>})
        ELSE IF idle # {} THEN Result(Unhealthy, Tenths(1), why \cup {<<"none ready">>})
        ELSE IF rate >= 100 THEN Result(Unhealthy, Tenths(2), why)
        ELSE IF why # {} THEN Result(Degraded, Tenths(6), why) ELSE Plain(Healthy)

(* Fault: a running pod with all containers ready is healthy at any rate
   below the limit. *)
PodElevatedIsHealthy(p, rate) ==
    LET idle == {n \in DOMAIN p.containers : ~p.containers[n].ready}
    IN  IF p.phase = "Failed" \/ \E n \in DOMAIN p.containers : IsDown(p.containers[n])
        THEN Result(Unhealthy, 0, {<<"failed">>})
        ELSE IF p.phase = "Pending" \/ \E n \in DOMAIN p.containers : IsStarting(p.containers[n])
        THEN Result(Degraded, Tenths(4), {<<"Pending">>})
        ELSE IF rate >= 100 THEN Result(Unhealthy, Tenths(2), {<<"restarting">>})
        ELSE IF idle = {} THEN Plain(Healthy)
        ELSE Result(Degraded, Tenths(5), {<<"containers not ready">>})

Pod(p, rate) ==
    LET down == {n \in DOMAIN p.containers : IsDown(p.containers[n])}
        idle == {n \in DOMAIN p.containers : ~p.containers[n].ready}
        why  == Complaints(p) \cup Elevated(rate)
    IN  IF p.phase = "Succeeded"
        THEN Result(Healthy, Unit, {<<"Succeeded">>})
        ELSE IF p.phase = "Failed"
        THEN Result(Unhealthy, 0, {<<"pod Failed">>})
        ELSE IF down # {}
        THEN LET n == CHOOSE n \in down : TRUE
             IN  Result(Unhealthy, 0, {<<n, p.containers[n].reason>>})
        ELSE IF p.phase = "Pending" \/ \E n \in DOMAIN p.containers : IsStarting(p.containers[n])
        THEN Result(Degraded, Tenths(4), Complaints(p) \cup {<<"Pending/ContainerCreating">>})
        ELSE IF rate >= 100
        THEN Result(Unhealthy, Tenths(2), Complaints(p) \cup {<<"restarting rapidly">>})
        ELSE IF idle # {} /\ idle # DOMAIN p.containers
        THEN Result(Degraded, Tenths(5), why \cup {<<"containers not ready">>})
        ELSE IF idle # {}
        THEN Result(Unhealthy, Tenths(1), why \cup {<<"no containers ready">>})
        ELSE IF why # {} THEN Result(Degraded, Tenths(6), why)
        ELSE Plain(Healthy)

-----------------------------------------------------------------------------
(* Workloads; Nil stands for spec.replicas left out. *)
Nil == -1
Lesser(a, b) == IF a < b THEN a ELSE b

(* Fault: an incomplete workload gives no reason. *)
WorkloadSilent(desired, ready, available) ==
    IF desired = 0 \/ Lesser(ready, available) >= desired THEN Plain(Healthy)
    ELSE IF Lesser(ready, available) = 0 THEN Plain(Unhealthy)
    ELSE Result(Degraded, (Lesser(ready, available) * Unit) \div desired, {})

Workload(desired, ready, available) ==
    LET eff == Lesser(ready, available)
    IN  IF desired = 0 THEN Result(Healthy, Unit, {<<"scaled to 0">>})
        ELSE IF eff >= desired THEN Plain(Healthy)
        ELSE IF eff = 0 THEN Result(Unhealthy, 0, {<<"none available">>})
        ELSE Result(Degraded, (eff * Unit) \div desired, {<<"ready", eff, desired>>})

Replicas(spec) == IF spec = Nil THEN 1 ELSE spec
Deployment(d) == Workload(Replicas(d.replicas), d.ready, d.available)
StatefulSet(s) == Workload(Replicas(s.replicas), s.ready, s.current)
DaemonSet(d) == Workload(d.scheduled, d.ready, d.available)

-----------------------------------------------------------------------------
(* Volumes, claims and services. *)
PV(phase) ==
    IF phase \in {"Bound", "Available"} THEN Plain(Healthy)
    ELSE IF phase = "Released" THEN Result(Degraded, Tenths(5), {<<"Released">>})
    ELSE IF phase = "Failed" THEN Result(Unhealthy, 0, {<<"Failed">>})
    ELSE IF phase = "Pending" THEN Result(Degraded, Tenths(4), {<<"Pending">>})
    ELSE Plain(Unknown)

PVC(phase, age, grace) ==
    IF phase = "Bound" THEN Plain(Healthy)
    ELSE IF phase = "Lost" THEN Result(Unhealthy, 0, {<<"Lost">>})
    ELSE IF phase # "Pending" THEN Plain(Unknown)
    ELSE IF age > grace THEN Result(Unhealthy, 0, {<<"Pending beyond grace">>})
    ELSE Result(Degraded, Tenths(5), {<<"Pending within grace">>})

Service(hasSelector, readyEndpoints) ==
    IF ~hasSelector THEN Result(Unknown, Tenths(5), {<<"no selector">>})
    ELSE IF readyEndpoints = 0 THEN Result(Unhealthy, 0, {<<"0 ready endpoints">>})
    ELSE Plain(Healthy)

-----------------------------------------------------------------------------
(***************************************************************************)
(* Aggregate: children is a bag of results, a function from each to how    *)
(* often it occurs (the slice's order plays no role).                      *)
(***************************************************************************)
Scored(children) == {r \in DOMAIN children : children[r] > 0 /\ r.state # Unknown}
CountOf(children) == MapThenSumSet(LAMBDA r : children[r], Scored(children))
SumOf(children) == MapThenSumSet(LAMBDA r : children[r] * r.score, Scored(children))

WorstOf(children) ==
    LET S == {r.state : r \in Scored(children)} \cup {Healthy}
    IN  CHOOSE s \in S : \A t \in S : stateRank(t) <= stateRank(s)

(* Fault: the mean counts as healthy from 0.9 on. *)
AggregateLenient(children) ==
    LET n == CountOf(children) IN
    IF n = 0 THEN Plain(Unknown)
    ELSE Result(IF 100 * SumOf(children) >= 90 * n * Unit THEN Healthy ELSE WorstOf(children),
                SumOf(children) \div n, {<<"mean">>})

Aggregate(children) ==
    LET n     == CountOf(children)
        sum   == SumOf(children)
        worst == WorstOf(children)
        why   == UNION {r.reasons : r \in {c \in Scored(children) : c.state # Healthy}}
    IN  IF n = 0 THEN Plain(Unknown)
        ELSE Result(IF 100 * sum >= 99 * n * Unit THEN Healthy
                    ELSE IF worst = Healthy THEN Degraded ELSE worst,
                    sum \div n, why)
=============================================================================
