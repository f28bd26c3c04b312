-------------------------------- MODULE Damage --------------------------------
(***************************************************************************)
(* What the scores must get right as things go wrong: a behaviour starts   *)
(* with a resource in any state, or with a roll-up over any children, and  *)
(* damage is then done to it, a step at a time.  A container stops being   *)
(* ready, goes back to waiting or fails, the pod fails or is lost, the     *)
(* restart rate rises, a node condition turns bad or its kubelet stops     *)
(* reporting, replicas or endpoints are lost, a claim ages or loses its    *)
(* volume, a volume fails, and in a roll-up a child gets worse or unknown. *)
(* The steps are those of the cluster, outside the program; after each the *)
(* resource is scored again.                                               *)
(***************************************************************************)
EXTENDS Health

CONSTANTS
    ContainerNames,
    WaitReasons,    \* why a container may wait
    ExitReasons,    \* how one may have ended; "0" is well
    RestartRates,   \* of a pod, in hundredths per minute
    Conditions,     \* of a node, but for Ready
    GracePeriod,    \* PVCPendingGrace
    ChildResults,   \* results that the children of a roll-up have
    StartingBags,   \* children to begin with
    MaxReplicas, MaxEndpoints, MaxAge, MaxAlike   \* bounds

States == {Healthy, Degraded, Unhealthy, Unknown}

(* What the functions of health.go return, when the score of a healthy
   child may be that of a roll-up over healthy ones. *)
ASSUME DamageAssumption ==
    /\ RestartRates \subseteq Nat
    /\ IsFiniteSet(Conditions) /\ IsFiniteSet(ChildResults)
    /\ \A r \in ChildResults :
          /\ r = Result(r.state, r.score, r.reasons)
          /\ r.state \in States /\ r.score \in 0..Unit
          /\ r.state = Healthy => 100 * r.score >= 99 * Unit
          /\ r.state \in {Degraded, Unhealthy} => r.reasons # {}
    /\ \A b \in StartingBags : b \in [ChildResults -> Nat]
    /\ {GracePeriod, MaxReplicas, MaxEndpoints, MaxAge, MaxAlike} \subseteq Nat

Container(r, s, w) == [ready |-> r, state |-> s, reason |-> w]
Running == {Container(r, "running", "") : r \in BOOLEAN}
ContainerStates == Running \cup
    {Container(FALSE, "waiting", w) : w \in WaitReasons} \cup
    {Container(FALSE, "terminated", w) : w \in ExitReasons}

(* What may become of a container: one that runs can stop being ready in any
   way, and one that does not can still crash, or end up down. *)
Worsened(c) ==
    {d \in ContainerStates \ {c} :
        /\ ~d.ready
        /\ c.state = "running" \/ IsDown(d) \/ (Crashed(d) /\ ~IsDown(c))}

PodStates == [phase : {"Pending", "Running", "Succeeded", "Failed", "Unknown"},
              containers : UNION {[S -> ContainerStates] : S \in SUBSET ContainerNames}]
NodeStates == [ready : {"True", "False", "Unknown"},
               pressures : SUBSET Conditions,
               unschedulable : BOOLEAN]

PodInputs == [kind : {"Pod"}, pod : PodStates, rate : RestartRates]
NodeInputs == [kind : {"Node"}, node : NodeStates]
WorkloadInputs == [kind : {"Workload"}, replicas : Nil..MaxReplicas,
                   ready : 0..MaxReplicas, available : 0..MaxReplicas]
ClaimInputs == [kind : {"Claim"}, phase : {"Pending", "Bound", "Lost", "?"}, age : 0..MaxAge]
VolumeInputs ==
    [kind : {"Volume"}, phase : {"Bound", "Available", "Released", "Failed", "Pending", "?"}]
ServiceInputs == [kind : {"Service"}, selector : BOOLEAN, endpoints : 0..MaxEndpoints]
RollUpInputs == [kind : {"Children"}, bag : [ChildResults -> Nat]]

ScoreOf(i) ==
    CASE i.kind = "Pod" -> Pod(i.pod, i.rate)
      [] i.kind = "Node" -> Node(i.node)
      [] i.kind = "Workload" ->
            Deployment([replicas |-> i.replicas, ready |-> i.ready, available |-> i.available])
      [] i.kind = "Claim" -> PVC(i.phase, i.age, GracePeriod)
      [] i.kind = "Volume" -> PV(i.phase)
      [] i.kind = "Service" -> Service(i.selector, i.endpoints)
      [] i.kind = "Children" -> Aggregate(i.bag)

VARIABLE input

DamageInit ==
    input \in PodInputs \cup NodeInputs \cup WorkloadInputs \cup ClaimInputs \cup
              VolumeInputs \cup ServiceInputs \cup
              {[kind |-> "Children", bag |-> b] : b \in StartingBags}

ContainerDamage ==
    /\ input.kind = "Pod" /\ input.pod.phase \in {"Pending", "Running"}
    /\ \E n \in DOMAIN input.pod.containers : \E d \in Worsened(input.pod.containers[n]) :
          input' = [input EXCEPT !.pod.containers[n] = d]

(* A pod fails, or the state of a running one can no longer be obtained. *)
PodDamage ==
    /\ input.kind = "Pod"
    /\ \/ /\ input.pod.phase \in {"Pending", "Running", "Unknown"}
          /\ input' = [input EXCEPT !.pod.phase = "Failed"]
       \/ /\ input.pod.phase = "Running"
          /\ input' = [input EXCEPT !.pod.phase = "Unknown"]

RateRises ==
    /\ input.kind = "Pod"
    /\ \E r \in RestartRates : r > input.rate /\ input' = [input EXCEPT !.rate = r]

NodeDamage ==
    /\ input.kind = "Node"
    /\ \/ input.node.ready = "True" /\ input' = [input EXCEPT !.node.ready = "False"]
       \/ input.node.ready # "Unknown" /\ input' = [input EXCEPT !.node.ready = "Unknown"]
       \/ \E c \in Conditions \ input.node.pressures :
             input' = [input EXCEPT !.node.pressures = @ \cup {c}]
       \/ ~input.node.unschedulable /\ input' = [input EXCEPT !.node.unschedulable = TRUE]

ReplicaLost ==
    /\ input.kind = "Workload"
    /\ \/ input.ready > 0 /\ input' = [input EXCEPT !.ready = @ - 1]
       \/ input.available > 0 /\ input' = [input EXCEPT !.available = @ - 1]

EndpointLost ==
    /\ input.kind = "Service" /\ input.endpoints > 0
    /\ input' = [input EXCEPT !.endpoints = @ - 1]

ClaimAges ==
    /\ input.kind = "Claim" /\ input.age < MaxAge
    /\ input' = [input EXCEPT !.age = @ + 1]

ClaimLost ==
    /\ input.kind = "Claim" /\ input.phase \in {"Pending", "Bound"}
    /\ input' = [input EXCEPT !.phase = "Lost"]

VolumeFails ==
    /\ input.kind = "Volume" /\ input.phase \in {"Pending", "Available", "Bound", "Released"}
    /\ input' = [input EXCEPT !.phase = "Failed"]

(* A child gets worse: no better in any respect, or not known any more. *)
NoBetter(r, s) ==
    stateRank(s.state) >= stateRank(r.state) /\ stateRank(r.state) >= 0 /\ s.score <= r.score
Unscores(r, s) == r.state # Unknown /\ s.state = Unknown

ChildDamage ==
    /\ input.kind = "Children"
    /\ \E r, s \in ChildResults :
          LET b == input.bag IN
          /\ r # s
          /\ NoBetter(r, s) \/ Unscores(r, s)
          /\ b[r] > 0 /\ b[s] < MaxAlike
          /\ input' = [input EXCEPT !.bag = [b EXCEPT ![r] = b[r] - 1, ![s] = b[s] + 1]]

DamageNext ==
    \/ ContainerDamage \/ PodDamage \/ RateRises \/ NodeDamage \/ ReplicaLost
    \/ EndpointLost \/ ClaimAges \/ ClaimLost \/ VolumeFails \/ ChildDamage

DamageSpec == DamageInit /\ [][DamageNext]_input

-----------------------------------------------------------------------------
DamageTypeOK ==
    input \in PodInputs \cup NodeInputs \cup WorkloadInputs \cup ClaimInputs \cup
              VolumeInputs \cup ServiceInputs \cup RollUpInputs

(* A state that is no nearer to healthy, and no higher score of what stays
   degraded.  (Among unhealthy pods a score can rise: one with no container
   ready scores 0.1, and 0.2 once it restarts rapidly.) *)
NoMilder(old, new) ==
    /\ stateRank(new.state) >= stateRank(old.state)
    /\ old.state = Degraded /\ new.state = Degraded => new.score <= old.score

Starting(p) == \E n \in DOMAIN p.containers : IsStarting(p.containers[n])

(* The steps on which health.go does score milder, from i to j.  Pod tests
   for a starting container (health.go:165, 176) before it looks at the
   restart rate and at readiness (181, 188): a pod that restarts rapidly, or
   has no container ready, is degraded as soon as one of them is created
   anew.  A container that is down, or a failed pod, is never hidden so. *)
StartHidesFailure(i, j) ==
    /\ i.kind = "Pod" /\ ~Starting(i.pod) /\ Starting(j.pod)
    /\ ScoreOf(i).state = Unhealthy /\ ScoreOf(i).score \in {Tenths(1), Tenths(2)}
    /\ ScoreOf(j).state = Degraded /\ ScoreOf(j).score = Tenths(4)

(* For the same reason a pod gains a tenth when its last starting container
   crashes while another is ready. *)
CrashEndsStart(i, j) ==
    /\ i.kind = "Pod" /\ Starting(i.pod) /\ ~Starting(j.pod)
    /\ ScoreOf(i).score = Tenths(4)
    /\ ScoreOf(j).state = Degraded /\ ScoreOf(j).score = Tenths(5)

(* A node whose kubelet stops reporting is unknown (health.go:109), whatever
   was wrong with it. *)
KubeletSilent(i, j) ==
    i.kind = "Node" /\ i.node.ready # "Unknown" /\ j.node.ready = "Unknown"

(* An unknown child drops out of the mean and of the worst state (313): a
   roll-up may gain if that child was not healthy, and is unknown if it was
   the last. *)
ChildDropsOut(i, j) ==
    /\ i.kind = "Children" /\ CountOf(j.bag) < CountOf(i.bag)
    /\ \/ CountOf(j.bag) = 0
       \/ \E r \in Scored(i.bag) : r.state # Healthy /\ j.bag[r] < i.bag[r]

(* Damage makes a resource look better in these four ways and in no other:
   not by the order of the other tests in Pod, not by a restart rate, and
   not when a child gets worse or a healthy one becomes unknown, though the
   mean is then taken over fewer. *)
DamageNeverLooksBetter ==
    [][\/ NoMilder(ScoreOf(input), ScoreOf(input'))
       \/ StartHidesFailure(input, input') \/ CrashEndsStart(input, input')
       \/ KubeletSilent(input, input') \/ ChildDropsOut(input, input')]_input

(* Whatever is degraded or unhealthy says why, a roll-up too
   (README.md:301: reasons are present when not healthy). *)
FailuresAreExplained ==
    LET r == ScoreOf(input) IN
    r.state \in {Degraded, Unhealthy} => r.reasons # {}

(* A pod called healthy has ended well, or shows no sign of trouble: every
   container ready, none waiting or failed, and few restarts
   (README.md:98).  The phase Unknown is not told from Running: a pod whose
   node is lost is healthy for as long as its last statuses were. *)
HealthyPodShowsNoTrouble ==
    input.kind = "Pod" /\ ScoreOf(input).state = Healthy =>
       \/ input.pod.phase = "Succeeded"
       \/ /\ input.pod.phase \in {"Running", "Unknown"} /\ input.rate < 20
          /\ \A n \in DOMAIN input.pod.containers :
                input.pod.containers[n] \in Running /\ input.pod.containers[n].ready

(* A child that is down: the worst score of a single object is 0.2 or less
   (a roll-up that is unhealthy can score more). *)
HardFailure(r) == r.state = Unhealthy /\ r.score <= Tenths(2)
HasHardFailure(bag) == \E r \in Scored(bag) : HardFailure(r)

(* A hard failure among fewer than 80 scored children shows in the state of
   their roll-up, however healthy the others are. *)
SmallRollUpShowsFailure ==
    input.kind = "Children" /\ CountOf(input.bag) < 80 /\ HasHardFailure(input.bag) =>
       ScoreOf(input).state = Unhealthy

(* The comment in Aggregate and README.md:103 promise it for any number: a
   present hard failure pins the state. *)
HardFailurePinsState ==
    input.kind = "Children" /\ HasHardFailure(input.bag) =>
       ScoreOf(input).state = Unhealthy
=============================================================================
