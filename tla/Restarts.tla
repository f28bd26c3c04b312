------------------------------ MODULE Restarts ------------------------------
(***************************************************************************)
(* What time does to the published health.  A rate of restarts is computed *)
(* from one rebuild to the next (internal/collector/restart.go, called in  *)
(* the loop over the pods of buildGraph), and a claim may be pending only  *)
(* for so long; but time makes no event, and only the periodic resync of   *)
(* the informers has the health looked at again.                           *)
(*                                                                         *)
(* Time passes in ticks of a minute, and there is at most one rebuild in a *)
(* tick: the debounce is one tick at most.  Ages are kept instead of the   *)
(* times of the code.  A rate is counted in hundredths, as in Health.      *)
(***************************************************************************)
EXTENDS Health

CONSTANTS
    Pods,           \* names of pods
    Containers,     \* names of containers; each pod has all of them
    MaxRestarts,    \* bound: restarts of a container
    Resync,         \* ResyncPeriod, in ticks
    Grace           \* PVCPendingGrace, in ticks

ASSUME RestartsAssumption ==
    /\ Resync \in Nat \ {0} /\ Grace \in Nat /\ MaxRestarts \in Nat
    /\ MaxRestarts < 1000
    /\ IsFiniteSet(Pods) /\ IsFiniteSet(Containers)

VARIABLES
    live,           \* the cached pods
    claim,          \* the cached claim: its phase, or "absent", and its age
    samples,        \* <<pod, container>> -> what was observed last, and its age
    podRates,       \* pod -> rate
    pc, list, built,    \* a build: the pods it listed, their health so far
    shown,          \* the health in the published graph
    due,            \* dirty is set, or the debounce is running
    fresh,          \* a graph was published in this tick
    sinceSync,      \* ticks since the last resync
    calm            \* pod -> ticks since it appeared or last restarted

vars == <<live, claim, samples, podRates, pc, list, built, shown, due, fresh, sinceSync, calm>>
cacheVars == <<live, claim>>
trackerVars == <<samples, podRates>>
buildVars == <<pc, list, built, shown, fresh>>
timeVars == <<sinceSync, calm>>

None == [x \in {} |-> 0]
TwoTo[n \in Nat] == IF n = 0 THEN 1 ELSE 2 * TwoTo[n - 1]
Halvings == Min({n \in 0..20 : (100 * MaxRestarts) \div TwoTo[n] < 5})
Fading == Halvings + Resync     \* so many calm ticks, and a rate is gone
Overdue == Grace + Resync
Above(a, b) == IF a > b THEN a ELSE b

Init ==
    /\ live = None /\ claim = [phase |-> "absent", age |-> 0]
    /\ samples = None /\ podRates = None
    /\ pc = "idle" /\ list = None
    /\ built = [pods |-> None, claim |-> {}]
    /\ shown = [pods |-> None, claim |-> {}, root |-> Plain(Unknown)]
    /\ due = FALSE /\ fresh = TRUE /\ sinceSync = 0
    /\ calm = [p \in Pods |-> 0]

-----------------------------------------------------------------------------
(* The caches change; the handler marks dirty. *)
Stored == due' = TRUE /\ UNCHANGED <<trackerVars, buildVars, sinceSync>>

Set(f, x, v) == [y \in DOMAIN f \cup {x} |-> IF y = x THEN v ELSE f[y]]

(* A pod is created, perhaps in place of one with this name; it has no
   statuses of containers yet. *)
Appears(p) ==
    /\ p \notin DOMAIN live
    /\ live' = Set(live, p, [phase |-> "Pending", containers |-> None])
    /\ calm' = [calm EXCEPT ![p] = 0]
    /\ Stored /\ UNCHANGED claim

Runs(p) ==
    /\ p \in DOMAIN live /\ live[p].phase = "Pending"
    /\ live' = Set(live, p, [phase |-> "Running", containers |->
          [c \in Containers |-> [ready |-> TRUE, state |-> "running", reason |-> "", restarts |-> 0]]])
    /\ Stored /\ UNCHANGED <<claim, calm>>

Restarts(p, c) ==
    /\ p \in DOMAIN live /\ live[p].phase = "Running"
    /\ live[p].containers[c].restarts < MaxRestarts
    /\ live' = [live EXCEPT ![p].containers[c].restarts = @ + 1]
    /\ calm' = [calm EXCEPT ![p] = 0]
    /\ Stored /\ UNCHANGED claim

Vanishes(p) ==
    /\ p \in DOMAIN live
    /\ live' = [q \in DOMAIN live \ {p} |-> live[q]]
    /\ calm' = [calm EXCEPT ![p] = 0]
    /\ Stored /\ UNCHANGED claim

ClaimChanges ==
    /\ \/ claim.phase = "absent" /\ claim' = [phase |-> "Pending", age |-> 0]
       \/ claim.phase = "Pending" /\ claim' = [phase |-> "Bound", age |-> 0]
       \/ claim.phase = "Bound" /\ claim' = [phase |-> "absent", age |-> 0]
    /\ Stored /\ UNCHANGED <<live, calm>>

(* Fault: an update in which nothing changed does not mark dirty. *)
ResyncOfNothing ==
    /\ sinceSync = Resync
    /\ sinceSync' = 0
    /\ UNCHANGED <<cacheVars, trackerVars, buildVars, due, calm>>

(* The update handlers are called for all that is stored. *)
ResyncCaches ==
    /\ sinceSync = Resync
    /\ sinceSync' = 0
    /\ due' = (due \/ live # None \/ claim.phase # "absent")
    /\ UNCHANGED <<cacheVars, trackerVars, buildVars, calm>>

-----------------------------------------------------------------------------
(* Fault: a count that went back counts as no change. *)
ObserveNeverResets(key, count) ==
    IF key \notin DOMAIN samples THEN 0
    ELSE LET prev == samples[key] IN
         IF count > prev.count /\ prev.age > 0 THEN (100 * (count - prev.count)) \div prev.age
         ELSE LET r == prev.rate \div TwoTo[prev.age] IN IF r < 5 THEN 0 ELSE r

(* observe, of a container with this many restarts: its new rate. *)
observe(key, count) ==
    IF key \notin DOMAIN samples THEN 0
    ELSE LET prev == samples[key]
             r    == prev.rate \div TwoTo[prev.age]
         IN  IF count > prev.count /\ prev.age > 0 THEN (100 * (count - prev.count)) \div prev.age
             ELSE IF count < prev.count THEN 0
             ELSE IF prev.age > 0 THEN (IF r < 5 THEN 0 ELSE r)
             ELSE prev.rate

PodRate(p) == IF p \in DOMAIN podRates THEN podRates[p] ELSE 0

(* buildGraph begins: it reads the claim and lists the pods. *)
StartBuild ==
    /\ pc = "idle" /\ due /\ ~fresh
    /\ due' = FALSE
    /\ pc' = "pods" /\ list' = live
    /\ built' = [pods  |-> None,
                 claim |-> IF claim.phase = "absent" THEN {} ELSE {PVC(claim.phase, claim.age, Grace)}]
    /\ UNCHANGED <<cacheVars, trackerVars, shown, fresh, timeVars>>

Keys(pods) == UNION {{<<p, c>> : c \in DOMAIN pods[p].containers} : p \in DOMAIN pods}

(* Fault: the pod is scored with the rate of the previous build. *)
ObserveLate(p) ==
    LET C     == DOMAIN list[p].containers
        rates == [c \in C |-> observe(<<p, c>>, list[p].containers[c].restarts)]
    IN  /\ pc = "pods" /\ p \in DOMAIN list \ DOMAIN built.pods
        /\ built' = [built EXCEPT !.pods = Set(@, p, Pod(list[p], PodRate(p)))]
        /\ samples' = [k \in DOMAIN samples \cup {<<p, c>> : c \in C} |->
              IF k[1] = p /\ k[2] \in C
              THEN [count |-> list[p].containers[k[2]].restarts, age |-> 0, rate |-> rates[k[2]]]
              ELSE samples[k]]
        /\ podRates' = Set(podRates, p, FoldSet(Above, 0, {rates[c] : c \in C}))
        /\ UNCHANGED <<cacheVars, pc, list, shown, due, fresh, timeVars>>

(* The next pod of the list: its containers are observed, setPodRate. *)
Observe(p) ==
    LET C     == DOMAIN list[p].containers
        rates == [c \in C |-> observe(<<p, c>>, list[p].containers[c].restarts)]
        most  == FoldSet(Above, 0, {rates[c] : c \in C})
    IN  /\ pc = "pods" /\ p \in DOMAIN list \ DOMAIN built.pods
        /\ samples' = [k \in DOMAIN samples \cup {<<p, c>> : c \in C} |->
              IF k[1] = p /\ k[2] \in C
              THEN [count |-> list[p].containers[k[2]].restarts, age |-> 0, rate |-> rates[k[2]]]
              ELSE samples[k]]
        /\ podRates' = Set(podRates, p, most)
        /\ built' = [built EXCEPT !.pods = Set(@, p, Pod(list[p], most))]
        /\ UNCHANGED <<cacheVars, pc, list, shown, due, fresh, timeVars>>

(* Fault: only the containers are forgotten. *)
PruneSamples ==
    /\ pc = "pods" /\ DOMAIN built.pods = DOMAIN list
    /\ pc' = "publish"
    /\ samples' = [k \in DOMAIN samples \cap Keys(list) |-> samples[k]]
    /\ UNCHANGED <<cacheVars, podRates, list, built, shown, due, fresh, timeVars>>

Prune ==
    /\ pc = "pods" /\ DOMAIN built.pods = DOMAIN list
    /\ pc' = "publish"
    /\ samples' = [k \in DOMAIN samples \cap Keys(list) |-> samples[k]]
    /\ podRates' = [p \in DOMAIN podRates \cap DOMAIN list |-> podRates[p]]
    /\ UNCHANGED <<cacheVars, list, built, shown, due, fresh, timeVars>>

(* The roll-up of the namespace, and the new graph under the lock. *)
Scores(b) == {<<p, b.pods[p]>> : p \in DOMAIN b.pods} \cup {<<"claim", r>> : r \in b.claim}
Children(b) ==
    [r \in {s[2] : s \in Scores(b)} |-> Cardinality({s \in Scores(b) : s[2] = r})]

Publish ==
    /\ pc = "publish"
    /\ shown' = [pods |-> built.pods, claim |-> built.claim, root |-> Aggregate(Children(built))]
    /\ pc' = "idle" /\ list' = None /\ built' = [pods |-> None, claim |-> {}]
    /\ fresh' = TRUE
    /\ UNCHANGED <<cacheVars, trackerVars, due, timeVars>>

(* A minute passes, unless a rebuild or a resync is overdue. *)
Older(n, bound) == Lesser(n + 1, bound)
Tick ==
    /\ pc = "idle" /\ (due => fresh) /\ sinceSync < Resync
    /\ fresh' = FALSE /\ sinceSync' = sinceSync + 1
    /\ samples' = [k \in DOMAIN samples |-> [samples[k] EXCEPT !.age = @ + 1]]
    /\ claim' = IF claim.phase = "Pending" THEN [claim EXCEPT !.age = Older(@, Overdue + 1)] ELSE claim
    /\ calm' = [p \in Pods |-> IF p \in DOMAIN live THEN Older(calm[p], Fading + 1) ELSE 0]
    /\ UNCHANGED <<live, podRates, pc, list, built, shown, due>>

-----------------------------------------------------------------------------
CachesChange ==
    \/ \E p \in Pods : Appears(p) \/ Runs(p) \/ Vanishes(p)
    \/ \E p \in Pods, c \in Containers : Restarts(p, c)
    \/ ClaimChanges \/ ResyncCaches

Next ==
    \/ CachesChange \/ Tick
    \/ StartBuild \/ (\E p \in Pods : Observe(p)) \/ Prune \/ Publish

Spec == Init /\ [][Next]_vars

-----------------------------------------------------------------------------
(* All that the caches hold is in the published graph. *)
Settled == pc = "idle" /\ ~due

(* Type invariant; samples never grow old, for a resync comes before. *)
TypeOK ==
    /\ DOMAIN live \subseteq Pods
    /\ \A p \in DOMAIN live : DOMAIN live[p].containers \in {{}, Containers}
    /\ DOMAIN samples \subseteq Pods \X Containers /\ DOMAIN podRates \subseteq Pods
    /\ \A k \in DOMAIN samples :
          /\ samples[k].count \in 0..MaxRestarts /\ samples[k].age \in 0..Resync
          /\ samples[k].rate \in 0..(100 * MaxRestarts)
    /\ pc \in {"idle", "pods", "publish"} /\ due \in BOOLEAN /\ fresh \in BOOLEAN
    /\ sinceSync \in 0..Resync /\ calm \in [Pods -> 0..(Fading + 1)]

(* What a scrape computes from the cached pod and the tracker's rate is what
   the graph shows, once the caches have been built from, however builds,
   replacements and observations have interleaved (restart.go:9-12: the two
   paths never disagree). *)
PathsAgree ==
    Settled => shown.pods = [p \in DOMAIN live |-> Pod(live[p], PodRate(p))]

(* A pod that never restarted is not said to restart, also if it has taken
   the name of one that did. *)
NoInventedRate ==
    Settled => \A p \in DOMAIN live :
       PodRate(p) > 0 => \E c \in DOMAIN live[p].containers : live[p].containers[c].restarts > 0

(* A rate is forgotten some time after the last restart, though nothing
   happens then but resyncs, and with it the verdict that came of it. *)
RatesFade ==
    \A p \in DOMAIN live : calm[p] > Fading => PodRate(p) = 0

(* A claim that stays pending is shown as unhealthy soon after its grace
   period has passed, though no event says so. *)
PendingClaimIsFlagged ==
    claim.phase = "Pending" /\ claim.age > Overdue =>
       \A r \in shown.claim : r.state = Unhealthy

(* The tracker holds what it is asked for and no more. *)
TrackerFollowsPods ==
    /\ pc = "idle" => DOMAIN podRates = DOMAIN shown.pods
    /\ Settled => DOMAIN podRates = DOMAIN live /\ DOMAIN samples = Keys(live)
=============================================================================
