--------------------------- MODULE RestartsProofs ---------------------------
(***************************************************************************)
(* For any number of pods and containers: that the two output paths agree  *)
(* about pods, where any score and any rate would do, since both read what *)
(* the last build left; and what time does, that is, that no rate outlives *)
(* its pod or the restarts it counts, and that a claim is flagged in time. *)
(***************************************************************************)
EXTENDS Restarts, HealthProofs, NaturalsInduction

(* What a build has done so far: the pods behind it are scored with the
   rates that the tracker holds, and their containers were observed. *)
ScoredAsHeld(p) ==
    /\ p \in DOMAIN list /\ p \in DOMAIN podRates
    /\ built.pods[p] = Pod(list[p], podRates[p])
    /\ \A c \in DOMAIN list[p].containers : <<p, c>> \in DOMAIN samples

BuiltIsScored ==
    /\ built.pods = [p \in DOMAIN built.pods |-> built.pods[p]]
    /\ \A p \in DOMAIN built.pods : ScoredAsHeld(p)

ListIsCurrent == pc # "idle" /\ ~due => list = live

Complete ==
    pc = "publish" =>
       /\ DOMAIN built.pods = DOMAIN list
       /\ DOMAIN podRates = DOMAIN list /\ DOMAIN samples = Keys(list)

IInv ==
    /\ BuiltIsScored /\ ListIsCurrent /\ Complete
    /\ PathsAgree /\ TrackerFollowsPods

LEMMA InKeys ==
    ASSUME NEW pods, NEW k
    PROVE  k \in Keys(pods) <=>
             \E p \in DOMAIN pods : \E c \in DOMAIN pods[p].containers : k = <<p, c>>
BY DEF Keys

LEMMA InitIInv == Init => IInv
<1> SUFFICES ASSUME Init PROVE IInv
  OBVIOUS
<1>1. DOMAIN None = {} /\ None = [p \in DOMAIN None |-> None[p]]
  BY DEF None
<1>2. Keys(None) = {}
  BY <1>1, InKeys
<1>3. PathsAgree
  <2>1. shown.pods = None /\ live = None
    BY DEF Init
  <2>2. None = [p \in DOMAIN live |-> Pod(live[p], PodRate(p))]
    BY <2>1 DEF None
  <2> QED BY <2>1, <2>2 DEF PathsAgree
<1>4. TrackerFollowsPods
  <2>1. shown.pods = None /\ live = None /\ samples = None /\ podRates = None
    BY DEF Init
  <2>2. Keys(live) = {}
    BY <2>1, <1>2
  <2> QED BY <1>1, <2>1, <2>2 DEF TrackerFollowsPods
<1> QED BY <1>1, <1>3, <1>4 DEF Init, IInv, BuiltIsScored, ListIsCurrent, Complete

-----------------------------------------------------------------------------
(* The caches change: nothing is settled, and the list may be outdated. *)
LEMMA StoredIInv ==
    ASSUME IInv, Stored
    PROVE  IInv'
<1> USE DEF Stored, trackerVars, buildVars
<1>1. BuiltIsScored'
  BY DEF IInv, BuiltIsScored, ScoredAsHeld
<1>2. ListIsCurrent' /\ Complete'
  BY DEF IInv, ListIsCurrent, Complete, Keys
<1>3. PathsAgree' /\ TrackerFollowsPods'
  BY DEF IInv, PathsAgree, TrackerFollowsPods, Settled
<1> QED BY <1>1, <1>2, <1>3 DEF IInv

(* Nothing of the caches and the tracker changes but the age of samples. *)
LEMMA IdleIInv ==
    ASSUME IInv,
           UNCHANGED <<live, podRates, pc, list, built, shown>>,
           DOMAIN samples' = DOMAIN samples, due' \/ ~due
    PROVE  IInv'
<1>1. BuiltIsScored'
  BY DEF IInv, BuiltIsScored, ScoredAsHeld
<1>2. ListIsCurrent' /\ Complete'
  BY DEF IInv, ListIsCurrent, Complete, Keys
<1>3. PathsAgree' /\ TrackerFollowsPods'
  BY DEF IInv, PathsAgree, TrackerFollowsPods, Settled, PodRate, Keys
<1> QED BY <1>1, <1>2, <1>3 DEF IInv

LEMMA ObserveIInv ==
    ASSUME IInv, NEW p \in Pods, Observe(p)
    PROVE  IInv'
<1> DEFINE C == DOMAIN list[p].containers
           S == {<<p, c>> : c \in C}
<1>1. PICK most : /\ podRates' = Set(podRates, p, most)
                  /\ built' = [built EXCEPT !.pods = Set(@, p, Pod(list[p], most))]
  BY DEF Observe
<1>2. /\ pc = "pods" /\ p \in DOMAIN list \ DOMAIN built.pods
      /\ DOMAIN samples' = DOMAIN samples \cup S
      /\ UNCHANGED <<live, pc, list, shown, due>>
  BY DEF Observe, cacheVars
<1>3. /\ DOMAIN podRates' = DOMAIN podRates \cup {p} /\ podRates'[p] = most
      /\ \A q \in DOMAIN podRates : q # p => podRates'[q] = podRates[q]
  BY <1>1 DEF Set
<1>4. built'.pods = Set(built.pods, p, Pod(list[p], most))
  BY <1>1
<1>5. /\ built'.pods = [q \in DOMAIN built'.pods |-> built'.pods[q]]
      /\ DOMAIN built'.pods = DOMAIN built.pods \cup {p}
      /\ built'.pods[p] = Pod(list[p], most)
      /\ \A q \in DOMAIN built.pods : q # p => built'.pods[q] = built.pods[q]
  BY <1>4 DEF Set
<1>6. ASSUME NEW q \in DOMAIN built'.pods PROVE ScoredAsHeld(q)'
  <2>1. CASE q = p
    BY <1>2, <1>3, <1>5, <2>1 DEF ScoredAsHeld
  <2>2. CASE q # p
    <3>1. ScoredAsHeld(q)
      BY <1>5, <2>2 DEF IInv, BuiltIsScored
    <3> QED BY <1>2, <1>3, <1>5, <2>2, <3>1 DEF ScoredAsHeld
  <2> QED BY <2>1, <2>2
<1>7. BuiltIsScored'
  BY <1>5, <1>6 DEF BuiltIsScored
<1> QED BY <1>2, <1>7 DEF IInv, ListIsCurrent, Complete, PathsAgree, TrackerFollowsPods, Settled

LEMMA PruneIInv ==
    ASSUME IInv, Prune
    PROVE  IInv'
<1>1. /\ pc = "pods" /\ pc' = "publish" /\ DOMAIN built.pods = DOMAIN list
      /\ samples' = [k \in DOMAIN samples \cap Keys(list) |-> samples[k]]
      /\ podRates' = [p \in DOMAIN podRates \cap DOMAIN list |-> podRates[p]]
      /\ UNCHANGED <<live, list, built, shown, due>>
  BY DEF Prune, cacheVars
<1>2. \A p \in DOMAIN list : ScoredAsHeld(p)
  BY <1>1 DEF IInv, BuiltIsScored
<1>3. Keys(list) \subseteq DOMAIN samples
  BY <1>2, InKeys DEF ScoredAsHeld
<1>4. DOMAIN podRates' = DOMAIN list /\ DOMAIN samples' = Keys(list)
  BY <1>1, <1>2, <1>3 DEF ScoredAsHeld
<1>5. ASSUME NEW p \in DOMAIN list PROVE ScoredAsHeld(p)'
  <2>1. podRates'[p] = podRates[p]
    BY <1>1, <1>2 DEF ScoredAsHeld
  <2>2. \A c \in DOMAIN list[p].containers : <<p, c>> \in Keys(list)
    BY InKeys
  <2> QED BY <1>1, <1>2, <1>4, <2>1, <2>2 DEF ScoredAsHeld
<1>6. BuiltIsScored'
  BY <1>1, <1>5 DEF IInv, BuiltIsScored
<1>7. ListIsCurrent' /\ Complete'
  BY <1>1, <1>4 DEF IInv, ListIsCurrent, Complete, Keys
<1>8. PathsAgree' /\ TrackerFollowsPods'
  BY <1>1 DEF PathsAgree, TrackerFollowsPods, Settled
<1> QED BY <1>6, <1>7, <1>8 DEF IInv

LEMMA PublishIInv ==
    ASSUME IInv, Publish
    PROVE  IInv'
<1>1. /\ pc = "publish" /\ pc' = "idle" /\ shown'.pods = built.pods
      /\ built'.pods = None /\ UNCHANGED <<live, samples, podRates, due>>
  BY DEF Publish, cacheVars, trackerVars
<1>2. DOMAIN None = {} /\ None = [p \in DOMAIN None |-> None[p]]
  BY DEF None
<1>3. BuiltIsScored' /\ ListIsCurrent' /\ Complete'
  BY <1>1, <1>2 DEF BuiltIsScored, ListIsCurrent, Complete
<1>4. PathsAgree'
  <2> SUFFICES ASSUME ~due
               PROVE  built.pods = [p \in DOMAIN live |-> Pod(live[p], PodRate(p))]
    BY <1>1 DEF PathsAgree, Settled, PodRate
  <2>1. list = live /\ DOMAIN built.pods = DOMAIN live
    BY <1>1 DEF IInv, ListIsCurrent, Complete
  <2>2. \A p \in DOMAIN built.pods : built.pods[p] = Pod(live[p], PodRate(p))
    BY <2>1 DEF IInv, BuiltIsScored, ScoredAsHeld, PodRate
  <2>3. built.pods = [p \in DOMAIN built.pods |-> built.pods[p]]
    BY DEF IInv, BuiltIsScored
  <2> QED BY <2>1, <2>2, <2>3
<1>5. TrackerFollowsPods'
  BY <1>1 DEF IInv, Complete, ListIsCurrent, TrackerFollowsPods, Settled, Keys
<1> QED BY <1>3, <1>4, <1>5 DEF IInv

LEMMA StepIInv == IInv /\ [Next]_vars => IInv'
<1> SUFFICES ASSUME IInv, [Next]_vars PROVE IInv'
  OBVIOUS
<1>1. CASE CachesChange
  <2>1. CASE ResyncCaches
    BY <2>1, IdleIInv DEF ResyncCaches, cacheVars, trackerVars, buildVars
  <2>2. CASE ~ResyncCaches
    BY <1>1, <2>2, StoredIInv DEF CachesChange, Appears, Runs, Vanishes, Restarts, ClaimChanges
  <2> QED BY <2>1, <2>2
<1>2. CASE Tick
  BY <1>2, IdleIInv DEF Tick
<1>3. CASE StartBuild
  <2>1. /\ pc = "idle" /\ pc' = "pods" /\ list' = live /\ due' = FALSE /\ built'.pods = None
        /\ UNCHANGED <<live, samples, podRates, shown>>
    BY <1>3 DEF StartBuild, cacheVars, trackerVars
  <2>2. DOMAIN None = {} /\ None = [p \in DOMAIN None |-> None[p]]
    BY DEF None
  <2> QED BY <2>1, <2>2 DEF IInv, BuiltIsScored, ListIsCurrent, Complete, PathsAgree,
            TrackerFollowsPods, Settled
<1>4. ASSUME NEW p \in Pods, Observe(p) PROVE IInv'
  BY <1>4, ObserveIInv
<1>5. CASE Prune
  BY <1>5, PruneIInv
<1>6. CASE Publish
  BY <1>6, PublishIInv
<1>7. CASE UNCHANGED vars
  BY <1>7, IdleIInv DEF vars
<1> QED BY <1>1, <1>2, <1>3, <1>4, <1>5, <1>6, <1>7 DEF Next

-----------------------------------------------------------------------------
(* The scrape and the graph say the same of every pod whenever no event is
   outstanding, whatever the containers did. *)
THEOREM OutputPathsAgree == Spec => []PathsAgree
<1>1. IInv => PathsAgree
  BY DEF IInv
<1> QED BY <1>1, InitIInv, StepIInv, PTL DEF Spec

(* The tracker forgets what is gone and knows what is there. *)
THEOREM TrackerIsPruned == Spec => []TrackerFollowsPods
<1>1. IInv => TrackerFollowsPods
  BY DEF IInv
<1> QED BY <1>1, InitIInv, StepIInv, PTL DEF Spec
-----------------------------------------------------------------------------
(***************************************************************************)
(* Rates, ages and the claim.  What bounds them all is that the ticks      *)
(* since the last build are bounded: the resync asks for one.              *)
(***************************************************************************)
Most == 100 * MaxRestarts
Waited == IF fresh THEN 0 ELSE IF due THEN Resync ELSE sinceSync

Status == [ready : {TRUE}, state : {"running"}, reason : {""}, restarts : 0..MaxRestarts]
PodRecord ==
    [phase : {"Pending"}, containers : {None}] \cup
    [phase : {"Running"}, containers : [Containers -> Status]]
IsTable(t) == t = [x \in DOMAIN t |-> t[x]]
PodTable(t) ==
    /\ IsTable(t) /\ DOMAIN t \subseteq Pods
    /\ \A p \in DOMAIN t : t[p] \in PodRecord
CachesTyped ==
    /\ PodTable(live) /\ PodTable(list)
    /\ claim \in [phase : {"absent", "Pending", "Bound"}, age : 0..(Overdue + 1)]
    /\ pc \in {"idle", "pods", "publish"} /\ due \in BOOLEAN /\ fresh \in BOOLEAN
    /\ sinceSync \in 0..Resync /\ calm \in [Pods -> 0..(Fading + 1)]

(* A rate is only ever held of a container that restarted. *)
Sample == [count : 0..MaxRestarts, age : 0..Resync, rate : 0..Most]
TrackerTyped ==
    /\ IsTable(samples) /\ IsTable(podRates)
    /\ DOMAIN samples \subseteq Pods \X Containers
    /\ \A k \in DOMAIN samples :
          samples[k] \in Sample /\ (samples[k].rate > 0 => samples[k].count > 0)
    /\ DOMAIN podRates \subseteq Pods

(* The rate of a pod is that of one of its containers. *)
RateIsSampled ==
    \A p \in DOMAIN podRates : podRates[p] # 0 =>
       \E c \in Containers :
          /\ <<p, c>> \in DOMAIN samples /\ samples[<<p, c>>].rate = podRates[p]
          /\ p \in DOMAIN built.pods => c \in DOMAIN list[p].containers

(* How long ago a sample was taken: before this tick, unless the build that
   is running, or has run in this tick, took it. *)
AgesFit ==
    /\ pc = "idle" => \A k \in DOMAIN samples :
          samples[k].age <= Waited /\ (~fresh => samples[k].age > 0)
    /\ pc # "idle" =>
          /\ ~fresh /\ DOMAIN built.pods \subseteq DOMAIN list
          /\ \A k \in DOMAIN samples :
                \/ k[1] \notin DOMAIN built.pods /\ samples[k].age > 0
                \/ k \notin Keys(list) /\ samples[k].age > 0
                \/ samples[k].age = 0 /\ k \in Keys(list)
                   /\ samples[k].count = list[k[1]].containers[k[2]].restarts

(* The samples of a pod that has been calm for some time are of its present
   containers, were taken since it is calm, and hold their present counts. *)
Follows(p) ==
    \A k \in DOMAIN samples : k[1] = p =>
       /\ k[2] \in DOMAIN live[p].containers
       /\ samples[k].count = live[p].containers[k[2]].restarts
       /\ samples[k].age <= calm[p]
ListFollows(p) ==
    /\ p \in DOMAIN list
    /\ \A c \in DOMAIN list[p].containers :
          /\ c \in DOMAIN live[p].containers
          /\ live[p].containers[c].restarts = list[p].containers[c].restarts
CalmIsFollowed ==
    \A p \in DOMAIN live :
       /\ pc = "idle" /\ (~due \/ (fresh /\ calm[p] >= 1) \/ calm[p] >= 2) => Follows(p)
       /\ pc # "idle" /\ (~due \/ calm[p] >= 1) => ListFollows(p)
       /\ pc # "idle" /\ calm[p] >= 2 => Follows(p)

(* A sample that was taken after b calm ticks has been halved in all but the
   first of them. *)
Decayed(rate, b) ==
    b >= 1 => rate * TwoTo[b - 1] <= Most /\ (b > Halvings => rate = 0)
Decays ==
    \A k \in DOMAIN samples : k[1] \in DOMAIN live =>
       Decayed(samples[k].rate, calm[k[1]] - samples[k].age)

Flagged(S) == \A r \in S : r.state = Unhealthy
ClaimIsShown ==
    claim.phase = "Pending" =>
       /\ pc = "idle" => Flagged(shown.claim) \/ claim.age <= Grace + Waited
       /\ pc # "idle" => /\ Flagged(shown.claim) \/ claim.age <= Grace + Resync
                         /\ Flagged(built.claim) \/ claim.age <= Grace

TInv ==
    /\ CachesTyped /\ TrackerTyped /\ RateIsSampled /\ AgesFit
    /\ CalmIsFollowed /\ Decays /\ ClaimIsShown

-----------------------------------------------------------------------------
(* Powers of two, and the greatest rate of a pod's containers. *)
Doubled(v, n) == 2 * v
LEMMA TwoToEquation ==
    TwoTo[0] = 1 /\ \A n \in Nat : TwoTo[n + 1] = 2 * TwoTo[n]
<1>1. NatInductiveDefHypothesis(TwoTo, 1, Doubled)
  BY Zenon DEF NatInductiveDefHypothesis, TwoTo, Doubled
<1>2. NatInductiveDefConclusion(TwoTo, 1, Doubled)
  BY <1>1, NatInductiveDef
<1>3. TwoTo = [n \in Nat |-> IF n = 0 THEN 1 ELSE Doubled(TwoTo[n - 1], n)]
  BY <1>2 DEF NatInductiveDefConclusion
<1> QED BY <1>3 DEF Doubled

LEMMA TwoToType == \A n \in Nat : TwoTo[n] \in Nat /\ TwoTo[n] >= 1
<1> DEFINE S == {n \in Nat : TwoTo[n] \in Nat /\ TwoTo[n] >= 1}
<1>1. 0 \in S /\ \A n \in S \cap Nat : n + 1 \in S
  BY TwoToEquation
<1> HIDE DEF S
<1>2. Nat \subseteq S
  BY <1>1, NatInductionOnSets
<1> QED BY <1>2 DEF S

LEMMA TwoToAdds == \A m, n \in Nat : TwoTo[m + n] = TwoTo[m] * TwoTo[n]
<1> SUFFICES ASSUME NEW m \in Nat PROVE \A n \in Nat : TwoTo[m + n] = TwoTo[m] * TwoTo[n]
  OBVIOUS
<1> DEFINE S == {n \in Nat : TwoTo[m + n] = TwoTo[m] * TwoTo[n]}
<1>1. 0 \in S
  BY TwoToEquation, TwoToType
<1>2. ASSUME NEW n \in S PROVE n + 1 \in S
  <2>1. n \in Nat /\ m + n \in Nat /\ m + (n + 1) = (m + n) + 1
    OBVIOUS
  <2>2. TwoTo[m + (n + 1)] = 2 * TwoTo[m + n] /\ TwoTo[n + 1] = 2 * TwoTo[n]
    BY <2>1, TwoToEquation
  <2>3. TwoTo[m + n] = TwoTo[m] * TwoTo[n]
    OBVIOUS
  <2>4. \A a, b \in Nat : 2 * (a * b) = a * (2 * b)
    OBVIOUS
  <2> QED BY <2>1, <2>2, <2>3, <2>4, TwoToType
<1> HIDE DEF S
<1>3. Nat \subseteq S
  BY <1>1, <1>2, NatInductionOnSets
<1> QED BY <1>3 DEF S

LEMMA TwoToGrows == \A m, n \in Nat : m <= n => TwoTo[m] <= TwoTo[n]
<1> SUFFICES ASSUME NEW m \in Nat, NEW n \in Nat, m <= n PROVE TwoTo[m] <= TwoTo[n]
  OBVIOUS
<1>1. n - m \in Nat /\ n = m + (n - m)
  OBVIOUS
<1>2. TwoTo[n] = TwoTo[m] * TwoTo[n - m]
  BY <1>1, TwoToAdds
<1>3. \A a, b \in Nat : b >= 1 => a <= a * b
  OBVIOUS
<1> QED BY <1>1, <1>2, <1>3, TwoToType

LEMMA HalvingsSuffice == Halvings \in Nat /\ Most \div TwoTo[Halvings] < 5
<1> DEFINE S == {n \in 0..20 : (100 * MaxRestarts) \div TwoTo[n] < 5}
<1>1. TwoTo[20] = 1048576
  <2> DEFINE T(n) == TwoTo[n]
  <2>1. TwoTo[5] = 32
    <3>1. /\ TwoTo[0+1] = 2 * TwoTo[0] /\ TwoTo[1+1] = 2 * TwoTo[1] /\ TwoTo[2+1] = 2 * TwoTo[2]
          /\ TwoTo[3+1] = 2 * TwoTo[3] /\ TwoTo[4+1] = 2 * TwoTo[4]
      BY TwoToEquation, Zenon
    <3> QED BY <3>1, TwoToEquation
  <2>2. TwoTo[5+5] = TwoTo[5] * TwoTo[5] /\ TwoTo[10+10] = TwoTo[10] * TwoTo[10]
    BY TwoToAdds
  <2> QED BY <2>1, <2>2
<1>2. 20 \in S
  BY <1>1, RestartsAssumption
<1>3. \A n \in 0..20 : n \in Nat
  OBVIOUS
<1>4. Min(S) \in S
  BY <1>2, <1>3, MinIsIn
<1> QED BY <1>3, <1>4 DEF Halvings, Most

AboveStep(g, T) == IF T = {} THEN 0 ELSE Above(OneOf(T), g[T \ {OneOf(T)}])

LEMMA FoldAboveEquation ==
    ASSUME NEW S, IsFiniteSet(S)
    PROVE \E it : /\ FoldSet(Above, 0, S) = it[S]
                  /\ it = [T \in SUBSET S |-> AboveStep(it, T)]
<1> DEFINE R == StrictSubsetOrdering(S)
           it == CHOOSE g : g = [T \in SUBSET S |-> AboveStep(g, T)]
<1>1. IsWellFoundedOn(R, SUBSET S)
  BY FS_StrictSubsetOrderingWellFounded, FS_FiniteSubsetsOfFinite
<1>2. WFDefOn(R, SUBSET S, AboveStep)
  BY Smaller, Zenon DEF WFDefOn, AboveStep
<1>3. OpDefinesFcn(it, SUBSET S, AboveStep)
  BY DEF OpDefinesFcn
<1>4. WFInductiveDefines(it, SUBSET S, AboveStep)
  <2> HIDE DEF it
  <2> QED BY <1>1, <1>2, <1>3, WFInductiveDef
<1>5. FoldSet(Above, 0, S) = it[S]
  BY Zenon DEF FoldSet, MapThenFoldSet, OneOf, AboveStep
<1> QED BY <1>4, <1>5 DEF WFInductiveDefines

LEMMA FoldAboveIsIn ==
    ASSUME NEW S, IsFiniteSet(S)
    PROVE  FoldSet(Above, 0, S) \in S \cup {0}
<1>1. PICK it : /\ FoldSet(Above, 0, S) = it[S]
                /\ it = [T \in SUBSET S |-> AboveStep(it, T)]
  BY FoldAboveEquation
<1> DEFINE G == {T \in SUBSET S : it[T] \in T \cup {0}}
<1>2. \A T \in SUBSET S : it[T] = AboveStep(it, T)
  BY <1>1
<1>3. {} \in G
  BY <1>2 DEF AboveStep
<1>4. ASSUME NEW T \in SUBSET S, T # {}, Rest(T) \in G PROVE T \in G
  BY <1>2, <1>4, OneOfIsIn, Zenon DEF AboveStep, Above, Rest
<1> HIDE DEF G
<1>5. SUBSET S \subseteq G
  BY <1>3, <1>4, FiniteInduction
<1> QED BY <1>1, <1>5 DEF G

-----------------------------------------------------------------------------
(* What the steps do to the tables. *)
LEMMA BoundsAreNumbers ==
    /\ Halvings \in Nat /\ Resync \in Nat /\ Resync >= 1 /\ Grace \in Nat
    /\ Fading \in Nat /\ Overdue \in Nat /\ Most \in Nat
    /\ Fading = Halvings + Resync /\ Overdue = Grace + Resync
BY HalvingsSuffice, RestartsAssumption DEF Fading, Overdue, Most

LEMMA ObserveRate ==
    ASSUME TrackerTyped, NEW k, NEW count \in 0..MaxRestarts
    PROVE  observe(k, count) \in 0..Most /\ (observe(k, count) > 0 => count > 0)
<1>1. MaxRestarts \in Nat /\ Most = 100 * MaxRestarts /\ Most \in Nat /\ count \in Nat
  BY RestartsAssumption DEF Most
<1>2. CASE k \notin DOMAIN samples
  BY <1>1, <1>2 DEF observe
<1>3. CASE k \in DOMAIN samples
  <2> DEFINE prev == samples[k]
             r == prev.rate \div TwoTo[prev.age]
  <2>1. /\ prev.count \in Nat /\ prev.age \in Nat /\ prev.rate \in 0..Most
        /\ prev.rate > 0 => prev.count > 0
    BY <1>3, RestartsAssumption DEF TrackerTyped, Sample
  <2> HIDE DEF prev
  <2>2. r \in Nat /\ r <= prev.rate
    BY <1>1, <2>1, TwoToType, Quotient
  <2> HIDE DEF r
  <2>3. observe(k, count) =
          (IF count > prev.count /\ prev.age > 0 THEN (100 * (count - prev.count)) \div prev.age
           ELSE IF count < prev.count THEN 0
           ELSE IF prev.age > 0 THEN (IF r < 5 THEN 0 ELSE r)
           ELSE prev.rate)
    BY <1>3, Zenon DEF observe, prev, r
  <2>4. CASE count > prev.count /\ prev.age > 0
    <3>1. 100 * (count - prev.count) \in Nat /\ 100 * (count - prev.count) <= Most
      BY <1>1, <2>1, <2>4
    <3>2. /\ (100 * (count - prev.count)) \div prev.age \in Nat
          /\ (100 * (count - prev.count)) \div prev.age <= 100 * (count - prev.count)
      BY <2>1, <2>4, <3>1, Quotient
    <3> QED BY <1>1, <2>1, <2>3, <2>4, <3>1, <3>2
  <2>5. CASE ~(count > prev.count /\ prev.age > 0)
    BY <1>1, <2>1, <2>2, <2>3, <2>5
  <2> QED BY <2>4, <2>5
<1> QED BY <1>2, <1>3

LEMMA ListedPod ==
    ASSUME NEW t, PodTable(t), NEW p \in DOMAIN t
    PROVE  /\ p \in Pods /\ DOMAIN t[p].containers \in {{}, Containers}
           /\ \A c \in DOMAIN t[p].containers :
                 c \in Containers /\ t[p].containers[c].restarts \in 0..MaxRestarts
<1>1. p \in Pods /\ t[p] \in PodRecord
  BY DEF PodTable
<1>2. CASE t[p] \in [phase : {"Pending"}, containers : {None}]
  BY <1>1, <1>2 DEF None
<1>3. CASE t[p] \in [phase : {"Running"}, containers : [Containers -> Status]]
  BY <1>1, <1>3 DEF Status
<1> QED BY <1>1, <1>2, <1>3 DEF PodRecord

LEMMA ObserveEffect ==
    ASSUME CachesTyped, NEW p \in Pods, Observe(p)
    PROVE  /\ pc = "pods" /\ p \in DOMAIN list /\ p \notin DOMAIN built.pods
           /\ DOMAIN list[p].containers \subseteq Containers
           /\ DOMAIN built'.pods = DOMAIN built.pods \cup {p} /\ built'.claim = built.claim
           /\ UNCHANGED <<live, claim, pc, list, shown, due, fresh, sinceSync, calm>>
<1>1. PICK most : built' = [built EXCEPT !.pods = Set(@, p, Pod(list[p], most))]
  BY DEF Observe
<1>2. built'.pods = Set(built.pods, p, Pod(list[p], most)) /\ built'.claim = built.claim
  BY <1>1
<1>3. DOMAIN built'.pods = DOMAIN built.pods \cup {p}
  BY <1>2 DEF Set
<1>4. DOMAIN list[p].containers \subseteq Containers
  BY ListedPod DEF CachesTyped, Observe
<1> QED BY <1>2, <1>3, <1>4 DEF Observe, cacheVars, timeVars

LEMMA ObserveSamples ==
    ASSUME CachesTyped, NEW p \in Pods, Observe(p), NEW C, C = DOMAIN list[p].containers
    PROVE  /\ IsTable(samples') /\ DOMAIN samples' = DOMAIN samples \cup {<<p, c>> : c \in C}
           /\ \A c \in C : samples'[<<p, c>>] =
                 [count |-> list[p].containers[c].restarts, age |-> 0,
                  rate |-> observe(<<p, c>>, list[p].containers[c].restarts)]
           /\ \A k \in DOMAIN samples : k[1] # p \/ k[2] \notin C => samples'[k] = samples[k]
<1> DEFINE rates == [c \in C |-> observe(<<p, c>>, list[p].containers[c].restarts)]
<1>1. samples' = [k \in DOMAIN samples \cup {<<p, c>> : c \in C} |->
              IF k[1] = p /\ k[2] \in C
              THEN [count |-> list[p].containers[k[2]].restarts, age |-> 0, rate |-> rates[k[2]]]
              ELSE samples[k]]
  BY Zenon DEF Observe
<1>2. \A c \in C : rates[c] = observe(<<p, c>>, list[p].containers[c].restarts)
  BY Zenon
<1> HIDE DEF rates
<1>3. ASSUME NEW c \in C
      PROVE  samples'[<<p, c>>] = [count |-> list[p].containers[c].restarts, age |-> 0,
                                   rate |-> rates[c]]
  BY <1>1
<1>4. \A c \in C : samples'[<<p, c>>] =
                 [count |-> list[p].containers[c].restarts, age |-> 0,
                  rate |-> observe(<<p, c>>, list[p].containers[c].restarts)]
  BY <1>2, <1>3, Zenon
<1>5. /\ IsTable(samples') /\ DOMAIN samples' = DOMAIN samples \cup {<<p, c>> : c \in C}
      /\ \A k \in DOMAIN samples : k[1] # p \/ k[2] \notin C => samples'[k] = samples[k]
  BY <1>1 DEF IsTable
<1> QED BY <1>4, <1>5, Zenon

LEMMA ObservePodRate ==
    ASSUME CachesTyped, NEW p \in Pods, Observe(p), NEW C, C = DOMAIN list[p].containers
    PROVE  \E x : /\ podRates' = Set(podRates, p, x)
                  /\ x # 0 => \E c \in C : x = observe(<<p, c>>, list[p].containers[c].restarts)
<1> DEFINE rates == [c \in C |-> observe(<<p, c>>, list[p].containers[c].restarts)]
           R == {rates[c] : c \in C}
           most == FoldSet(Above, 0, R)
<1>1. podRates' = Set(podRates, p, most)
  BY Zenon DEF Observe
<1>2. IsFiniteSet(R)
  <2>1. IsFiniteSet(C)
    BY ObserveEffect, FS_Subset, RestartsAssumption
  <2>2. rates \in Surjection(C, R)
    BY Zenon DEF Surjection
  <2> QED BY <2>1, <2>2, FS_Surjection
<1>3. most \in R \cup {0}
  BY <1>2, FoldAboveIsIn
<1> HIDE DEF most
<1>4. most # 0 => \E c \in C : most = observe(<<p, c>>, list[p].containers[c].restarts)
  BY <1>3, Zenon
<1> QED BY <1>1, <1>4

-----------------------------------------------------------------------------
LEMMA InitTInv == Init => TInv
<1> SUFFICES ASSUME Init PROVE TInv
  OBVIOUS
<1> USE BoundsAreNumbers
<1>1. DOMAIN None = {} /\ IsTable(None)
  BY DEF None, IsTable
<1>2. PodTable(None)
  BY <1>1 DEF PodTable
<1>3. CachesTyped
  <2>1. claim \in [phase : {"absent", "Pending", "Bound"}, age : 0..(Overdue + 1)]
    BY DEF Init
  <2>2. calm \in [Pods -> 0..(Fading + 1)]
    BY DEF Init
  <2>3. sinceSync \in 0..Resync
    BY DEF Init
  <2> QED BY <1>2, <2>1, <2>2, <2>3 DEF Init, CachesTyped
<1>4. TrackerTyped /\ RateIsSampled /\ AgesFit /\ Decays
  BY <1>1 DEF Init, TrackerTyped, RateIsSampled, AgesFit, Decays
<1>5. CalmIsFollowed /\ ClaimIsShown
  BY <1>1 DEF Init, CalmIsFollowed, ClaimIsShown
<1> QED BY <1>3, <1>4, <1>5 DEF TInv

(* A table of pods stays one when an entry is set, changed or removed. *)
LEMMA SetKeepsTable ==
    ASSUME NEW t, PodTable(t), NEW p \in Pods, NEW r \in PodRecord
    PROVE  /\ PodTable(Set(t, p, r)) /\ DOMAIN Set(t, p, r) = DOMAIN t \cup {p}
           /\ Set(t, p, r)[p] = r
           /\ \A q \in DOMAIN t : q # p => Set(t, p, r)[q] = t[q]
BY DEF PodTable, IsTable, Set

LEMMA RestartKeepsTable ==
    ASSUME CachesTyped, NEW p \in Pods, NEW c \in Containers, Restarts(p, c)
    PROVE  /\ PodTable(live') /\ DOMAIN live' = DOMAIN live
           /\ \A q \in DOMAIN live : q # p => live'[q] = live[q]
<1>1. /\ p \in DOMAIN live /\ live[p].phase = "Running" /\ live[p].containers[c].restarts < MaxRestarts
      /\ live' = [live EXCEPT ![p].containers[c].restarts = @ + 1]
  BY DEF Restarts
<1>2. live[p] \in PodRecord /\ PodTable(live)
  BY <1>1 DEF CachesTyped, PodTable
<1>3. live[p] \in [phase : {"Running"}, containers : [Containers -> Status]]
  BY <1>1, <1>2 DEF PodRecord
<1> DEFINE r == [live[p] EXCEPT !.containers[c].restarts = @ + 1]
<1>4. r \in PodRecord
  <2> DEFINE s == live[p].containers[c]
  <2>1. s \in Status /\ s.restarts < MaxRestarts
    BY <1>1, <1>3
  <2>2. [s EXCEPT !.restarts = @ + 1] \in Status
    <3> HIDE DEF s
    <3>2. s.restarts \in 0..MaxRestarts
      BY <2>1 DEF Status
    <3>1. s.restarts + 1 \in 0..MaxRestarts
      BY <2>1, <3>2, RestartsAssumption
    <3> QED BY <2>1, <3>1 DEF Status
  <2>3. [live[p].containers EXCEPT ![c] = [s EXCEPT !.restarts = @ + 1]] \in [Containers -> Status]
    BY <1>3, <2>2
  <2>4. r = [live[p] EXCEPT !.containers = [live[p].containers EXCEPT ![c] = [s EXCEPT !.restarts = @ + 1]]]
    OBVIOUS
  <2> QED BY <1>3, <2>3, <2>4 DEF PodRecord
<1>5. live' = [live EXCEPT ![p] = r]
  BY <1>1
<1> HIDE DEF r
<1> QED BY <1>1, <1>2, <1>4, <1>5 DEF PodTable, IsTable

LEMMA RunningRecord ==
    [phase |-> "Running", containers |->
        [c \in Containers |-> [ready |-> TRUE, state |-> "running", reason |-> "", restarts |-> 0]]]
    \in PodRecord
BY RestartsAssumption DEF PodRecord, Status

LEMMA StepCaches == CachesTyped /\ [Next]_vars => CachesTyped'
<1> SUFFICES ASSUME CachesTyped, [Next]_vars PROVE CachesTyped'
  OBVIOUS
<1> USE BoundsAreNumbers
<1>1. ASSUME NEW p \in Pods, Appears(p) PROVE CachesTyped'
  <2>1. [phase |-> "Pending", containers |-> None] \in PodRecord
    BY DEF PodRecord
  <2>2. PodTable(live')
    BY <1>1, <2>1, SetKeepsTable DEF Appears, CachesTyped
  <2>3. calm' \in [Pods -> 0..(Fading + 1)]
    BY <1>1 DEF Appears, CachesTyped
  <2> QED BY <1>1, <2>2, <2>3 DEF Appears, Stored, buildVars, CachesTyped, PodTable
<1>2. ASSUME NEW p \in Pods, Runs(p) PROVE CachesTyped'
  <2>1. PodTable(live')
    BY <1>2, RunningRecord, SetKeepsTable DEF Runs, CachesTyped
  <2> QED BY <1>2, <2>1 DEF Runs, Stored, buildVars, CachesTyped, PodTable
<1>3. ASSUME NEW p \in Pods, Vanishes(p) PROVE CachesTyped'
  <2>1. PodTable(live')
    BY <1>3 DEF Vanishes, CachesTyped, PodTable, IsTable
  <2>2. calm' \in [Pods -> 0..(Fading + 1)]
    BY <1>3 DEF Vanishes, CachesTyped
  <2> QED BY <1>3, <2>1, <2>2 DEF Vanishes, Stored, buildVars, CachesTyped, PodTable
<1>4. ASSUME NEW p \in Pods, NEW c \in Containers, Restarts(p, c) PROVE CachesTyped'
  <2>1. calm' \in [Pods -> 0..(Fading + 1)]
    BY <1>4 DEF Restarts, CachesTyped
  <2> QED BY <1>4, <2>1, RestartKeepsTable DEF Restarts, Stored, buildVars, CachesTyped, PodTable
<1>5. CASE ClaimChanges
  <2>1. claim' \in [phase : {"absent", "Pending", "Bound"}, age : 0..(Overdue + 1)]
    BY <1>5 DEF ClaimChanges
  <2> QED BY <1>5, <2>1 DEF ClaimChanges, Stored, buildVars, CachesTyped, PodTable
<1>6. CASE ResyncCaches
  <2>1. sinceSync' \in 0..Resync
    BY <1>6 DEF ResyncCaches
  <2>2. due' \in BOOLEAN
    BY <1>6, Zenon DEF ResyncCaches
  <2> QED BY <1>6, <2>1, <2>2 DEF ResyncCaches, cacheVars, buildVars, CachesTyped, PodTable
<1>7. CASE Tick
  <2>1. claim' \in [phase : {"absent", "Pending", "Bound"}, age : 0..(Overdue + 1)]
    BY <1>7 DEF Tick, CachesTyped, Older, Lesser
  <2>2. calm' \in [Pods -> 0..(Fading + 1)]
    BY <1>7 DEF Tick, CachesTyped, Older, Lesser
  <2>3. sinceSync' \in 0..Resync
    BY <1>7 DEF Tick, CachesTyped
  <2> QED BY <1>7, <2>1, <2>2, <2>3 DEF Tick, CachesTyped, PodTable
<1>8. CASE StartBuild
  BY <1>8 DEF StartBuild, cacheVars, timeVars, CachesTyped, PodTable
<1>9. ASSUME NEW p \in Pods, Observe(p) PROVE CachesTyped'
  BY <1>9, ObserveEffect DEF CachesTyped, PodTable
<1>10. CASE Prune
  BY <1>10 DEF Prune, cacheVars, timeVars, CachesTyped, PodTable
<1>11. CASE Publish
  <2>1. PodTable(None)
    BY DEF PodTable, IsTable, None
  <2> QED BY <1>11, <2>1 DEF Publish, cacheVars, timeVars, CachesTyped, PodTable
<1>12. CASE UNCHANGED vars
  BY <1>12 DEF vars, CachesTyped, PodTable
<1> QED BY <1>1, <1>2, <1>3, <1>4, <1>5, <1>6, <1>7, <1>8, <1>9, <1>10, <1>11, <1>12
        DEF Next, CachesChange

-----------------------------------------------------------------------------
(* The caches change, a build begins or ends: the tracker does not. *)
LEMMA CachesChangeEffect ==
    CachesChange => UNCHANGED <<samples, podRates, pc, list, built, shown, fresh>>
BY DEF CachesChange, Appears, Runs, Vanishes, Restarts, ClaimChanges, ResyncCaches, Stored,
       trackerVars, buildVars

LEMMA TickEffect ==
    ASSUME TrackerTyped, AgesFit, CachesTyped, Tick
    PROVE  /\ IsTable(samples') /\ DOMAIN samples' = DOMAIN samples
           /\ \A k \in DOMAIN samples :
                 /\ samples'[k] \in Sample /\ samples'[k].age = samples[k].age + 1
                 /\ samples'[k].count = samples[k].count /\ samples'[k].rate = samples[k].rate
           /\ \A k \in DOMAIN samples : samples[k].age < Resync
           /\ pc = "idle" /\ (due => fresh) /\ sinceSync < Resync
           /\ fresh' = FALSE /\ sinceSync' = sinceSync + 1
           /\ UNCHANGED <<live, podRates, pc, list, built, shown, due>>
<1>1. /\ samples' = [k \in DOMAIN samples |-> [samples[k] EXCEPT !.age = @ + 1]]
      /\ pc = "idle" /\ (due => fresh) /\ sinceSync < Resync
      /\ fresh' = FALSE /\ sinceSync' = sinceSync + 1
      /\ UNCHANGED <<live, podRates, pc, list, built, shown, due>>
  BY DEF Tick
<1>2. Waited \in 0..(Resync - 1)
  BY <1>1, BoundsAreNumbers DEF Waited, CachesTyped
<1>3. ASSUME NEW k \in DOMAIN samples
      PROVE  /\ samples'[k] \in Sample /\ samples'[k].age = samples[k].age + 1
             /\ samples'[k].count = samples[k].count /\ samples'[k].rate = samples[k].rate
             /\ samples[k].age < Resync
  <2>1. samples'[k] = [samples[k] EXCEPT !.age = @ + 1]
    BY <1>1
  <2>2. samples[k] \in Sample /\ samples[k].age <= Waited
    BY <1>1 DEF TrackerTyped, AgesFit
  <2>3. samples[k].age \in Nat /\ samples[k].age + 1 \in 0..Resync /\ samples[k].age < Resync
    <3>1. samples[k].age \in 0..Resync
      BY <2>2 DEF Sample
    <3> QED BY <1>2, <2>2, <3>1, BoundsAreNumbers
  <2> QED BY <2>1, <2>2, <2>3 DEF Sample
<1>4. IsTable(samples') /\ DOMAIN samples' = DOMAIN samples
  BY <1>1 DEF IsTable
<1> QED BY <1>1, <1>3, <1>4

LEMMA PruneEffect ==
    ASSUME Prune
    PROVE  /\ IsTable(samples') /\ DOMAIN samples' = DOMAIN samples \cap Keys(list)
           /\ \A k \in DOMAIN samples' : samples'[k] = samples[k]
           /\ IsTable(podRates') /\ DOMAIN podRates' = DOMAIN podRates \cap DOMAIN list
           /\ \A p \in DOMAIN podRates' : podRates'[p] = podRates[p]
           /\ pc = "pods" /\ pc' = "publish" /\ DOMAIN built.pods = DOMAIN list
           /\ UNCHANGED <<live, claim, list, built, shown, due, fresh, sinceSync, calm>>
<1>1. /\ samples' = [k \in DOMAIN samples \cap Keys(list) |-> samples[k]]
      /\ podRates' = [p \in DOMAIN podRates \cap DOMAIN list |-> podRates[p]]
      /\ pc = "pods" /\ pc' = "publish" /\ DOMAIN built.pods = DOMAIN list
      /\ UNCHANGED <<live, claim, list, built, shown, due, fresh, sinceSync, calm>>
  BY DEF Prune, cacheVars, timeVars
<1> QED BY <1>1 DEF IsTable

LEMMA StartBuildEffect ==
    ASSUME StartBuild
    PROVE  /\ pc = "idle" /\ due /\ ~fresh /\ due' = FALSE /\ pc' = "pods" /\ list' = live
           /\ DOMAIN built'.pods = {}
           /\ built'.claim = (IF claim.phase = "absent" THEN {} ELSE {PVC(claim.phase, claim.age, Grace)})
           /\ UNCHANGED <<live, claim, samples, podRates, shown, fresh, sinceSync, calm>>
<1>1. DOMAIN None = {}
  BY DEF None
<1> QED BY <1>1 DEF StartBuild, cacheVars, trackerVars, timeVars

LEMMA PublishEffect ==
    ASSUME Publish
    PROVE  /\ pc = "publish" /\ pc' = "idle" /\ shown'.claim = built.claim /\ fresh' = TRUE
           /\ DOMAIN built'.pods = {} /\ DOMAIN list' = {}
           /\ UNCHANGED <<live, claim, samples, podRates, due, sinceSync, calm>>
<1>1. DOMAIN None = {}
  BY DEF None
<1> QED BY <1>1 DEF Publish, cacheVars, trackerVars, timeVars

LEMMA ObserveTracker ==
    ASSUME CachesTyped, TrackerTyped, NEW p \in Pods, Observe(p)
    PROVE  TrackerTyped'
<1> DEFINE C == DOMAIN list[p].containers
<1>1. C \subseteq Containers /\ p \in DOMAIN list
  BY ObserveEffect
<1>2. \A c \in C : c \in Containers /\ list[p].containers[c].restarts \in 0..MaxRestarts
  BY <1>1, ListedPod DEF CachesTyped
<1>3. IsTable(samples') /\ DOMAIN samples' = DOMAIN samples \cup {<<p, c>> : c \in C}
  BY ObserveSamples
<1>4. \A k \in DOMAIN samples : k[1] # p \/ k[2] \notin C => samples'[k] = samples[k]
  BY ObserveSamples
<1>9. \A c \in C : samples'[<<p, c>>] =
                 [count |-> list[p].containers[c].restarts, age |-> 0,
                  rate |-> observe(<<p, c>>, list[p].containers[c].restarts)]
  BY ObserveSamples, Zenon
<1>5. ASSUME NEW c \in C
      PROVE  /\ samples'[<<p, c>>] \in Sample
             /\ samples'[<<p, c>>].rate > 0 => samples'[<<p, c>>].count > 0
  <2> DEFINE n == list[p].containers[c].restarts
             v == observe(<<p, c>>, n)
  <2>1. n \in 0..MaxRestarts
    BY <1>2
  <2>2. v \in 0..Most /\ (v > 0 => n > 0)
    BY <2>1, ObserveRate
  <2>3. samples'[<<p, c>>] = [count |-> n, age |-> 0, rate |-> v]
    BY <1>9, Zenon
  <2> HIDE DEF n, v
  <2> QED BY <2>1, <2>2, <2>3, BoundsAreNumbers DEF Sample
<1>6. ASSUME NEW k \in DOMAIN samples'
      PROVE  samples'[k] \in Sample /\ (samples'[k].rate > 0 => samples'[k].count > 0)
  <2>1. CASE k \in DOMAIN samples /\ (k[1] # p \/ k[2] \notin C)
    BY <1>4, <2>1 DEF TrackerTyped
  <2>2. CASE ~(k \in DOMAIN samples /\ (k[1] # p \/ k[2] \notin C))
    <3>1. \E c \in C : k = <<p, c>>
      BY <1>3, <2>2 DEF TrackerTyped
    <3> QED BY <1>5, <3>1
  <2> QED BY <2>1, <2>2
<1>7. DOMAIN samples' \subseteq Pods \X Containers
  BY <1>1, <1>3 DEF TrackerTyped
<1>8. IsTable(podRates') /\ DOMAIN podRates' \subseteq Pods
  <2>1. PICK x : podRates' = Set(podRates, p, x)
    BY ObservePodRate
  <2> QED BY <2>1 DEF TrackerTyped, IsTable, Set
<1> QED BY <1>3, <1>6, <1>7, <1>8 DEF TrackerTyped

LEMMA StepTracker == CachesTyped /\ TrackerTyped /\ AgesFit /\ [Next]_vars => TrackerTyped'
<1> SUFFICES ASSUME CachesTyped, TrackerTyped, AgesFit, [Next]_vars PROVE TrackerTyped'
  OBVIOUS
<1>1. ASSUME UNCHANGED <<samples, podRates>> PROVE TrackerTyped'
  BY <1>1 DEF TrackerTyped, IsTable
<1>2. CASE CachesChange \/ StartBuild \/ Publish \/ UNCHANGED vars
  BY <1>1, <1>2, CachesChangeEffect, StartBuildEffect, PublishEffect DEF vars
<1>3. CASE Tick
  BY <1>3, TickEffect DEF TrackerTyped, IsTable
<1>4. ASSUME NEW p \in Pods, Observe(p) PROVE TrackerTyped'
  BY <1>4, ObserveTracker
<1>5. CASE Prune
  BY <1>5, PruneEffect DEF TrackerTyped
<1> QED BY <1>2, <1>3, <1>4, <1>5 DEF Next

LEMMA ObserveRates ==
    ASSUME CachesTyped, TrackerTyped, RateIsSampled, NEW p \in Pods, Observe(p)
    PROVE  RateIsSampled'
<1> SUFFICES ASSUME NEW q \in DOMAIN podRates', podRates'[q] # 0
             PROVE  \E c \in Containers :
                       /\ <<q, c>> \in DOMAIN samples' /\ samples'[<<q, c>>].rate = podRates'[q]
                       /\ q \in DOMAIN built'.pods => c \in DOMAIN list[q].containers
  BY ObserveEffect DEF RateIsSampled
<1> DEFINE C == DOMAIN list[p].containers
<1>1. PICK x : /\ podRates' = Set(podRates, p, x)
               /\ x # 0 => \E c \in C : x = observe(<<p, c>>, list[p].containers[c].restarts)
  BY ObservePodRate
<1>2. DOMAIN samples' = DOMAIN samples \cup {<<p, c>> : c \in C}
  BY ObserveSamples
<1>3. CASE q = p
  <2>1. podRates'[q] = x /\ x # 0
    BY <1>1, <1>3 DEF Set
  <2>2. PICK c \in C : x = observe(<<p, c>>, list[p].containers[c].restarts)
    BY <1>1, <2>1
  <2>4. samples'[<<p, c>>] = [count |-> list[p].containers[c].restarts, age |-> 0,
                  rate |-> observe(<<p, c>>, list[p].containers[c].restarts)]
    BY ObserveSamples, Zenon
  <2>3. samples'[<<p, c>>].rate = x
    BY <2>2, <2>4
  <2> QED BY <1>2, <1>3, <2>1, <2>3, ObserveEffect
<1>4. CASE q # p
  <2>1. q \in DOMAIN podRates /\ podRates'[q] = podRates[q]
    BY <1>1, <1>4 DEF Set
  <2>2. PICK c \in Containers :
          /\ <<q, c>> \in DOMAIN samples /\ samples[<<q, c>>].rate = podRates[q]
          /\ q \in DOMAIN built.pods => c \in DOMAIN list[q].containers
    BY <2>1 DEF RateIsSampled
  <2>3. samples'[<<q, c>>] = samples[<<q, c>>]
    BY <1>4, <2>2, ObserveSamples
  <2> QED BY <1>2, <1>4, <2>1, <2>2, <2>3, ObserveEffect
<1> QED BY <1>3, <1>4

LEMMA StepRates ==
    CachesTyped /\ TrackerTyped /\ AgesFit /\ RateIsSampled /\ [Next]_vars => RateIsSampled'
<1> SUFFICES ASSUME CachesTyped, TrackerTyped, AgesFit, RateIsSampled, [Next]_vars
             PROVE  RateIsSampled'
  OBVIOUS
<1>1. CASE CachesChange \/ UNCHANGED vars
  BY <1>1, CachesChangeEffect DEF vars, RateIsSampled
<1>2. CASE StartBuild
  BY <1>2, StartBuildEffect DEF RateIsSampled
<1>3. CASE Publish
  BY <1>3, PublishEffect DEF RateIsSampled
<1>4. CASE Tick
  BY <1>4, TickEffect DEF RateIsSampled
<1>5. ASSUME NEW p \in Pods, Observe(p) PROVE RateIsSampled'
  BY <1>5, ObserveRates
<1>6. CASE Prune
  <2> SUFFICES ASSUME NEW p \in DOMAIN podRates', podRates'[p] # 0
               PROVE  \E c \in Containers :
                         /\ <<p, c>> \in DOMAIN samples' /\ samples'[<<p, c>>].rate = podRates'[p]
                         /\ p \in DOMAIN built.pods => c \in DOMAIN list[p].containers
    BY <1>6, PruneEffect DEF RateIsSampled
  <2>1. p \in DOMAIN podRates /\ p \in DOMAIN built.pods /\ podRates'[p] = podRates[p] /\ p \in DOMAIN list
    BY <1>6, PruneEffect
  <2>2. PICK c \in Containers :
          /\ <<p, c>> \in DOMAIN samples /\ samples[<<p, c>>].rate = podRates[p]
          /\ c \in DOMAIN list[p].containers
    BY <2>1 DEF RateIsSampled
  <2>3. <<p, c>> \in Keys(list)
    BY <2>1, <2>2, InKeys
  <2> QED BY <1>6, <2>1, <2>2, <2>3, PruneEffect
<1> QED BY <1>1, <1>2, <1>3, <1>4, <1>5, <1>6 DEF Next

-----------------------------------------------------------------------------
(* Ages. *)
LEMMA WaitedIsBounded == CachesTyped => Waited \in 0..Resync
BY BoundsAreNumbers DEF Waited, CachesTyped

LEMMA AgeIsBounded ==
    ASSUME TrackerTyped, NEW k \in DOMAIN samples
    PROVE  samples[k].age \in 0..Resync
BY DEF TrackerTyped, Sample

LEMMA KeyInList ==
    ASSUME NEW t, NEW k, k \in Keys(t)
    PROVE  k[1] \in DOMAIN t /\ k[2] \in DOMAIN t[k[1]].containers
BY InKeys

LEMMA StepAges ==
    IInv /\ CachesTyped /\ TrackerTyped /\ AgesFit /\ [Next]_vars => AgesFit'
<1> SUFFICES ASSUME IInv, CachesTyped, TrackerTyped, AgesFit, [Next]_vars PROVE AgesFit'
  OBVIOUS
<1>1. ASSUME UNCHANGED <<samples, pc, list, built, fresh>>,
             pc = "idle" => \A k \in DOMAIN samples : samples[k].age <= Waited'
      PROVE  AgesFit'
  BY <1>1 DEF AgesFit, Keys
<1>2. CASE CachesChange
  <2>1. UNCHANGED <<samples, pc, list, built, fresh>>
    BY <1>2, CachesChangeEffect
  <2>2. ASSUME pc = "idle", NEW k \in DOMAIN samples PROVE samples[k].age <= Waited'
    <3>1. samples[k].age \in 0..Resync /\ samples[k].age <= Waited
      BY <2>2, AgeIsBounded DEF AgesFit
    <3>2. CASE due' \/ fresh
      BY <2>1, <3>1, <3>2, BoundsAreNumbers DEF Waited
    <3>3. CASE ~due' /\ ~fresh
      <4>1. ~due /\ live = None
        BY <1>2, <3>3 DEF CachesChange, Appears, Runs, Vanishes, Restarts, ClaimChanges, Stored,
              ResyncCaches
      <4>2. DOMAIN samples = Keys(None)
        BY <2>2, <4>1 DEF IInv, TrackerFollowsPods, Settled
      <4>3. Keys(None) = {}
        BY InKeys DEF None
      <4> QED BY <4>2, <4>3
    <3> QED BY <3>2, <3>3
  <2> QED BY <1>1, <2>1, <2>2
<1>3. CASE Tick
  <2>1. ASSUME NEW k \in DOMAIN samples PROVE samples'[k].age <= Waited' /\ samples'[k].age > 0
    <3>1. /\ samples'[k].age = samples[k].age + 1 /\ samples[k].age < Resync
          /\ samples[k].age \in 0..Resync /\ samples[k].age <= Waited
      BY <1>3, TickEffect, AgeIsBounded DEF AgesFit
    <3>2. /\ fresh' = FALSE /\ due' = due /\ sinceSync' = sinceSync + 1 /\ (due => fresh)
          /\ sinceSync \in 0..Resync
      BY <1>3, TickEffect DEF CachesTyped
    <3> QED BY <3>1, <3>2, BoundsAreNumbers DEF Waited
  <2> QED BY <1>3, <2>1, TickEffect DEF AgesFit
<1>4. CASE StartBuild
  BY <1>4, StartBuildEffect DEF AgesFit
<1>5. ASSUME NEW p \in Pods, Observe(p) PROVE AgesFit'
  <2> DEFINE C == DOMAIN list[p].containers
             Fits(k) ==
                \/ k[1] \notin DOMAIN built'.pods /\ samples'[k].age > 0
                \/ k \notin Keys(list) /\ samples'[k].age > 0
                \/ samples'[k].age = 0 /\ k \in Keys(list)
                   /\ samples'[k].count = list[k[1]].containers[k[2]].restarts
  <2>1. /\ pc = "pods" /\ p \in DOMAIN list /\ p \notin DOMAIN built.pods
        /\ DOMAIN built'.pods = DOMAIN built.pods \cup {p}
        /\ UNCHANGED <<pc, list, fresh>>
    BY <1>5, ObserveEffect
  <2>2. /\ DOMAIN samples' = DOMAIN samples \cup {<<p, c>> : c \in C}
        /\ \A k \in DOMAIN samples : k[1] # p \/ k[2] \notin C => samples'[k] = samples[k]
    BY <1>5, ObserveSamples
  <2>3. \A c \in C : samples'[<<p, c>>] =
                 [count |-> list[p].containers[c].restarts, age |-> 0,
                  rate |-> observe(<<p, c>>, list[p].containers[c].restarts)]
    BY <1>5, ObserveSamples, Zenon
  <2>4. ASSUME NEW c \in C PROVE Fits(<<p, c>>)
    <3> DEFINE n == list[p].containers[c].restarts
               v == observe(<<p, c>>, list[p].containers[c].restarts)
    <3>1. samples'[<<p, c>>] = [count |-> n, age |-> 0, rate |-> v]
      BY <2>3, Zenon
    <3> HIDE DEF n, v
    <3>2. samples'[<<p, c>>].count = n /\ samples'[<<p, c>>].age = 0
      BY <3>1
    <3>3. <<p, c>> \in Keys(list)
      BY <2>1, InKeys
    <3> QED BY <3>2, <3>3 DEF n
  <2>5. ASSUME NEW k \in DOMAIN samples, k[1] # p \/ k[2] \notin C PROVE Fits(k)
    <3>1. samples'[k] = samples[k]
      BY <2>2, <2>5
    <3>2. k[1] = p => k \notin Keys(list)
      BY <2>5, KeyInList
    <3> QED BY <2>1, <3>1, <3>2 DEF AgesFit
  <2>6. \A k \in DOMAIN samples : k = <<k[1], k[2]>>
    BY DEF TrackerTyped
  <2> HIDE DEF Fits
  <2>7. \A k \in DOMAIN samples' : Fits(k)
    BY <2>2, <2>4, <2>5, <2>6
  <2>8. ~fresh' /\ pc' # "idle" /\ DOMAIN built'.pods \subseteq DOMAIN list'
    BY <2>1 DEF AgesFit
  <2>9. list' = list
    BY <2>1
  <2> QED BY <2>7, <2>8, <2>9 DEF AgesFit, Fits, Keys
<1>6. CASE Prune
  <2>1. Keys(list)' = Keys(list)
    BY <1>6, PruneEffect DEF Keys
  <2> QED BY <1>6, <2>1, PruneEffect DEF AgesFit
<1>7. CASE Publish
  <2>1. DOMAIN built.pods = DOMAIN list /\ DOMAIN samples = Keys(list)
    BY <1>7, PublishEffect DEF IInv, Complete
  <2>2. \A k \in DOMAIN samples : samples[k].age = 0
    BY <1>7, <2>1, PublishEffect, KeyInList DEF AgesFit
  <2>3. Waited' = 0
    BY <1>7, PublishEffect DEF Waited
  <2> QED BY <1>7, <2>2, <2>3, PublishEffect DEF AgesFit
<1>8. CASE UNCHANGED vars
  BY <1>1, <1>8 DEF vars, Waited, AgesFit
<1> QED BY <1>2, <1>3, <1>4, <1>5, <1>6, <1>7, <1>8 DEF Next

-----------------------------------------------------------------------------
(* The claim. *)
LEMMA LateClaimIsFlagged ==
    ASSUME NEW age \in Nat, age > Grace
    PROVE  Flagged({PVC("Pending", age, Grace)})
<1>1. PVC("Pending", age, Grace) = Result(Unhealthy, 0, {<<"Pending beyond grace">>})
  BY DEF PVC
<1>2. \A why : Result(Unhealthy, 0, why).state = Unhealthy
  BY DEF Result
<1>3. PVC("Pending", age, Grace).state = Unhealthy
  BY ONLY <1>1, <1>2, Zenon
<1> QED BY <1>3 DEF Flagged

LEMMA StepClaim == CachesTyped /\ ClaimIsShown /\ [Next]_vars => ClaimIsShown'
<1> SUFFICES ASSUME CachesTyped, ClaimIsShown, [Next]_vars, claim'.phase = "Pending"
             PROVE  /\ pc' = "idle" => Flagged(shown'.claim) \/ claim'.age <= Grace + Waited'
                    /\ pc' # "idle" => /\ Flagged(shown'.claim) \/ claim'.age <= Grace + Resync
                                       /\ Flagged(built'.claim) \/ claim'.age <= Grace
  BY DEF ClaimIsShown, Flagged
<1> USE BoundsAreNumbers
<1>1. /\ claim.age \in 0..(Overdue + 1) /\ sinceSync \in 0..Resync /\ Waited \in 0..Resync
  BY WaitedIsBounded DEF CachesTyped
<1>2. CASE CachesChange
  <2>1. UNCHANGED <<pc, built, shown, fresh>>
    BY <1>2, CachesChangeEffect
  <2>2. CASE claim' = claim
    <3>1. due'
      <4>1. CASE ResyncCaches
        BY <2>2, <4>1 DEF ResyncCaches
      <4>2. CASE Stored
        BY <4>2 DEF Stored
      <4> QED BY <1>2, <4>1, <4>2 DEF CachesChange, Appears, Runs, Vanishes, Restarts, ClaimChanges
    <3>2. Waited' >= Waited
      BY <1>1, <2>1, <3>1 DEF Waited
    <3>3. Waited' \in Nat
      BY <2>1, <3>1 DEF Waited
    <3> QED BY <1>1, <2>1, <2>2, <3>2, <3>3 DEF ClaimIsShown
  <2>3. CASE claim' # claim
    <3>1. ClaimChanges
      BY <1>2, <2>3 DEF CachesChange, Appears, Runs, Vanishes, Restarts, ResyncCaches, cacheVars
    <3>2. claim'.age = 0 /\ due' = TRUE
      BY <3>1 DEF ClaimChanges, Stored
    <3>3. 0 <= Grace + Waited' /\ 0 <= Grace + Resync /\ 0 <= Grace
      BY <2>1, <3>2 DEF Waited
    <3> QED BY <3>2, <3>3
  <2> QED BY <2>2, <2>3
<1>3. CASE Tick
  <2>1. /\ pc = "idle" /\ (due => fresh) /\ fresh' = FALSE /\ sinceSync' = sinceSync + 1
        /\ sinceSync < Resync /\ UNCHANGED <<pc, due, shown>>
        /\ claim' = IF claim.phase = "Pending" THEN [claim EXCEPT !.age = Older(@, Overdue + 1)] ELSE claim
    BY <1>3 DEF Tick
  <2>2. claim.phase = "Pending" /\ claim'.age <= claim.age + 1 /\ claim'.age \in Nat
    BY <1>1, <2>1 DEF Older, Lesser, CachesTyped
  <2>3. Waited' >= Waited + 1 /\ Waited' \in Nat
    BY <1>1, <2>1 DEF Waited
  <2> QED BY <1>1, <2>1, <2>2, <2>3 DEF ClaimIsShown
<1>4. CASE StartBuild
  <2>1. /\ pc = "idle" /\ pc' = "pods" /\ claim' = claim /\ shown' = shown
        /\ built'.claim = {PVC("Pending", claim.age, Grace)}
    BY <1>4, StartBuildEffect
  <2>2. Flagged(built'.claim) \/ claim.age <= Grace
    BY <1>1, <2>1, LateClaimIsFlagged
  <2> QED BY <1>1, <2>1, <2>2 DEF ClaimIsShown
<1>5. ASSUME UNCHANGED <<claim, shown>>, built'.claim = built.claim, pc # "idle", pc' # "idle"
      PROVE  /\ Flagged(shown'.claim) \/ claim'.age <= Grace + Resync
             /\ Flagged(built'.claim) \/ claim'.age <= Grace
  BY <1>5 DEF ClaimIsShown
<1>6. ASSUME NEW p \in Pods, Observe(p) PROVE pc # "idle" /\ pc' # "idle"
      /\ UNCHANGED <<claim, shown>> /\ built'.claim = built.claim
  BY <1>6, ObserveEffect
<1>7. CASE Prune
  BY <1>5, <1>7, PruneEffect
<1>8. CASE Publish
  <2>1. /\ pc = "publish" /\ pc' = "idle" /\ claim' = claim /\ shown'.claim = built.claim
        /\ fresh' = TRUE
    BY <1>8, PublishEffect
  <2>2. Waited' = 0
    BY <2>1 DEF Waited
  <2> QED BY <1>1, <2>1, <2>2 DEF ClaimIsShown
<1>9. CASE UNCHANGED vars
  BY <1>9 DEF vars, ClaimIsShown, Waited
<1> QED BY <1>2, <1>3, <1>4, <1>5, <1>6, <1>7, <1>8, <1>9 DEF Next

-----------------------------------------------------------------------------
(* A pod that is calm. *)
LEMMA StepCalm ==
    IInv /\ CachesTyped /\ TrackerTyped /\ AgesFit /\ CalmIsFollowed /\ [Next]_vars => CalmIsFollowed'
<1> SUFFICES ASSUME IInv, CachesTyped, TrackerTyped, AgesFit, CalmIsFollowed, [Next]_vars,
                    NEW p \in DOMAIN live'
             PROVE  /\ pc' = "idle" /\ (~due' \/ (fresh' /\ calm'[p] >= 1) \/ calm'[p] >= 2) => Follows(p)'
                    /\ pc' # "idle" /\ (~due' \/ calm'[p] >= 1) => ListFollows(p)'
                    /\ pc' # "idle" /\ calm'[p] >= 2 => Follows(p)'
  BY DEF CalmIsFollowed
<1> DEFINE Shown == /\ pc' = "idle" /\ (~due' \/ (fresh' /\ calm'[p] >= 1) \/ calm'[p] >= 2) => Follows(p)'
                    /\ pc' # "idle" /\ (~due' \/ calm'[p] >= 1) => ListFollows(p)'
                    /\ pc' # "idle" /\ calm'[p] >= 2 => Follows(p)'
<1> SUFFICES Shown
  OBVIOUS
<1>1. ASSUME p \in DOMAIN live, live'[p] = live[p], calm'[p] = calm[p],
             due => due', UNCHANGED <<samples, pc, list, fresh>>
      PROVE  Shown
  BY <1>1 DEF CalmIsFollowed, Follows, ListFollows
<1>2. ASSUME due' = TRUE, calm'[p] = 0 PROVE Shown
  BY <1>2
<1>3. CASE CachesChange
  <2>1. UNCHANGED <<samples, pc, list, fresh>>
    BY <1>3, CachesChangeEffect
  <2>2. ASSUME NEW q \in Pods, Appears(q) PROVE Shown
    <3>1. CASE p = q
      BY <1>2, <2>2, <3>1 DEF Appears, Stored, CachesTyped
    <3>2. CASE p # q
      BY <1>1, <2>1, <2>2, <3>2 DEF Appears, Stored, CachesTyped, Set
    <3> QED BY <3>1, <3>2
  <2>3. ASSUME NEW q \in Pods, Vanishes(q) PROVE Shown
    BY <1>1, <2>1, <2>3 DEF Vanishes, Stored, CachesTyped
  <2>4. ASSUME NEW q \in Pods, NEW c \in Containers, Restarts(q, c) PROVE Shown
    <3>1. CASE p = q
      BY <1>2, <2>4, <3>1 DEF Restarts, Stored, CachesTyped
    <3>2. CASE p # q
      BY <1>1, <2>1, <2>4, <3>2, RestartKeepsTable DEF Restarts, Stored, CachesTyped
    <3> QED BY <3>1, <3>2
  <2>5. ASSUME NEW q \in Pods, Runs(q) PROVE Shown
    <3>1. CASE p # q
      BY <1>1, <2>1, <2>5, <3>1 DEF Runs, Stored, Set
    <3>2. CASE p = q
      <4>1. /\ q \in DOMAIN live /\ live[q].phase = "Pending" /\ due' = TRUE /\ calm' = calm
        BY <2>5 DEF Runs, Stored
      <4>2. live[q].containers = None
        BY <4>1 DEF CachesTyped, PodTable, PodRecord
      <4>3. DOMAIN live[q].containers = {}
        BY <4>2 DEF None
      <4>4. Follows(q) => \A k \in DOMAIN samples : k[1] # q
        BY <4>3 DEF Follows
      <4>5. ListFollows(q) => q \in DOMAIN list /\ DOMAIN list[q].containers = {}
        BY <4>3 DEF ListFollows
      <4>6. (\A k \in DOMAIN samples : k[1] # q) => Follows(q)'
        BY <2>1 DEF Follows
      <4>7. (q \in DOMAIN list /\ DOMAIN list[q].containers = {}) => ListFollows(q)'
        BY <2>1 DEF ListFollows
      <4> QED BY <2>1, <3>2, <4>1, <4>4, <4>5, <4>6, <4>7 DEF CalmIsFollowed
    <3> QED BY <3>1, <3>2
  <2>6. CASE ClaimChanges
    BY <1>1, <2>1, <2>6 DEF ClaimChanges, Stored
  <2>7. CASE ResyncCaches
    BY <1>1, <2>1, <2>7 DEF ResyncCaches, cacheVars
  <2> HIDE DEF Shown
  <2> QED BY <1>3, <2>2, <2>3, <2>4, <2>5, <2>6, <2>7 DEF CachesChange
<1>4. CASE Tick
  <2>1. /\ pc = "idle" /\ pc' = "idle" /\ (due => fresh) /\ due' = due /\ fresh' = FALSE
        /\ live' = live /\ DOMAIN samples' = DOMAIN samples
        /\ \A k \in DOMAIN samples :
              samples'[k].age = samples[k].age + 1 /\ samples'[k].count = samples[k].count
    BY <1>4, TickEffect
  <2>2. p \in Pods /\ calm[p] \in 0..(Fading + 1) /\ calm'[p] = Older(calm[p], Fading + 1)
    BY <1>4, <2>1 DEF Tick, CachesTyped, PodTable
  <2>3. /\ calm'[p] \in Nat /\ calm'[p] <= calm[p] + 1
        /\ \A a \in Nat : a <= calm[p] /\ a < Resync => a + 1 <= calm'[p]
    BY <2>2, BoundsAreNumbers DEF Older, Lesser
  <2>4. Follows(p) => Follows(p)'
    <3> SUFFICES ASSUME Follows(p), NEW k \in DOMAIN samples, k[1] = p
                 PROVE  /\ k[2] \in DOMAIN live[p].containers
                        /\ samples'[k].count = live[p].containers[k[2]].restarts
                        /\ samples'[k].age <= calm'[p]
      BY <2>1 DEF Follows
    <3>1. samples[k].age \in Nat /\ samples[k].age < Resync
      BY <1>4, TickEffect, AgeIsBounded
    <3> QED BY <2>1, <2>3, <3>1 DEF Follows
  <2>5. ~due' \/ (fresh' /\ calm'[p] >= 1) \/ calm'[p] >= 2 => Follows(p)
    BY <2>1, <2>2, <2>3, BoundsAreNumbers DEF CalmIsFollowed
  <2> QED BY <2>1, <2>4, <2>5
<1>5. CASE StartBuild
  <2>1. /\ pc = "idle" /\ pc' = "pods" /\ list' = live
        /\ UNCHANGED <<live, samples, fresh, calm>>
    BY <1>5, StartBuildEffect
  <2>2. ListFollows(p)'
    BY <2>1 DEF ListFollows
  <2>3. Follows(p) => Follows(p)'
    BY <2>1 DEF Follows
  <2> QED BY <2>1, <2>2, <2>3 DEF CalmIsFollowed
<1>6. ASSUME NEW q \in Pods, Observe(q) PROVE Shown
  <2> DEFINE C == DOMAIN list[q].containers
  <2>1. pc = "pods" /\ q \in DOMAIN list /\ UNCHANGED <<live, pc, list, due, calm>>
    BY <1>6, ObserveEffect
  <2>2. /\ DOMAIN samples' = DOMAIN samples \cup {<<q, c>> : c \in C}
        /\ \A k \in DOMAIN samples : k[1] # q \/ k[2] \notin C => samples'[k] = samples[k]
    BY <1>6, ObserveSamples
  <2>3. \A c \in C : samples'[<<q, c>>] =
                 [count |-> list[q].containers[c].restarts, age |-> 0,
                  rate |-> observe(<<q, c>>, list[q].containers[c].restarts)]
    BY <1>6, ObserveSamples, Zenon
  <2>4. \A c \in C : samples'[<<q, c>>].count = list[q].containers[c].restarts
                     /\ samples'[<<q, c>>].age = 0
    <3> TAKE c \in C
    <3> DEFINE n == list[q].containers[c].restarts
               v == observe(<<q, c>>, list[q].containers[c].restarts)
    <3>1. samples'[<<q, c>>] = [count |-> n, age |-> 0, rate |-> v]
      BY <2>3, Zenon
    <3> HIDE DEF n, v
    <3>2. samples'[<<q, c>>].count = n /\ samples'[<<q, c>>].age = 0
      BY <3>1
    <3> QED BY <3>2 DEF n
  <2>5. ASSUME calm[p] >= 2 PROVE Follows(p)'
    <3>1. Follows(p) /\ ListFollows(p) /\ calm[p] >= 0
      <4>1. calm[p] \in 0..(Fading + 1) /\ p \in DOMAIN live
        BY <2>1 DEF CachesTyped, PodTable
      <4>2. calm[p] >= 1 /\ calm[p] >= 0
        BY <2>5, <4>1, BoundsAreNumbers
      <4> QED BY <2>1, <2>5, <4>1, <4>2 DEF CalmIsFollowed
    <3> SUFFICES ASSUME NEW k \in DOMAIN samples', k[1] = p
                 PROVE  /\ k[2] \in DOMAIN live[p].containers
                        /\ samples'[k].count = live[p].containers[k[2]].restarts
                        /\ samples'[k].age <= calm[p]
      BY <2>1 DEF Follows
    <3>2. CASE k \in DOMAIN samples /\ (k[1] # q \/ k[2] \notin C)
      BY <2>2, <3>1, <3>2 DEF Follows
    <3>3. CASE ~(k \in DOMAIN samples /\ (k[1] # q \/ k[2] \notin C))
      <4>1. PICK c \in C : k = <<q, c>>
        BY <2>2, <3>3 DEF TrackerTyped
      <4>2. k[1] = q /\ k[2] = c /\ q = p
        BY <4>1
      <4> QED BY <2>4, <3>1, <4>1, <4>2 DEF ListFollows
    <3> QED BY <3>2, <3>3
  <2>6. ListFollows(p)' <=> ListFollows(p)
    BY <2>1 DEF ListFollows
  <2> QED BY <2>1, <2>5, <2>6 DEF CalmIsFollowed
<1>7. CASE Prune
  <2>1. Follows(p) => Follows(p)'
    BY <1>7, PruneEffect DEF Follows
  <2>2. ListFollows(p)' <=> ListFollows(p)
    BY <1>7, PruneEffect DEF ListFollows
  <2> QED BY <1>7, <2>1, <2>2, PruneEffect DEF CalmIsFollowed
<1>8. CASE Publish
  <2>1. /\ pc = "publish" /\ pc' = "idle" /\ UNCHANGED <<live, samples, due, calm>>
    BY <1>8, PublishEffect
  <2>2. DOMAIN built.pods = DOMAIN list /\ DOMAIN samples = Keys(list)
    BY <2>1 DEF IInv, Complete
  <2>3. calm[p] \in Nat
    BY <2>1, BoundsAreNumbers DEF CachesTyped, PodTable
  <2>4. ListFollows(p) => Follows(p)'
    <3> SUFFICES ASSUME ListFollows(p), NEW k \in DOMAIN samples, k[1] = p
                 PROVE  /\ k[2] \in DOMAIN live[p].containers
                        /\ samples[k].count = live[p].containers[k[2]].restarts
                        /\ samples[k].age <= calm[p]
      BY <2>1 DEF Follows
    <3>1. k[1] \in DOMAIN list /\ k[2] \in DOMAIN list[p].containers
      BY <2>2, KeyInList
    <3>2. samples[k].age = 0 /\ samples[k].count = list[p].containers[k[2]].restarts
      BY <2>1, <2>2, <3>1 DEF AgesFit
    <3> QED BY <2>3, <3>1, <3>2 DEF ListFollows
  <2> QED BY <2>1, <2>3, <2>4 DEF CalmIsFollowed
<1>9. CASE UNCHANGED vars
  BY <1>1, <1>9 DEF vars
<1> HIDE DEF Shown
<1> QED BY <1>3, <1>4, <1>5, <1>6, <1>7, <1>8, <1>9 DEF Next

-----------------------------------------------------------------------------
(* Rates. *)
LEMMA ProductGrows == \A a, b, c \in Nat : a <= b => a * c <= b * c
<1> SUFFICES ASSUME NEW a \in Nat, NEW b \in Nat, NEW c \in Nat, a <= b PROVE a * c <= b * c
  OBVIOUS
<1>1. b * c = a * c + (b - a) * c /\ b - a \in Nat
  OBVIOUS
<1>2. \A x, y \in Nat : x * y \in Nat
  OBVIOUS
<1>3. a * c \in Nat /\ (b - a) * c \in Nat
  BY <1>1, <1>2
<1> QED BY <1>1, <1>3

LEMMA HalvedAgain ==
    ASSUME NEW rate \in 0..Most, NEW a \in Nat, NEW n \in Nat, a >= 1, a <= n,
           n - a >= 1 => rate * TwoTo[n - a - 1] <= Most,
           NEW r, r = rate \div TwoTo[a]
    PROVE  r \in Nat /\ r <= rate /\ r * TwoTo[n - 1] <= Most
<1>1. Most \in Nat /\ rate \in Nat /\ rate <= Most
  BY BoundsAreNumbers
<1>2. TwoTo[a] \in Nat /\ TwoTo[a] >= 1
  BY TwoToType
<1>3. r \in Nat /\ r <= rate /\ r * TwoTo[a] <= rate
  BY <1>1, <1>2, Quotient
<1>4. CASE n - a >= 1
  <2> DEFINE b == n - a - 1
  <2>1. b \in Nat /\ n - 1 = a + b
    BY <1>4
  <2>2. TwoTo[b] \in Nat
    BY <2>1, TwoToType
  <2>3. TwoTo[n - 1] = TwoTo[a] * TwoTo[b]
    BY <2>1, TwoToAdds
  <2>4. rate * TwoTo[b] <= Most
    BY <1>4
  <2> HIDE DEF b
  <2>5. \A x, y, z \in Nat : x * (y * z) = (x * y) * z /\ x * y \in Nat
    OBVIOUS
  <2>6. r * TwoTo[n - 1] = (r * TwoTo[a]) * TwoTo[b] /\ r * TwoTo[a] \in Nat
    BY <1>2, <1>3, <2>2, <2>3, <2>5
  <2>7. (r * TwoTo[a]) * TwoTo[b] <= rate * TwoTo[b]
    BY <1>1, <1>3, <2>2, <2>6, ProductGrows
  <2>8. (r * TwoTo[a]) * TwoTo[b] \in Nat /\ rate * TwoTo[b] \in Nat
    BY <1>1, <2>2, <2>5, <2>6
  <2> QED BY <1>1, <1>3, <2>4, <2>6, <2>7, <2>8
<1>5. CASE n - a < 1
  <2>1. n = a /\ n - 1 \in Nat /\ n - 1 <= a
    BY <1>5
  <2>2. TwoTo[n - 1] \in Nat /\ TwoTo[n - 1] <= TwoTo[a]
    BY <2>1, TwoToType, TwoToGrows
  <2>3. TwoTo[n - 1] * r <= TwoTo[a] * r
    BY <1>2, <1>3, <2>2, ProductGrows
  <2>4. \A x, y \in Nat : x * y = y * x /\ x * y \in Nat
    OBVIOUS
  <2>5. r * TwoTo[n - 1] <= r * TwoTo[a] /\ r * TwoTo[n - 1] \in Nat /\ r * TwoTo[a] \in Nat
    BY <1>2, <1>3, <2>2, <2>3, <2>4
  <2> QED BY <1>1, <1>3, <2>5
<1> QED BY <1>4, <1>5

LEMMA LateRateIsSmall ==
    ASSUME NEW r \in Nat, NEW n \in Nat, n > Halvings, r * TwoTo[n - 1] <= Most
    PROVE  r < 5
<1>1. Halvings \in Nat /\ Most \in Nat /\ Most \div TwoTo[Halvings] < 5
  BY HalvingsSuffice, BoundsAreNumbers
<1>2. n - 1 \in Nat /\ Halvings <= n - 1
  BY <1>1
<1>3. /\ TwoTo[Halvings] \in Nat /\ TwoTo[Halvings] >= 1 /\ TwoTo[n - 1] \in Nat
      /\ TwoTo[Halvings] <= TwoTo[n - 1]
  BY <1>1, <1>2, TwoToType, TwoToGrows
<1>4. TwoTo[Halvings] * r <= TwoTo[n - 1] * r
  BY <1>3, ProductGrows
<1>5. \A x, y \in Nat : x * y = y * x /\ x * y \in Nat
  OBVIOUS
<1>6. r * TwoTo[Halvings] <= Most
  BY <1>1, <1>3, <1>4, <1>5
<1>7. r <= Most \div TwoTo[Halvings]
  BY <1>1, <1>3, <1>6, QuotientIsLargest
<1>8. Most \div TwoTo[Halvings] \in Nat
  BY <1>1, <1>3, Quotient
<1> QED BY <1>1, <1>7, <1>8

LEMMA ObserveCalm ==
    ASSUME CachesTyped, TrackerTyped, AgesFit, CalmIsFollowed, Decays, pc = "pods",
           NEW p \in DOMAIN list, p \in DOMAIN live, NEW c \in DOMAIN list[p].containers
    PROVE  Decayed(observe(<<p, c>>, list[p].containers[c].restarts), calm[p])
<1> DEFINE k == <<p, c>>
           count == list[p].containers[c].restarts
           v == observe(k, count)
           n == calm[p]
<1>1. n \in Nat /\ p \in Pods /\ Halvings \in Nat /\ Most \in Nat
  BY BoundsAreNumbers DEF CachesTyped, PodTable
<1>2. count \in 0..MaxRestarts
  BY ListedPod DEF CachesTyped
<1>3. v \in 0..Most
  BY <1>2, ObserveRate
<1> SUFFICES Decayed(v, n)
  OBVIOUS
<1>4. CASE n < 1
  BY <1>1, <1>4 DEF Decayed
<1>5. CASE n = 1
  <2>1. v * TwoTo[n - 1] = v
    BY <1>3, <1>5, TwoToEquation, BoundsAreNumbers
  <2>2. n > Halvings => v < 5
    BY <1>1, <1>3, <2>1, LateRateIsSmall
  <2>3. n > Halvings => Most = 0
    BY <1>1, <1>5, TwoToEquation, HalvingsSuffice, RestartsAssumption DEF Most
  <2> QED BY <1>1, <1>3, <2>1, <2>3 DEF Decayed
<1>6. CASE n >= 2
  <2>1. Follows(p) /\ ListFollows(p)
    BY <1>1, <1>6 DEF CalmIsFollowed
  <2>2. CASE k \notin DOMAIN samples
    <3>1. v = 0
      BY <2>2 DEF observe
    <3>2. TwoTo[n - 1] \in Nat
      BY <1>1, <1>6, TwoToType
    <3> QED BY <1>1, <3>1, <3>2 DEF Decayed
  <2>3. CASE k \in DOMAIN samples
    <3> DEFINE prev == samples[k]
               r == prev.rate \div TwoTo[prev.age]
    <3>1. k[1] = p /\ k[2] = c
      OBVIOUS
    <3>2. prev.count = count /\ prev.age <= n
      BY <2>1, <2>3, <3>1 DEF Follows, ListFollows
    <3>3. prev.age \in Nat /\ prev.rate \in 0..Most /\ prev.count \in Nat
      BY <2>3, RestartsAssumption DEF TrackerTyped, Sample
    <3>4. Decayed(prev.rate, n - prev.age)
      BY <2>3, <3>1 DEF Decays, Decayed
    <3>5. v = IF prev.age > 0 THEN (IF r < 5 THEN 0 ELSE r) ELSE prev.rate
      <4>1. v = (IF count > prev.count /\ prev.age > 0 THEN (100 * (count - prev.count)) \div prev.age
                 ELSE IF count < prev.count THEN 0
                 ELSE IF prev.age > 0 THEN (IF r < 5 THEN 0 ELSE r)
                 ELSE prev.rate)
        BY <2>3, Zenon DEF observe
      <4> HIDE DEF v, prev, r, count
      <4> QED BY <3>2, <3>3, <4>1
    <3> HIDE DEF v, prev, r, count, n, k
    <3>6. CASE prev.age > 0
      <4>1. n - prev.age >= 1 => prev.rate * TwoTo[n - prev.age - 1] <= Most
        BY <3>4 DEF Decayed
      <4>2. r \in Nat /\ r <= prev.rate /\ r * TwoTo[n - 1] <= Most
        BY <1>1, <3>2, <3>3, <3>6, <4>1, HalvedAgain DEF r
      <4>3. n > Halvings => r < 5
        BY <1>1, <4>2, LateRateIsSmall
      <4>4. CASE r < 5
        <5>1. v = 0 /\ TwoTo[n - 1] \in Nat
          BY <1>1, <1>6, <3>5, <3>6, <4>4, TwoToType
        <5> QED BY <1>1, <5>1 DEF Decayed
      <4>5. CASE ~(r < 5)
        BY <3>5, <3>6, <4>2, <4>3, <4>5 DEF Decayed
      <4> QED BY <4>4, <4>5
    <3>7. CASE ~(prev.age > 0)
      <4>1. prev.age = 0 /\ n - 0 = n
        BY <1>1, <3>3, <3>7
      <4> QED BY <3>4, <3>5, <3>7, <4>1
    <3> QED BY <3>6, <3>7
  <2> QED BY <2>2, <2>3
<1> QED BY <1>1, <1>4, <1>5, <1>6

LEMMA DecayedEarlier ==
    ASSUME NEW rate \in 0..Most, NEW b \in Int, NEW d \in Int, d <= b, Decayed(rate, b)
    PROVE  Decayed(rate, d)
<1> SUFFICES ASSUME d >= 1 PROVE rate * TwoTo[d - 1] <= Most /\ (d > Halvings => rate = 0)
  BY DEF Decayed
<1>1. Most \in Nat /\ Halvings \in Nat
  BY BoundsAreNumbers
<1>2. b >= 1 /\ d - 1 \in Nat /\ b - 1 \in Nat /\ d - 1 <= b - 1
  OBVIOUS
<1>3. rate * TwoTo[b - 1] <= Most /\ (b > Halvings => rate = 0)
  BY <1>2 DEF Decayed
<1>4. TwoTo[d - 1] \in Nat /\ TwoTo[b - 1] \in Nat /\ TwoTo[d - 1] <= TwoTo[b - 1]
  BY <1>2, TwoToType, TwoToGrows
<1>5. TwoTo[d - 1] * rate <= TwoTo[b - 1] * rate
  BY <1>1, <1>4, ProductGrows
<1>6. \A x, y \in Nat : x * y = y * x /\ x * y \in Nat
  OBVIOUS
<1>7. rate * TwoTo[d - 1] = TwoTo[d - 1] * rate /\ rate * TwoTo[d - 1] \in Nat
      /\ rate * TwoTo[b - 1] = TwoTo[b - 1] * rate /\ rate * TwoTo[b - 1] \in Nat
  BY <1>1, <1>4, <1>6
<1>8. rate * TwoTo[d - 1] <= Most
  BY <1>1, <1>3, <1>5, <1>7
<1> QED BY <1>1, <1>3, <1>8

LEMMA StepDecays ==
    /\ CachesTyped /\ TrackerTyped /\ AgesFit /\ CalmIsFollowed /\ Decays
    /\ [Next]_vars
    => Decays'
<1> SUFFICES ASSUME CachesTyped, TrackerTyped, AgesFit, CalmIsFollowed, Decays, [Next]_vars,
                    NEW k \in DOMAIN samples', k[1] \in DOMAIN live'
             PROVE  Decayed(samples'[k].rate, calm'[k[1]] - samples'[k].age)
  BY DEF Decays, Decayed
<1>1. ASSUME k \in DOMAIN samples, k[1] \in DOMAIN live, samples'[k] = samples[k],
             calm'[k[1]] = calm[k[1]]
      PROVE  Decayed(samples'[k].rate, calm'[k[1]] - samples'[k].age)
  BY <1>1 DEF Decays, Decayed
<1>2. ASSUME k \in DOMAIN samples, samples'[k] = samples[k], calm'[k[1]] = 0
      PROVE  Decayed(samples'[k].rate, calm'[k[1]] - samples'[k].age)
  <2>1. samples[k].age \in 0..Resync
    BY <1>2, AgeIsBounded
  <2> QED BY <1>2, <2>1, BoundsAreNumbers DEF Decayed
<1>3. CASE CachesChange
  <2>1. samples' = samples
    BY <1>3, CachesChangeEffect
  <2>2. (k[1] \in DOMAIN live /\ calm'[k[1]] = calm[k[1]]) \/ calm'[k[1]] = 0
    <3>1. ASSUME NEW q \in Pods, Appears(q) PROVE (k[1] \in DOMAIN live /\ calm'[k[1]] = calm[k[1]]) \/ calm'[k[1]] = 0
      BY <3>1 DEF Appears, CachesTyped, Set
    <3>2. ASSUME NEW q \in Pods, Runs(q) PROVE k[1] \in DOMAIN live /\ calm' = calm
      BY <3>2 DEF Runs, Set
    <3>3. ASSUME NEW q \in Pods, Vanishes(q) PROVE (k[1] \in DOMAIN live /\ calm'[k[1]] = calm[k[1]]) \/ calm'[k[1]] = 0
      BY <3>3 DEF Vanishes, CachesTyped
    <3>4. ASSUME NEW q \in Pods, NEW c \in Containers, Restarts(q, c)
          PROVE  (k[1] \in DOMAIN live /\ calm'[k[1]] = calm[k[1]]) \/ calm'[k[1]] = 0
      BY <3>4, RestartKeepsTable DEF Restarts, CachesTyped
    <3>5. CASE ClaimChanges \/ ResyncCaches
      BY <3>5 DEF ClaimChanges, ResyncCaches, cacheVars
    <3> QED BY <1>3, <3>1, <3>2, <3>3, <3>4, <3>5 DEF CachesChange
  <2> QED BY <1>1, <1>2, <2>1, <2>2
<1>4. CASE Tick
  <2> DEFINE p == k[1]
  <2>1. /\ k \in DOMAIN samples /\ samples'[k].age = samples[k].age + 1
        /\ samples'[k].rate = samples[k].rate /\ live' = live
    BY <1>4, TickEffect
  <2>2. p \in Pods /\ calm[p] \in 0..(Fading + 1) /\ calm'[p] = Older(calm[p], Fading + 1)
    BY <1>4, <2>1 DEF Tick, CachesTyped, PodTable
  <2>3. samples[k].age \in 0..Resync /\ samples[k].rate \in 0..Most
    BY <2>1 DEF TrackerTyped, Sample
  <2>4. Decayed(samples[k].rate, calm[p] - samples[k].age)
    BY <2>1 DEF Decays, Decayed
  <2>5. /\ calm[p] - samples[k].age \in Int /\ calm'[p] - samples'[k].age \in Int
        /\ calm'[p] - samples'[k].age <= calm[p] - samples[k].age
    <3>1. calm'[p] \in Nat /\ calm'[p] <= calm[p] + 1
      BY <2>2, BoundsAreNumbers DEF Older, Lesser
    <3> HIDE DEF p
    <3> QED BY <2>1, <2>2, <2>3, <3>1, BoundsAreNumbers
  <2> QED BY <2>1, <2>3, <2>4, <2>5, DecayedEarlier
<1>5. CASE StartBuild \/ Publish \/ UNCHANGED vars
  BY <1>1, <1>5, StartBuildEffect, PublishEffect DEF vars
<1>6. ASSUME NEW q \in Pods, Observe(q)
      PROVE  Decayed(samples'[k].rate, calm'[k[1]] - samples'[k].age)
  <2> DEFINE C == DOMAIN list[q].containers
  <2>1. pc = "pods" /\ q \in DOMAIN list /\ UNCHANGED <<live, calm>>
    BY <1>6, ObserveEffect
  <2>2. /\ DOMAIN samples' = DOMAIN samples \cup {<<q, c>> : c \in C}
        /\ \A j \in DOMAIN samples : j[1] # q \/ j[2] \notin C => samples'[j] = samples[j]
    BY <1>6, ObserveSamples
  <2>3. CASE k \in DOMAIN samples /\ (k[1] # q \/ k[2] \notin C)
    BY <1>1, <2>1, <2>2, <2>3
  <2>4. CASE ~(k \in DOMAIN samples /\ (k[1] # q \/ k[2] \notin C))
    <3>1. PICK c \in C : k = <<q, c>>
      BY <2>2, <2>4 DEF TrackerTyped
    <3> DEFINE n == list[q].containers[c].restarts
               v == observe(<<q, c>>, list[q].containers[c].restarts)
    <3>2. samples'[<<q, c>>] = [count |-> n, age |-> 0, rate |-> v]
      <4>1. \A d \in C : samples'[<<q, d>>] =
                 [count |-> list[q].containers[d].restarts, age |-> 0,
                  rate |-> observe(<<q, d>>, list[q].containers[d].restarts)]
        BY <1>6, ObserveSamples, Zenon
      <4> QED BY <4>1, Zenon
    <3>3. k[1] = q
      BY <3>1
    <3>4. Decayed(v, calm[q])
      BY <2>1, <3>1, <3>3, ObserveCalm
    <3>5. calm[q] \in Nat
      BY <2>1, <3>3, BoundsAreNumbers DEF CachesTyped, PodTable
    <3> HIDE DEF n, v
    <3>6. samples'[k].rate = v /\ samples'[k].age = 0 /\ calm[q] - 0 = calm[q]
      BY <3>1, <3>2, <3>5
    <3> QED BY <2>1, <3>3, <3>4, <3>6
  <2> QED BY <2>3, <2>4
<1>7. CASE Prune
  BY <1>1, <1>7, PruneEffect
<1> QED BY <1>3, <1>4, <1>5, <1>6, <1>7 DEF Next

-----------------------------------------------------------------------------
LEMMA StepTInv == IInv /\ TInv /\ [Next]_vars => TInv'
BY StepCaches, StepTracker, StepRates, StepAges, StepCalm, StepDecays, StepClaim DEF TInv

LEMMA TimeInvariant == Spec => [](IInv /\ TInv)
<1>1. Init => IInv /\ TInv
  BY InitIInv, InitTInv
<1>2. IInv /\ TInv /\ [Next]_vars => (IInv /\ TInv)'
  BY StepIInv, StepTInv
<1> QED BY <1>1, <1>2, PTL DEF Spec

(* The tables are about the pods and containers there are, no rate exceeds
   what the counts can give, and no sample grows older than a resync. *)
THEOREM RestartsTypeCorrect == Spec => []TypeOK
<1>1. TInv => TypeOK
  <2> SUFFICES ASSUME TInv PROVE TypeOK
    OBVIOUS
  <2>1. \A p \in DOMAIN live : DOMAIN live[p].containers \in {{}, Containers}
    BY ListedPod DEF TInv, CachesTyped
  <2>2. ASSUME NEW k \in DOMAIN samples
        PROVE  /\ samples[k].count \in 0..MaxRestarts /\ samples[k].age \in 0..Resync
               /\ samples[k].rate \in 0..(100 * MaxRestarts)
    BY DEF TInv, TrackerTyped, Sample, Most
  <2> QED BY <2>1, <2>2 DEF TInv, TypeOK, CachesTyped, TrackerTyped, PodTable
<1> QED BY <1>1, TimeInvariant, PTL

(* No pod is said to restart unless one of its present containers did: a rate
   does not outlive the pod it was measured of. *)
THEOREM NoRateIsInvented == Spec => []NoInventedRate
<1>1. IInv /\ TInv => NoInventedRate
  <2> SUFFICES ASSUME IInv, TInv, Settled, NEW p \in DOMAIN live, PodRate(p) > 0
               PROVE  \E c \in DOMAIN live[p].containers : live[p].containers[c].restarts > 0
    BY DEF NoInventedRate
  <2>1. p \in DOMAIN podRates /\ podRates[p] # 0 /\ podRates[p] > 0
    BY DEF PodRate
  <2>2. PICK c \in Containers : <<p, c>> \in DOMAIN samples /\ samples[<<p, c>>].rate = podRates[p]
    BY <2>1 DEF TInv, RateIsSampled
  <2>3. samples[<<p, c>>].count > 0
    BY <2>1, <2>2 DEF TInv, TrackerTyped
  <2>4. Follows(p)
    BY DEF TInv, CalmIsFollowed, Settled
  <2>5. c \in DOMAIN live[p].containers /\ samples[<<p, c>>].count = live[p].containers[c].restarts
    BY <2>2, <2>4 DEF Follows
  <2> QED BY <2>3, <2>5
<1> QED BY <1>1, TimeInvariant, PTL

(* A pod that has been calm for as many ticks as the greatest rate can be
   halved, and a resync more, has no rate: whether a build runs or not. *)
THEOREM RatesFadeAway == Spec => []RatesFade
<1>1. TInv => RatesFade
  <2> SUFFICES ASSUME TInv, NEW p \in DOMAIN live, calm[p] > Fading, PodRate(p) # 0
               PROVE  FALSE
    BY DEF RatesFade
  <2>1. p \in DOMAIN podRates /\ podRates[p] # 0
    BY DEF PodRate
  <2>2. PICK c \in Containers : <<p, c>> \in DOMAIN samples /\ samples[<<p, c>>].rate = podRates[p]
    BY <2>1 DEF TInv, RateIsSampled
  <2> DEFINE k == <<p, c>>
             b == calm[p] - samples[k].age
  <2>3. samples[k].age \in 0..Resync
    BY <2>2, AgeIsBounded DEF TInv
  <2>4. calm[p] \in Nat
    BY BoundsAreNumbers DEF TInv, CachesTyped, PodTable
  <2>5. b >= 1 /\ b > Halvings
    BY <2>3, <2>4, BoundsAreNumbers
  <2>6. k[1] = p
    OBVIOUS
  <2>7. samples[k].rate = 0
    BY <2>2, <2>5, <2>6 DEF TInv, Decays, Decayed
  <2> QED BY <2>1, <2>2, <2>7
<1> QED BY <1>1, TimeInvariant, PTL

(* A claim that has been pending for its grace period and a resync is shown
   as unhealthy, though nothing but time made it so. *)
THEOREM LateClaimIsShown == Spec => []PendingClaimIsFlagged
<1>1. TInv => PendingClaimIsFlagged
  <2> SUFFICES ASSUME TInv, claim.phase = "Pending", claim.age > Overdue
               PROVE  Flagged(shown.claim)
    BY DEF PendingClaimIsFlagged, Flagged
  <2>1. claim.age \in Nat /\ Waited \in 0..Resync
    BY WaitedIsBounded, BoundsAreNumbers DEF TInv, CachesTyped
  <2> QED BY <2>1, BoundsAreNumbers DEF TInv, ClaimIsShown
<1> QED BY <1>1, TimeInvariant, PTL
=============================================================================
