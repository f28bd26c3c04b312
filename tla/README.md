# A verification of Pulsebox in TLA+

Pulsebox watches a Kubernetes cluster, scores the health of what it finds, and
shows it as a live graph in the browser and as Prometheus metrics. This
directory holds TLA+ models of its core, the configurations that model-check
them with TLC, and theorems about them with proofs that TLAPS checks. Paths
below are relative to the repository (`src/` is its root).

Contents: [the system](#1-the-system), [modules](#2-modules),
[runs](#3-what-the-runs-check), [fairness](#4-fairness),
[proofs](#5-what-is-proved), [disagreements](#6-where-the-code-and-its-documents-disagree),
[not modelled](#7-what-is-not-modelled), [plan](#8-plan).

## 1. The system

```
 Kubernetes API
      | watch
      v
 informer caches --handlers--> c.dirty (1 slot) --> rebuildLoop (debounce)
      |                                                  |
      +------------------- read by ----------------> rebuild: buildGraph,
      |                                              swap lastGraph, diff
      |                                                  | broadcast, under c.mu
      v                                                  v
 metrics scrape, /api/resource               broker: a channel per subscriber
                                                         |
                                             handleStream, one per WebSocket
                                                         | socket
                                                         v
                             dashboard tab: applyMessage, or polling /api/topology
```

### Components, their state and what makes them correct

**Topology** (`internal/topology/topology.go`). Pure. A graph is a list of nodes
and of edges with unique ids; `DiffAgainst` computes the change set from one
graph to another, `nodeEqual` decides whether a node changed, `Empty` whether
anything is broadcast. The other half of the contract is `applyMessage` in
`internal/web/static/app.js`. Correct when applying the change set to a screen
that shows the old graph gives exactly the new one, and the change set is empty
exactly when nothing changed.

**Change propagation** (`internal/collector/collector.go`, `graph.go`). State:
the informer caches, the one-slot channel `dirty`, the timer of `rebuildLoop`.
Informer handlers call `markDirty`, which never blocks; the loop takes the
signal, waits a debounce, and rebuilds; `buildGraph` lists twelve caches one
after the other while they go on changing. Hard: a signal dropped because the
slot is taken, a change that comes after its cache was listed, a cluster that
never stops changing. Correct when no change is forgotten, and each reaches a
published graph.

**Live stream** (`internal/collector/broker.go`, `rebuild` and `Subscribe` of
the collector, `handleStream` in `internal/api/api.go`). State: `c.mu`,
`lastGraph`, the broker's map and a channel of 32 per subscriber, and per
connection a handler goroutine, a reader goroutine and a socket. Hard: a
subscription in the middle of a rebuild; a full subscriber dropped by the broker
while its handler is unsubscribing; a write that blocks until its deadline; a
peer that goes at any moment. Correct when a subscriber gets its snapshot and
then every later change set once and in order, or is disconnected; no closed
channel is closed or sent on again; nothing is left behind.

**Dashboard connection** (`internal/web/static/app.js`). State: the tables
`nodes` and `edges`, `ws`, the retry timer, `pollTimer`, the requests in flight.
The first fetch ends in `connect`; a closed socket schedules a reconnection and
starts polling; an opened one stops polling. Hard: overlapping requests,
responses later than what the stream delivered since, errors in any order.
Correct when there is exactly one connection or one pending attempt, polling
runs exactly while the stream is down, and a live tab shows what the stream
delivered.

**Health scoring** (`internal/health/health.go`). Pure. One function per kind of
resource maps its fields to a state, a score and reasons; `Aggregate` rolls
children up. Used by `buildGraph` and by the exporter. Hard: tests in a fixed
order with early returns, and a mean over those children that are known. Correct
when damage does not make a resource look better where no document says so,
failures are explained, and a roll-up does not hide them.

**Restart tracking** (`internal/collector/restart.go`). State: per container the
last count, time and rate; per pod the largest rate. `observe` is called only by
`buildGraph`. Hard: results depend on when a rebuild happens to run, time alone
causes none, and a pod can be replaced by one of the same name. Correct when the
graph and a scrape agree about every pod, a rate fades, a claim's grace period
takes effect, and nothing is kept about what is gone.

**Graph construction** (`buildGraph`, `NamespaceSnapshot`). Parents from owner
references, edges whose ends do not exist filtered, roll-ups; the filtered view
of one namespace. Hard: references to what is not cached, several owners, two
scopes. Correct when the containing edges form one tree over all but the
volumes, failures reach its root, and a view is complete.

**Lifecycle** (`cmd/pulsebox/main.go`, `Start`, the probes). The servers start
after the first graph was built; a signal cancels the context and shuts the
servers down one after the other. Hard: a signal at any moment, also while the
caches sync; requests that hang; one deadline for two servers. Correct when no
answer is made of incomplete data, a shutdown with time left cuts no request
off, and the process ends.

**Exporter** (`internal/metrics/metrics.go`). A scrape scores the live caches
and reads restart rates and roll-ups of the last graph. Correct when it says of
every object what the graph says.

**Resource details** (`handleResource`, `internal/collector/accessors.go`). A
lookup by kind and name, its events, for the panel of the selected node. Correct
when every node's own object and warnings are found, under each name of its kind.

**Panel** (`selectNode`, `fetchResource` and `closeDetail` in `app.js`). Hard: an
answer comes when another node is selected, or the node is gone.

**Static files, drawing, manifests**: no behaviour that a model would settle.

## 2. Modules

| Module | Models | Kind |
|---|---|---|
| `Topology` | graph tables, `nodeEqual`, `DiffAgainst`, `AsSnapshot`, `Empty`, `applyMessage` | operators |
| `LiveFeed` | what the stream promises: a list of graphs, shown in turn from the one current at the join | abstract specification |
| `Stream` | `rebuild` (publishing), `Subscribe`, broker, `handleStream`, reader, socket, tables of each tab | state machine, refines `LiveFeed` |
| `Rebuild` | handlers, `markDirty`, `rebuildLoop`, non-atomic reads of `buildGraph` | state machine |
| `Dashboard` | first fetch, socket, reconnection, polling | state machine |
| `Panel` | the selected node and its requests, on top of `Dashboard` | state machine, refines `Dashboard` |
| `Health` | the scoring functions and `Aggregate` | operators |
| `Damage` | resources and roll-ups to which damage is done, scored after each step | state machine over `Health` |
| `Graph` | `buildGraph` over the caches, `NamespaceSnapshot`; caches that change | operators, state machine |
| `Outputs` | `Collect` of the exporter, `handleResource` and the accessors, over `Graph` | operators |
| `Restarts` | `restartTracker` in the loop of `buildGraph`, grace of claims, resync, a clock | state machine |
| `Lifecycle` | `main`, `Start`, servers, requests, shutdown, restart | state machine |
| `Stability` | what two builds of unchanged caches publish, with floating point | state machine |
| `MC*` | instances for TLC | |
| `*Proofs` | theorems and proofs, one module per component; `HealthProofs` is also about `Damage`, `GraphProofs` about `Outputs`, `DashboardProofs` about `Panel` | |

Three of the state machines divide the path of a change. `Rebuild` goes from a
change in a cache to a published graph and abstracts what the graph is;
`Stream` goes from a published graph to the screen of a tab whose connection
lives, and abstracts where graphs come from; `Dashboard` takes the feed that
`LiveFeed` specifies for granted and goes through the loss of connections.
`Stream` and `Dashboard` use the change sets of `Topology`, so what a tab shows
is the result of applying real change sets, not a version number. `Graph` says
what is in those graphs: it builds them from the caches with the scores of
`Health`, and checks the change sets of `Topology` from each to the next, in
particular that any two of them are `Comparable`, which `Stream` and `Dashboard`
assume. `Outputs` puts the two other outputs beside the same caches and graph.

Definitions whose comment begins with "Fault:" are deliberately wrong variants
of the definition that follows them: a guard dropped, a reset missing, an order
swapped. They are not used by the model. `PROJECT.json` pairs each property of
each run with such a variant, with which TLC finds the property violated; they
show that the properties can fail.

### Correspondence with the code

`PROJECT.json` ("map") names the lines for every definition. In outline:

*Stream.* `mu` is `c.mu` held for writing. A critical section under `c.mu` is
split where code that does not take `c.mu` can run: `rebuild` into
`RebuildSwap` (lock, swap, diff) and `RebuildPublish` (broadcast, unlock);
`Subscribe` into `Register` and `Capture`. Sections under `broker.mu` alone are
one step each (`Broadcast`, `Unsubscribe`). `pc[h]` is the position of
`handleStream`: `upgraded`, `registered`, `writing` (the snapshot, and later
each change set; `held` is the message in hand), `loop` (in `select`),
`returning`, `unsubscribed`, `done`: the deferred calls run last in first out,
so the broker is left before the connection is closed. `wire[h]` is what the
socket buffers hold; `WriteFail` stands for a write that meets its deadline
because they are full, or finds the connection broken. `Break` is the peer or the network going
away; it discards what is in flight. A write after that may still succeed, as
TCP does until it finds out. `hist`, `first` and `seen` are history variables: the
published graphs, the version a connection subscribed at and the one last given
to its tab; no guard but the bound on publications reads them to decide what
the program does. A connection is used once; a tab that reconnects is another
member of `Conns`, whose tables may hold anything at first.

*Rebuild.* `shown[k]` and `got[k]` say whether the published graph, and the one
being built, reflect the present content of cache `k`; a change sets both to
false, so changes can go on for ever in a finite model. `notices` holds the
kinds for which handlers are still to run, `dirty` is the slot, `timer` is
`nil`, running or expired. `Read` is one `List` call of `buildGraph`. `Resync`
and `NotifyOther` are the periodic resync and the Event informer, which mark
dirty with nothing to publish. `tracer` follows one arbitrary change.

*Dashboard.* `fetch[s]` is a request: not in use, asked, or answered with a
version. The response takes the graph current at the moment of `Respond` and
can arrive at any later time (`FetchArrives`) or never (`FetchFails`).
`StartPolling` sets the timer and sends a first request at once. `retries`
counts pending `setTimeout(connect)` calls; the model does not assume that
there is only one, that is a property. `overtaken` records that a request was
in flight when the snapshot of a new socket was applied.

*Panel.* `asked[a]` is the node of a request on its way; an answer carries which
node it is about. `RenderAnswer` is the comparison with `selectedId` after the
`await`. `replaced` is a history variable: a snapshot came since the selection.

*Graph.* `caches` is one table from ids to the fields that are read. An id is a
tuple where the code joins its parts with slashes, which no name contains.
`Scores` has one line per kind, for the call of the `health` package in each of
the loops; `Parents`, `References` and `Edges` are the `addEdge` calls and the
filter at the end. Edges are a table by id, so that duplicates (`seen`) are one.
`Kept` follows the edges as `NamespaceSnapshot` does, once and in the order of
their ids, in which the edge kinds come in groups. A graph is rebuilt after each
change (`MaxBehind` = 1): what changes of several caches during a build do is in
`Rebuild`. A deleted object can be stored again with any contents. Pods have no
restart rate in this module; `Restarts` is about that.

*Outputs.* A scrape is a set of samples; a sample is a series with a value. A
series has the labels that tell objects apart and the phase where it is one;
`pulsebox_synced` is left to `Lifecycle`. `NewestFirst` chooses an order where
the code sorts by exchange: events of one time may come in any. `canonicalKind` and the
`switch` of `GetResource` know the same names, so both use `Named`.

*Restarts.* A tick is a minute, and ages are kept in place of times. `Observe(p)`
is one turn of the loop over pods, with `observe` for each container and
`setPodRate`; a scrape (`PodRate`) can come between two turns. Restarts,
replacements and deletions happen at any moment between them. A tick waits for a
rebuild that is due, since the debounce is less than one. The half-life of one
minute makes the decay a halving per tick; rates are hundredths, and what is
below 0.05 becomes 0. `calm` is a history variable that the properties read.

*Lifecycle.* `pc` is the position of `main`, `deadline` is `shutdownCtx`, which
both calls of `Shutdown` share. A request that is open when the process ends is
`cut`. `Ended` is the end of the process, by `main` returning or by
`log.Fatalf` in `serve`. Streams are hijacked connections: `Shutdown` does not
wait for them. `Restart` is the kubelet.

*Stability.* A number is an integer in units of 1/`One`, rounded to `Precision`
bits after each operation, ties to even, as IEEE 754 does.

*Damage.* An `input` is what a scoring function is called with. Damage is done
by the cluster, so its actions are external: whatever may go wrong with the
resource, also a container that waits again for any reason (`Worsened`), a node
whose kubelet stops reporting, and a child that becomes unknown. The limits on
replicas, endpoints, age and damaged children of a sort (`MaxAlike`) keep the
instance finite.

*Health.* A score is an integer in units of 1/`Unit`, where the code has
`float64`; reasons are sets of names, where the code has formatted lines cut to
five. `CHOOSE` picks the failing container where the code takes the first in
the list; only the name of the reason depends on it. Restart rates are in
hundredths per minute, so the thresholds 0.2 and 1.0 are 20 and 100.

## 3. What the runs check

Run one with `tlc -config X.cfg M`; the runs are listed in `PROJECT.json`.

| Run | Instance | What it asks |
|---|---|---|
| `stream_two_clients` (`MCStream.cfg`) | two connections (symmetric), channel and socket of one message, three publications | nothing lost, repeated or leaked; no closed channel touched |
| `stream_feed` (`MCStreamFeed.cfg`) | one connection, channel and socket of two, five publications | what the tab shows; refinement of `LiveFeed`; liveness of the server, with a client that reads and with one that does not |
| `rebuild` (`MCRebuild.cfg`) | three kinds read one after the other, changes without end | no change forgotten, each published |
| `dashboard` (`MCDashboard.cfg`) | two polls in flight, one request for details, three publications, two failures | one connection, polling, what a live tab and its panel show |
| `dashboard_late_poll` | the same with two publications and one failure | violated: see section 6 |
| `health` (`MCHealth.cfg`, of `Damage`) | every pod of up to two containers, every node, workloads of up to six replicas, and so on | in which steps damage looks better, failures are explained |
| `health_rollup` | roll-ups of up to 101 children | violated: see section 6 |
| `graph` (`MCGraph.cfg`) | two namespaces, twelve objects of which nine change, both scopes | the tree, roll-ups, change sets, the namespace view, scrape and details against the graph |
| `namespace_view` (`MCGraphView.cfg`) | the same | violated: see section 6 |
| `restarts` (`MCRestarts.cfg`) | a pod of two containers, one restart each, a claim; resync after two ticks | agreement of graph and scrape, fading, grace, pruning |
| `lifecycle` (`MCLifecycle.cfg`) | a scrape, a page and a stream | complete answers, no request cut off early, start and stop |
| `stable_output` (`MCStability.cfg`) | three workloads of ten replicas, five bits | violated: see section 6 |

The properties, by what would break them:

- `NothingLostOrRepeated`, `ShowsAPublishedGraph`, `ImplementsLiveFeed` (Stream)
  break if `Subscribe` does not hold `c.mu` around both of its halves, if
  `rebuild` does not hold it from the swap to the broadcast, or if a full
  subscriber only misses a message and stays.
- `NeverPanics` and `NoSubscriptionLeaks` break if a drop by the broker and the
  handler's own `unsubscribe` do not check for each other through the map, or if
  a return before the `defer` leaves a registration behind.
- `DroppedIsDisconnected`, `GoneIsReaped`, `CatchesUp` are the liveness of the
  stream: a closed channel ends its handler even when the client reads nothing
  (the write deadline does it), a dead connection ends handler and reader, and a
  tab that reads reaches every graph or is disconnected.
- `NoLostUpdate` and `EveryChangeIsPublished` (Rebuild) break if a signal is
  dropped while a debounce or a build is running, if publishing clears the
  slot, or if every signal restarts the timer.
- `OneConnection`, `PollsExactlyWhileDown`, `LiveViewMatches`,
  `EveryGraphIsReached` (Dashboard) break if one closed socket schedules two
  attempts, if opening does not stop the poll timer, or if the first fetch must
  succeed for the stream to start.
- `DetailsAreOfTheSelected`, `ClosesWithItsNode` and `DetailsCome` (Panel) break
  if an answer is shown without looking at the selection again, if
  `applyMessage` forgets the panel, or if a failed request is not caught.
- `PatchesOldToNew`, `CarriesOnlyChanges` and `GraphsAreComparable` (Graph) break
  if reasons are compared by number, if all nodes are sent, or if the number of a
  node's GPUs, which may not be known, stands for the entry `gpu`.
- `AtMostOneParent`, `EverythingHangsTogether`, `FailureReachesTheRoot` (Graph)
  break if a pod keeps its namespace as a second parent, if its ReplicaSet is not
  followed, or if something is left out of the roll-up. The second speaks of
  caches in which references lead to cached objects; a pod whose owner has not
  come yet does hang free until it has.
- `ViewIsComplete` breaks if the view does not follow edges. `ScrapeMatchesGraph`
  breaks where scrape and graph derive the same thing by code of their own, as
  the desired replicas; `DetailsAreOfTheNode` if a short kind is passed on.
- `PathsAgree`, `TrackerFollowsPods`, `NoInventedRate` (Restarts) break if a pod
  is scored before it is observed, if a map is not pruned, or if a counter that
  went back is taken for no change. `RatesFade`, `PendingClaimIsFlagged` (and the
  bound on ages in `TypeOK`) break if an update without a change does not cause
  a rebuild: the periodic resync is all that lets time take effect. How late is
  in `Fading` and `Overdue`: up to a resync period.
- `AnswersAreComplete`, `CutOffOnlyWhenLate`, `Stops`, `Starts` (Lifecycle) break
  if the wait for the caches gives up, if servers are closed and not shut down,
  if a shutdown has no deadline, or if one server blocks the start of the other.
  The first allows one thing that the code does: told to stop while the caches
  fill, it builds from what there is, and may serve that until it ends.
- `DamageNeverLooksBetter`, `HealthyPodShowsNoTrouble`, `FailuresAreExplained`,
  `SmallRollUpShowsFailure` (Damage) break if the tests of `health.Pod` are put
  in another order, if a branch drops its reason, or if the mean decides from
  a lower value on. `DamageNeverLooksBetter` names the steps on which the code
  does get milder, by the branch that causes it, and says that there are no
  others: `StartHidesFailure` and `CrashEndsStart` (the test for a starting
  container comes before those for the restart rate and for readiness),
  `KubeletSilent` (a node is unknown, whatever was wrong with it) and
  `ChildDropsOut` (an unknown child leaves the mean). Without any one of the four
  TLC finds a counterexample. Scores are compared only among
  degraded results: a pod with no container ready scores 0.1, and 0.2 once it
  restarts rapidly, both unhealthy.

### Bounds, and why they are enough

`Cap` is 32 in the code; 1 and 2 reach the same situations (empty, partly full,
full, dropped) and the proofs hold for every capacity. `WireCap` stands for the
socket buffers. `MaxPublish` is the only bound on the length of a behaviour of
`Stream` that does something new: with `Cap` + `WireCap` + 1 in the handler's
hand, three publications overrun a subscriber of `stream_two_clients`, so it is
dropped, and five overrun the one of `stream_feed`. Rebuilds that
change nothing are not bounded. Two connections suffice for what one can do to
another, as handlers share only the broker's map and `c.mu`. `Rebuild` has no
bound on its length; three kinds give a first, a middle and a last read.
`Dashboard` is bounded by publications and failures; two requests
in flight give every order of two responses. One request for details is enough
for its answer to find another node selected, or none; the proofs hold for any
number. `Graph` is bounded by what `Contents` lists: each case of `buildGraph`
occurs, with an owner that is missing, of a kind that is not followed, or
second in the list, a claim without class, capacity and volume, a volume without
class or capacity, a node whose GPUs are not counted, a pod without a node. `Restarts` has one pod of two containers because containers share a pod's
rate and a name is what a replacement shares with its predecessor; resync after
two ticks, grace of one, keep the graph of states finite with ages of at most a
few ticks: `Overdue` and `Fading` are the latest a claim's verdict and the end of a
rate can come, and older ones are counted as just beyond. `Lifecycle` is finite
without a bound. In `Damage` the roll-ups stand on both sides of each limit (50,
80, 100 scored children) and mix damaged children of three sorts, up to three
(`MaxAlike`) of each. The 80 in `FailureReachesTheRoot` is a limit of the
code, not of the model: 80 children are the fewest whose mean can hide one. The
instance of `Graph` stays below it; that nothing goes wrong up to it is the theorem. `Unit` = 60 makes all scores of workloads of
up to six replicas exact.

`CHECK_DEADLOCK FALSE` is set where a behaviour may rest: a stopped collector
(`Rebuild`), a live tab with nothing new (`Dashboard`), a computation
(`Health`). In the others something can always happen, and deadlock is checked:
`Stream` rebuilds, `Graph` and `Restarts` see changes, `Lifecycle` starts anew.

## 4. Fairness

Only what the scheduler or the environment of the program gives.

*Stream, `FairServer`.* `RebuildPublish` and `Handler(h)`: a goroutine that can
go on does. For `Handler`, weak fairness of the whole disjunction, so
that a blocked write still ends, by success or at its deadline
(`writeWait`). `Register` is strongly fair, since `c.mu` is taken and released
by rebuilds for ever and a Go mutex does not starve a waiter.
`SeeReaderDone` is strongly fair because `select` chooses at random among its
ready cases. `ReaderExit` is weakly fair: `ReadMessage` returns an error on a
connection known to be broken. No fairness is put on `Break`: connections need
not fail. No fairness on `RebuildSwap`: graphs need not change. The client is
fair only where `CatchesUp` says so, as its antecedent `FairClient`.

*Rebuild, `Fairness`.* Handlers run, a running timer expires, the goroutine of
the collector goes on, and the random choice of `select` serves both the slot
and the timer while they stay ready. Changes, resyncs and cancellation need not happen.

*Dashboard, `FairSpec`.* The server answers, responses and messages arrive,
`setTimeout` and `setInterval` fire. Failures need no fairness, and are bounded:
`EveryGraphIsReached` is about what comes after the last failure. With the panel
(`FairPanelSpec`), a request for details ends, by an answer or an error.

*Lifecycle, `FairSpec`.* `main` and the servers' goroutines go on, the timer of
the deadline fires, and the API server answers the informers' first lists.
Nothing is assumed of handlers and peers: a request may stay open for ever (the
servers set no write timeout), and `Stops` holds all the same. Signals, failing
servers and the kubelet's restart need not happen.

## 5. What is proved

The proofs hold for every value of the constants that meets the named
assumptions: for any number of connections and kinds, any capacities, any set
of graphs, any bound on publications.

Every invariant and every action property that a passing run checks is also a
theorem; only liveness is left to TLC alone.

**Assumptions.** Each is named, stands in the module that declares the constants,
and is evaluated by TLC on the instances.

- `StreamAssumption`, `DashboardAssumption`: parameters are numbers, markers
  differ. `ReadOrderAssumption`: every kind is read. `KeysFinite`: a meta map is
  finite.
- `GraphsAssumption` (Stream, Dashboard): the graphs are well formed, none is
  empty (`buildGraph` always adds the cluster node), and any two of them are
  `Comparable`. The last one is needed: `nodeEqual` looks up `b.Meta[k]` without
  testing presence, and takes an empty value on one side for a missing key on the
  other when the maps have the same size. `BuildsAreComparable` shows that
  `buildGraph` never makes such a pair.
- `GraphAssumption`: an object's contents fit its kind, counts of replicas are
  natural, the caches are finite, no pod has a container without an image, and
  whether a claim has a capacity is decided by
  its phase. The last two parts are what the API server and the volume controller
  do, not something this code ensures; without them two builds need not be
  comparable, for one key could then appear while another one disappears.
- `OutputsAssumption`: finitely many events and containers, no namespace without a
  name or named "-", which stands for none in the path of a request; a node's
  condition is true, false or unknown.
- `DamageAssumption`: the children of a roll-up have results that `health.go`
  returns, a healthy one scores at least 0.99, as a roll-up over healthy
  children can.
- `RestartsAssumption`: finitely many pods and containers; fewer than 1000
  restarts of a container, for the search of `Halvings` to end.

**Topology** (`TopologyProofs`). `ContentEqualExact`: for contents that
`MetaComparable` can tell apart, `nodeEqual` is equality; the step that needs
finiteness is that maps of equal size with one domain inside the other have the
same domain. The lemmas `Shape*` follow for any two comparable tables:
what `ApplyDiff` yields, that a change set is empty exactly for equal graphs,
that it carries nothing unchanged. They are used for the graphs of the streams
(`ApplyDiff`, `ApplySnapshot`, `EmptyDiffExact`) and for those of `buildGraph`.

**Stream** (`StreamProofs`). `IInv` is inductive: `InitIInv`, one lemma per
action or group of actions, `StepIInv`. What `NothingLostOrRepeated` says is
not inductive, for it speaks of versions only. `IInv` adds where each version is
and what it carries: the message at distance `j` from a tab, counted through
its socket, its handler's hand and its channel, leads to version `seen + j` of
the history, as the snapshot if that is the version subscribed at, and as the
change set from the version before otherwise (`Leads`); and while the
connection is open and subscribed the distances reach exactly to the latest
(`DataAt`). `LockInv` says what `lastGraph` and the change set in the making
are while `c.mu` is held: this is where the atomicity of `Subscribe` and of
`rebuild` enters. `BrokerInv` relates ids, channels and handlers. From `IInv`:
`StreamTypeCorrect`, `StreamShowsAPublishedGraph`, `StreamNothingLost`,
`StreamNeverPanics`, `StreamNoSubscriptionLeaks`, and the refinement
`StreamImplementsLiveFeed`: `RebuildPublish` of a change maps to `Publish`,
`Register` to `Join`, `Deliver` to `Show`, everything else stutters.

**Rebuild** (`RebuildProofs`). `NoLostUpdate` becomes inductive with
`LateChangeIsOnItsWay`: while a build is running, a kind that it has already
read and that changed since is due for another one. Without it, publishing
could forget a change that came during the build.

**Graph** (`GraphProofs`). The properties of a graph are proved of `buildGraph`
itself, for any caches (`BuiltEdges`, `EdgesAreJoined`, and lemmas on owners);
the invariant `GInv` then carries over what holds of any graph once built,
and says that the caches are those it was built from when `behind` is 0. That a node has at
most one parent needs that `workloadIDForPod` is a function and that `contains`
edges come from `Parents` alone. `EverythingHangsTogether` goes down the tree
level by level, with `RefersToCached`. `NamespaceViewIsComplete` needs that no
step of `Kept` drops anything and which edges the last steps follow.

`GInv` also says that the caches are `Legal`, and that the graph is that of some
legal caches (`GraphIsBuilt`). The second is what an action property needs: the
caches of the last build are gone when the next one is compared with it. From
there, `BuildsAreComparable` goes through the keys of `Meta` kind by kind. `Always`
gives each kind a fixed set of keys (`AlwaysShape`), whose values may be empty;
`AtTimes` gives further ones (`MetaOf`), and these are there only with a value that
is not empty (`TextsAreNotEmpty`). The exception is the storage class of a claim;
there the phase decides about the capacity, so that two maps of one size
with one phase have the same keys (`ClaimsComparable`). `ChangeSetsPatch` and
`ChangeSetsAreMinimal` follow with the lemmas of `TopologyProofs`.

`FailuresReachTheRoot` has three parts: an object in its namespace, a node in the
cluster, a namespace in the cluster, each with its own limit. The mean of fewer than 80 children of which
one is unhealthy stays below 0.99 (Health, below), so a failed object makes its
namespace unhealthy. But the namespace's own score may then be high, so the same
argument does not apply one level up. A failure scores 0.2 at most, so with *k*
objects in a namespace the namespace's score lacks 0.8/*k* of 1, and with *m*
nodes and namespaces the cluster's lacks 0.8/*mk*, which is more than the 0.01
that the code overlooks as long as *mk* < 80. The lemmas `RollUpLacks` and
`LackReachesUp` say so; hence the third limit is on the product of the two counts:
79 objects in one of ten namespaces may fail one of them without the cluster
showing it.

*Outputs.* `ScrapesMatchTheGraph`: each series of a scrape has one origin
(`ToldOf*`), so its value is determined and no series has two; then the value is
compared with the node's, kind by kind. The restarts of a pod are
a sum over containers in the graph and a sum over samples in the scrape:
`SumsCarried` carries a sum along a bijection. `DetailsBelongToTheNode`: every
name of a kind means that kind alone (`NamedOnly`), so the lookup
finds the node's own object and no other (`FoundOnly`); an order of the events by
time exists, by induction on finite sets (`OrderExists`), so that `NewestFirst` is
one, and its first entries are the newest (`FirstOnes`).

**Lifecycle** (`LifecycleProofs`). `IInv` adds to the types how far `main` has
come when a server runs or a request is open, and that the first server has no
open request, or no time, when the second is shut down. `NothingCutOffEarly` is
an action property: only `Exit` and a failing server cut anything off.

**Restarts** (`RestartsProofs`). `IInv` follows a build: the pods built so far
are scored with the rate that the tracker holds now, since each pod is observed
once in a build and the rates of others are left alone; when nothing is due the
list is the cache. From it `OutputPathsAgree`, whatever `observe` computes, and
`TrackerIsPruned`.

What time does needs `TInv` beside it. The age of a sample is bounded because a
resync makes a rebuild due and no tick passes while one is due; `AgesFit` has to
say how far a running build has come. That no rate is invented needs that a
rate is held only of a container that restarted (`TrackerTyped`) and that a
pod's is that of one of its containers (`RateIsSampled`). `RatesFade` is
inductive only as a statement on samples: a sample that was taken after *b* calm ticks
has a rate that was halved in all but the first of them (`Decays`), as long as it is
a sample of what the cache holds (`CalmIsFollowed`). That repeated integer
division is one division by a power is `TwoToAdds` with `HalvedAgain`.
`ClaimIsShown` relates the age of a claim to the verdict that is shown and to the one in the making.

**Dashboard** (`DashboardProofs`). `OneConnection` is inductive alone.
`PollsExactlyWhileDown` needs that nothing polls before the first fetch has
ended. `LiveViewMatches` needs `Undisturbed`: behind a socket whose snapshot
found no request in flight, none comes up, because polling has stopped. Then
the panel: its specification implements that of the connection
(`PanelImplementsDashboard`), so all this holds with it, and
`PanelOfTheSelected` and `PanelCloses` follow on top.

**Health** (`HealthProofs`). For any pod, with any set of containers:
`HealthyPodIsSound`; `RateOnlyHurts` for any two rates; `WorkloadStates` for all
replica counts. The theorems about `Damage` go through the functions one by one;
the hard one is `Aggregate`, which sums scores over a bag. The module first proves
what is needed of sums over finite sets, of which the library has nothing: that
they are numbers, do not depend on the order, split, are monotone, and multiply
(`Sums*`), by induction on finite sets (`FiniteInduction`, an instance
of the well-founded induction on cardinality for one set at a time, since
theorems with an operator as a parameter cannot be used). Then: a mean of at least
0.99 of fewer than 80 children leaves no room for one below half
(`FailureLowersMean`), hence `SmallRollUpsShowFailures`; and for
`DamageNeverHelps`, that moving one child to a worse result changes the sum by the
difference of their scores (`ExchangeSums`). A child that becomes unknown takes its
score out of the sum and itself out of the count (`DropOutSums`); if it was healthy
the mean does not rise above the limit by that (`MeanWithoutTop`, `DropOutShows`), and
if it was not, that is the exception `ChildDropsOut`. For a pod, `WorsenedShows`
compares the sets that its branches test before and after; what is left over are
the two exceptions about starting containers.

**Only model-checked.** Liveness, which depends on fairness: `DroppedIsDisconnected`,
`GoneIsReaped` and `CatchesUp` of the stream, `EveryChangeIsPublished` of the rebuild
loop, `EveryGraphIsReached` and `DetailsCome` of the dashboard, `Stops` and `Starts`
of the process; it needs `ENABLED`, which the prover does not reason
about. Floating point (`Stability`) is checked only, as it refutes.

## 6. Where the code and its documents disagree

1. *A roll-up can hide a hard failure* (`health_rollup`,
   `HardFailurePinsState`). `Aggregate` sets the state to healthy once the mean
   reaches 0.99 (`internal/health/health.go:337`), whatever the worst child.
   Its comment and `README.md:103` promise that a present hard failure pins the
   state. Below 80 scored children it does (`SmallRollUpShowsFailure`).
2. *A late poll is drawn over the live view* (`dashboard_late_poll`,
   `LiveViewIsTheStream`). `stopPolling` clears the interval, not the request in
   flight (`app.js:560`, `:565`); its response is applied as a snapshot over the
   newer one of the stream, and later change sets patch only what they carry.
   `LiveViewMatches` is what holds: a live tab that no request overtook.

3. *The view of one namespace holds all others* (`namespace_view`,
   `ViewIsScoped`). The loop that adds nodes and volumes a namespace refers to
   (`collector.go:224`) follows every edge out of what is kept, and the cluster
   node, which is always kept, contains all namespaces and nodes; `keep` grows
   on the way, so that workloads and pods under them follow. The comment at
   `collector.go:213` and `README.md:282` promise the namespace and what it
   refers to. `ViewIsComplete` is what holds: nothing is missing.
4. *Unchanged caches can publish a change* (`stable_output`, `OutputIsStable`).
   `Aggregate` adds scores in the order of a lister, which ranges over a Go map
   (`health.go:316`), and floating-point addition depends on the order: with 1, 1
   and 4 of 10 replicas available, 0.1+0.1+0.4 and 0.1+0.4+0.1 differ in the last
   bit of a `float64`. `nodeEqual` compares scores with `==`, so a change set
   goes to every tab, against the comment at `graph.go:297`. `nodeGPU`
   (`graph.go:360`) ranges over a map too: a node with two resources named after
   a gpu changes its `gpuCount` in the same way; `Capacities` with two values
   shows it.

Noticed, and not a disagreement with anything the repository says, or out of
the models' reach:

- A container that is created anew makes its pod milder: a pod that restarts
  rapidly (unhealthy, 0.2), or has no container ready (0.1), is degraded with 0.4
  while one of them waits with `ContainerCreating`, `PodInitializing` or no
  reason, since that test (`health.go:165`, `:176`) comes first (`:181`, `:196`).
  When the last such container crashes while another is ready, the score rises
  from 0.4 to 0.5. `StartHidesFailure` and `CrashEndsStart` say exactly this.
- A node that stops reporting is unknown, not unhealthy (`health.go:109`), and as
  unknown children are ignored (`:313`, as `README.md:103` says) it leaves the
  roll-up of the cluster, which gets better when an unhealthy node falls silent:
  `KubeletSilent`, `ChildDropsOut`.
- A pod of phase Unknown whose last statuses were ready is healthy
  (`health.go:188-204`); the metric value for unknown is never given to a pod.
- `StatefulSet` passes `CurrentReplicas` as the available replicas
  (`health.go:242`), which falls to zero in the course of a rolling update.
- Told to stop while the caches fill, `Start` sets `synced` and builds from what
  there is (`collector.go:162-173`): `AnswersAreComplete` describes exactly this.
  Since the servers start only after that, the answer "syncing" of `/readyz` is
  never given; probes are refused instead.
- A scrape that hangs uses up the time that both servers share for the shutdown
  (`main.go:111-114`): `CutOffOnlyWhenLate` says what remains.
- `handleResource` writes to an object that it shares with the informer cache
  (`internal/api/api.go:79`), against `accessors.go:13-15`.
- Between a change and the next build, a scrape (live caches) and the graph
  differ; `ScrapeMatchesGraph` and `PathsAgree` hold once that build is done.
- The grace of a claim and the decay of a rate take effect only when something
  causes a rebuild, at the latest the resync (ten minutes): `Restarts`.
- A snapshot does not close the panel of a selected node that is gone
  (`app.js:48`; a removal does), an open panel is not redrawn when its node
  changes, and the panel of the cluster says "loading" for ever
  (`app.js:362`, `:442`).

## 7. What is not modelled

- *Time* is order, but for `Restarts`, where it is counted in minutes. A rate
  computed from two rebuilds in less than a minute is therefore not covered.
- *Client-go* (watching, resync, caches), `net/http` and the network are
  external: modelled by how the code uses them.
- *Wording*: reasons are names, of messages and events the text stays a record.
  *Floating point*: scores are exact fractions but in `Stability`; the limit 0.99
  at 80 children is met exactly in both.
- `UpdatedAt` and timestamps are carried but never compared, apart from the zero
  test in `rebuild`, which is `lastGraph = ZeroGraph` here.
- The data race of `handleResource` on `ManagedFields`: its outcomes are not
  determined by this code, and any choice of them would be invented.
- How the texts of meta entries are put together (roles, taints, quantities): an
  entry is a text that is there or not. The sample `pulsebox_synced`, `/healthz`, the number of
  subscribers in `/api/health`, the upgrade's header checks.
- Reading flags and finding the kube config (once, before anything runs);
  search, filters, layout and drawing of the dashboard; static files; manifests,
  Helm chart, Docker files.

## 8. Plan

All components with behaviour of their own are modelled, and every safety property
that a run checks is proved. What could be added, in the order of what matters:

1. What holds in place of `ViewIsScoped` and `OutputIsStable`, the two promises
   that the code does not keep (section 6): what the view of one namespace holds
   at most, and that two builds of unchanged caches agree in all but the last
   digits of a roll-up.
2. `Pulsebox`: `Rebuild`, `Stream` and `Dashboard` composed, with a reconnecting
   tab, against one abstract promise from a change in a cache to the screen.
3. A second resource named after a gpu, and rates in `Graph`, as larger
   instances of what is there.
