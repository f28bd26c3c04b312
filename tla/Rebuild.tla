------------------------------ MODULE Rebuild ------------------------------
(***************************************************************************)
(* How a change in an informer's store reaches the published graph:        *)
(* the event handlers and markDirty, the one-slot channel c.dirty, the     *)
(* debounce timer of rebuildLoop, and rebuild, whose buildGraph reads the  *)
(* stores one after the other while they go on changing.                   *)
(*                                                                         *)
(* What the stores hold is abstracted to what a rebuild must get right:    *)
(* shown[k] says that the published graph was built from the present       *)
(* content of store k, and got[k] the same of the build in progress.       *)
(* Changes can then go on for ever in a finite model.  One change, chosen  *)
(* freely, is followed on its way (tracer).                                *)
(***************************************************************************)
EXTENDS Naturals, Sequences

CONSTANTS
    Kinds,          \* the kinds of resource that buildGraph reads
    ReadOrder       \* the order in which it reads them

ASSUME ReadOrderAssumption ==
    /\ ReadOrder \in Seq(Kinds)
    /\ \A k \in Kinds : \E i \in 1..Len(ReadOrder) : ReadOrder[i] = k

VARIABLES
    shown, got,
    notices,        \* kinds with changes of which no handler has run yet
    dirty,          \* the slot of c.dirty is taken
    timer,          \* rebuildLoop's timer: off (nil), running or expired
    pc, pos,        \* the collector's goroutine, and its place in ReadOrder
    cancelled,      \* ctx is done
    tracked, tracer \* the kind of the change that is followed; how far it is

vars == <<shown, got, notices, dirty, timer, pc, pos, cancelled, tracked, tracer>>

Init ==
    /\ shown = [k \in Kinds |-> FALSE] /\ got = [k \in Kinds |-> FALSE]
    /\ notices = {} /\ dirty = FALSE /\ timer = "off"
    /\ pc = "syncing" /\ pos = 1
    /\ cancelled = FALSE
    /\ tracked \in Kinds /\ tracer = "none"

-----------------------------------------------------------------------------
(* The informers: the store first, then the handlers. *)
Change(k) ==
    /\ ~cancelled
    /\ shown' = [shown EXCEPT ![k] = FALSE]
    /\ got' = [got EXCEPT ![k] = FALSE]
    /\ notices' = notices \cup {k}
    /\ tracer' \in IF k = tracked /\ tracer = "none" THEN {"none", "changed"} ELSE {tracer}
    /\ UNCHANGED <<dirty, timer, pc, pos, cancelled, tracked>>

(* A periodic resync calls the update handlers with nothing changed. *)
Resync(k) ==
    /\ ~cancelled
    /\ notices' = notices \cup {k}
    /\ UNCHANGED <<shown, got, dirty, timer, pc, pos, cancelled, tracked, tracer>>

MarkDirty == dirty' = TRUE

(* A handler runs; more calls may be waiting in the queue of its kind. *)
Notify(k) ==
    /\ k \in notices
    /\ MarkDirty
    /\ notices' \in {notices, notices \ {k}}
    /\ UNCHANGED <<shown, got, timer, pc, pos, cancelled, tracked, tracer>>

(* An object that buildGraph does not read (an Event) marks dirty too. *)
NotifyOther ==
    /\ ~cancelled
    /\ MarkDirty
    /\ UNCHANGED <<shown, got, notices, timer, pc, pos, cancelled, tracked, tracer>>

-----------------------------------------------------------------------------
StartBuild == pc' = "building" /\ pos' = 1

(* Start: the caches have synced, or ctx was cancelled meanwhile; either
   way the first rebuild follows at once. *)
FirstBuild ==
    /\ pc = "syncing"
    /\ StartBuild
    /\ UNCHANGED <<shown, got, notices, dirty, timer, cancelled, tracked, tracer>>

(* Fault: every signal restarts the debounce. *)
TakeDirtyRestarts ==
    /\ pc = "select" /\ dirty
    /\ dirty' = FALSE
    /\ timer' = "running"
    /\ UNCHANGED <<shown, got, notices, pc, pos, cancelled, tracked, tracer>>

TakeDirty ==
    /\ pc = "select" /\ dirty
    /\ dirty' = FALSE
    /\ timer' = IF timer = "off" THEN "running" ELSE timer
    /\ UNCHANGED <<shown, got, notices, pc, pos, cancelled, tracked, tracer>>

Expire ==
    /\ timer = "running"
    /\ timer' = "expired"
    /\ UNCHANGED <<shown, got, notices, dirty, pc, pos, cancelled, tracked, tracer>>

TimerFires ==
    /\ pc = "select" /\ timer = "expired"
    /\ timer' = "off"
    /\ StartBuild
    /\ UNCHANGED <<shown, got, notices, dirty, cancelled, tracked, tracer>>

(* buildGraph reads the next kind. *)
Read ==
    /\ pc = "building" /\ pos <= Len(ReadOrder)
    /\ got' = [got EXCEPT ![ReadOrder[pos]] = TRUE]
    /\ pos' = pos + 1
    /\ tracer' = IF tracer = "changed" /\ ReadOrder[pos] = tracked THEN "read" ELSE tracer
    /\ UNCHANGED <<shown, notices, dirty, timer, pc, cancelled, tracked>>

(* Fault: the signals that came during the build are taken for served. *)
PublishClearsDirty ==
    /\ pc = "building" /\ pos = Len(ReadOrder) + 1
    /\ shown' = got
    /\ got' = [k \in Kinds |-> FALSE]
    /\ pc' = "select" /\ dirty' = FALSE
    /\ tracer' = IF tracer = "read" THEN "published" ELSE tracer
    /\ UNCHANGED <<notices, timer, pos, cancelled, tracked>>

(* rebuild publishes what was read. *)
Publish ==
    /\ pc = "building" /\ pos = Len(ReadOrder) + 1
    /\ shown' = got
    /\ got' = [k \in Kinds |-> FALSE]
    /\ pc' = "select"
    /\ tracer' = IF tracer = "read" THEN "published" ELSE tracer
    /\ UNCHANGED <<notices, dirty, timer, pos, cancelled, tracked>>

Cancel ==
    /\ ~cancelled
    /\ cancelled' = TRUE
    /\ UNCHANGED <<shown, got, notices, dirty, timer, pc, pos, tracked, tracer>>

SeeCancelled ==
    /\ pc = "select" /\ cancelled
    /\ pc' = "stopped"
    /\ UNCHANGED <<shown, got, notices, dirty, timer, pos, cancelled, tracked, tracer>>

-----------------------------------------------------------------------------
Collector ==
    FirstBuild \/ TakeDirty \/ TimerFires \/ Read \/ Publish \/ SeeCancelled

Next ==
    \/ \E k \in Kinds : Change(k) \/ Resync(k) \/ Notify(k)
    \/ NotifyOther \/ Expire \/ Cancel \/ Collector

Spec == Init /\ [][Next]_vars

(***************************************************************************)
(* Handlers run, timers expire, and the collector's goroutine goes on.     *)
(* In select it chooses at random among what is ready, so neither of the   *)
(* two cases that stay ready, dirty and the timer, waits for ever.         *)
(***************************************************************************)
Fairness ==
    /\ \A k \in Kinds : WF_vars(Notify(k))
    /\ WF_vars(Expire)
    /\ WF_vars(FirstBuild) /\ WF_vars(Read) /\ WF_vars(Publish)
    /\ WF_vars(TakeDirty) /\ WF_vars(TimerFires)

FairSpec == Spec /\ Fairness

-----------------------------------------------------------------------------
Unread(k) == \E i \in pos..Len(ReadOrder) : ReadOrder[i] = k

(* Type invariant. *)
TypeOK ==
    /\ shown \in [Kinds -> BOOLEAN] /\ got \in [Kinds -> BOOLEAN]
    /\ notices \subseteq Kinds /\ dirty \in BOOLEAN
    /\ timer \in {"off", "running", "expired"}
    /\ pc \in {"syncing", "building", "select", "stopped"}
    /\ pos \in 1..(Len(ReadOrder) + 1)
    /\ cancelled \in BOOLEAN
    /\ tracked \in Kinds /\ tracer \in {"none", "changed", "read", "published"}

(* No change is forgotten: while the published graph lacks a change of kind
   k, a notice of it, the dirty slot, the timer or the build in progress
   still leads to a build that reads it (markDirty drops a signal when the
   slot is taken, and rebuildLoop empties the slot before it reads). *)
OnItsWay(k) ==
    \/ k \in notices \/ dirty \/ timer # "off"
    \/ pc = "syncing"
    \/ pc = "building" /\ (Unread(k) \/ got[k])

NoLostUpdate ==
    pc # "stopped" => \A k \in Kinds : shown[k] \/ OnItsWay(k)

(* The inductive invariant adds that a kind which the build in progress has
   read, and which has changed since, is due for another build. *)
LateChangeIsOnItsWay ==
    pc = "building" =>
       \A k \in Kinds : Unread(k) \/ got[k] \/ k \in notices \/ dirty \/ timer # "off"

IInv == TypeOK /\ NoLostUpdate /\ LateChangeIsOnItsWay

(* Every change is in a published graph some time later, even if changes
   never stop (the debounce is not restarted by them). *)
EveryChangeIsPublished ==
    tracer = "changed" ~> tracer = "published" \/ cancelled
=============================================================================
