----------------------------- MODULE PodWatcher -----------------------------
(***************************************************************************)
(* The pod watcher of internal/kubernetes: goroutines that created a pod   *)
(* wait for it to become ready (WaitForPodReady), one goroutine receives   *)
(* the pod events of the namespace and hands each to the waiter of that    *)
(* pod (WatchPods, notify).  A waiter has a channel of capacity one; a new *)
(* event replaces an unread one.                                           *)
(*                                                                         *)
(* The cluster and the watch connection are the environment.  Events of    *)
(* different pods go to different waiters, so the stream is kept as one    *)
(* FIFO per pod name and the notifier serves any of them next: a superset  *)
(* of the orders one connection can deliver.                               *)
(***************************************************************************)
EXTENDS Naturals, Sequences

CONSTANTS
    Callers,    \* goroutines inside CreateReadyPod, one call each
    Pods,       \* pod names
    PodOf,      \* PodOf[c]: the name of the pod caller c creates
    NoCaller,   \* "no waiter registered under this name"
    MaxVersion  \* bound: changes the cluster makes to the pod of one name

ASSUME PodWatcherAssumption ==
    /\ PodOf \in [Callers -> Pods]
    /\ NoCaller \notin Callers
    /\ MaxVersion \in Nat

VARIABLES
    pc,         \* where each caller is in CreateReadyPod / WaitForPodReady
    outcome,    \* how its call ended
    own,        \* incarnation of the pod the caller created, 0 if none
    seen,       \* last pod snapshot the caller took from its channel
    waiters,    \* pw.waiters: pod name -> registered caller
    events,     \* waiter.events, a channel of capacity 1
    done,       \* waiter.done is closed
    notifier,   \* the WatchPods goroutine inside notify
    passed,     \* history: version of the last snapshot picked up for a waiter
    readied,    \* history: pod name -> incarnations that have been ready
    watch,      \* "running", "failed" or "stopped"
    stream,     \* pod name -> events the watch connection still has to deliver
    cluster,    \* pod name -> the API server's object
    shutdown,   \* the context of main is cancelled (signal)
    cancelled   \* runCtx, the callers' context, is cancelled

callerVars == <<pc, outcome, own, seen>>
waiterVars == <<waiters, events, done>>
ctxVars == <<shutdown, cancelled>>
clusterVars == <<cluster, stream, readied>>
vars == <<callerVars, waiterVars, notifier, passed, watch, clusterVars, ctxVars>>

(***************************************************************************)
(* A pod object: its incarnation (UID), the part of the status the watcher *)
(* looks at and its resource version.  "Ready" stands for phase Running    *)
(* with every container ready, "Running" for Running with one not ready,   *)
(* "Stopped" for Failed or Succeeded.                                      *)
(***************************************************************************)
Status == {"Pending", "Running", "Ready", "Stopped"}
Snapshot == [inc : Nat, status : Status \cup {"Absent"}, version : Nat]
NoPod == [inc |-> 0, status |-> "Absent", version |-> 0]

\* The pod an earlier run of the program has left behind, ready.
Leftover == [inc |-> 1, status |-> "Ready", version |-> 0]

PodExists(p) == cluster[p].status # "Absent"

\* Faulty variant of IsReady: the phase alone decides.
IsRunning(pod) == pod.status \in {"Running", "Ready"}

IsReady(pod) == pod.status = "Ready"

Idle == [at |-> "idle", waiter |-> NoCaller, pod |-> NoPod]

TypeOK ==
    /\ pc \in [Callers -> {"create", "register", "wait", "cleanup", "returned"}]
    /\ outcome \in [Callers -> {"none", "ready", "duplicate", "cancelled", "createError"}]
    /\ own \in [Callers -> Nat]
    /\ seen \in [Callers -> Snapshot]
    /\ waiters \in [Pods -> Callers \cup {NoCaller}]
    /\ events \in [Callers -> Seq(Snapshot)]
    /\ \A c \in Callers : Len(events[c]) <= 1
    /\ done \in [Callers -> BOOLEAN]
    /\ notifier \in [at : {"idle", "found", "offer", "drain", "send"},
                     waiter : Callers \cup {NoCaller}, pod : Snapshot]
    /\ notifier.at # "idle" => notifier.waiter \in Callers
    /\ passed \in [Callers -> Nat]
    /\ readied \in [Pods -> SUBSET Nat]
    /\ watch \in {"running", "failed", "stopped"}
    /\ stream \in [Pods -> Seq(Snapshot)]
    /\ cluster \in [Pods -> Snapshot]
    /\ shutdown \in BOOLEAN
    /\ cancelled \in BOOLEAN

Init ==
    /\ pc = [c \in Callers |-> "create"]
    /\ outcome = [c \in Callers |-> "none"]
    /\ own = [c \in Callers |-> 0]
    /\ seen = [c \in Callers |-> NoPod]
    /\ waiters = [p \in Pods |-> NoCaller]
    /\ events = [c \in Callers |-> <<>>]
    /\ done = [c \in Callers |-> FALSE]
    /\ notifier = Idle
    /\ passed = [c \in Callers |-> 0]
    /\ watch = "running"
    /\ \E left \in SUBSET Pods :
         /\ cluster = [p \in Pods |-> IF p \in left THEN Leftover ELSE NoPod]
         /\ stream = [p \in Pods |-> IF p \in left THEN <<Leftover>> ELSE <<>>]
         /\ readied = [p \in Pods |-> IF p \in left THEN {1} ELSE {}]
    /\ shutdown = FALSE
    /\ cancelled = FALSE

-----------------------------------------------------------------------------
(***************************************************************************)
(* Environment: the API server's pods and the watch connection.            *)
(***************************************************************************)

\* The server changes the object of p and publishes `event`.
Change(p, object, event) ==
    /\ cluster[p].version < MaxVersion
    /\ cluster' = [cluster EXCEPT ![p] = object]
    /\ stream' = [stream EXCEPT ![p] = Append(@, event)]
    /\ readied' = [readied EXCEPT ![p] = IF object.status = "Ready" THEN @ \cup {object.inc} ELSE @]

\* The object of p after its next change.
NextObject(p, inc, status) ==
    [inc |-> inc, status |-> status, version |-> cluster[p].version + 1]

PodAdded(p) ==
    LET object == NextObject(p, cluster[p].inc + 1, "Pending")
    IN ~PodExists(p) /\ Change(p, object, object)

Successors(status) ==
    CASE status = "Pending" -> {"Running", "Ready", "Stopped"}
      [] status = "Running" -> {"Ready", "Stopped"}
      [] status = "Ready"   -> {"Running", "Stopped"}
      [] OTHER -> {}

PodStatusChanges(p) ==
    /\ \E s \in Successors(cluster[p].status) :
         LET object == NextObject(p, cluster[p].inc, s)
         IN Change(p, object, object)
    /\ UNCHANGED <<callerVars, waiterVars, notifier, passed, watch, ctxVars>>

\* A scenario's cleanup or an operator deletes the pod.  The DELETED event
\* carries the last state of the object, whose containers may still be ready.
PodDeleted(p) ==
    /\ PodExists(p)
    /\ \E last \in {cluster[p].status, "Stopped"} :
         Change(p, NextObject(p, cluster[p].inc, "Absent"), NextObject(p, cluster[p].inc, last))
    /\ UNCHANGED <<callerVars, waiterVars, notifier, passed, watch, ctxVars>>

\* Faulty variant of RestartWatch: the new watch resumes where the old one broke
\* off, as it would if watchFunc passed the resource version on.
ResumeWatch ==
    /\ watch = "running"
    /\ UNCHANGED vars

\* What a watch begins with: the present state of every pod.
Present == [p \in Pods |-> IF PodExists(p) THEN <<cluster[p]>> ELSE <<>>]

\* The connection ends (at the latest after its 2 hour timeout) and the retry
\* watcher opens a new one.  watchFunc drops options.ResourceVersion, so the new
\* watch begins with the present state of every pod; undelivered events are gone.
RestartWatch ==
    /\ watch = "running"
    /\ stream' = Present
    /\ UNCHANGED <<callerVars, waiterVars, notifier, passed, watch, cluster, readied, ctxVars>>

\* SIGINT or SIGTERM cancels main's context and with it runCtx.
Signal ==
    /\ ~shutdown
    /\ shutdown' = TRUE
    /\ cancelled' = TRUE
    /\ UNCHANGED <<callerVars, waiterVars, notifier, passed, watch, clusterVars>>

-----------------------------------------------------------------------------
(***************************************************************************)
(* A caller in CreateReadyPod: create the pod, register a waiter, wait.    *)
(***************************************************************************)

CreatePod(c) ==
    /\ pc[c] = "create"
    /\ ~cancelled
    /\ PodAdded(PodOf[c])
    /\ own' = [own EXCEPT ![c] = cluster[PodOf[c]].inc + 1]
    /\ pc' = [pc EXCEPT ![c] = "register"]
    /\ UNCHANGED <<outcome, seen, waiterVars, notifier, passed, watch, ctxVars>>

\* The name is taken, the API fails for good or the context is cancelled; the
\* server may have created the pod and only its answer was lost.
CreatePodFails(c) ==
    /\ pc[c] = "create"
    /\ UNCHANGED clusterVars \/ PodAdded(PodOf[c])
    /\ outcome' = [outcome EXCEPT ![c] = "createError"]
    /\ pc' = [pc EXCEPT ![c] = "returned"]
    /\ UNCHANGED <<own, seen, waiterVars, notifier, passed, watch, ctxVars>>

Watched(p) == waiters[p] # NoCaller

\* Faulty variant of Register: a second waiter takes the name over.
RegisterOver(c) ==
    /\ pc[c] = "register"
    /\ waiters' = [waiters EXCEPT ![PodOf[c]] = c]
    /\ pc' = [pc EXCEPT ![c] = "wait"]
    /\ UNCHANGED <<outcome, own, seen, events, done, notifier, passed, watch, clusterVars, ctxVars>>

Register(c) ==
    /\ pc[c] = "register"
    /\ ~Watched(PodOf[c])
    /\ waiters' = [waiters EXCEPT ![PodOf[c]] = c]
    /\ pc' = [pc EXCEPT ![c] = "wait"]
    /\ UNCHANGED <<outcome, own, seen, events, done, notifier, passed, watch, clusterVars, ctxVars>>

\* "pod %s is already being watched"
Reject(c) ==
    /\ pc[c] = "register"
    /\ Watched(PodOf[c])
    /\ outcome' = [outcome EXCEPT ![c] = "duplicate"]
    /\ pc' = [pc EXCEPT ![c] = "returned"]
    /\ UNCHANGED <<own, seen, waiterVars, notifier, passed, watch, clusterVars, ctxVars>>

Receive(c) ==
    /\ pc[c] = "wait"
    /\ events[c] # <<>>
    /\ seen' = [seen EXCEPT ![c] = Head(events[c])]
    /\ events' = [events EXCEPT ![c] = <<>>]
    /\ IF IsReady(Head(events[c]))
       THEN /\ outcome' = [outcome EXCEPT ![c] = "ready"]
            /\ pc' = [pc EXCEPT ![c] = "cleanup"]
       ELSE UNCHANGED <<outcome, pc>>
    /\ UNCHANGED <<own, waiters, done, notifier, passed, watch, clusterVars, ctxVars>>

WaitCancelled(c) ==
    /\ pc[c] = "wait"
    /\ cancelled
    /\ outcome' = [outcome EXCEPT ![c] = "cancelled"]
    /\ pc' = [pc EXCEPT ![c] = "cleanup"]
    /\ UNCHANGED <<own, seen, waiterVars, notifier, passed, watch, clusterVars, ctxVars>>

\* Faulty variant of Cleanup: done is closed but the entry stays in the map.
CleanupKeepsEntry(c) ==
    /\ pc[c] = "cleanup"
    /\ done' = [done EXCEPT ![c] = TRUE]
    /\ pc' = [pc EXCEPT ![c] = "returned"]
    /\ UNCHANGED <<outcome, own, seen, waiters, events, notifier, passed, watch, clusterVars, ctxVars>>

\* The deferred function of WaitForPodReady.
Cleanup(c) ==
    /\ pc[c] = "cleanup"
    /\ IF waiters[PodOf[c]] = c
       THEN /\ waiters' = [waiters EXCEPT ![PodOf[c]] = NoCaller]
            /\ done' = [done EXCEPT ![c] = TRUE]
       ELSE UNCHANGED <<waiters, done>>
    /\ pc' = [pc EXCEPT ![c] = "returned"]
    /\ UNCHANGED <<outcome, own, seen, events, notifier, passed, watch, clusterVars, ctxVars>>

-----------------------------------------------------------------------------
(***************************************************************************)
(* The notifier: notify is called by WatchPods for one event at a time.    *)
(* The lock is released after the lookup, so the waiter may return and     *)
(* another may register under the name before the snapshot is delivered.   *)
(***************************************************************************)

\* Faulty variant of Lookup: the waiter is used without asking whether it exists.
LookupUnchecked(p) ==
    /\ watch = "running"
    /\ notifier.at = "idle"
    /\ stream[p] # <<>>
    /\ stream' = [stream EXCEPT ![p] = Tail(@)]
    /\ notifier' = [at |-> "found", waiter |-> waiters[p], pod |-> Head(stream[p])]
    /\ UNCHANGED <<callerVars, waiterVars, passed, watch, cluster, readied, ctxVars>>

Lookup(p) ==
    /\ watch = "running"
    /\ notifier.at = "idle"
    /\ stream[p] # <<>>
    /\ stream' = [stream EXCEPT ![p] = Tail(@)]
    /\ IF Watched(p)
       THEN /\ notifier' = [at |-> "found", waiter |-> waiters[p], pod |-> Head(stream[p])]
            /\ passed' = [passed EXCEPT ![waiters[p]] = Head(stream[p]).version]
       ELSE UNCHANGED <<notifier, passed>>
    /\ UNCHANGED <<callerVars, waiterVars, watch, cluster, readied, ctxVars>>

Handing(at) == notifier.at = at

CheckDone ==
    /\ Handing("found")
    /\ notifier' = IF done[notifier.waiter] THEN Idle ELSE [notifier EXCEPT !.at = "offer"]
    /\ UNCHANGED <<callerVars, waiterVars, passed, watch, clusterVars, ctxVars>>

Deliver ==
    /\ events' = [events EXCEPT ![notifier.waiter] = Append(@, notifier.pod)]
    /\ notifier' = Idle

Offer ==
    /\ Handing("offer")
    /\ IF events[notifier.waiter] = <<>>
       THEN Deliver
       ELSE /\ notifier' = [notifier EXCEPT !.at = "drain"]
            /\ UNCHANGED events
    /\ UNCHANGED <<callerVars, waiters, done, passed, watch, clusterVars, ctxVars>>

\* Faulty variant of Drain: the new snapshot is dropped, the unread one is kept.
DropNew ==
    /\ Handing("drain")
    /\ notifier' = Idle
    /\ UNCHANGED <<callerVars, waiterVars, passed, watch, clusterVars, ctxVars>>

\* Faulty variant of Drain: the unread snapshot is left in the channel.
SkipDrain ==
    /\ Handing("drain")
    /\ notifier' = [notifier EXCEPT !.at = "send"]
    /\ UNCHANGED <<callerVars, waiterVars, passed, watch, clusterVars, ctxVars>>

Drain ==
    /\ Handing("drain")
    /\ events' = [events EXCEPT ![notifier.waiter] = <<>>]
    /\ notifier' = [notifier EXCEPT !.at = "send"]
    /\ UNCHANGED <<callerVars, waiters, done, passed, watch, clusterVars, ctxVars>>

Send ==
    /\ Handing("send")
    /\ \/ /\ events[notifier.waiter] = <<>>
          /\ Deliver
       \/ /\ done[notifier.waiter]
          /\ notifier' = Idle
          /\ UNCHANGED events
    /\ UNCHANGED <<callerVars, waiters, done, passed, watch, clusterVars, ctxVars>>

\* WatchPods sees ctx.Done between two events.
WatchStops ==
    /\ watch = "running"
    /\ notifier.at = "idle"
    /\ shutdown
    /\ watch' = "stopped"
    /\ UNCHANGED <<callerVars, waiterVars, notifier, passed, clusterVars, ctxVars>>

\* The retry watcher gives up and closes its channel.
WatchFails ==
    /\ watch = "running"
    /\ notifier.at = "idle"
    /\ watch' = "failed"
    /\ UNCHANGED <<callerVars, waiterVars, notifier, passed, clusterVars, ctxVars>>

\* Faulty variant of PropagateFailure: the watch is begun anew and nothing is cancelled.
WatchAgain ==
    /\ watch = "failed"
    /\ ~cancelled
    /\ watch' = "running"
    /\ UNCHANGED <<callerVars, waiterVars, notifier, passed, clusterVars, ctxVars>>

\* main's goroutine reads the error from Start's channel and cancels runCtx.
PropagateFailure ==
    /\ watch = "failed"
    /\ ~cancelled
    /\ cancelled' = TRUE
    /\ UNCHANGED <<callerVars, waiterVars, notifier, passed, watch, clusterVars, shutdown>>

-----------------------------------------------------------------------------
CallerStep(c) ==
    \/ CreatePod(c) \/ CreatePodFails(c)
    \/ Register(c) \/ Reject(c)
    \/ Receive(c) \/ WaitCancelled(c)
    \/ Cleanup(c)

NotifierStep == CheckDone \/ Offer \/ Drain \/ Send

Next ==
    \/ \E c \in Callers : CallerStep(c)
    \/ \E p \in Pods : Lookup(p)
    \/ NotifierStep
    \/ WatchStops \/ WatchFails \/ PropagateFailure
    \/ \E p \in Pods : PodStatusChanges(p) \/ PodDeleted(p)
    \/ RestartWatch
    \/ Signal

Spec == Init /\ [][Next]_vars

(***************************************************************************)
(* Fairness.  Every goroutine that can go on does.  Both cases of a select *)
(* get their turn: the cancelled context is ready from then on (weak); a   *)
(* receiver blocked on events is woken by the send itself (strong).  The   *)
(* connection delivers its events in order, so none waits behind the other *)
(* pods' for ever (strong), and every watch is closed after 2 hours.       *)
(* Nothing is assumed of the cluster, of signals or of the watch failing.  *)
(***************************************************************************)
CallerFairness(c) ==
    WF_vars(CallerStep(c)) /\ WF_vars(WaitCancelled(c)) /\ SF_vars(Receive(c))
StreamFairness(p) == SF_vars(Lookup(p))
WatchFairness == WF_vars(NotifierStep) /\ WF_vars(RestartWatch) /\ WF_vars(PropagateFailure)

Fairness ==
    /\ \A c \in Callers : CallerFairness(c)
    /\ \A p \in Pods : StreamFairness(p)
    /\ WatchFairness

FairSpec == Spec /\ Fairness

-----------------------------------------------------------------------------
(***************************************************************************)
(* Refinement mapping to ReadyWait.                                        *)
(***************************************************************************)
PhaseOf(c) ==
    IF pc[c] \in {"create", "register"} THEN "outside"
    ELSE IF pc[c] = "wait" THEN "waiting" ELSE outcome[c]

Promise == INSTANCE ReadyWait WITH
    phase <- [c \in Callers |-> PhaseOf(c)],
    answer <- [c \in Callers |-> IF outcome[c] = "ready" THEN seen[c].inc ELSE 0],
    stopping <- cancelled

-----------------------------------------------------------------------------
(***************************************************************************)
(* Properties.                                                             *)
(***************************************************************************)

\* The final select of notify never blocks: whoever emptied the channel, the
\* notifier is its only sender.  If it could block on one waiter that reads no
\* more, every other waiter of the run would be left without events.
NotifyNeverBlocks ==
    Handing("send") => events[notifier.waiter] = <<>> \/ done[notifier.waiter]

\* The map of waiters holds exactly the goroutines inside WaitForPodReady, each
\* under its own name: no waiter is displaced by a second call for the name, and
\* none is left behind, which would make every later call a duplicate.
RegisteredWhileWaiting ==
    /\ \A c \in Callers : pc[c] \in {"wait", "cleanup"} <=> waiters[PodOf[c]] = c
    /\ \A c \in Callers : done[c] => pc[c] = "returned"

\* Coalescing keeps the newest snapshot: once notify is through with a snapshot,
\* the waiter has it in its channel or has just read it.  If an older one stayed
\* and the newer was dropped, a pod that became ready would not be noticed.
LatestNotLost ==
    \A c \in Callers :
        pc[c] = "wait" /\ passed[c] # 0 /\ ~(notifier.at # "idle" /\ notifier.waiter = c)
        => IF events[c] = <<>>
           THEN seen[c].version = passed[c]
           ELSE Head(events[c]).version = passed[c]

\* What makes the three invariants above inductive: an entry of the map stands
\* under its caller's name, the snapshot notify holds is the last one picked up for
\* its waiter, and none was picked up for a caller that has not registered.
HandoverInv ==
    /\ \A p \in Pods : Watched(p) => PodOf[waiters[p]] = p
    /\ notifier.at # "idle" => passed[notifier.waiter] = notifier.pod.version
    /\ \A c \in Callers : pc[c] \in {"create", "register"} => passed[c] = 0

WatcherInv ==
    TypeOK /\ RegisteredWhileWaiting /\ HandoverInv /\ NotifyNeverBlocks /\ LatestNotLost

\* Why a "ready" answer can be trusted to name an incarnation that has been ready:
\* every copy of a ready snapshot, wherever it is, was taken from the pod itself.
Witnessed(p, pod) == pod.status = "Ready" => pod.inc \in readied[p]

WitnessInv ==
    /\ \A p \in Pods : Witnessed(p, cluster[p])
    /\ \A p \in Pods : \A i \in 1..Len(stream[p]) : Witnessed(p, stream[p][i])
    /\ \A c \in Callers : \A i \in 1..Len(events[c]) : Witnessed(PodOf[c], events[c][i])
    /\ notifier.at # "idle" => Witnessed(PodOf[notifier.waiter], notifier.pod)
    /\ \A c \in Callers : pc[c] \in {"create", "register", "wait"} => outcome[c] = "none"

\* Nobody is stuck where the code goes on: a caller that only has to register, to clean up
\* or to notice a cancellation, or that has an event to receive, the notifier with a
\* snapshot in its hands, and whoever handles a failed watch can take a step, whatever
\* the others hold.
CallerCanStep(c) ==
    /\ pc[c] \in {"register", "cleanup"} \/ (pc[c] = "create" /\ cancelled)
       => ENABLED <<CallerStep(c)>>_vars
    /\ pc[c] = "wait" /\ cancelled => ENABLED <<WaitCancelled(c)>>_vars
    /\ pc[c] = "wait" /\ events[c] # <<>> => ENABLED <<Receive(c)>>_vars

LookupCanStep(p) ==
    watch = "running" /\ notifier.at = "idle" /\ stream[p] # <<>> => ENABLED <<Lookup(p)>>_vars

WatchCanStep ==
    /\ notifier.at # "idle" => ENABLED <<NotifierStep>>_vars
    /\ watch = "running" /\ stream # Present => ENABLED <<RestartWatch>>_vars
    /\ watch = "failed" /\ ~cancelled => ENABLED <<PropagateFailure>>_vars

NobodyStuck ==
    /\ \A c \in Callers : CallerCanStep(c)
    /\ \A p \in Pods : LookupCanStep(p)
    /\ WatchCanStep

\* A waiter does not outlive the run: after a signal, or when the watch fails,
\* every call returns, although a wait has no timeout of its own; nobody is stuck on the way.
CancelledReturns(c) == (cancelled \/ watch = "failed") ~> pc[c] = "returned"
CancelledCallersReturn == []NobodyStuck /\ \A c \in Callers : CancelledReturns(c)

\* No lost wakeup: a pod that is ready and stays ready, even from before its
\* creator registered (CreatePod and the registration are two steps), lets the
\* wait return as long as the watch goes on.
StaysReady(c) == IsReady(cluster[PodOf[c]]) /\ watch = "running"
ReadinessReaches(c) ==
    <>[]StaysReady(c) => (pc[c] \in {"register", "wait"} ~> pc[c] = "returned")
ReadinessReachesWaiter == \A c \in Callers : ReadinessReaches(c)

\* The watcher keeps the promise of ReadyWait: one wait at a time per name, a wait
\* given up only when the run is cancelled, and a "ready" answer that names an
\* incarnation of the caller's pod that has been ready, never one of another name.
ImplementsReadyWait == Promise!AbstractSpec

\* Comment of WaitForPodReady: it "blocks until the pod is in the running phase
\* and all the containers are ready"; the pod being the one its caller created.
ReadyMeansOwnPod ==
    \A c \in Callers : outcome[c] = "ready" => seen[c].inc = own[c]
=============================================================================
