-------------------------- MODULE PodWatcherProofs --------------------------
(***************************************************************************)
(* Proofs about PodWatcher, for any number of callers and pod names, any   *)
(* assignment of names to callers and any bound on the cluster's changes.  *)
(***************************************************************************)
EXTENDS PodWatcher, TLAPS

\* The next state of a pod's object is a snapshot again.
LEMMA NextObjectType ==
    ASSUME TypeOK, NEW p \in Pods, NEW inc \in Nat, NEW s \in Status \cup {"Absent"}
    PROVE  NextObject(p, inc, s) \in Snapshot
<1>1. cluster[p].version \in Nat
  BY DEF TypeOK, Snapshot
<1> QED BY <1>1 DEF NextObject, Snapshot

\* Publishing a change of one pod keeps the cluster's variables well typed.
LEMMA ChangeType ==
    ASSUME TypeOK, NEW p \in Pods, NEW object \in Snapshot, NEW event \in Snapshot,
           Change(p, object, event)
    PROVE  /\ cluster' \in [Pods -> Snapshot]
           /\ stream' \in [Pods -> Seq(Snapshot)]
           /\ readied' \in [Pods -> SUBSET Nat]
<1>1. cluster' \in [Pods -> Snapshot]
  BY DEF TypeOK, Change
<1>2. Append(stream[p], event) \in Seq(Snapshot)
  BY DEF TypeOK
<1>3. stream' \in [Pods -> Seq(Snapshot)]
  BY <1>2 DEF TypeOK, Change
<1>4. readied' \in [Pods -> SUBSET Nat]
  BY DEF TypeOK, Change, Snapshot
<1> QED BY <1>1, <1>3, <1>4

LEMMA PodAddedType ==
    ASSUME TypeOK, NEW p \in Pods, PodAdded(p)
    PROVE  /\ cluster' \in [Pods -> Snapshot]
           /\ stream' \in [Pods -> Seq(Snapshot)]
           /\ readied' \in [Pods -> SUBSET Nat]
<1> DEFINE object == NextObject(p, cluster[p].inc + 1, "Pending")
<1>1. object \in Snapshot
  <2>1. cluster[p].inc + 1 \in Nat /\ "Pending" \in Status \cup {"Absent"}
    BY DEF TypeOK, Snapshot, Status
  <2> QED BY <2>1, NextObjectType
<1>2. Change(p, object, object)
  BY DEF PodAdded
<1> QED BY <1>1, <1>2, ChangeType

-----------------------------------------------------------------------------
\* The initial state is well typed.
LEMMA TypeInit == Init => TypeOK
<1> SUFFICES ASSUME Init PROVE TypeOK
  OBVIOUS
<1>1. NoPod \in Snapshot /\ <<>> \in Seq(Snapshot) /\ Len(<<>>) <= 1
  BY DEF NoPod, Snapshot, Status
<1>0. Leftover \in Snapshot /\ <<Leftover>> \in Seq(Snapshot)
  BY DEF Leftover, Snapshot, Status
<1>2. Idle \in [at : {"idle", "found", "offer", "drain", "send"},
                waiter : Callers \cup {NoCaller}, pod : Snapshot]
      /\ Idle.at = "idle"
  BY <1>1 DEF Idle
<1>3. /\ seen \in [Callers -> Snapshot]
      /\ events \in [Callers -> Seq(Snapshot)]
      /\ \A c \in Callers : Len(events[c]) <= 1
      /\ stream \in [Pods -> Seq(Snapshot)]
      /\ cluster \in [Pods -> Snapshot]
      /\ readied \in [Pods -> SUBSET Nat]
  BY <1>0, <1>1 DEF Init
<1> QED BY <1>2, <1>3 DEF Init, TypeOK

\* Every step keeps the types.
LEMMA TypeStep == TypeOK /\ [Next]_vars => TypeOK'
<1> SUFFICES ASSUME TypeOK, [Next]_vars PROVE TypeOK'
  OBVIOUS
<1> USE PodWatcherAssumption
<1>1. ASSUME NEW c \in Callers, CreatePod(c) PROVE TypeOK'
  <2>1. PodOf[c] \in Pods /\ PodAdded(PodOf[c])
    BY <1>1 DEF CreatePod
  <2>2. cluster[PodOf[c]].inc + 1 \in Nat
    BY <2>1 DEF TypeOK, Snapshot
  <2> QED BY <1>1, <2>1, <2>2, PodAddedType
      DEF TypeOK, CreatePod, waiterVars, ctxVars
<1>2. ASSUME NEW c \in Callers, CreatePodFails(c) PROVE TypeOK'
  <2>1. CASE UNCHANGED clusterVars
    BY <1>2, <2>1 DEF TypeOK, CreatePodFails, waiterVars, ctxVars, clusterVars
  <2>2. CASE PodAdded(PodOf[c])
    BY <1>2, <2>2, PodAddedType DEF TypeOK, CreatePodFails, waiterVars, ctxVars
  <2> QED BY <1>2, <2>1, <2>2 DEF CreatePodFails
<1>3. ASSUME NEW c \in Callers, Register(c) PROVE TypeOK'
  BY <1>3 DEF TypeOK, Register, ctxVars, clusterVars
<1>4. ASSUME NEW c \in Callers, Reject(c) PROVE TypeOK'
  BY <1>4 DEF TypeOK, Reject, ctxVars, clusterVars, waiterVars
<1>5. ASSUME NEW c \in Callers, Receive(c) PROVE TypeOK'
  <2>1. Head(events[c]) \in Snapshot
    BY <1>5 DEF TypeOK, Receive
  <2>2. events' \in [Callers -> Seq(Snapshot)] /\ \A d \in Callers : Len(events'[d]) <= 1
    BY <1>5 DEF TypeOK, Receive
  <2> QED BY <1>5, <2>1, <2>2 DEF TypeOK, Receive, ctxVars, clusterVars
<1>6. ASSUME NEW c \in Callers, WaitCancelled(c) PROVE TypeOK'
  BY <1>6 DEF TypeOK, WaitCancelled, ctxVars, clusterVars, waiterVars
<1>7. ASSUME NEW c \in Callers, Cleanup(c) PROVE TypeOK'
  BY <1>7 DEF TypeOK, Cleanup, ctxVars, clusterVars
<1>8. ASSUME NEW p \in Pods, Lookup(p) PROVE TypeOK'
  <2>1. Head(stream[p]) \in Snapshot /\ Tail(stream[p]) \in Seq(Snapshot)
    BY <1>8 DEF TypeOK, Lookup
  <2>2. stream' \in [Pods -> Seq(Snapshot)]
    BY <1>8, <2>1 DEF TypeOK, Lookup
  <2>3. CASE Watched(p)
    <3>1. waiters[p] \in Callers
      BY <2>3 DEF TypeOK, Watched
    <3>2. Head(stream[p]).version \in Nat
      BY <2>1 DEF Snapshot
    <3>3. /\ notifier' = [at |-> "found", waiter |-> waiters[p], pod |-> Head(stream[p])]
          /\ passed' = [passed EXCEPT ![waiters[p]] = Head(stream[p]).version]
      BY <1>8, <2>3 DEF Lookup
    <3>4. notifier' \in [at : {"idle", "found", "offer", "drain", "send"},
                         waiter : Callers \cup {NoCaller}, pod : Snapshot]
          /\ notifier'.waiter \in Callers
      BY <2>1, <3>1, <3>3
    <3>5. passed' \in [Callers -> Nat]
      BY <3>1, <3>2, <3>3 DEF TypeOK
    <3> QED BY <1>8, <2>2, <3>4, <3>5
        DEF TypeOK, Lookup, callerVars, waiterVars, ctxVars
  <2>4. CASE ~Watched(p)
    BY <1>8, <2>2, <2>4 DEF TypeOK, Lookup, callerVars, waiterVars, ctxVars
  <2> QED BY <2>3, <2>4
<1>9. ASSUME CheckDone PROVE TypeOK'
  BY <1>9 DEF TypeOK, CheckDone, Handing, Idle, NoPod, Snapshot, Status,
              callerVars, waiterVars, clusterVars, ctxVars
<1>10. ASSUME Offer \/ Send PROVE TypeOK'
  <2>1. notifier.waiter \in Callers /\ notifier.pod \in Snapshot
    BY <1>10 DEF TypeOK, Offer, Send, Handing
  <2>2. ASSUME events[notifier.waiter] = <<>>, Deliver
        PROVE  /\ events' \in [Callers -> Seq(Snapshot)]
               /\ \A d \in Callers : Len(events'[d]) <= 1
    <3>1. Append(events[notifier.waiter], notifier.pod) = <<notifier.pod>>
      BY <2>1, <2>2
    <3>2. events' = [events EXCEPT ![notifier.waiter] = <<notifier.pod>>]
      BY <2>2, <3>1 DEF Deliver
    <3> QED BY <2>1, <3>2 DEF TypeOK
  <2>3. events' \in [Callers -> Seq(Snapshot)] /\ \A d \in Callers : Len(events'[d]) <= 1
    BY <1>10, <2>2 DEF Offer, Send, TypeOK
  <2>4. /\ notifier' \in [at : {"idle", "found", "offer", "drain", "send"},
                          waiter : Callers \cup {NoCaller}, pod : Snapshot]
        /\ notifier'.at # "idle" => notifier'.waiter \in Callers
    <3>1. CASE notifier' = Idle
      BY <3>1 DEF Idle, NoPod, Snapshot, Status
    <3>2. CASE notifier' = [notifier EXCEPT !.at = "drain"]
      BY <2>1, <3>2 DEF TypeOK
    <3> QED BY <1>10, <3>1, <3>2 DEF Offer, Send, Deliver
  <2> QED BY <1>10, <2>3, <2>4 DEF TypeOK, Offer, Send, callerVars, clusterVars, ctxVars
<1>11. ASSUME Drain PROVE TypeOK'
  <2>1. notifier.waiter \in Callers
    BY <1>11 DEF TypeOK, Drain, Handing
  <2>2. events' \in [Callers -> Seq(Snapshot)] /\ \A d \in Callers : Len(events'[d]) <= 1
    BY <1>11, <2>1 DEF TypeOK, Drain
  <2> QED BY <1>11, <2>1, <2>2 DEF TypeOK, Drain, callerVars, clusterVars, ctxVars
<1>12. ASSUME WatchStops \/ WatchFails \/ PropagateFailure \/ Signal PROVE TypeOK'
  BY <1>12 DEF TypeOK, WatchStops, WatchFails, PropagateFailure, Signal,
               callerVars, waiterVars, clusterVars, ctxVars
<1>13. ASSUME NEW p \in Pods, PodStatusChanges(p) PROVE TypeOK'
  <2>1. cluster[p].inc \in Nat
    BY DEF TypeOK, Snapshot
  <2>2. PICK s \in Status : Change(p, NextObject(p, cluster[p].inc, s),
                                      NextObject(p, cluster[p].inc, s))
    BY <1>13 DEF PodStatusChanges, Successors, Status
  <2> QED BY <1>13, <2>1, <2>2, NextObjectType, ChangeType
      DEF TypeOK, PodStatusChanges, callerVars, waiterVars, ctxVars
<1>14. ASSUME NEW p \in Pods, PodDeleted(p) PROVE TypeOK'
  <2>1. cluster[p].inc \in Nat
    BY DEF TypeOK, Snapshot
  <2>2. PICK s \in Status : Change(p, NextObject(p, cluster[p].inc, "Absent"),
                                      NextObject(p, cluster[p].inc, s))
    <3>1. cluster[p].status \in Status
      BY <1>14 DEF PodDeleted, PodExists, TypeOK, Snapshot
    <3> QED BY <1>14, <3>1 DEF PodDeleted, Status
  <2> QED BY <1>14, <2>1, <2>2, NextObjectType, ChangeType
      DEF TypeOK, PodDeleted, callerVars, waiterVars, ctxVars
<1>15. ASSUME RestartWatch PROVE TypeOK'
  <2>1. ASSUME NEW p \in Pods PROVE <<cluster[p]>> \in Seq(Snapshot)
    BY DEF TypeOK
  <2>2. stream' \in [Pods -> Seq(Snapshot)]
    BY <1>15, <2>1 DEF RestartWatch, Present
  <2> QED BY <1>15, <2>2 DEF TypeOK, RestartWatch, callerVars, waiterVars, ctxVars
<1>16. CASE UNCHANGED vars
  BY <1>16 DEF TypeOK, vars, callerVars, waiterVars, clusterVars, ctxVars
<1> QED
  BY <1>1, <1>2, <1>3, <1>4, <1>5, <1>6, <1>7, <1>8, <1>9, <1>10, <1>11, <1>12,
     <1>13, <1>14, <1>15, <1>16 DEF Next, CallerStep, NotifierStep

\* Type correctness: no step of a goroutine or of the environment leaves the types;
\* a waiter's channel never holds two events.
THEOREM TypeCorrect == Spec => []TypeOK
BY TypeInit, TypeStep, PTL DEF Spec

-----------------------------------------------------------------------------
\* The invariant holds at the start: nobody is registered, nothing was picked up.
LEMMA InvInit == Init => WatcherInv
<1> SUFFICES ASSUME Init PROVE WatcherInv
  OBVIOUS
<1>1. /\ pc = [c \in Callers |-> "create"]
      /\ waiters = [p \in Pods |-> NoCaller]
      /\ done = [c \in Callers |-> FALSE]
      /\ passed = [c \in Callers |-> 0]
      /\ notifier.at = "idle"
  BY DEF Init, Idle
<1>2. RegisteredWhileWaiting /\ HandoverInv /\ NotifyNeverBlocks /\ LatestNotLost
  BY <1>1, PodWatcherAssumption
     DEF RegisteredWhileWaiting, HandoverInv, NotifyNeverBlocks, LatestNotLost, Watched, Handing
<1> QED BY <1>2, TypeInit DEF WatcherInv

\* Steps that touch neither callers, waiters, the notifier nor `passed`.
LEMMA InvEnvironment ==
    ASSUME WatcherInv, TypeOK', UNCHANGED <<callerVars, waiterVars, notifier, passed>>
    PROVE  WatcherInv'
BY DEF WatcherInv, RegisteredWhileWaiting, HandoverInv, NotifyNeverBlocks, LatestNotLost,
       Watched, Handing, callerVars, waiterVars

\* Steps of a caller that has not registered and does not register.
LEMMA InvBeforeWait ==
    ASSUME WatcherInv, TypeOK', NEW c \in Callers,
           pc[c] \in {"create", "register"},
           \E to \in {"register", "returned"} : pc' = [pc EXCEPT ![c] = to],
           UNCHANGED <<seen, waiterVars, notifier, passed>>
    PROVE  WatcherInv'
<1>1. RegisteredWhileWaiting'
  BY DEF WatcherInv, TypeOK, RegisteredWhileWaiting, waiterVars
<1>2. HandoverInv'
  BY DEF WatcherInv, TypeOK, HandoverInv, Watched, waiterVars
<1>3. NotifyNeverBlocks'
  BY DEF WatcherInv, NotifyNeverBlocks, Handing, waiterVars
<1>4. LatestNotLost'
  BY DEF WatcherInv, TypeOK, LatestNotLost, waiterVars
<1> QED BY <1>1, <1>2, <1>3, <1>4 DEF WatcherInv

LEMMA InvRegister ==
    ASSUME WatcherInv, TypeOK', NEW c \in Callers, Register(c)
    PROVE  WatcherInv'
<1> USE PodWatcherAssumption
<1>0. /\ waiters[PodOf[c]] = NoCaller
      /\ waiters' = [waiters EXCEPT ![PodOf[c]] = c]
      /\ pc' = [pc EXCEPT ![c] = "wait"]
      /\ done[c] = FALSE
      /\ UNCHANGED <<done, notifier, passed>>
  BY DEF WatcherInv, TypeOK, RegisteredWhileWaiting, Register, Watched
<1>1. RegisteredWhileWaiting'
  <2>1. ASSUME NEW d \in Callers
        PROVE  pc'[d] \in {"wait", "cleanup"} <=> waiters'[PodOf[d]] = d
    <3>1. pc[d] \in {"wait", "cleanup"} <=> waiters[PodOf[d]] = d
      BY DEF WatcherInv, RegisteredWhileWaiting
    <3>2. CASE d = c
      BY <1>0, <3>2 DEF WatcherInv, TypeOK
    <3>3. CASE d # c
      BY <1>0, <3>1, <3>3 DEF WatcherInv, TypeOK
    <3> QED BY <3>2, <3>3
  <2>2. \A d \in Callers : done'[d] => pc'[d] = "returned"
    BY <1>0 DEF WatcherInv, TypeOK, RegisteredWhileWaiting
  <2> QED BY <2>1, <2>2 DEF RegisteredWhileWaiting
<1>2. HandoverInv'
  <2>1. ASSUME NEW p \in Pods, waiters'[p] # NoCaller
        PROVE  PodOf[waiters'[p]] = p
    <3>1. CASE p = PodOf[c]
      BY <1>0, <3>1 DEF WatcherInv, TypeOK
    <3>2. CASE p # PodOf[c]
      BY <1>0, <2>1, <3>2 DEF WatcherInv, TypeOK, HandoverInv, Watched
    <3> QED BY <3>1, <3>2
  <2>2. notifier'.at # "idle" => passed'[notifier'.waiter] = notifier'.pod.version
    BY <1>0 DEF WatcherInv, HandoverInv
  <2>3. \A d \in Callers : pc'[d] \in {"create", "register"} => passed'[d] = 0
    BY <1>0 DEF WatcherInv, TypeOK, HandoverInv
  <2> QED BY <2>1, <2>2, <2>3 DEF HandoverInv, Watched
<1>3. NotifyNeverBlocks'
  BY DEF WatcherInv, NotifyNeverBlocks, Handing, Register
<1>4. LatestNotLost'
  BY DEF WatcherInv, TypeOK, HandoverInv, LatestNotLost, Register
<1> QED BY <1>1, <1>2, <1>3, <1>4 DEF WatcherInv

LEMMA InvReceive ==
    ASSUME WatcherInv, TypeOK', NEW c \in Callers, Receive(c)
    PROVE  WatcherInv'
<1>1. \A d \in Callers : pc'[d] = pc[d] \/ (d = c /\ pc[d] = "wait" /\ pc'[d] = "cleanup")
  BY DEF WatcherInv, TypeOK, Receive
<1>2. RegisteredWhileWaiting'
  BY <1>1 DEF WatcherInv, TypeOK, RegisteredWhileWaiting, Receive
<1>3. HandoverInv'
  BY <1>1 DEF WatcherInv, HandoverInv, Watched, Receive
<1>4. NotifyNeverBlocks'
  BY DEF WatcherInv, TypeOK, NotifyNeverBlocks, Handing, Receive
<1>5. LatestNotLost'
  BY <1>1 DEF WatcherInv, TypeOK, LatestNotLost, Receive
<1> QED BY <1>2, <1>3, <1>4, <1>5 DEF WatcherInv

LEMMA InvWaitCancelled ==
    ASSUME WatcherInv, TypeOK', NEW c \in Callers, WaitCancelled(c)
    PROVE  WatcherInv'
<1>1. RegisteredWhileWaiting'
  BY DEF WatcherInv, TypeOK, RegisteredWhileWaiting, WaitCancelled, waiterVars
<1>2. HandoverInv'
  BY DEF WatcherInv, TypeOK, HandoverInv, Watched, WaitCancelled, waiterVars
<1>3. NotifyNeverBlocks'
  BY DEF WatcherInv, NotifyNeverBlocks, Handing, WaitCancelled, waiterVars
<1>4. LatestNotLost'
  BY DEF WatcherInv, TypeOK, LatestNotLost, WaitCancelled, waiterVars
<1> QED BY <1>1, <1>2, <1>3, <1>4 DEF WatcherInv

\* The deferred cleanup always finds its own entry, so it always closes done.
LEMMA InvCleanup ==
    ASSUME WatcherInv, TypeOK', NEW c \in Callers, Cleanup(c)
    PROVE  WatcherInv'
<1> USE PodWatcherAssumption
<1>1. /\ waiters[PodOf[c]] = c
      /\ waiters' = [waiters EXCEPT ![PodOf[c]] = NoCaller]
      /\ done' = [done EXCEPT ![c] = TRUE]
      /\ pc' = [pc EXCEPT ![c] = "returned"]
  BY DEF WatcherInv, RegisteredWhileWaiting, Cleanup
<1>2. RegisteredWhileWaiting'
  BY <1>1 DEF WatcherInv, TypeOK, RegisteredWhileWaiting
<1>3. HandoverInv'
  BY <1>1 DEF WatcherInv, TypeOK, HandoverInv, Watched, Cleanup
<1>4. NotifyNeverBlocks'
  BY <1>1 DEF WatcherInv, TypeOK, NotifyNeverBlocks, Handing, Cleanup
<1>5. LatestNotLost'
  BY <1>1 DEF WatcherInv, TypeOK, LatestNotLost, Cleanup
<1> QED BY <1>2, <1>3, <1>4, <1>5 DEF WatcherInv

LEMMA InvLookup ==
    ASSUME WatcherInv, TypeOK', NEW p \in Pods, Lookup(p)
    PROVE  WatcherInv'
<1> USE PodWatcherAssumption
<1>1. CASE ~Watched(p)
  BY <1>1, InvEnvironment DEF Lookup
<1>2. CASE Watched(p)
  <2>1. /\ waiters[p] \in Callers
        /\ notifier' = [at |-> "found", waiter |-> waiters[p], pod |-> Head(stream[p])]
        /\ passed' = [passed EXCEPT ![waiters[p]] = Head(stream[p]).version]
    BY <1>2 DEF Lookup, Watched, WatcherInv, TypeOK
  <2>2. PodOf[waiters[p]] = p
    BY <1>2 DEF WatcherInv, HandoverInv
  <2>3. pc[waiters[p]] \in {"wait", "cleanup"}
    BY <2>1, <2>2 DEF WatcherInv, RegisteredWhileWaiting
  <2>4. RegisteredWhileWaiting'
    BY DEF WatcherInv, RegisteredWhileWaiting, Lookup, callerVars, waiterVars
  <2>5. HandoverInv'
    BY <2>1, <2>3 DEF WatcherInv, TypeOK, HandoverInv, Watched, Lookup, callerVars, waiterVars
  <2>6. NotifyNeverBlocks'
    BY <2>1 DEF NotifyNeverBlocks, Handing
  <2>7. LatestNotLost'
    BY <2>1 DEF WatcherInv, TypeOK, LatestNotLost, Lookup, callerVars, waiterVars
  <2> QED BY <2>4, <2>5, <2>6, <2>7 DEF WatcherInv
<1> QED BY <1>1, <1>2

\* Snapshots leave notify only into the channel they were meant for, or because
\* their waiter has returned.
LEMMA InvNotifier ==
    ASSUME WatcherInv, TypeOK', NotifierStep
    PROVE  WatcherInv'
<1>1. UNCHANGED <<pc, seen, waiters, done, passed>>
  BY DEF NotifierStep, CheckDone, Offer, Drain, Send, callerVars, waiterVars
<1>2. notifier.waiter \in Callers /\ notifier.at # "idle"
  BY DEF WatcherInv, TypeOK, NotifierStep, CheckDone, Offer, Drain, Send, Handing
<1>3. notifier' = Idle \/ (/\ notifier'.waiter = notifier.waiter
                           /\ notifier'.pod = notifier.pod
                           /\ notifier'.at # "idle")
  <2>1. notifier' = Idle \/ \E at \in {"offer", "drain", "send"} :
                               notifier' = [notifier EXCEPT !.at = at]
    BY DEF NotifierStep, CheckDone, Offer, Drain, Send, Deliver
  <2> QED BY <2>1 DEF WatcherInv, TypeOK
<1>4. RegisteredWhileWaiting'
  BY <1>1 DEF WatcherInv, RegisteredWhileWaiting
<1>5. HandoverInv'
  BY <1>1, <1>2, <1>3 DEF WatcherInv, HandoverInv, Watched, Idle
<1>6. NotifyNeverBlocks'
  <2>1. CASE Drain
    BY <1>2, <2>1 DEF WatcherInv, TypeOK, NotifyNeverBlocks, Drain, Handing
  <2>2. ASSUME CheckDone \/ Offer \/ Send PROVE notifier'.at # "send"
    <3>1. \/ notifier' = Idle
          \/ notifier' = [notifier EXCEPT !.at = "offer"]
          \/ notifier' = [notifier EXCEPT !.at = "drain"]
      BY <2>2 DEF CheckDone, Offer, Send, Deliver
    <3> QED BY <3>1 DEF Idle, WatcherInv, TypeOK
  <2> QED BY <2>1, <2>2 DEF NotifierStep, NotifyNeverBlocks, Handing
<1>7. LatestNotLost'
  <2>1. ASSUME events[notifier.waiter] = <<>>, Deliver
        PROVE  LatestNotLost'
    <3>1. events' = [events EXCEPT ![notifier.waiter] = <<notifier.pod>>]
      BY <1>2, <2>1 DEF Deliver, WatcherInv, TypeOK
    <3>2. passed[notifier.waiter] = notifier.pod.version
      BY <1>2 DEF WatcherInv, HandoverInv
    <3>3. Head(<<notifier.pod>>) = notifier.pod /\ <<notifier.pod>> # <<>>
      OBVIOUS
    <3> QED BY <1>1, <1>2, <2>1, <3>1, <3>2, <3>3 DEF WatcherInv, TypeOK, LatestNotLost, Deliver
  <2>2. ASSUME notifier' = Idle, done[notifier.waiter], UNCHANGED events
        PROVE  LatestNotLost'
    BY <1>1, <1>2, <2>2 DEF WatcherInv, LatestNotLost, RegisteredWhileWaiting
  <2>3. ASSUME notifier'.at # "idle", notifier'.waiter = notifier.waiter,
               \A c \in Callers : c # notifier.waiter => events'[c] = events[c]
        PROVE  LatestNotLost'
    BY <1>1, <1>2, <2>3 DEF WatcherInv, LatestNotLost
  <2>4. CASE CheckDone
    BY <2>2, <2>3, <2>4, <1>3 DEF CheckDone, waiterVars, Idle
  <2>5. CASE Offer
    BY <2>1, <2>3, <2>5, <1>3 DEF Offer, Idle
  <2>6. CASE Drain
    BY <2>3, <2>6, <1>2, <1>3 DEF Drain, Idle, WatcherInv, TypeOK
  <2>7. CASE Send
    BY <2>1, <2>2, <2>7 DEF Send
  <2> QED BY <2>4, <2>5, <2>6, <2>7 DEF NotifierStep
<1> QED BY <1>4, <1>5, <1>6, <1>7 DEF WatcherInv

\* The invariant is inductive.
LEMMA InvStep == WatcherInv /\ [Next]_vars => WatcherInv'
<1> SUFFICES ASSUME WatcherInv, [Next]_vars PROVE WatcherInv'
  OBVIOUS
<1>1. TypeOK'
  BY TypeStep DEF WatcherInv
<1>2. ASSUME NEW c \in Callers, CreatePod(c) \/ CreatePodFails(c) \/ Reject(c)
      PROVE  WatcherInv'
  BY <1>1, <1>2, InvBeforeWait DEF CreatePod, CreatePodFails, Reject
<1>3. ASSUME NEW p \in Pods, PodStatusChanges(p) \/ PodDeleted(p) PROVE WatcherInv'
  BY <1>1, <1>3, InvEnvironment DEF PodStatusChanges, PodDeleted
<1>4. ASSUME \/ WatchStops \/ WatchFails \/ PropagateFailure \/ RestartWatch \/ Signal
             \/ UNCHANGED vars
      PROVE  WatcherInv'
  BY <1>1, <1>4, InvEnvironment
     DEF WatchStops, WatchFails, PropagateFailure, RestartWatch, Signal, vars
<1> QED
  BY <1>1, <1>2, <1>3, <1>4, InvRegister, InvReceive, InvWaitCancelled, InvCleanup,
     InvLookup, InvNotifier DEF Next, CallerStep

\* Every reachable state satisfies the inductive invariant.
THEOREM WatcherInvariant == Spec => []WatcherInv
BY InvInit, InvStep, PTL DEF Spec

\* The notifier is never stuck on one waiter: notify's last select can always go on.
THEOREM NotifierNeverStuck == Spec => []NotifyNeverBlocks
<1>1. WatcherInv => NotifyNeverBlocks
  BY DEF WatcherInv
<1> QED BY <1>1, WatcherInvariant, PTL

\* The map of waiters is exact: one entry per goroutine inside WaitForPodReady.
THEOREM WaitersExact == Spec => []RegisteredWhileWaiting
<1>1. WatcherInv => RegisteredWhileWaiting
  BY DEF WatcherInv
<1> QED BY <1>1, WatcherInvariant, PTL

\* No snapshot is lost to an older one: coalescing keeps the newest.
THEOREM NewestSnapshotKept == Spec => []LatestNotLost
<1>1. WatcherInv => LatestNotLost
  BY DEF WatcherInv
<1> QED BY <1>1, WatcherInvariant, PTL

-----------------------------------------------------------------------------
\* The elements of a tail are elements of the sequence.
LEMMA TailElement ==
    ASSUME NEW S, NEW s \in Seq(S), s # <<>>, NEW i \in 1..Len(Tail(s))
    PROVE  i + 1 \in 1..Len(s) /\ Tail(s)[i] = s[i + 1]
<1>1. Len(s) \in Nat \ {0} /\ Len(Tail(s)) = Len(s) - 1
  OBVIOUS
<1> QED BY <1>1

\* The witness invariant at the start: the only snapshots are of pods left behind ready.
LEMMA WitnessInit == Init => WitnessInv
<1> SUFFICES ASSUME Init PROVE WitnessInv
  OBVIOUS
<1>1. ASSUME NEW p \in Pods
      PROVE  /\ Witnessed(p, cluster[p])
             /\ \A i \in 1..Len(stream[p]) : Witnessed(p, stream[p][i])
  <2>1. PICK left \in SUBSET Pods :
          /\ cluster = [q \in Pods |-> IF q \in left THEN Leftover ELSE NoPod]
          /\ stream = [q \in Pods |-> IF q \in left THEN <<Leftover>> ELSE <<>>]
          /\ readied = [q \in Pods |-> IF q \in left THEN {1} ELSE {}]
    BY DEF Init
  <2>2. CASE p \in left
    BY <2>1, <2>2 DEF Witnessed, Leftover
  <2>3. CASE p \notin left
    BY <2>1, <2>3 DEF Witnessed, NoPod
  <2> QED BY <2>2, <2>3
<1>2. /\ \A c \in Callers : events[c] = <<>> /\ outcome[c] = "none"
      /\ notifier.at = "idle"
  BY DEF Init, Idle
<1> QED BY <1>1, <1>2 DEF WitnessInv

\* A change of one pod keeps every snapshot witnessed when the new object is
\* witnessed once it is counted, and the event was witnessed or is the object.
LEMMA WitnessChange ==
    ASSUME TypeOK, WitnessInv, NEW p \in Pods, NEW object \in Snapshot, NEW event \in Snapshot,
           Change(p, object, event),
           Witnessed(p, event) \/ event = object
    PROVE  /\ \A q \in Pods : Witnessed(q, cluster[q])'
           /\ \A q \in Pods : \A i \in 1..Len(stream'[q]) : Witnessed(q, stream[q][i])'
           /\ \A q \in Pods : readied[q] \subseteq readied'[q]
           /\ object.status # "Ready" => readied' = readied
<1>1. \A q \in Pods : readied[q] \subseteq readied'[q]
  BY DEF TypeOK, Change
<1>2. object.status # "Ready" => readied' = readied
  BY DEF TypeOK, Change
<1>3. (object.status = "Ready" => object.inc \in readied'[p])
  BY DEF TypeOK, Change
<1>4. \A q \in Pods : Witnessed(q, cluster[q])'
  BY <1>1, <1>3 DEF TypeOK, WitnessInv, Witnessed, Change
<1>5. ASSUME NEW q \in Pods, NEW i \in 1..Len(stream'[q]) PROVE Witnessed(q, stream[q][i])'
  <2>1. CASE q # p
    <3>1. stream'[q] = stream[q]
      BY <2>1 DEF TypeOK, Change
    <3> QED BY <1>1, <1>5, <3>1 DEF WitnessInv, Witnessed
  <2>2. CASE q = p
    <3>1. stream'[q] = Append(stream[q], event) /\ stream[q] \in Seq(Snapshot)
      BY <2>2 DEF TypeOK, Change
    <3>2. CASE i \in 1..Len(stream[q])
      BY <1>1, <3>1, <3>2 DEF WitnessInv, Witnessed
    <3>3. CASE i = Len(stream[q]) + 1
      <4>1. stream'[q][i] = event
        BY <3>1, <3>3
      <4> QED BY <1>1, <1>3, <2>2, <4>1 DEF Witnessed
    <3>4. i \in 1..Len(stream[q]) \/ i = Len(stream[q]) + 1
      BY <1>5, <3>1
    <3> QED BY <3>2, <3>3, <3>4
  <2> QED BY <2>1, <2>2
<1> QED BY <1>1, <1>2, <1>4, <1>5

\* What an environment change of pod p leaves to show for WitnessInv.
LEMMA WitnessEnvironment ==
    ASSUME TypeOK, WitnessInv, NEW p \in Pods, NEW object \in Snapshot, NEW event \in Snapshot,
           Change(p, object, event),
           Witnessed(p, event) \/ event = object,
           UNCHANGED <<events, notifier>>,
           \A c \in Callers : pc'[c] \in {"create", "register", "wait"} => outcome'[c] = "none"
    PROVE  WitnessInv'
<1>1. /\ \A q \in Pods : Witnessed(q, cluster[q])'
      /\ \A q \in Pods : \A i \in 1..Len(stream'[q]) : Witnessed(q, stream[q][i])'
      /\ \A q \in Pods : readied[q] \subseteq readied'[q]
  BY WitnessChange
<1>2. \A c \in Callers : \A i \in 1..Len(events'[c]) : Witnessed(PodOf[c], events[c][i])'
  BY <1>1, PodWatcherAssumption DEF WitnessInv, Witnessed
<1>3. notifier'.at # "idle" => Witnessed(PodOf[notifier.waiter], notifier.pod)'
  BY <1>1, PodWatcherAssumption DEF WitnessInv, Witnessed, TypeOK
<1> QED BY <1>1, <1>2, <1>3 DEF WitnessInv

LEMMA WitnessPodAdded ==
    ASSUME TypeOK, WitnessInv, NEW p \in Pods, PodAdded(p), UNCHANGED <<events, notifier>>,
           \A c \in Callers : pc'[c] \in {"create", "register", "wait"} => outcome'[c] = "none"
    PROVE  WitnessInv' /\ readied' = readied
<1> DEFINE object == NextObject(p, cluster[p].inc + 1, "Pending")
<1>1. object \in Snapshot /\ object.status = "Pending"
  <2>1. cluster[p].inc + 1 \in Nat /\ "Pending" \in Status \cup {"Absent"}
    BY DEF TypeOK, Snapshot, Status
  <2> QED BY <2>1, NextObjectType DEF NextObject
<1>2. Change(p, object, object)
  BY DEF PodAdded
<1> QED BY <1>1, <1>2, WitnessEnvironment, WitnessChange

\* Steps that create no snapshot and change no pod.
LEMMA WitnessMove ==
    ASSUME TypeOK, WitnessInv, UNCHANGED <<clusterVars, events, notifier>>,
           \A c \in Callers : pc'[c] \in {"create", "register", "wait"} => outcome'[c] = "none"
    PROVE  WitnessInv'
BY DEF WitnessInv, Witnessed, clusterVars

\* Every snapshot stays witnessed under every step.
LEMMA WitnessStep == WatcherInv /\ WitnessInv /\ [Next]_vars => WitnessInv'
<1> SUFFICES ASSUME WatcherInv, WitnessInv, [Next]_vars PROVE WitnessInv'
  OBVIOUS
<1> USE PodWatcherAssumption
<1>0. TypeOK
  BY DEF WatcherInv
<1>1. ASSUME NEW c \in Callers, CreatePod(c) PROVE WitnessInv'
  <2>1. \A d \in Callers : pc'[d] \in {"create", "register", "wait"} => outcome'[d] = "none"
    BY <1>0, <1>1 DEF CreatePod, TypeOK, WitnessInv
  <2> QED BY <1>0, <1>1, <2>1, WitnessPodAdded DEF CreatePod, waiterVars
<1>2. ASSUME NEW c \in Callers, CreatePodFails(c) PROVE WitnessInv'
  <2>1. \A d \in Callers : pc'[d] \in {"create", "register", "wait"} => outcome'[d] = "none"
    BY <1>0, <1>2 DEF CreatePodFails, TypeOK, WitnessInv
  <2> QED BY <1>0, <1>2, <2>1, WitnessPodAdded, WitnessMove DEF CreatePodFails, waiterVars
<1>3. ASSUME NEW c \in Callers, Register(c) \/ Reject(c) \/ WaitCancelled(c) \/ Cleanup(c)
      PROVE  WitnessInv'
  <2>1. \A d \in Callers : pc'[d] \in {"create", "register", "wait"} => outcome'[d] = "none"
    BY <1>0, <1>3 DEF Register, Reject, WaitCancelled, Cleanup, TypeOK, WitnessInv
  <2> QED BY <1>0, <1>3, <2>1, WitnessMove
          DEF Register, Reject, WaitCancelled, Cleanup, waiterVars
<1>4. ASSUME NEW c \in Callers, Receive(c) PROVE WitnessInv'
  <2>1. \A d \in Callers : pc'[d] \in {"create", "register", "wait"} => outcome'[d] = "none"
    BY <1>0, <1>4 DEF Receive, TypeOK, WitnessInv
  <2>2. \A d \in Callers : events'[d] = events[d] \/ events'[d] = <<>>
    BY <1>0, <1>4 DEF Receive, TypeOK
  <2> QED BY <1>4, <2>1, <2>2 DEF Receive, WitnessInv, Witnessed, clusterVars
<1>5. ASSUME NEW p \in Pods, Lookup(p) PROVE WitnessInv'
  <2>1. /\ stream[p] \in Seq(Snapshot) /\ stream[p] # <<>>
        /\ stream' = [stream EXCEPT ![p] = Tail(stream[p])]
    BY <1>0, <1>5 DEF TypeOK, Lookup
  <2>2. Witnessed(p, Head(stream[p]))
    BY <2>1 DEF WitnessInv
  <2>3. \A q \in Pods : \A i \in 1..Len(stream'[q]) : Witnessed(q, stream[q][i])'
    <3>1. ASSUME NEW q \in Pods, NEW i \in 1..Len(stream'[q])
          PROVE  \E j \in 1..Len(stream[q]) : stream'[q][i] = stream[q][j]
      <4>1. CASE q = p
        <5>1. stream'[q] = Tail(stream[p])
          BY <1>0, <2>1, <4>1 DEF TypeOK
        <5>2. i \in 1..Len(Tail(stream[p]))
          BY <3>1, <5>1
        <5>3. i + 1 \in 1..Len(stream[p]) /\ Tail(stream[p])[i] = stream[p][i + 1]
          BY <2>1, <5>2, TailElement
        <5> QED BY <4>1, <5>1, <5>3
      <4>2. CASE q # p
        BY <1>0, <2>1, <3>1, <4>2 DEF TypeOK
      <4> QED BY <4>1, <4>2
    <3>2. readied' = readied
      BY <1>5 DEF Lookup
    <3> QED BY <3>1, <3>2 DEF WitnessInv, Witnessed
  <2>4. notifier'.at # "idle" => Witnessed(PodOf[notifier.waiter], notifier.pod)'
    <3>1. CASE Watched(p)
      <4>1. notifier' = [at |-> "found", waiter |-> waiters[p], pod |-> Head(stream[p])]
        BY <1>5, <3>1 DEF Lookup
      <4>2. PodOf[waiters[p]] = p
        BY <3>1 DEF WatcherInv, HandoverInv
      <4> QED BY <1>5, <2>2, <4>1, <4>2 DEF Witnessed, Lookup
    <3>2. CASE ~Watched(p)
      BY <1>5, <3>2 DEF Lookup
    <3> QED BY <3>1, <3>2
  <2> QED BY <1>5, <2>3, <2>4 DEF WitnessInv, Witnessed, Lookup, callerVars, waiterVars
<1>6. ASSUME NotifierStep PROVE WitnessInv'
  <2>1. /\ notifier.waiter \in Callers /\ notifier.at # "idle"
        /\ UNCHANGED <<pc, outcome, cluster, stream, readied>>
    BY <1>0, <1>6 DEF TypeOK, NotifierStep, CheckDone, Offer, Drain, Send, Handing,
                      callerVars, waiterVars, clusterVars
  <2>2. notifier' = Idle \/ \E at \in {"offer", "drain", "send"} :
                               notifier' = [notifier EXCEPT !.at = at]
    BY <1>6 DEF NotifierStep, CheckDone, Offer, Drain, Send, Deliver
  <2>3. notifier'.at # "idle" => Witnessed(PodOf[notifier.waiter], notifier.pod)'
    <3>1. CASE notifier' = Idle
      BY <3>1 DEF Idle
    <3>2. ASSUME NEW at \in {"offer", "drain", "send"}, notifier' = [notifier EXCEPT !.at = at]
          PROVE  Witnessed(PodOf[notifier.waiter], notifier.pod)'
      <4>1. notifier'.waiter = notifier.waiter /\ notifier'.pod = notifier.pod
        BY <1>0, <3>2 DEF TypeOK
      <4> QED BY <2>1, <4>1 DEF WitnessInv, Witnessed
    <3> QED BY <2>2, <3>1, <3>2
  <2>4. \A c \in Callers : \/ events'[c] = events[c]
                           \/ events'[c] = <<>>
                           \/ c = notifier.waiter /\ events'[c] = <<notifier.pod>>
    <3>1. CASE events[notifier.waiter] = <<>> /\ Deliver
      <4>1. Append(events[notifier.waiter], notifier.pod) = <<notifier.pod>>
        BY <1>0, <2>1, <3>1 DEF TypeOK
      <4> QED BY <1>0, <2>1, <3>1, <4>1 DEF TypeOK, Deliver
    <3>2. CASE UNCHANGED events
      BY <3>2
    <3>3. CASE Drain
      BY <1>0, <3>3 DEF TypeOK, Drain
    <3> QED BY <1>6, <3>1, <3>2, <3>3 DEF NotifierStep, CheckDone, Offer, Send, waiterVars
  <2>5. \A c \in Callers : \A i \in 1..Len(events'[c]) : Witnessed(PodOf[c], events[c][i])'
    BY <2>1, <2>4 DEF WitnessInv, Witnessed
  <2> QED BY <2>1, <2>3, <2>5 DEF WitnessInv, Witnessed
<1>7. ASSUME NEW p \in Pods, PodStatusChanges(p) PROVE WitnessInv'
  <2>1. cluster[p].inc \in Nat
    BY <1>0 DEF TypeOK, Snapshot
  <2>2. PICK s \in Status : Change(p, NextObject(p, cluster[p].inc, s),
                                      NextObject(p, cluster[p].inc, s))
    BY <1>7 DEF PodStatusChanges, Successors, Status
  <2>3. NextObject(p, cluster[p].inc, s) \in Snapshot
    BY <1>0, <2>1, NextObjectType
  <2>4. \A d \in Callers : pc'[d] \in {"create", "register", "wait"} => outcome'[d] = "none"
    BY <1>7 DEF PodStatusChanges, callerVars, WitnessInv
  <2> QED BY <1>0, <1>7, <2>2, <2>3, <2>4, WitnessEnvironment DEF PodStatusChanges, waiterVars
<1>8. ASSUME NEW p \in Pods, PodDeleted(p) PROVE WitnessInv'
  <2>1. cluster[p].inc \in Nat /\ cluster[p].status \in Status
    BY <1>0, <1>8 DEF TypeOK, Snapshot, PodDeleted, PodExists
  <2>2. PICK s \in {cluster[p].status, "Stopped"} :
             Change(p, NextObject(p, cluster[p].inc, "Absent"), NextObject(p, cluster[p].inc, s))
    BY <1>8 DEF PodDeleted
  <2>3. /\ NextObject(p, cluster[p].inc, "Absent") \in Snapshot
        /\ NextObject(p, cluster[p].inc, s) \in Snapshot
    BY <1>0, <2>1, NextObjectType DEF Status
  <2>4. Witnessed(p, NextObject(p, cluster[p].inc, s))
    BY DEF WitnessInv, Witnessed, NextObject
  <2>5. \A d \in Callers : pc'[d] \in {"create", "register", "wait"} => outcome'[d] = "none"
    BY <1>8 DEF PodDeleted, callerVars, WitnessInv
  <2> QED BY <1>0, <1>8, <2>2, <2>3, <2>4, <2>5, WitnessEnvironment DEF PodDeleted, waiterVars
<1>9. ASSUME RestartWatch PROVE WitnessInv'
  <2>1. ASSUME NEW q \in Pods, NEW i \in 1..Len(stream'[q]) PROVE Witnessed(q, stream[q][i])'
    <3>1. stream'[q] = <<>> \/ stream'[q] = <<cluster[q]>>
      BY <1>9 DEF RestartWatch, Present
    <3>2. stream'[q][i] = cluster[q]
      BY <2>1, <3>1
    <3> QED BY <1>9, <3>2 DEF WitnessInv, Witnessed, RestartWatch
  <2> QED BY <1>9, <2>1 DEF WitnessInv, Witnessed, RestartWatch, callerVars, waiterVars
<1>10. ASSUME WatchStops \/ WatchFails \/ PropagateFailure \/ Signal \/ UNCHANGED vars
       PROVE  WitnessInv'
  BY <1>0, <1>10, WitnessMove
     DEF WatchStops, WatchFails, PropagateFailure, Signal, vars, callerVars, waiterVars, WitnessInv
<1> QED
  BY <1>1, <1>2, <1>3, <1>4, <1>5, <1>6, <1>7, <1>8, <1>9, <1>10
     DEF Next, CallerStep

-----------------------------------------------------------------------------
\* Steps that change no caller, no history of readiness and no context stutter.
LEMMA Stutter ==
    ASSUME UNCHANGED <<pc, outcome, seen, readied, cancelled>>
    PROVE  UNCHANGED Promise!abstractVars
BY DEF Promise!abstractVars, PhaseOf

\* A change of a pod is a stutter or adds an incarnation that is ready.
LEMMA ChangeIsBecomeReady ==
    ASSUME TypeOK, NEW p \in Pods, NEW object, NEW event, Change(p, object, event),
           UNCHANGED <<pc, outcome, seen, cancelled>>
    PROVE  Promise!BecomeReady(p)
<1>1. readied[p] \subseteq readied'[p] /\ readied' = [readied EXCEPT ![p] = readied'[p]]
  BY DEF TypeOK, Change
<1> QED BY <1>1 DEF Promise!BecomeReady, PhaseOf

\* What one step of a caller does to the phases, seen as a function.
LEMMA PhaseStep ==
    ASSUME TypeOK, NEW c \in Callers,
           \A d \in Callers : d # c => pc'[d] = pc[d] /\ outcome'[d] = outcome[d],
           NEW to, PhaseOf(c)' = to
    PROVE  [d \in Callers |-> PhaseOf(d)]' = [[d \in Callers |-> PhaseOf(d)] EXCEPT ![c] = to]
<1>1. ASSUME NEW d \in Callers, d # c PROVE PhaseOf(d)' = PhaseOf(d)
  BY <1>1 DEF PhaseOf
<1> QED BY <1>1

LEMMA RefineInit == Init => Promise!AbstractInit
BY TypeInit DEF Init, TypeOK, Promise!AbstractInit, PhaseOf

\* The answers after one step of a caller, seen as a function.
LEMMA AnswerStep ==
    ASSUME TypeOK, NEW c \in Callers,
           \A d \in Callers : d # c => outcome'[d] = outcome[d] /\ seen'[d] = seen[d]
    PROVE  [d \in Callers |-> IF outcome[d] = "ready" THEN seen[d].inc ELSE 0]'
           = [[d \in Callers |-> IF outcome[d] = "ready" THEN seen[d].inc ELSE 0]
              EXCEPT ![c] = IF outcome'[c] = "ready" THEN seen'[c].inc ELSE 0]
OBVIOUS

\* Registering is Begin: RegisteredWhileWaiting leaves no second wait on the name.
LEMMA RefineRegister ==
    ASSUME WatcherInv, WitnessInv, NEW c \in Callers, Register(c)
    PROVE  Promise!Begin(c)
<1>0. TypeOK
  BY DEF WatcherInv
<1>1. PhaseOf(c) = "outside" /\ PhaseOf(c)' = "waiting"
  BY <1>0 DEF TypeOK, Register, PhaseOf
<1>2. ASSUME NEW d \in Callers, PodOf[d] = PodOf[c] PROVE PhaseOf(d) # "waiting"
  <2>1. waiters[PodOf[d]] # d
    BY <1>2, PodWatcherAssumption DEF Register, Watched
  <2>2. pc[d] # "wait"
    BY <2>1 DEF WatcherInv, RegisteredWhileWaiting
  <2> QED BY <1>0, <2>2 DEF PhaseOf, TypeOK
<1>3. [d \in Callers |-> PhaseOf(d)]' = [[d \in Callers |-> PhaseOf(d)] EXCEPT ![c] = "waiting"]
  <2>1. \A d \in Callers : d # c => pc'[d] = pc[d] /\ outcome'[d] = outcome[d]
    BY <1>0 DEF TypeOK, Register
  <2> QED BY <1>0, <1>1, <2>1, PhaseStep
<1>4. UNCHANGED <<outcome, seen, readied, cancelled>>
  BY DEF Register, clusterVars, ctxVars
<1> QED BY <1>1, <1>2, <1>3, <1>4 DEF Promise!Begin

\* A failed creation and a duplicate registration are Refuse.
LEMMA RefineRefuse ==
    ASSUME TypeOK, WitnessInv, NEW c \in Callers, CreatePodFails(c) \/ Reject(c), readied' = readied
    PROVE  Promise!Refuse(c)
<1>1. /\ PhaseOf(c) = "outside"
      /\ PhaseOf(c)' = outcome'[c]
      /\ outcome'[c] \in {"createError", "duplicate"}
  <2>1. /\ pc[c] \in {"create", "register"} /\ pc'[c] = "returned"
        /\ outcome'[c] \in {"createError", "duplicate"}
    BY DEF TypeOK, CreatePodFails, Reject
  <2> QED BY <2>1 DEF PhaseOf
<1>2. /\ \A d \in Callers : d # c => /\ pc'[d] = pc[d] /\ outcome'[d] = outcome[d]
                                     /\ seen'[d] = seen[d]
      /\ outcome[c] # "ready" /\ outcome'[c] # "ready"
      /\ cancelled' = cancelled
  BY DEF TypeOK, WitnessInv, CreatePodFails, Reject, ctxVars
<1>3. [d \in Callers |-> PhaseOf(d)]' = [[d \in Callers |-> PhaseOf(d)] EXCEPT ![c] = outcome'[c]]
  <2>1. \A d \in Callers : d # c => pc'[d] = pc[d] /\ outcome'[d] = outcome[d]
    BY <1>2
  <2> QED BY <1>1, <2>1, PhaseStep
<1>4. [d \in Callers |-> IF outcome[d] = "ready" THEN seen[d].inc ELSE 0]'
      = [d \in Callers |-> IF outcome[d] = "ready" THEN seen[d].inc ELSE 0]
  BY <1>2
<1> QED BY <1>1, <1>2, <1>3, <1>4 DEF Promise!Refuse

\* Receiving a ready snapshot is Give: WitnessInv says its incarnation has been
\* ready.  Receiving any other snapshot changes nothing the promise speaks of.
LEMMA RefineReceive ==
    ASSUME TypeOK, WitnessInv, NEW c \in Callers, Receive(c)
    PROVE  Promise!Give(c) \/ UNCHANGED Promise!abstractVars
<1> DEFINE pod == Head(events[c])
<1>0. /\ events[c] \in Seq(Snapshot) /\ events[c] # <<>>
      /\ pc[c] = "wait" /\ outcome[c] = "none"
      /\ UNCHANGED <<readied, cancelled>>
      /\ seen' = [seen EXCEPT ![c] = pod]
  <2>1. events[c] \in Seq(Snapshot)
    BY DEF TypeOK
  <2>2. outcome[c] = "none"
    BY DEF WitnessInv, Receive
  <2> QED BY <2>1, <2>2 DEF Receive, clusterVars, ctxVars
<1>1. CASE IsReady(pod)
  <2>1. /\ outcome' = [outcome EXCEPT ![c] = "ready"]
        /\ pc' = [pc EXCEPT ![c] = "cleanup"]
    BY <1>1 DEF Receive
  <2>2. PhaseOf(c) = "waiting" /\ PhaseOf(c)' = "ready"
    BY <1>0, <2>1 DEF TypeOK, PhaseOf
  <2>3. pod.inc \in readied[PodOf[c]]
    BY <1>0, <1>1 DEF WitnessInv, Witnessed, IsReady
  <2>4. \A d \in Callers : d # c => /\ pc'[d] = pc[d] /\ outcome'[d] = outcome[d]
                                    /\ seen'[d] = seen[d]
    BY <1>0, <2>1 DEF TypeOK
  <2>5. [d \in Callers |-> PhaseOf(d)]' = [[d \in Callers |-> PhaseOf(d)] EXCEPT ![c] = "ready"]
    BY <2>2, <2>4, PhaseStep
  <2>6. [d \in Callers |-> IF outcome[d] = "ready" THEN seen[d].inc ELSE 0]'
        = [[d \in Callers |-> IF outcome[d] = "ready" THEN seen[d].inc ELSE 0] EXCEPT ![c] = pod.inc]
    <3>1. outcome'[c] = "ready" /\ seen'[c].inc = pod.inc
      BY <1>0, <2>1 DEF TypeOK
    <3> HIDE DEF pod
    <3> QED BY <2>4, <3>1, AnswerStep
  <2> QED BY <1>0, <2>2, <2>3, <2>5, <2>6 DEF Promise!Give
<1>2. CASE ~IsReady(pod)
  <2>1. UNCHANGED <<pc, outcome, readied, cancelled>>
    BY <1>0, <1>2 DEF Receive
  <2>2. [d \in Callers |-> IF outcome[d] = "ready" THEN seen[d].inc ELSE 0]'
        = [d \in Callers |-> IF outcome[d] = "ready" THEN seen[d].inc ELSE 0]
    <3>1. \A d \in Callers : d # c => seen'[d] = seen[d]
      BY <1>0 DEF TypeOK
    <3> QED BY <1>0, <2>1, <3>1
  <2> QED BY <2>1, <2>2 DEF Promise!abstractVars, PhaseOf
<1> QED BY <1>1, <1>2

\* A wait given up is Abandon.
LEMMA RefineCancelled ==
    ASSUME TypeOK, WitnessInv, NEW c \in Callers, WaitCancelled(c)
    PROVE  Promise!Abandon(c)
<1>1. PhaseOf(c) = "waiting" /\ PhaseOf(c)' = "cancelled"
  <2>1. pc[c] = "wait" /\ pc'[c] = "cleanup" /\ outcome'[c] = "cancelled"
    BY DEF TypeOK, WaitCancelled
  <2> QED BY <2>1 DEF PhaseOf
<1>2. /\ \A d \in Callers : d # c => pc'[d] = pc[d] /\ outcome'[d] = outcome[d]
      /\ outcome[c] # "ready" /\ outcome'[c] # "ready"
      /\ UNCHANGED <<seen, readied, cancelled>> /\ cancelled
  BY DEF TypeOK, WitnessInv, WaitCancelled, ctxVars, clusterVars
<1>3. [d \in Callers |-> PhaseOf(d)]' = [[d \in Callers |-> PhaseOf(d)] EXCEPT ![c] = "cancelled"]
  BY <1>1, <1>2, PhaseStep
<1> QED BY <1>1, <1>2, <1>3 DEF Promise!Abandon

\* The deferred cleanup is invisible to the promise.
LEMMA RefineCleanup ==
    ASSUME TypeOK, NEW c \in Callers, Cleanup(c)
    PROVE  UNCHANGED Promise!abstractVars
<1>1. \A d \in Callers : PhaseOf(d)' = PhaseOf(d)
  BY DEF TypeOK, Cleanup, PhaseOf
<1> QED BY <1>1 DEF Cleanup, Promise!abstractVars, clusterVars, ctxVars

\* A step of the watcher is a step of the promise or a stutter.
LEMMA RefineStep ==
    ASSUME WatcherInv, WitnessInv, [Next]_vars
    PROVE  [Promise!AbstractNext]_(Promise!abstractVars)
<1> USE PodWatcherAssumption
<1>0. TypeOK
  BY DEF WatcherInv
<1>1. ASSUME NEW c \in Callers, CreatePod(c) PROVE UNCHANGED Promise!abstractVars
  <2>1. readied' = readied
    <3>1. \A d \in Callers : pc'[d] \in {"create", "register", "wait"} => outcome'[d] = "none"
      BY <1>0, <1>1 DEF CreatePod, TypeOK, WitnessInv
    <3> QED BY <1>0, <1>1, <3>1, WitnessPodAdded DEF CreatePod, waiterVars
  <2>2. \A d \in Callers : PhaseOf(d)' = PhaseOf(d)
    BY <1>0, <1>1 DEF TypeOK, CreatePod, PhaseOf
  <2> QED BY <1>1, <2>1, <2>2 DEF CreatePod, Promise!abstractVars, ctxVars
<1>2. ASSUME NEW c \in Callers, CreatePodFails(c) PROVE Promise!Refuse(c)
  <2>1. readied' = readied
    <3>1. \A d \in Callers : pc'[d] \in {"create", "register", "wait"} => outcome'[d] = "none"
      BY <1>0, <1>2 DEF CreatePodFails, TypeOK, WitnessInv
    <3> QED BY <1>0, <1>2, <3>1, WitnessPodAdded DEF CreatePodFails, waiterVars, clusterVars
  <2> QED BY <1>0, <1>2, <2>1, RefineRefuse
<1>3. ASSUME NEW c \in Callers, Reject(c) PROVE Promise!Refuse(c)
  BY <1>0, <1>3, RefineRefuse DEF Reject, clusterVars
<1>4. ASSUME NEW p \in Pods, PodStatusChanges(p) \/ PodDeleted(p) PROVE Promise!BecomeReady(p)
  <2>1. \E object, event : Change(p, object, event)
    BY <1>4 DEF PodStatusChanges, PodDeleted
  <2> QED BY <1>0, <1>4, <2>1, ChangeIsBecomeReady
          DEF PodStatusChanges, PodDeleted, callerVars, ctxVars
<1>5. ASSUME \/ \E p \in Pods : Lookup(p)
             \/ NotifierStep \/ WatchStops \/ WatchFails \/ RestartWatch \/ UNCHANGED vars
      PROVE  UNCHANGED Promise!abstractVars
  BY <1>5, Stutter
     DEF Lookup, NotifierStep, CheckDone, Offer, Drain, Send, WatchStops, WatchFails, RestartWatch,
         vars, callerVars, waiterVars, clusterVars, ctxVars
<1>6. ASSUME PropagateFailure \/ Signal PROVE Promise!Stop
  BY <1>6 DEF PropagateFailure, Signal, Promise!Stop, PhaseOf, callerVars, clusterVars
<1> QED
  BY <1>0, <1>1, <1>2, <1>3, <1>4, <1>5, <1>6, RefineRegister, RefineReceive, RefineCancelled,
     RefineCleanup DEF Next, CallerStep, Promise!AbstractNext

\* The pod watcher implements its promise, for any number of callers and names.
THEOREM WatcherImplementsReadyWait == Spec => ImplementsReadyWait
<1>1. Init => WatcherInv /\ WitnessInv
  BY InvInit, WitnessInit
<1>2. WatcherInv /\ WitnessInv /\ [Next]_vars => WatcherInv' /\ WitnessInv'
  BY InvStep, WitnessStep
<1>3. WatcherInv /\ WitnessInv /\ [Next]_vars => [Promise!AbstractNext]_(Promise!abstractVars)
  BY RefineStep
<1> QED
  BY <1>1, <1>2, <1>3, RefineInit, PTL DEF Spec, ImplementsReadyWait, Promise!AbstractSpec
=============================================================================
