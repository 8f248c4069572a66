------------------------- MODULE PodWatcherLiveness -------------------------
(***************************************************************************)
(* Proofs that the waits of PodWatcher end, for any number of callers and  *)
(* pod names.  Weak and strong fairness speak of steps that are enabled;   *)
(* that the steps which must be able to happen are, is NobodyStuck, an     *)
(* invariant TLC checks and these theorems take as their hypothesis: what  *)
(* ENABLED means cannot be expanded in a proof.  The rest, which step      *)
(* brings a wait nearer to its end and which steps cannot bring it back,   *)
(* is proved.                                                              *)
(***************************************************************************)
EXTENDS PodWatcherProofs

At(c, place) == pc[c] = place

\* Only a caller's own steps move it.
LEMMA OnlyCallerMoves ==
    ASSUME TypeOK, [Next]_vars, NEW c \in Callers
    PROVE  pc'[c] = pc[c] \/ CallerStep(c)
<1>1. ASSUME NEW d \in Callers, CallerStep(d), d # c PROVE pc'[c] = pc[c]
  <2>1. UNCHANGED pc \/ \E to : pc' = [pc EXCEPT ![d] = to]
    BY <1>1 DEF CallerStep, CreatePod, CreatePodFails, Register, Reject, Receive, WaitCancelled,
                Cleanup
  <2> QED BY <1>1, <2>1 DEF TypeOK
<1>2. ASSUME \/ \E p \in Pods : Lookup(p) \/ PodStatusChanges(p) \/ PodDeleted(p)
             \/ NotifierStep \/ WatchStops \/ WatchFails \/ PropagateFailure
             \/ RestartWatch \/ Signal \/ UNCHANGED vars
      PROVE  UNCHANGED pc
  BY <1>2 DEF Lookup, PodStatusChanges, PodDeleted, NotifierStep, CheckDone, Offer, Drain, Send,
              WatchStops, WatchFails, PropagateFailure, RestartWatch, Signal, vars, callerVars
<1> QED BY <1>1, <1>2 DEF Next

\* Where a caller's step can take it.
LEMMA CallerGoesOn ==
    ASSUME TypeOK, NEW c \in Callers, CallerStep(c)
    PROVE  \/ At(c, "create") /\ (At(c, "register") \/ At(c, "returned"))'
           \/ At(c, "register") /\ (At(c, "wait") \/ At(c, "returned"))'
           \/ At(c, "wait") /\ (At(c, "wait") \/ At(c, "cleanup"))'
           \/ At(c, "cleanup") /\ At(c, "returned")'
BY DEF CallerStep, CreatePod, CreatePodFails, Register, Reject, Receive, WaitCancelled, Cleanup,
       TypeOK, At

\* A cancelled run stays cancelled and a failed watch stays failed.
LEMMA StoppedStays ==
    ASSUME TypeOK, [Next]_vars
    PROVE  /\ cancelled => cancelled'
           /\ watch = "failed" => watch' = "failed"
BY DEF Next, CallerStep, CreatePod, CreatePodFails, Register, Reject, Receive, WaitCancelled,
       Cleanup, Lookup, PodStatusChanges, PodDeleted, NotifierStep, CheckDone, Offer, Drain, Send,
       WatchStops, WatchFails, PropagateFailure, RestartWatch, Signal, vars, ctxVars, TypeOK

-----------------------------------------------------------------------------
(***************************************************************************)
(* After a signal, or when the watch has failed, every call returns.       *)
(***************************************************************************)

\* A caller in its cleanup returns.
LEMMA CleanupEnds ==
    ASSUME NEW c \in Callers
    PROVE  Spec /\ CallerFairness(c) /\ []CallerCanStep(c)
           => (At(c, "cleanup") ~> At(c, "returned"))
<1>1. TypeOK /\ At(c, "cleanup") /\ [Next]_vars => (At(c, "cleanup") \/ At(c, "returned"))'
  BY OnlyCallerMoves, CallerGoesOn DEF At
<1>2. TypeOK /\ At(c, "cleanup") /\ <<CallerStep(c)>>_vars => At(c, "returned")'
  BY CallerGoesOn DEF At
<1>3. CallerCanStep(c) => (At(c, "cleanup") => ENABLED <<CallerStep(c)>>_vars)
  BY DEF CallerCanStep, At
<1> QED BY <1>1, <1>2, <1>3, TypeCorrect, PTL DEF Spec, CallerFairness

\* A caller that is about to register waits or has been refused.
LEMMA RegisterEnds ==
    ASSUME NEW c \in Callers
    PROVE  Spec /\ CallerFairness(c) /\ []CallerCanStep(c)
           => (At(c, "register") ~> (At(c, "wait") \/ At(c, "returned")))
<1>1. TypeOK /\ At(c, "register") /\ [Next]_vars
      => (At(c, "register") \/ At(c, "wait") \/ At(c, "returned"))'
  BY OnlyCallerMoves, CallerGoesOn DEF At
<1>2. TypeOK /\ At(c, "register") /\ <<CallerStep(c)>>_vars => (At(c, "wait") \/ At(c, "returned"))'
  BY CallerGoesOn DEF At
<1>3. CallerCanStep(c) => (At(c, "register") => ENABLED <<CallerStep(c)>>_vars)
  BY DEF CallerCanStep, At
<1> QED BY <1>1, <1>2, <1>3, TypeCorrect, PTL DEF Spec, CallerFairness

\* Under a cancelled context a wait is given up, unless it ends by itself.
LEMMA CancelledWaitEnds ==
    ASSUME NEW c \in Callers
    PROVE  Spec /\ CallerFairness(c) /\ []CallerCanStep(c)
           => (cancelled /\ At(c, "wait") ~> At(c, "cleanup"))
<1> DEFINE Waiting == cancelled /\ At(c, "wait")
<1>1. TypeOK /\ Waiting /\ [Next]_vars => (Waiting \/ At(c, "cleanup"))'
  BY OnlyCallerMoves, CallerGoesOn, StoppedStays DEF At
<1>2. TypeOK /\ Waiting /\ <<WaitCancelled(c)>>_vars => At(c, "cleanup")'
  BY DEF WaitCancelled, At, TypeOK
<1>3. CallerCanStep(c) => (Waiting => ENABLED <<WaitCancelled(c)>>_vars)
  BY DEF CallerCanStep, At
<1> HIDE DEF Waiting
<1>4. Spec /\ CallerFairness(c) /\ []CallerCanStep(c) => (Waiting ~> At(c, "cleanup"))
  BY <1>1, <1>2, <1>3, TypeCorrect, PTL DEF Spec, CallerFairness
<1> QED BY <1>4 DEF Waiting

\* Under a cancelled context no pod is created any more: the call has failed.
LEMMA CancelledCreateEnds ==
    ASSUME NEW c \in Callers
    PROVE  Spec /\ CallerFairness(c) /\ []CallerCanStep(c)
           => (cancelled /\ At(c, "create") ~> At(c, "returned"))
<1> DEFINE Creating == cancelled /\ At(c, "create")
<1>1. TypeOK /\ Creating /\ CallerStep(c) => At(c, "returned")'
  BY DEF CallerStep, CreatePod, CreatePodFails, Register, Reject, Receive, WaitCancelled, Cleanup,
         At, TypeOK
<1>2. TypeOK /\ Creating /\ [Next]_vars => (Creating \/ At(c, "returned"))'
  BY <1>1, OnlyCallerMoves, StoppedStays DEF At
<1>3. CallerCanStep(c) => (Creating => ENABLED <<CallerStep(c)>>_vars)
  BY DEF CallerCanStep, At
<1> HIDE DEF Creating
<1>4. TypeOK /\ Creating /\ <<CallerStep(c)>>_vars => At(c, "returned")'
  BY <1>1
<1>5. Spec /\ CallerFairness(c) /\ []CallerCanStep(c) => (Creating ~> At(c, "returned"))
  BY <1>2, <1>3, <1>4, TypeCorrect, PTL DEF Spec, CallerFairness
<1> QED BY <1>5 DEF Creating

\* A failed watch cancels the run's context.
LEMMA FailureCancels ==
    Spec /\ WatchFairness /\ []WatchCanStep => (watch = "failed" ~> cancelled)
<1>1. TypeOK /\ watch = "failed" /\ [Next]_vars => (watch = "failed")'
  BY StoppedStays
<1>2. TypeOK /\ watch = "failed" /\ <<PropagateFailure>>_vars => cancelled'
  BY DEF PropagateFailure
<1>3. WatchCanStep => (watch = "failed" /\ ~cancelled => ENABLED <<PropagateFailure>>_vars)
  BY DEF WatchCanStep
<1> QED BY <1>1, <1>2, <1>3, TypeCorrect, PTL DEF Spec, WatchFairness

\* From any place of CreateReadyPod a cancelled caller comes to its return.
LEMMA CancelledCallReturns ==
    ASSUME NEW c \in Callers
    PROVE  Spec /\ CallerFairness(c) /\ []CallerCanStep(c) /\ WatchFairness /\ []WatchCanStep
           => CancelledReturns(c)
<1>1. TypeOK => \/ At(c, "create") \/ At(c, "register") \/ At(c, "wait")
                \/ At(c, "cleanup") \/ At(c, "returned")
  BY DEF TypeOK, At
<1>2. TypeOK /\ cancelled /\ [Next]_vars => cancelled'
  BY StoppedStays
<1>3. Spec /\ CallerFairness(c) /\ []CallerCanStep(c) => (cancelled ~> At(c, "returned"))
  BY <1>1, <1>2, CancelledCreateEnds, RegisterEnds, CancelledWaitEnds, CleanupEnds, TypeCorrect, PTL
     DEF Spec
<1>4. Spec /\ CallerFairness(c) /\ []CallerCanStep(c) /\ WatchFairness /\ []WatchCanStep
      => ((cancelled \/ watch = "failed") ~> At(c, "returned"))
  BY <1>3, FailureCancels, PTL
<1> QED BY <1>4 DEF CancelledReturns, At

\* The parts of fairness and of NobodyStuck that speak of one caller, its pod and the watch.
LEMMA PartsOfFairness ==
    ASSUME NEW c \in Callers
    PROVE  /\ Fairness => CallerFairness(c) /\ StreamFairness(PodOf[c]) /\ WatchFairness
           /\ NobodyStuck => CallerCanStep(c) /\ LookupCanStep(PodOf[c]) /\ WatchCanStep
<1>1. PodOf[c] \in Pods
  BY PodWatcherAssumption
<1>2. Fairness => CallerFairness(c) /\ StreamFairness(PodOf[c]) /\ WatchFairness
  BY <1>1 DEF Fairness
<1>3. NobodyStuck => CallerCanStep(c) /\ LookupCanStep(PodOf[c]) /\ WatchCanStep
  BY <1>1 DEF NobodyStuck
<1> QED BY <1>2, <1>3

\* A waiter does not outlive the run: once the context is cancelled or the watch has
\* failed, every call of CreateReadyPod returns, although a wait has no timeout.
THEOREM CancelledReturnsAll == FairSpec /\ []NobodyStuck => CancelledCallersReturn
<1>1. ASSUME NEW c \in Callers
      PROVE  FairSpec /\ []NobodyStuck => CancelledReturns(c)
  <2>1. NobodyStuck => CallerCanStep(c) /\ WatchCanStep
    BY PartsOfFairness
  <2>2. Fairness => CallerFairness(c) /\ WatchFairness
    BY PartsOfFairness
  <2> QED BY <2>1, <2>2, CancelledCallReturns, PTL DEF FairSpec
<1>2. FairSpec /\ []NobodyStuck => []NobodyStuck /\ \A c \in Callers : CancelledReturns(c)
  BY <1>1
<1> QED BY <1>2 DEF CancelledCallersReturn

-----------------------------------------------------------------------------
(***************************************************************************)
(* A pod that is ready and stays ready ends its creator's wait.  Suppose   *)
(* it never did: the pod's object would no longer change, a restarted      *)
(* watch would bring its present state, the notifier would come round to   *)
(* it and put it into the channel, and nothing but ready snapshots would   *)
(* be left for the caller to receive.                                      *)
(***************************************************************************)

\* The supposition: the pod is ready, the watch runs, the caller waits.
Waits(c) == StaysReady(c) /\ At(c, "wait")

NotifierIdle == notifier.at = "idle"

\* The stream holds the pod's present state and nothing else of it.
Fresh(c) == stream[PodOf[c]] = <<cluster[PodOf[c]]>>

\* Only ready snapshots are left: in the stream, with the notifier, in the channel.
ReadyInStream(c) == \A i \in 1..Len(stream[PodOf[c]]) : IsReady(stream[PodOf[c]][i])
Held(c) == notifier.at # "idle" /\ notifier.waiter = c
ReadyHeld(c) == ReadyInStream(c) /\ (Held(c) => IsReady(notifier.pod))
ReadyInChannel(c) == ReadyHeld(c) /\ (events[c] # <<>> => IsReady(Head(events[c])))

HasEvent(c) == events[c] # <<>>

\* While the pod stays ready its object does not change, so its stream is only
\* consumed, or begun again by a new watch.
LEMMA ReadyPodStands ==
    ASSUME WatcherInv, [Next]_vars, NEW c \in Callers, StaysReady(c), StaysReady(c)'
    PROVE  /\ cluster'[PodOf[c]] = cluster[PodOf[c]]
           /\ \/ stream'[PodOf[c]] = stream[PodOf[c]]
              \/ Fresh(c)'
              \/ Lookup(PodOf[c])
<1> DEFINE p == PodOf[c]
<1>0. p \in Pods
  BY PodWatcherAssumption
<1>1. cluster[p].status = "Ready" /\ cluster'[p].status = "Ready"
  BY DEF StaysReady, IsReady
<1>2. cluster \in [Pods -> Snapshot] /\ stream \in [Pods -> Seq(Snapshot)]
  BY DEF WatcherInv, TypeOK
<1>3. ASSUME NEW q \in Pods, NEW object, NEW event, Change(q, object, event), q # p
      PROVE  cluster'[p] = cluster[p] /\ stream'[p] = stream[p]
  BY <1>0, <1>2, <1>3 DEF Change
<1>4. ASSUME NEW q \in Pods, PodAdded(q) PROVE cluster'[p] = cluster[p] /\ stream'[p] = stream[p]
  <2>1. q # p
    BY <1>1, <1>4 DEF PodAdded, PodExists
  <2> QED BY <1>3, <1>4, <2>1 DEF PodAdded
<1>5. ASSUME NEW q \in Pods, PodStatusChanges(q)
      PROVE  cluster'[p] = cluster[p] /\ stream'[p] = stream[p]
  <2>1. PICK s \in Successors(cluster[q].status) :
          Change(q, NextObject(q, cluster[q].inc, s), NextObject(q, cluster[q].inc, s))
    BY <1>5 DEF PodStatusChanges
  <2>2. CASE q = p
    <3>1. s \in {"Running", "Stopped"}
      BY <1>1, <2>1, <2>2 DEF Successors
    <3>2. cluster'[p].status = s
      BY <1>0, <1>2, <2>1, <2>2 DEF Change, NextObject
    <3> QED BY <1>1, <3>1, <3>2
  <2> QED BY <1>3, <2>1, <2>2
<1>6. ASSUME NEW q \in Pods, PodDeleted(q)
      PROVE  cluster'[p] = cluster[p] /\ stream'[p] = stream[p]
  <2>1. PICK s : Change(q, NextObject(q, cluster[q].inc, "Absent"),
                           NextObject(q, cluster[q].inc, s))
    BY <1>6 DEF PodDeleted
  <2>2. CASE q = p
    <3>1. cluster'[p].status = "Absent"
      BY <1>0, <1>2, <2>1, <2>2 DEF Change, NextObject
    <3> QED BY <1>1, <3>1
  <2> QED BY <1>3, <2>1, <2>2
<1>7. ASSUME NEW d \in Callers, CallerStep(d)
      PROVE  cluster'[p] = cluster[p] /\ stream'[p] = stream[p]
  <2>1. PodOf[d] \in Pods
    BY PodWatcherAssumption
  <2>2. UNCHANGED clusterVars \/ PodAdded(PodOf[d])
    BY <1>7 DEF CallerStep, CreatePod, CreatePodFails, Register, Reject, Receive, WaitCancelled,
                Cleanup
  <2> QED BY <1>4, <2>1, <2>2 DEF clusterVars
<1>8. ASSUME NEW q \in Pods, Lookup(q), q # p
      PROVE  cluster'[p] = cluster[p] /\ stream'[p] = stream[p]
  BY <1>0, <1>2, <1>8 DEF Lookup
<1>9. ASSUME Lookup(p) PROVE cluster'[p] = cluster[p]
  BY <1>9 DEF Lookup
<1>10. ASSUME RestartWatch PROVE cluster'[p] = cluster[p] /\ stream'[p] = <<cluster'[p]>>
  BY <1>0, <1>1, <1>10 DEF RestartWatch, Present, PodExists
<1>11. ASSUME \/ NotifierStep \/ WatchStops \/ WatchFails \/ PropagateFailure \/ Signal
              \/ UNCHANGED vars
       PROVE  cluster'[p] = cluster[p] /\ stream'[p] = stream[p]
  BY <1>11 DEF NotifierStep, CheckDone, Offer, Drain, Send, WatchStops, WatchFails,
               PropagateFailure, Signal, vars, clusterVars
<1> QED
  BY <1>5, <1>6, <1>7, <1>8, <1>9, <1>10, <1>11 DEF Next, Fresh

\* The notifier's state changes by its own steps and by a lookup, when it is idle.
LEMMA NotifierMoves ==
    ASSUME WatcherInv, [Next]_vars
    PROVE  \/ UNCHANGED notifier
           \/ NotifierStep
           \/ \E q \in Pods :
                /\ Lookup(q) /\ Watched(q) /\ NotifierIdle
                /\ notifier' = [at |-> "found", waiter |-> waiters[q], pod |-> Head(stream[q])]
BY DEF Next, CallerStep, CreatePod, CreatePodFails, Register, Reject, Receive, WaitCancelled,
       Cleanup, Lookup, PodStatusChanges, PodDeleted, WatchStops, WatchFails, PropagateFailure,
       RestartWatch, Signal, vars, NotifierIdle

\* A notifier step keeps the waiter and the snapshot, or ends the delivery.
LEMMA NotifierKeeps ==
    ASSUME WatcherInv, NotifierStep
    PROVE  \/ notifier' = Idle
           \/ /\ notifier'.waiter = notifier.waiter
              /\ notifier'.pod = notifier.pod
              /\ notifier'.at # "idle"
<1>1. notifier' = Idle \/ \E at \in {"offer", "drain", "send"} :
                             notifier' = [notifier EXCEPT !.at = at]
  BY DEF NotifierStep, CheckDone, Offer, Drain, Send, Deliver
<1> QED BY <1>1 DEF WatcherInv, TypeOK

\* The channel of a caller changes by its own receive and by the notifier serving it.
LEMMA ChannelMoves ==
    ASSUME WatcherInv, [Next]_vars, NEW c \in Callers
    PROVE  \/ events'[c] = events[c]
           \/ Receive(c)
           \/ NotifierStep /\ Held(c) /\ (events'[c] = <<>> \/ events'[c] = <<notifier.pod>>)
<1>1. events \in [Callers -> Seq(Snapshot)]
  BY DEF WatcherInv, TypeOK
<1>2. ASSUME NEW d \in Callers, CallerStep(d), d # c PROVE events'[c] = events[c]
  BY <1>1, <1>2 DEF CallerStep, CreatePod, CreatePodFails, Register, Reject, Receive,
                    WaitCancelled, Cleanup, waiterVars
<1>3. ASSUME CallerStep(c) PROVE events'[c] = events[c] \/ Receive(c)
  BY <1>3 DEF CallerStep, CreatePod, CreatePodFails, Register, Reject, WaitCancelled, Cleanup,
              waiterVars
<1>4. ASSUME NotifierStep
      PROVE  \/ events'[c] = events[c]
             \/ Held(c) /\ (events'[c] = <<>> \/ events'[c] = <<notifier.pod>>)
  <2>1. notifier.at # "idle"
    BY <1>4 DEF NotifierStep, CheckDone, Offer, Drain, Send, Handing
  <2>2. notifier.waiter \in Callers
    BY <2>1 DEF WatcherInv, TypeOK
  <2>3. \/ UNCHANGED events
        \/ events' = [events EXCEPT ![notifier.waiter] = <<>>]
        \/ /\ events[notifier.waiter] = <<>>
           /\ events' = [events EXCEPT ![notifier.waiter] = Append(@, notifier.pod)]
    BY <1>4 DEF NotifierStep, CheckDone, Offer, Drain, Send, Deliver, waiterVars
  <2>4. Append(<<>>, notifier.pod) = <<notifier.pod>>
    OBVIOUS
  <2> QED BY <1>1, <2>1, <2>2, <2>3, <2>4 DEF Held
<1>5. ASSUME \/ \E p \in Pods : Lookup(p) \/ PodStatusChanges(p) \/ PodDeleted(p)
             \/ WatchStops \/ WatchFails \/ PropagateFailure \/ RestartWatch \/ Signal
             \/ UNCHANGED vars
      PROVE  UNCHANGED events
  BY <1>5 DEF Lookup, PodStatusChanges, PodDeleted, WatchStops, WatchFails, PropagateFailure,
              RestartWatch, Signal, vars, waiterVars
<1> QED BY <1>2, <1>3, <1>4, <1>5 DEF Next

-----------------------------------------------------------------------------
\* What never changes about a run, seen from caller c: all of it holds again later.
CanStep(c) == CallerCanStep(c) /\ LookupCanStep(PodOf[c]) /\ WatchCanStep
FairTo(c) == CallerFairness(c) /\ StreamFairness(PodOf[c]) /\ WatchFairness
Run(c) == []WatcherInv /\ [][Next]_vars /\ FairTo(c) /\ []CanStep(c)

LEMMA RunLasts ==
    ASSUME NEW c \in Callers
    PROVE  Run(c) => []Run(c)
BY PTL DEF Run, FairTo, CallerFairness, StreamFairness, WatchFairness

\* The watch ends after 2 hours at the latest, and the next one begins with the pod's state.
LEMMA FreshComes ==
    ASSUME NEW c \in Callers
    PROVE  Run(c) /\ []Waits(c) => []<>Fresh(c)
<1>1. WatcherInv /\ Waits(c) /\ Waits(c)' /\ <<RestartWatch>>_vars => Fresh(c)'
  BY PodWatcherAssumption
     DEF RestartWatch, Present, PodExists, Fresh, Waits, StaysReady, IsReady, WatcherInv, TypeOK
<1>2. WatcherInv /\ Waits(c) /\ CanStep(c) /\ ~Fresh(c) => ENABLED <<RestartWatch>>_vars
  <2>1. WatcherInv /\ Waits(c) /\ ~Fresh(c) => watch = "running" /\ stream # Present
    BY PodWatcherAssumption
       DEF Present, PodExists, Fresh, Waits, StaysReady, IsReady, WatcherInv, TypeOK
  <2> QED BY <2>1 DEF CanStep, WatchCanStep
<1> QED BY <1>1, <1>2, PTL DEF Run, FairTo, WatchFairness

\* notify takes a bounded number of steps for one event.
LEMMA NotifierComesRound ==
    ASSUME NEW c \in Callers
    PROVE  Run(c) => []<>NotifierIdle
<1>1. WatcherInv => \/ NotifierIdle \/ Handing("found") \/ Handing("offer")
                    \/ Handing("drain") \/ Handing("send")
  BY DEF WatcherInv, TypeOK, NotifierIdle, Handing
<1>2. WatcherInv /\ NotifierStep
      => \/ Handing("found") /\ (Handing("offer") \/ NotifierIdle)'
         \/ Handing("offer") /\ (Handing("drain") \/ NotifierIdle)'
         \/ Handing("drain") /\ Handing("send")'
         \/ Handing("send") /\ NotifierIdle'
  BY DEF WatcherInv, TypeOK, NotifierStep, CheckDone, Offer, Drain, Send, Deliver, Handing,
         NotifierIdle, Idle
<1>3. WatcherInv /\ [Next]_vars /\ ~NotifierIdle => NotifierStep \/ UNCHANGED notifier
  BY NotifierMoves
<1>4. ASSUME NEW at \in {"found", "offer", "drain", "send"}
      PROVE  WatcherInv /\ CanStep(c) /\ Handing(at) => ENABLED <<NotifierStep>>_vars
  BY <1>4 DEF CanStep, WatchCanStep, Handing
<1>5. /\ WatcherInv /\ CanStep(c) /\ Handing("found") => ENABLED <<NotifierStep>>_vars
      /\ WatcherInv /\ CanStep(c) /\ Handing("offer") => ENABLED <<NotifierStep>>_vars
      /\ WatcherInv /\ CanStep(c) /\ Handing("drain") => ENABLED <<NotifierStep>>_vars
      /\ WatcherInv /\ CanStep(c) /\ Handing("send") => ENABLED <<NotifierStep>>_vars
  BY <1>4
<1>6. WatcherInv /\ [Next]_vars /\ Handing("found")
      => (Handing("found") \/ Handing("offer") \/ NotifierIdle)'
  BY <1>2, <1>3 DEF Handing, NotifierIdle
<1>7. WatcherInv /\ [Next]_vars /\ Handing("offer")
      => (Handing("offer") \/ Handing("drain") \/ NotifierIdle)'
  BY <1>2, <1>3 DEF Handing, NotifierIdle
<1>8. WatcherInv /\ [Next]_vars /\ Handing("drain") => (Handing("drain") \/ Handing("send"))'
  BY <1>2, <1>3 DEF Handing, NotifierIdle
<1>9. WatcherInv /\ [Next]_vars /\ Handing("send") => (Handing("send") \/ NotifierIdle)'
  BY <1>2, <1>3 DEF Handing, NotifierIdle
<1>10. /\ WatcherInv /\ Handing("found") /\ <<NotifierStep>>_vars
          => (Handing("offer") \/ NotifierIdle)'
       /\ WatcherInv /\ Handing("offer") /\ <<NotifierStep>>_vars
          => (Handing("drain") \/ NotifierIdle)'
       /\ WatcherInv /\ Handing("drain") /\ <<NotifierStep>>_vars => Handing("send")'
       /\ WatcherInv /\ Handing("send") /\ <<NotifierStep>>_vars => NotifierIdle'
  BY <1>2 DEF Handing
<1> QED BY <1>1, <1>5, <1>6, <1>7, <1>8, <1>9, <1>10, PTL DEF Run, FairTo, WatchFairness

\* Once no other than ready snapshots are in the stream, no other ones come.
LEMMA StreamStaysReady ==
    ASSUME NEW c \in Callers
    PROVE  WatcherInv /\ Waits(c) /\ Waits(c)' /\ [Next]_vars /\ ReadyInStream(c)
           => ReadyInStream(c)'
<1> SUFFICES ASSUME WatcherInv, Waits(c), Waits(c)', [Next]_vars, ReadyInStream(c)
             PROVE  ReadyInStream(c)'
  OBVIOUS
<1> DEFINE p == PodOf[c]
<1>0. p \in Pods /\ stream \in [Pods -> Seq(Snapshot)]
  BY PodWatcherAssumption DEF WatcherInv, TypeOK
<1>1. CASE stream'[p] = stream[p]
  BY <1>1 DEF ReadyInStream
<1>2. CASE Fresh(c)'
  BY <1>2 DEF ReadyInStream, Fresh, Waits, StaysReady
<1>3. CASE Lookup(p)
  <2>1. stream[p] # <<>> /\ stream[p] \in Seq(Snapshot) /\ stream'[p] = Tail(stream[p])
    BY <1>0, <1>3 DEF Lookup
  <2>2. ASSUME NEW i \in 1..Len(stream'[p]) PROVE IsReady(stream'[p][i])
    <3>1. i + 1 \in 1..Len(stream[p]) /\ stream'[p][i] = stream[p][i + 1]
      BY <2>1, <2>2
    <3> QED BY <3>1 DEF ReadyInStream
  <2> QED BY <2>2 DEF ReadyInStream
<1> QED BY <1>1, <1>2, <1>3, ReadyPodStands DEF Waits

\* What the notifier picks up for the caller is one of its pod's snapshots.
LEMMA LookupForCaller ==
    ASSUME WatcherInv, NEW c \in Callers, NEW q \in Pods, Watched(q), At(c, "wait")
    PROVE  waiters[q] = c <=> q = PodOf[c]
BY DEF WatcherInv, RegisteredWhileWaiting, HandoverInv, Watched, At

LEMMA HeldStaysReady ==
    ASSUME NEW c \in Callers
    PROVE  WatcherInv /\ Waits(c) /\ Waits(c)' /\ [Next]_vars /\ ReadyHeld(c) => ReadyHeld(c)'
<1> SUFFICES ASSUME WatcherInv, Waits(c), Waits(c)', [Next]_vars, ReadyHeld(c), Held(c)'
             PROVE  IsReady(notifier.pod)'
  BY StreamStaysReady DEF ReadyHeld
<1>1. CASE UNCHANGED notifier
  BY <1>1 DEF ReadyHeld, Held
<1>2. CASE NotifierStep
  <2>1. notifier.at # "idle"
    BY <1>2 DEF NotifierStep, CheckDone, Offer, Drain, Send, Handing
  <2> QED BY <1>2, <2>1, NotifierKeeps DEF ReadyHeld, Held, Idle
<1>3. ASSUME NEW q \in Pods, Lookup(q), Watched(q),
             notifier' = [at |-> "found", waiter |-> waiters[q], pod |-> Head(stream[q])]
      PROVE  IsReady(notifier'.pod)
  <2>1. q = PodOf[c]
    BY <1>3, LookupForCaller DEF Held, Waits
  <2>2. stream[q] # <<>> /\ stream[q] \in Seq(Snapshot)
    BY <1>3 DEF Lookup, WatcherInv, TypeOK
  <2>3. IsReady(stream[q][1])
    BY <2>1, <2>2 DEF ReadyHeld, ReadyInStream
  <2> QED BY <1>3, <2>2, <2>3
<1> QED BY <1>1, <1>2, <1>3, NotifierMoves

\* The channel of the caller gets no other than ready snapshots then.
LEMMA ChannelStaysReady ==
    ASSUME NEW c \in Callers
    PROVE  WatcherInv /\ Waits(c) /\ Waits(c)' /\ [Next]_vars /\ ReadyInChannel(c)
           => ReadyInChannel(c)'
<1> SUFFICES ASSUME WatcherInv, Waits(c), Waits(c)', [Next]_vars, ReadyInChannel(c),
                    events'[c] # <<>>
             PROVE  IsReady(Head(events'[c]))
  BY HeldStaysReady DEF ReadyInChannel
<1>1. CASE events'[c] = events[c]
  BY <1>1 DEF ReadyInChannel
<1>2. CASE Receive(c)
  BY <1>2 DEF Receive, WatcherInv, TypeOK
<1>3. CASE Held(c) /\ events'[c] = <<notifier.pod>>
  BY <1>3 DEF ReadyInChannel, ReadyHeld
<1> QED BY <1>1, <1>2, <1>3, ChannelMoves

\* From some time on the notifier holds and the stream brings ready snapshots only.
LEMMA OnlyReadyHeld ==
    ASSUME NEW c \in Callers
    PROVE  Run(c) /\ []Waits(c) => <>[]ReadyHeld(c)
<1>1. Waits(c) /\ Fresh(c) => ReadyInStream(c)
  BY DEF Waits, StaysReady, Fresh, ReadyInStream
<1>2. ReadyInStream(c) /\ NotifierIdle => ReadyHeld(c)
  BY DEF ReadyHeld, Held, NotifierIdle
<1> QED BY <1>1, <1>2, StreamStaysReady, HeldStaysReady, FreshComes, NotifierComesRound, PTL
        DEF Run

\* The notifier picks up the pod's snapshot for its waiter, again and again.
LEMMA SnapshotHeld ==
    ASSUME NEW c \in Callers
    PROVE  Run(c) /\ []Waits(c) => []<>Held(c)
<1>0. PodOf[c] \in Pods
  BY PodWatcherAssumption
<1>1. WatcherInv /\ Waits(c) /\ Lookup(PodOf[c]) => Held(c)'
  <2>1. WatcherInv /\ Waits(c) => waiters[PodOf[c]] = c
    BY DEF WatcherInv, RegisteredWhileWaiting, Waits, At
  <2>2. c # NoCaller
    BY PodWatcherAssumption
  <2> QED BY <2>1, <2>2 DEF Lookup, Watched, Held
<1>2. WatcherInv /\ Waits(c) /\ Waits(c)' /\ [Next]_vars /\ Fresh(c) => (Fresh(c) \/ Held(c))'
  BY <1>1, ReadyPodStands DEF Waits, Fresh
<1>3. WatcherInv /\ Waits(c) /\ CanStep(c) /\ NotifierIdle /\ Fresh(c)
      => ENABLED <<Lookup(PodOf[c])>>_vars
  <2>1. Waits(c) /\ Fresh(c) => watch = "running" /\ stream[PodOf[c]] # <<>>
    BY DEF Waits, StaysReady, Fresh
  <2> QED BY <2>1 DEF CanStep, LookupCanStep, NotifierIdle
<1>4. WatcherInv /\ Waits(c) /\ <<Lookup(PodOf[c])>>_vars => Held(c)'
  BY <1>1
<1> QED BY <1>2, <1>3, <1>4, FreshComes, NotifierComesRound, PTL DEF Run, FairTo, StreamFairness

HeldAt(c, at) == Held(c) /\ Handing(at)

\* A snapshot the notifier holds for a waiting caller gets into its channel.
LEMMA DeliveryStep ==
    ASSUME WatcherInv, NEW c \in Callers, At(c, "wait"), Held(c), NotifierStep
    PROVE  \/ Handing("found") /\ HeldAt(c, "offer")'
           \/ Handing("offer") /\ (HeldAt(c, "drain") \/ HasEvent(c))'
           \/ Handing("drain") /\ HeldAt(c, "send")'
           \/ Handing("send") /\ HasEvent(c)'
<1>1. notifier.waiter = c /\ ~done[c] /\ notifier.pod \in Snapshot
  BY DEF WatcherInv, TypeOK, RegisteredWhileWaiting, At, Held
<1>2. ASSUME Deliver PROVE HasEvent(c)'
  BY <1>1, <1>2 DEF Deliver, WatcherInv, TypeOK, HasEvent
<1>3. CASE CheckDone
  BY <1>1, <1>3 DEF CheckDone, HeldAt, Held, Handing, WatcherInv, TypeOK
<1>4. CASE Offer
  BY <1>1, <1>2, <1>4 DEF Offer, HeldAt, Held, Handing, WatcherInv, TypeOK
<1>5. CASE Drain
  BY <1>1, <1>5 DEF Drain, HeldAt, Held, Handing, WatcherInv, TypeOK
<1>6. CASE Send
  BY <1>1, <1>2, <1>6 DEF Send, Handing
<1> QED BY <1>3, <1>4, <1>5, <1>6 DEF NotifierStep

LEMMA EventComes ==
    ASSUME NEW c \in Callers
    PROVE  Run(c) /\ []Waits(c) => []<>HasEvent(c)
<1>1. WatcherInv => (Held(c) => \/ HeldAt(c, "found") \/ HeldAt(c, "offer")
                               \/ HeldAt(c, "drain") \/ HeldAt(c, "send"))
  BY DEF WatcherInv, TypeOK, Held, HeldAt, Handing
<1>2. ASSUME NEW at \in {"found", "offer", "drain", "send"}
      PROVE  /\ WatcherInv /\ CanStep(c) /\ HeldAt(c, at) => ENABLED <<NotifierStep>>_vars
             /\ WatcherInv /\ [Next]_vars /\ HeldAt(c, at) => HeldAt(c, at)' \/ NotifierStep
  <2>1. CanStep(c) /\ HeldAt(c, at) => ENABLED <<NotifierStep>>_vars
    BY DEF CanStep, WatchCanStep, HeldAt, Held
  <2>2. WatcherInv /\ [Next]_vars /\ HeldAt(c, at) => HeldAt(c, at)' \/ NotifierStep
    BY NotifierMoves DEF HeldAt, Held, Handing, NotifierIdle
  <2> QED BY <2>1, <2>2
<1>3. WatcherInv /\ Waits(c) /\ NotifierStep
      => /\ HeldAt(c, "found") => HeldAt(c, "offer")'
         /\ HeldAt(c, "offer") => (HeldAt(c, "drain") \/ HasEvent(c))'
         /\ HeldAt(c, "drain") => HeldAt(c, "send")'
         /\ HeldAt(c, "send") => HasEvent(c)'
  BY DeliveryStep DEF Waits, HeldAt, Handing
<1>4. Run(c) /\ []Waits(c) => (HeldAt(c, "found") ~> HeldAt(c, "offer"))
  <2>1. WatcherInv /\ Waits(c) /\ [Next]_vars /\ HeldAt(c, "found")
        => (HeldAt(c, "found") \/ HeldAt(c, "offer"))'
    BY <1>2, <1>3
  <2>2. WatcherInv /\ Waits(c) /\ <<NotifierStep>>_vars /\ HeldAt(c, "found") => HeldAt(c, "offer")'
    BY <1>3
  <2>3. WatcherInv /\ CanStep(c) /\ HeldAt(c, "found") => ENABLED <<NotifierStep>>_vars
    BY <1>2
  <2> QED BY <2>1, <2>2, <2>3, PTL DEF Run, FairTo, WatchFairness
<1>5. Run(c) /\ []Waits(c) => (HeldAt(c, "offer") ~> (HeldAt(c, "drain") \/ HasEvent(c)))
  <2>1. WatcherInv /\ Waits(c) /\ [Next]_vars /\ HeldAt(c, "offer")
        => (HeldAt(c, "offer") \/ HeldAt(c, "drain") \/ HasEvent(c))'
    BY <1>2, <1>3
  <2>2. WatcherInv /\ Waits(c) /\ <<NotifierStep>>_vars /\ HeldAt(c, "offer")
        => (HeldAt(c, "drain") \/ HasEvent(c))'
    BY <1>3
  <2>3. WatcherInv /\ CanStep(c) /\ HeldAt(c, "offer") => ENABLED <<NotifierStep>>_vars
    BY <1>2
  <2> QED BY <2>1, <2>2, <2>3, PTL DEF Run, FairTo, WatchFairness
<1>6. Run(c) /\ []Waits(c) => (HeldAt(c, "drain") ~> HeldAt(c, "send"))
  <2>1. WatcherInv /\ Waits(c) /\ [Next]_vars /\ HeldAt(c, "drain")
        => (HeldAt(c, "drain") \/ HeldAt(c, "send"))'
    BY <1>2, <1>3
  <2>2. WatcherInv /\ Waits(c) /\ <<NotifierStep>>_vars /\ HeldAt(c, "drain") => HeldAt(c, "send")'
    BY <1>3
  <2>3. WatcherInv /\ CanStep(c) /\ HeldAt(c, "drain") => ENABLED <<NotifierStep>>_vars
    BY <1>2
  <2> QED BY <2>1, <2>2, <2>3, PTL DEF Run, FairTo, WatchFairness
<1>7. Run(c) /\ []Waits(c) => (HeldAt(c, "send") ~> HasEvent(c))
  <2>1. WatcherInv /\ Waits(c) /\ [Next]_vars /\ HeldAt(c, "send")
        => (HeldAt(c, "send") \/ HasEvent(c))'
    BY <1>2, <1>3
  <2>2. WatcherInv /\ Waits(c) /\ <<NotifierStep>>_vars /\ HeldAt(c, "send") => HasEvent(c)'
    BY <1>3
  <2>3. WatcherInv /\ CanStep(c) /\ HeldAt(c, "send") => ENABLED <<NotifierStep>>_vars
    BY <1>2
  <2> QED BY <2>1, <2>2, <2>3, PTL DEF Run, FairTo, WatchFairness
<1> QED BY <1>1, <1>4, <1>5, <1>6, <1>7, SnapshotHeld, PTL DEF Run

\* So the wait cannot go on for ever: the second event received is a ready one.
LEMMA NoWaitForEver ==
    ASSUME NEW c \in Callers
    PROVE  Run(c) => ~[]Waits(c)
<1>1. WatcherInv /\ Waits(c) /\ CanStep(c) /\ HasEvent(c) => ENABLED <<Receive(c)>>_vars
  BY DEF CanStep, CallerCanStep, Waits, At, HasEvent
<1>2. WatcherInv /\ Waits(c) /\ ReadyHeld(c)' /\ <<Receive(c)>>_vars => ReadyInChannel(c)'
  BY DEF Receive, ReadyInChannel, WatcherInv, TypeOK
<1>3. WatcherInv /\ Waits(c) /\ ReadyInChannel(c) /\ <<Receive(c)>>_vars => ~Waits(c)'
  BY DEF Receive, ReadyInChannel, WatcherInv, TypeOK, Waits, At
<1> QED BY <1>1, <1>2, <1>3, ChannelStaysReady, OnlyReadyHeld, EventComes, PTL
        DEF Run, FairTo, CallerFairness

\* No lost wakeup, for one caller.
LEMMA ReadinessEndsWait ==
    ASSUME NEW c \in Callers
    PROVE  Spec /\ Run(c) => ReadinessReaches(c)
<1>1. TypeOK /\ At(c, "wait") /\ [Next]_vars => (At(c, "wait") \/ At(c, "cleanup"))'
  BY OnlyCallerMoves, CallerGoesOn DEF At
<1>2. WatcherInv => TypeOK
  BY DEF WatcherInv
<1>3. Waits(c) <=> StaysReady(c) /\ At(c, "wait")
  BY DEF Waits
<1>4. Run(c) /\ <>[]StaysReady(c) => (At(c, "wait") ~> At(c, "cleanup"))
  BY <1>1, <1>2, <1>3, RunLasts, NoWaitForEver, PTL DEF Run
<1>5. Run(c) => CallerFairness(c) /\ []CallerCanStep(c)
  <2>1. CanStep(c) => CallerCanStep(c)
    BY DEF CanStep
  <2> QED BY <2>1, PTL DEF Run, FairTo
<1>6. Spec /\ Run(c) /\ <>[]StaysReady(c)
      => (At(c, "register") \/ At(c, "wait") ~> At(c, "returned"))
  BY <1>4, <1>5, RegisterEnds, CleanupEnds, PTL
<1>7. At(c, "register") \/ At(c, "wait") <=> pc[c] \in {"register", "wait"}
  BY DEF At
<1>8. At(c, "returned") <=> pc[c] = "returned"
  BY DEF At
<1> QED BY <1>6, <1>7, <1>8, PTL DEF ReadinessReaches

\* No lost wakeup: a pod that is ready and stays ready ends its creator's wait, even when
\* it was ready before the registration and whatever was in its channel, while the watch
\* goes on.
THEOREM ReadinessReachesAll == FairSpec /\ []NobodyStuck => ReadinessReachesWaiter
<1>1. ASSUME NEW c \in Callers
      PROVE  FairSpec /\ []NobodyStuck => ReadinessReaches(c)
  <2>1. NobodyStuck => CanStep(c)
    BY PartsOfFairness DEF CanStep
  <2>2. Fairness => FairTo(c)
    BY PartsOfFairness DEF FairTo
  <2>3. FairSpec /\ []NobodyStuck => Spec /\ Run(c)
    BY <2>1, <2>2, WatcherInvariant, PTL DEF FairSpec, Run, Spec
  <2> QED BY <2>3, ReadinessEndsWait, PTL
<1> QED BY <1>1 DEF ReadinessReachesWaiter

=============================================================================
