------------------------------- MODULE KubeApi -------------------------------
(***************************************************************************)
(* CreateReadyPod, DeletePod and PodExists of internal/kubernetes/api.go   *)
(* for one pod name, as scenarios and DeployPod call them, against an API  *)
(* server whose answers get lost: a request that timed out may never be    *)
(* carried out, or be carried out later, after it was sent again or given  *)
(* up.  Callers may be goroutines of one run (CleanPodName makes different *)
(* names equal) or of another run of the program; a pod of the name may be *)
(* left from an earlier one.  Nobody else touches the pod.                 *)
(***************************************************************************)
EXTENDS Integers, Sequences

CONSTANTS
    Callers,   \* scenarios with a pod of this name, or calls of DeployPod for it
    Earlier,   \* whoever created a pod that is left from an earlier run
    Attempts,  \* requests of one call: the steps of retry.DefaultBackoff
    MaxLate,   \* bound: timed out requests of one caller still to be carried out
    MaxPods    \* bound: pods the server creates

ASSUME KubeApiAssumption ==
    /\ Earlier \notin Callers
    /\ Attempts \in Nat \ {0}
    /\ MaxLate \in Nat
    /\ MaxPods \in Nat

VARIABLES
    kind,     \* whose pod has this name, a scenario's or that of a processor
    pc,       \* caller -> where it is
    try,      \* caller -> the request of its call that is under way
    over,     \* caller -> the context of its call has ended
    mine,     \* caller -> the pod its create returned, 0 for none
    target,   \* caller -> the pod there was when its DeletePod began, 0 for none
    late,     \* caller -> timed out "create" and "delete" requests still to be carried out
    maker,    \* all pods ever created, by number: who asked for them
    phase,    \* the newest of them: "absent" once it is removed
    ready,    \* a pod of this name has been ready
    astray    \* history: a request to delete a pod was not answered

callVars == <<kind, pc, try, over, mine, target>>
podVars == <<maker, phase, ready>>
vars == <<callVars, late, podVars, astray>>

Requests == {"create", "delete"}
Phases == {"absent", "starting", "ready", "terminating"}
Places == {"exists", "create", "wait", "use", "delete", "poll", "deployed", "gone", "failed"}

TypeOK ==
    /\ kind \in {"scenario", "processing"}
    /\ pc \in [Callers -> Places]
    /\ try \in [Callers -> 1..Attempts]
    /\ over \in [Callers -> BOOLEAN]
    /\ mine \in [Callers -> 0..Len(maker)]
    /\ target \in [Callers -> 0..Len(maker)]
    /\ late \in [Callers -> [Requests -> 0..MaxLate]]
    /\ maker \in Seq(Callers \cup {Earlier})
    /\ phase \in Phases
    /\ ready \in BOOLEAN
    /\ astray \in BOOLEAN

Init ==
    /\ kind \in {"scenario", "processing"}
    /\ pc = [c \in Callers |-> IF kind = "scenario" THEN "create" ELSE "exists"]
    /\ try = [c \in Callers |-> 1]
    /\ over = [c \in Callers |-> FALSE]
    /\ mine = [c \in Callers |-> 0]
    /\ target = [c \in Callers |-> 0]
    /\ late = [c \in Callers |-> [r \in Requests |-> 0]]
    /\ \/ maker = <<>> /\ phase = "absent" /\ ready = FALSE
       \/ maker = <<Earlier>> /\ phase = "starting" /\ ready = FALSE
       \/ maker = <<Earlier>> /\ phase = "ready" /\ ready = TRUE
       \/ maker = <<Earlier>> /\ phase = "terminating" /\ ready \in BOOLEAN
    /\ astray = FALSE

-----------------------------------------------------------------------------
(***************************************************************************)
(* The API server and the kubelet.                                         *)
(***************************************************************************)
Newest == Len(maker)

Make(c) ==
    /\ phase = "absent"
    /\ Newest < MaxPods
    /\ maker' = Append(maker, c)
    /\ phase' = "starting"

\* Deletion is by name; a pod that terminates goes on terminating.
Terminate ==
    /\ phase' = IF phase = "absent" THEN phase ELSE "terminating"
    /\ UNCHANGED maker

PodReady ==
    /\ phase = "starting"
    /\ phase' = "ready"
    /\ ready' = TRUE
    /\ UNCHANGED <<callVars, late, maker, astray>>

PodGone ==
    /\ phase = "terminating"
    /\ phase' = "absent"
    /\ UNCHANGED <<callVars, late, maker, ready, astray>>

\* A request that was given up is carried out after all; a create may also be refused.
CarryOutLate(c) ==
    /\ \E r \in Requests :
         /\ late[c][r] > 0
         /\ late' = [late EXCEPT ![c][r] = @ - 1]
         /\ \/ r = "create" /\ Make(c)
            \/ r = "create" /\ phase # "absent" /\ UNCHANGED <<maker, phase>>
            \/ r = "delete" /\ Terminate
    /\ UNCHANGED <<callVars, ready, astray>>

-----------------------------------------------------------------------------
(***************************************************************************)
(* retry.OnError around one request.                                       *)
(***************************************************************************)
Go(c, place) ==
    /\ pc' = [pc EXCEPT ![c] = place]
    /\ try' = [try EXCEPT ![c] = 1]

\* Faulty variant of NextTry: the requests are not counted.
SameTry(n) == n

NextTry(n) == n + 1

\* Faulty variant of SendAgain: one request too many.
SendOnceMore(c) ==
    /\ ~over[c]
    /\ try[c] <= Attempts
    /\ try' = [try EXCEPT ![c] = NextTry(@)]
    /\ UNCHANGED pc

\* shouldRetry: the server says it timed out or is busy, and attempts are left.
SendAgain(c) ==
    /\ ~over[c]
    /\ try[c] < Attempts
    /\ try' = [try EXCEPT ![c] = NextTry(@)]
    /\ UNCHANGED pc

\* An error instead of an answer.  The request is lost, or will be carried out later.
NoAnswer(c, request) ==
    /\ \/ UNCHANGED late
       \/ late[c][request] < MaxLate /\ late' = [late EXCEPT ![c][request] = @ + 1]
    /\ UNCHANGED podVars

-----------------------------------------------------------------------------
(***************************************************************************)
(* PodExists and DeployPod                                                 *)
(***************************************************************************)
Exists(c) ==
    /\ pc[c] = "exists"
    /\ ~over[c]
    /\ Go(c, IF phase = "absent" THEN "create" ELSE "deployed")
    /\ UNCHANGED <<kind, over, mine, target, late, podVars, astray>>

\* Faulty variant of ExistsGivesUp: PodExists reports an error as an existing pod.
ExistsAfterError(c) == Go(c, "deployed")

ExistsGivesUp(c) == Go(c, "failed")

ExistsFails(c) ==
    /\ pc[c] = "exists"
    /\ SendAgain(c) \/ ExistsGivesUp(c)
    /\ UNCHANGED <<kind, over, mine, target, late, podVars, astray>>

-----------------------------------------------------------------------------
(***************************************************************************)
(* CreateReadyPod                                                          *)
(***************************************************************************)

\* Faulty variant of AlreadyExists: a retried create takes the pod it meets for its own.
AdoptExisting(c) ==
    IF try[c] > 1
    THEN Go(c, "wait") /\ mine' = [mine EXCEPT ![c] = Newest]
    ELSE Go(c, "failed") /\ UNCHANGED mine

AlreadyExists(c) == Go(c, "failed") /\ UNCHANGED mine

CreatePod(c) ==
    /\ pc[c] = "create"
    /\ ~over[c]
    /\ \/ Make(c) /\ Go(c, "wait") /\ mine' = [mine EXCEPT ![c] = Newest + 1]
       \/ phase # "absent" /\ AlreadyExists(c) /\ UNCHANGED <<maker, phase>>
    /\ UNCHANGED <<kind, over, target, late, ready, astray>>

\* Faulty variant of CreateGivesUp: ExecuteScenario defers the cleanup before it deploys.
CleanupAfterFailure(c) == Go(c, IF kind = "scenario" THEN "delete" ELSE "failed")

\* A scenario whose deployment failed returns without a cleanup.
CreateGivesUp(c) == Go(c, "failed")

CreateFails(c) ==
    /\ pc[c] = "create"
    /\ SendAgain(c) \/ CreateGivesUp(c)
    /\ NoAnswer(c, "create")
    /\ UNCHANGED <<kind, over, mine, target, astray>>

\* WaitForPodReady goes by the name: any pod of it that has been ready will do.
PodIsReady(c) ==
    /\ pc[c] = "wait"
    /\ ready
    /\ Go(c, IF kind = "scenario" THEN "use" ELSE "deployed")
    /\ UNCHANGED <<kind, over, mine, target, late, podVars, astray>>

\* Another caller waits for the name too, as the pod of the first was deleted and the second has
\* created one.  Whoever of them registers second is refused.
AlreadyWatched(c) == \E d \in Callers \ {c} : pc[d] = "wait"

\* The context has ended, or somebody waits for this name already.
WaitFails(c) ==
    /\ pc[c] = "wait"
    /\ over[c] \/ AlreadyWatched(c)
    /\ Go(c, "failed")
    /\ UNCHANGED <<kind, over, mine, target, late, podVars, astray>>

-----------------------------------------------------------------------------
(***************************************************************************)
(* DeletePod and waitForPodDeletion                                        *)
(***************************************************************************)

\* The scenario ends; its cleanup has a context of its own.
BeginDelete(c) ==
    /\ pc[c] = "use"
    /\ Go(c, "delete")
    /\ over' = [over EXCEPT ![c] = FALSE]
    /\ target' = [target EXCEPT ![c] = IF phase = "absent" THEN 0 ELSE Newest]
    /\ UNCHANGED <<kind, mine, late, podVars, astray>>

\* NotFound counts as deleted.
DeletePod(c) ==
    /\ pc[c] = "delete"
    /\ ~over[c]
    /\ Terminate
    /\ Go(c, "poll")
    /\ UNCHANGED <<kind, over, mine, target, late, ready, astray>>

DeleteFails(c) ==
    /\ pc[c] = "delete"
    /\ SendAgain(c) \/ Go(c, "failed")
    /\ NoAnswer(c, "delete")
    /\ astray' = TRUE
    /\ UNCHANGED <<kind, over, mine, target>>

DeletionSeen(c) ==
    /\ pc[c] = "poll"
    /\ phase = "absent"
    /\ Go(c, "gone")
    /\ UNCHANGED <<kind, over, mine, target, late, podVars, astray>>

\* Faulty variant of PollGivesUp: an error of Get passes for the end of the pod.
PollErrorIsGone(c) == Go(c, "gone")

PollGivesUp(c) == Go(c, "failed")

\* A Get that fails, for whatever reason, or the deadline.
PollFails(c) ==
    /\ pc[c] = "poll"
    /\ PollGivesUp(c)
    /\ UNCHANGED <<kind, over, mine, target, late, podVars, astray>>

\* The run is cancelled, or the 30 seconds of the cleanup are over.
ContextEnds(c) ==
    /\ ~over[c]
    /\ over' = [over EXCEPT ![c] = TRUE]
    /\ UNCHANGED <<kind, pc, try, mine, target, late, podVars, astray>>

-----------------------------------------------------------------------------
Create(c) == CreatePod(c) \/ CreateFails(c)
Look(c) == Exists(c) \/ ExistsFails(c)
Delete(c) == DeletePod(c) \/ DeleteFails(c) \/ DeletionSeen(c)

Next ==
    \/ \E c \in Callers :
         \/ Look(c) \/ Create(c) \/ PodIsReady(c) \/ WaitFails(c)
         \/ BeginDelete(c) \/ Delete(c) \/ PollFails(c)
         \/ ContextEnds(c) \/ CarryOutLate(c)
    \/ PodReady
    \/ PodGone

Spec == Init /\ [][Next]_vars

(***************************************************************************)
(* Fairness.  Every request ends, with an answer or an error, and a wait   *)
(* whose context has ended does.  The cleanup has a deadline; a run need   *)
(* not be cancelled, and a pod that terminates may do so for ever.         *)
(***************************************************************************)
CleanupDeadline(c) == pc[c] \in {"delete", "poll"} /\ ContextEnds(c)
PollTimesOut(c) == over[c] /\ PollFails(c)

CallFairness(c) ==
    /\ WF_vars(Look(c))
    /\ WF_vars(Create(c))
    /\ WF_vars(WaitFails(c))
    /\ WF_vars(Delete(c))
    /\ WF_vars(PollTimesOut(c))
    /\ WF_vars(CleanupDeadline(c))

Fairness == \A c \in Callers : CallFairness(c)

FairSpec == Spec /\ Fairness

-----------------------------------------------------------------------------
(***************************************************************************)
(* Properties.                                                             *)
(***************************************************************************)

\* A create that returns nil made the pod it returns, whatever became of the requests
\* before; so no two scenarios work in one pod.
CreatedIsOwn ==
    \A c \in Callers :
        pc[c] \in {"wait", "use", "delete", "poll"} => mine[c] # 0 /\ maker[mine[c]] = c

\* A pod in use is taken from its scenario only by a DeletePod, of another scenario of
\* that name, that had to do without an answer: not by one whose own deployment met the
\* pod and failed, nor by one that has got its answer.
InUseUnlessAstray ==
    \A c \in Callers :
        pc[c] \in {"wait", "use"} /\ ~astray => mine[c] = Newest /\ phase \in {"starting", "ready"}

\* When DeletePod returns nil, the pod there was when it began is gone, also when a
\* pod of the same name has been created since.
DeletedIsGone ==
    \A c \in Callers : pc[c] = "gone" => target[c] < Newest \/ phase = "absent"

\* DeployPod returns nil only if there is a pod of that name, and the pod stays: neither
\* the loser of a race between two deployments nor a late request removes it.  (Only a
\* pod that an earlier run left may have been on its way out.)
DeployedPodStays ==
    \A c \in Callers : pc[c] = "deployed" => phase # "absent" \/ maker = <<Earlier>>

\* A call that is under way can go on, whatever the others and the server do.
CanGoOn(c) ==
    /\ pc[c] = "exists" => ENABLED <<Look(c)>>_vars
    /\ pc[c] = "create" => ENABLED <<Create(c)>>_vars
    /\ pc[c] = "wait" /\ (over[c] \/ AlreadyWatched(c)) => ENABLED <<WaitFails(c)>>_vars
    /\ pc[c] = "delete" => ENABLED <<Delete(c)>>_vars
    /\ pc[c] = "poll" /\ over[c] => ENABLED <<PollTimesOut(c)>>_vars
    /\ pc[c] \in {"delete", "poll"} /\ ~over[c] => ENABLED <<CleanupDeadline(c)>>_vars

NoCallStuck == \A c \in Callers : CanGoOn(c)

\* Creating and looking up end by themselves, as the retries are counted.
RequestsEnd(c) == pc[c] \in {"exists", "create"} ~> pc[c] \notin {"exists", "create"}

\* Deleting ends when the deadline of the cleanup has passed, however long the pod takes.
DeletionEnds(c) == pc[c] = "delete" ~> pc[c] \in {"gone", "failed"}

\* A call never gets stuck and ends.
CallsEnd == []NoCallStuck /\ \A c \in Callers : RequestsEnd(c) /\ DeletionEnds(c)

\* When its context ends, a call is over with the request under way, retries or not.
UnderWay == {"exists", "create", "wait", "delete", "poll"}
CancelledCallEnds(c) == over[c] /\ pc[c] \in UnderWay ~> pc[c] \notin UnderWay
=============================================================================
