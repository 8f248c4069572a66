---------------------------- MODULE KubeApiProofs ----------------------------
(***************************************************************************)
(* Proofs about KubeApi, for any callers, any number of attempts and any   *)
(* number of requests that are carried out late.                           *)
(***************************************************************************)
EXTENDS KubeApi, TLAPS

CallerStep(c) ==
    \/ Look(c) \/ Create(c) \/ PodIsReady(c) \/ WaitFails(c)
    \/ BeginDelete(c) \/ Delete(c) \/ PollFails(c)
    \/ ContextEnds(c) \/ CarryOutLate(c)

-----------------------------------------------------------------------------
(***************************************************************************)
(* The server: pods are only added, the newest is the one that lives.      *)
(***************************************************************************)

\* What any step may do to the pods.
PodStep ==
    \/ UNCHANGED <<maker, phase>>
    \/ \E c \in Callers : Make(c)
    \/ Terminate
    \/ UNCHANGED maker /\ phase = "starting" /\ phase' = "ready"
    \/ UNCHANGED maker /\ phase = "terminating" /\ phase' = "absent"

LEMMA PodSteps == [Next]_vars => PodStep
<1> SUFFICES ASSUME [Next]_vars PROVE PodStep
  OBVIOUS
<1>1. ASSUME NEW c \in Callers, CallerStep(c) PROVE PodStep
  BY <1>1 DEF CallerStep, PodStep, Look, Exists, ExistsFails, Create, CreatePod, CreateFails, NoAnswer,
      PodIsReady, WaitFails, BeginDelete, Delete, DeletePod, DeleteFails, DeletionSeen, PollFails,
      ContextEnds, CarryOutLate, podVars
<1>2. CASE PodReady \/ PodGone
  BY <1>2 DEF PodReady, PodGone, PodStep
<1>3. CASE UNCHANGED vars
  BY <1>3 DEF vars, podVars, PodStep
<1> QED BY <1>1, <1>2, <1>3 DEF Next, CallerStep

LEMMA PodStepTypes ==
    ASSUME TypeOK, PodStep
    PROVE  /\ maker' \in Seq(Callers \cup {Earlier}) /\ phase' \in Phases
           /\ Len(maker) \in Nat /\ Len(maker') \in Nat /\ Len(maker) <= Len(maker')
           /\ \A i \in 1..Len(maker) : maker'[i] = maker[i]
           /\ Len(maker') = Len(maker) => maker' = maker
           /\ Len(maker') # Len(maker) => phase = "absent" /\ phase' = "starting"
<1>1. CASE \E c \in Callers : Make(c)
  BY <1>1 DEF TypeOK, Make, Phases, Newest
<1>2. CASE ~\E c \in Callers : Make(c)
  BY <1>2 DEF PodStep, TypeOK, Terminate, Phases
<1> QED BY <1>1, <1>2

-----------------------------------------------------------------------------
(***************************************************************************)
(* Type correctness.                                                       *)
(***************************************************************************)
LEMMA TypeInit == Init => TypeOK
<1> SUFFICES ASSUME Init PROVE TypeOK
  OBVIOUS
<1>1. maker \in Seq(Callers \cup {Earlier}) /\ Len(maker) \in Nat /\ 0 \in 0..Len(maker)
  <2>1. maker = <<>> \/ maker = <<Earlier>>
    BY DEF Init
  <2>2. CASE maker = <<>>
    BY <2>2
  <2>3. CASE maker = <<Earlier>>
    BY <2>3
  <2> QED BY <2>1, <2>2, <2>3
<1>2. phase \in Phases /\ ready \in BOOLEAN /\ astray \in BOOLEAN
  BY DEF Init, Phases
<1>3. late \in [Callers -> [Requests -> 0..MaxLate]]
  <2>1. [r \in Requests |-> 0] \in [Requests -> 0..MaxLate]
    BY KubeApiAssumption
  <2> QED BY <2>1 DEF Init
<1>4. try \in [Callers -> 1..Attempts] /\ pc \in [Callers -> Places]
  BY KubeApiAssumption DEF Init, Places
<1> QED BY <1>1, <1>2, <1>3, <1>4 DEF Init, TypeOK

LEMMA TypeStep == TypeOK /\ [Next]_vars => TypeOK'
<1> SUFFICES ASSUME TypeOK, [Next]_vars PROVE TypeOK'
  OBVIOUS
<1> USE KubeApiAssumption
<1>0. /\ maker' \in Seq(Callers \cup {Earlier}) /\ phase' \in Phases
      /\ Len(maker) \in Nat /\ Len(maker') \in Nat /\ Len(maker) <= Len(maker')
  BY PodSteps, PodStepTypes
<1>1. ASSUME NEW c \in Callers, CallerStep(c) PROVE TypeOK'
  <2>1. UNCHANGED <<pc, try>> \/ SendAgain(c) \/ \E place \in Places : Go(c, place)
    BY <1>1 DEF CallerStep, Look, Exists, ExistsFails, ExistsGivesUp, Create, CreatePod, AlreadyExists,
        CreateFails, CreateGivesUp, PodIsReady, WaitFails, BeginDelete, Delete, DeletePod, DeleteFails,
        DeletionSeen, PollFails, PollGivesUp, ContextEnds, CarryOutLate, callVars, Places
  <2>2. pc' \in [Callers -> Places] /\ try' \in [Callers -> 1..Attempts]
    <3>1. CASE UNCHANGED <<pc, try>>
      BY <3>1 DEF TypeOK
    <3>2. CASE SendAgain(c)
      BY <3>2 DEF TypeOK, SendAgain, NextTry
    <3>3. CASE \E place \in Places : Go(c, place)
      BY <3>3 DEF TypeOK, Go
    <3> QED BY <2>1, <3>1, <3>2, <3>3
  <2>3. over' \in [Callers -> BOOLEAN] /\ astray' \in BOOLEAN /\ ready' \in BOOLEAN /\ kind' = kind
    BY <1>1 DEF TypeOK, CallerStep, Look, Exists, ExistsFails, Create, CreatePod, CreateFails, PodIsReady,
        WaitFails, BeginDelete, Delete, DeletePod, DeleteFails, DeletionSeen, PollFails, ContextEnds,
        CarryOutLate, NoAnswer, callVars, podVars
  <2>4. mine' \in [Callers -> 0..Len(maker')]
    <3>1. mine' = mine \/ (CreatePod(c) /\ mine' = [mine EXCEPT ![c] = Newest + 1] /\ Make(c))
      BY <1>1 DEF CallerStep, Look, Exists, ExistsFails, Create, CreatePod, AlreadyExists, CreateFails,
          PodIsReady, WaitFails, BeginDelete, Delete, DeletePod, DeleteFails, DeletionSeen, PollFails,
          ContextEnds, CarryOutLate, callVars
    <3>2. CASE mine' = mine
      BY <1>0, <3>2 DEF TypeOK
    <3>3. CASE Make(c) /\ mine' = [mine EXCEPT ![c] = Newest + 1]
      <4>1. Len(maker') = Len(maker) + 1
        BY <3>3 DEF Make, TypeOK
      <4> QED BY <3>3, <4>1, <1>0 DEF TypeOK, Newest
    <3> QED BY <3>1, <3>2, <3>3
  <2>5. target' \in [Callers -> 0..Len(maker')]
    <3>1. target' = target \/ (BeginDelete(c) /\ \E n \in {0, Newest} : target' = [target EXCEPT ![c] = n])
      BY <1>1 DEF CallerStep, Look, Exists, ExistsFails, Create, CreatePod, AlreadyExists, CreateFails,
          PodIsReady, WaitFails, BeginDelete, Delete, DeletePod, DeleteFails, DeletionSeen, PollFails,
          ContextEnds, CarryOutLate, callVars
    <3> QED BY <1>0, <3>1 DEF TypeOK, Newest
  <2>6. late' \in [Callers -> [Requests -> 0..MaxLate]]
    <3>1. \/ late' = late
          \/ \E r \in Requests :
               \/ late[c][r] < MaxLate /\ late' = [late EXCEPT ![c][r] = @ + 1]
               \/ late[c][r] > 0 /\ late' = [late EXCEPT ![c][r] = @ - 1]
      BY <1>1 DEF CallerStep, Look, Exists, ExistsFails, Create, CreatePod, AlreadyExists, CreateFails,
          NoAnswer, PodIsReady, WaitFails, BeginDelete, Delete, DeletePod, DeleteFails, DeletionSeen,
          PollFails, ContextEnds, CarryOutLate, callVars, Requests
    <3>2. late[c] \in [Requests -> 0..MaxLate]
      BY DEF TypeOK
    <3>3. CASE \E r \in Requests : late[c][r] < MaxLate /\ late' = [late EXCEPT ![c][r] = @ + 1]
      <4>1. PICK r \in Requests : late[c][r] < MaxLate /\ late' = [late EXCEPT ![c][r] = @ + 1]
        BY <3>3
      <4>2. [late[c] EXCEPT ![r] = @ + 1] \in [Requests -> 0..MaxLate]
        BY <3>2, <4>1
      <4> QED BY <4>1, <4>2 DEF TypeOK
    <3>4. CASE \E r \in Requests : late[c][r] > 0 /\ late' = [late EXCEPT ![c][r] = @ - 1]
      <4>1. PICK r \in Requests : late[c][r] > 0 /\ late' = [late EXCEPT ![c][r] = @ - 1]
        BY <3>4
      <4>2. [late[c] EXCEPT ![r] = @ - 1] \in [Requests -> 0..MaxLate]
        BY <3>2, <4>1
      <4> QED BY <4>1, <4>2 DEF TypeOK
    <3> QED BY <3>1, <3>3, <3>4 DEF TypeOK
  <2> QED BY <1>0, <2>2, <2>3, <2>4, <2>5, <2>6 DEF TypeOK
<1>2. CASE PodReady \/ PodGone \/ UNCHANGED vars
  BY <1>0, <1>2 DEF PodReady, PodGone, TypeOK, vars, callVars, podVars, Phases
<1> QED BY <1>1, <1>2 DEF Next, CallerStep

\* Type correctness: no call makes more requests than the steps of its backoff.
THEOREM TypeCorrect == Spec => []TypeOK
BY TypeInit, TypeStep, PTL DEF Spec

-----------------------------------------------------------------------------
(***************************************************************************)
(* Whose pod a call works on.                                              *)
(***************************************************************************)

\* A caller comes to "wait" by a create that succeeded, and no other way.
LEMMA Waits ==
    ASSUME TypeOK, NEW c \in Callers, NEW d \in Callers, CallerStep(d)
    PROVE  /\ mine'[c] = mine[c] \/ (c = d /\ CreatePod(c) /\ Make(c) /\ mine'[c] = Newest + 1)
           /\ pc'[c] = "wait" /\ pc[c] # "wait" => CreatePod(c) /\ Make(c) /\ mine'[c] = Newest + 1
           /\ pc'[c] = "use" => pc[c] \in {"wait", "use"}
           /\ pc'[c] = "delete" => pc[c] \in {"use", "delete"}
           /\ pc'[c] = "poll" => pc[c] \in {"delete", "poll"}
           /\ mine'[c] # mine[c] => pc'[c] = "wait"
<1>1. CASE c # d
  BY <1>1 DEF TypeOK, CallerStep, Look, Exists, ExistsFails, ExistsGivesUp, Create, CreatePod, AlreadyExists, CreateFails,
              CreateGivesUp, SendAgain, NoAnswer, PodIsReady, WaitFails, BeginDelete, Delete, DeletePod, DeleteFails,
              DeletionSeen, PollFails, PollGivesUp, ContextEnds, CarryOutLate, Go, callVars, podVars
<1>2. CASE c = d
  BY <1>2 DEF TypeOK, CallerStep, Look, Exists, ExistsFails, ExistsGivesUp, Create, CreatePod, AlreadyExists, CreateFails,
              CreateGivesUp, SendAgain, NoAnswer, PodIsReady, WaitFails, BeginDelete, Delete, DeletePod, DeleteFails,
              DeletionSeen, PollFails, PollGivesUp, ContextEnds, CarryOutLate, Go, callVars, podVars
<1> QED BY <1>1, <1>2

LEMMA OwnStep == TypeOK /\ CreatedIsOwn /\ [Next]_vars => CreatedIsOwn'
<1> SUFFICES ASSUME TypeOK, CreatedIsOwn, [Next]_vars, NEW c \in Callers,
                    pc'[c] \in {"wait", "use", "delete", "poll"}
             PROVE  mine'[c] # 0 /\ maker'[mine'[c]] = c
  BY DEF CreatedIsOwn
<1>0. Len(maker) \in Nat /\ \A i \in 1..Len(maker) : maker'[i] = maker[i]
  BY PodSteps, PodStepTypes
<1>1. CASE pc[c] \in {"wait", "use", "delete", "poll"} /\ mine'[c] = mine[c]
  <2>1. mine[c] \in 1..Len(maker) /\ maker[mine[c]] = c
    BY <1>0, <1>1 DEF CreatedIsOwn, TypeOK
  <2> QED BY <1>0, <1>1, <2>1
<1>2. CASE Make(c) /\ mine'[c] = Newest + 1
  BY <1>2 DEF Make, Newest, TypeOK
<1>3. ASSUME NEW d \in Callers, CallerStep(d)
      PROVE  (pc[c] \in {"wait", "use", "delete", "poll"} /\ mine'[c] = mine[c])
             \/ (Make(c) /\ mine'[c] = Newest + 1)
  BY <1>3, Waits
<1>4. CASE PodReady \/ PodGone \/ UNCHANGED vars
  BY <1>1, <1>4 DEF PodReady, PodGone, vars, callVars
<1> QED BY <1>1, <1>2, <1>3, <1>4 DEF Next, CallerStep

LEMMA OwnInit == Init => CreatedIsOwn
BY DEF Init, CreatedIsOwn

\* A nil error of CreatePod stands for the pod the call itself has made, although requests
\* that timed out are sent again, and carried out before, after or not at all.
THEOREM CreatedIsOwnAlways == Spec => []CreatedIsOwn
BY TypeInit, TypeStep, OwnInit, OwnStep, PTL DEF Spec

-----------------------------------------------------------------------------
(***************************************************************************)
(* Who can take a pod away.                                                *)
(***************************************************************************)

\* Until its own DeletePod is answered, a caller's pod is the newest and alive, and no
\* request to delete it is on its way.
OwnerInv ==
    ~astray => /\ \A c \in Callers : pc[c] \in {"wait", "use", "delete"}
                                      => mine[c] = Newest /\ phase \in {"starting", "ready"}
               /\ \A c \in Callers : late[c]["delete"] = 0

LEMMA OwnerStep == TypeOK /\ CreatedIsOwn /\ OwnerInv /\ [Next]_vars => OwnerInv'
<1> SUFFICES ASSUME TypeOK, CreatedIsOwn, OwnerInv, [Next]_vars, ~astray' PROVE OwnerInv'
  BY DEF OwnerInv
<1>1. ASSUME NEW d \in Callers, CallerStep(d) PROVE OwnerInv'
  <2>0. ~astray
    BY <1>1 DEF CallerStep, Look, Exists, ExistsFails, ExistsGivesUp, Create, CreatePod, AlreadyExists, CreateFails,
        CreateGivesUp, SendAgain, NoAnswer, PodIsReady, WaitFails, BeginDelete, Delete, DeletePod, DeleteFails,
        DeletionSeen, PollFails, PollGivesUp, ContextEnds, CarryOutLate, Go, callVars, podVars
  <2>1. \A c \in Callers : late'[c]["delete"] = 0
    <3>1. UNCHANGED late
          \/ late' = [late EXCEPT ![d]["create"] = @ + 1] \/ late' = [late EXCEPT ![d]["create"] = @ - 1]
      BY <1>1, <2>0 DEF Requests, OwnerInv, CallerStep, Look, Exists, ExistsFails, ExistsGivesUp, Create, CreatePod, AlreadyExists, CreateFails,
          CreateGivesUp, SendAgain, NoAnswer, PodIsReady, WaitFails, BeginDelete, Delete, DeletePod, DeleteFails,
          DeletionSeen, PollFails, PollGivesUp, ContextEnds, CarryOutLate, Go, callVars, podVars
    <3> QED BY <2>0, <3>1 DEF TypeOK, OwnerInv, Requests
  <2>2. ASSUME NEW c \in Callers, pc'[c] \in {"wait", "use", "delete"}
        PROVE  mine'[c] = Newest' /\ phase' \in {"starting", "ready"}
    <3>1. CASE pc[c] \notin {"wait", "use", "delete"}
      BY <1>1, <2>2, <3>1, Waits DEF Make, Newest, TypeOK
    <3>2. CASE pc[c] \in {"wait", "use", "delete"}
      <4>1. mine[c] = Newest /\ phase \in {"starting", "ready"} /\ maker[mine[c]] = c
        BY <2>0, <3>2 DEF OwnerInv, CreatedIsOwn
      <4>2. UNCHANGED <<maker, phase>>
        <5>1. ~DeletePod(d)
          <6> SUFFICES ASSUME DeletePod(d) PROVE FALSE
            OBVIOUS
          <6>1. pc[d] = "delete" /\ pc'[d] = "poll"
            BY DEF DeletePod, Go, TypeOK
          <6>2. mine[d] = Newest /\ maker[mine[d]] = d
            BY <2>0, <6>1 DEF OwnerInv, CreatedIsOwn
          <6> QED BY <2>2, <4>1, <6>1, <6>2
        <5>2. CASE CarryOutLate(d)
          BY <2>0, <4>1, <5>2 DEF CarryOutLate, Make, OwnerInv, Requests
        <5>3. CASE ~CarryOutLate(d)
          BY <1>1, <4>1, <5>1, <5>3 DEF Make, CallerStep, Look, Exists, ExistsFails, Create, CreatePod, CreateFails,
              NoAnswer, PodIsReady, WaitFails, BeginDelete, Delete, DeleteFails, DeletionSeen, PollFails,
              ContextEnds, podVars
        <5> QED BY <5>2, <5>3
      <4>3. mine'[c] = mine[c]
        BY <1>1, <4>1, <4>2, Waits DEF Make
      <4> QED BY <4>1, <4>2, <4>3 DEF Newest
    <3> QED BY <3>1, <3>2
  <2> QED BY <2>1, <2>2 DEF OwnerInv
<1>2. CASE PodReady \/ PodGone
  BY <1>2 DEF PodReady, PodGone, OwnerInv, callVars, Newest
<1>3. CASE UNCHANGED vars
  BY <1>3 DEF vars, callVars, podVars, OwnerInv, Newest
<1> QED BY <1>1, <1>2, <1>3 DEF Next, CallerStep

LEMMA OwnerInit == Init => OwnerInv
BY DEF Init, OwnerInv, Requests

\* As long as every DeletePod has got its answer, no scenario loses its pod to another
\* one of the same name, in whatever order they create, wait and delete.
THEOREM InUseUnlessAstrayAlways == Spec => []InUseUnlessAstray
<1>1. OwnerInv => InUseUnlessAstray
  BY DEF OwnerInv, InUseUnlessAstray
<1> QED BY <1>1, TypeInit, TypeStep, OwnInit, OwnStep, OwnerInit, OwnerStep, PTL DEF Spec

-----------------------------------------------------------------------------
(***************************************************************************)
(* What DeletePod and DeployPod leave behind.                              *)
(***************************************************************************)

LEMMA GoneStep == TypeOK /\ DeletedIsGone /\ [Next]_vars => DeletedIsGone'
<1> SUFFICES ASSUME TypeOK, DeletedIsGone, [Next]_vars, NEW c \in Callers, pc'[c] = "gone"
             PROVE  target'[c] < Newest' \/ phase' = "absent"
  BY DEF DeletedIsGone
<1>0. /\ Len(maker) \in Nat /\ Len(maker') \in Nat /\ Len(maker) <= Len(maker')
      /\ target[c] \in 0..Len(maker)
      /\ phase = "absent" => phase' = "absent" \/ Len(maker) < Len(maker')
  BY PodSteps, PodStepTypes DEF TypeOK, PodStep, Terminate, Make, Newest
<1>1. ASSUME NEW d \in Callers, CallerStep(d)
      PROVE  target'[c] = target[c] /\ (pc[c] = "gone" \/ phase = "absent")
  <2>1. CASE c # d
    BY <1>1, <2>1 DEF TypeOK, CallerStep, Look, Exists, ExistsFails, ExistsGivesUp, Create, CreatePod,
        AlreadyExists, CreateFails, CreateGivesUp, SendAgain, NoAnswer, PodIsReady, WaitFails, BeginDelete,
        Delete, DeletePod, DeleteFails, DeletionSeen, PollFails, PollGivesUp, ContextEnds, CarryOutLate,
        Go, callVars
  <2>2. CASE c = d
    BY <1>1, <2>2 DEF TypeOK, CallerStep, Look, Exists, ExistsFails, ExistsGivesUp, Create, CreatePod,
        AlreadyExists, CreateFails, CreateGivesUp, SendAgain, NoAnswer, PodIsReady, WaitFails, BeginDelete,
        Delete, DeletePod, DeleteFails, DeletionSeen, PollFails, PollGivesUp, ContextEnds, CarryOutLate,
        Go, callVars
  <2> QED BY <2>1, <2>2
<1>2. CASE PodReady \/ PodGone \/ UNCHANGED vars
  BY <1>0, <1>2 DEF PodReady, PodGone, vars, callVars, DeletedIsGone, Newest
<1>3. CASE \E d \in Callers : CallerStep(d)
  BY <1>0, <1>1, <1>3 DEF DeletedIsGone, Newest
<1> QED BY <1>2, <1>3 DEF Next, CallerStep

LEMMA GoneInit == Init => DeletedIsGone
BY DEF Init, DeletedIsGone

\* When DeletePod returns nil, the pod that was there when the cleanup began is gone for good.
THEOREM DeletedIsGoneAlways == Spec => []DeletedIsGone
BY TypeInit, TypeStep, GoneInit, GoneStep, PTL DEF Spec

\* Nobody deletes a processing pod: only one that an earlier run left can go away.
DeployInv ==
    kind = "processing" =>
        /\ \A c \in Callers : /\ pc[c] \in {"exists", "create", "wait", "deployed", "failed"}
                              /\ late[c]["delete"] = 0
                              /\ pc[c] = "deployed" => maker # <<>>
        /\ phase \in {"absent", "terminating"} => maker \in {<<>>, <<Earlier>>}
        /\ phase # "absent" => maker # <<>>

LEMMA DeployStep == TypeOK /\ CreatedIsOwn /\ DeployInv /\ [Next]_vars => DeployInv'
<1> SUFFICES ASSUME TypeOK, CreatedIsOwn, DeployInv, [Next]_vars, kind' = "processing" PROVE DeployInv'
  BY DEF DeployInv
<1>0. kind = "processing" /\ \A c \in Callers : Append(maker, c) # <<>>
  <2>1. kind' = kind
    BY DEF Next, CallerStep, Look, Exists, ExistsFails, Create, CreatePod, CreateFails, PodIsReady, WaitFails,
        BeginDelete, Delete, DeletePod, DeleteFails, DeletionSeen, PollFails, ContextEnds, CarryOutLate,
        PodReady, PodGone, vars, callVars
  <2>2. ASSUME NEW c \in Callers PROVE Append(maker, c) # <<>>
    <3>1. Len(Append(maker, c)) = Len(maker) + 1 /\ Len(maker) \in Nat
      BY DEF TypeOK
    <3> QED BY <3>1
  <2> QED BY <2>1, <2>2
<1>1. ASSUME NEW d \in Callers, CallerStep(d) PROVE DeployInv'
  <2>1. pc[d] \in {"exists", "create", "wait", "deployed", "failed"} /\ late[d]["delete"] = 0
    BY <1>0 DEF DeployInv
  <2>2. Look(d) \/ Create(d) \/ PodIsReady(d) \/ WaitFails(d) \/ ContextEnds(d) \/ CarryOutLate(d)
    BY <1>1, <2>1 DEF CallerStep, BeginDelete, Delete, DeletePod, DeleteFails, DeletionSeen, PollFails
  <2>3. \A c \in Callers : late'[c]["delete"] = 0
    <3>1. UNCHANGED late
          \/ late' = [late EXCEPT ![d]["create"] = @ + 1] \/ late' = [late EXCEPT ![d]["create"] = @ - 1]
      BY <2>1, <2>2 DEF Look, Exists, ExistsFails, Create, CreatePod, CreateFails, NoAnswer, PodIsReady,
          WaitFails, ContextEnds, CarryOutLate, Requests
    <3>2. \A c \in Callers : late[c]["delete"] = 0
      BY <1>0 DEF DeployInv
    <3> QED BY <3>1, <3>2 DEF TypeOK, Requests
  <2>4. UNCHANGED <<maker, phase>> \/ \E c \in Callers : Make(c)
    BY <2>1, <2>2 DEF Look, Exists, ExistsFails, Create, CreatePod, CreateFails, NoAnswer, PodIsReady,
        WaitFails, ContextEnds, CarryOutLate, Requests, podVars
  <2>5. /\ phase' \in {"absent", "terminating"} => maker' \in {<<>>, <<Earlier>>}
        /\ phase' # "absent" => maker' # <<>>
        /\ maker # <<>> => maker' # <<>>
    BY <1>0, <2>4 DEF Make, DeployInv
  <2>6. ASSUME NEW c \in Callers
        PROVE  /\ pc'[c] \in {"exists", "create", "wait", "deployed", "failed"}
               /\ pc'[c] = "deployed" => maker' # <<>>
    <3>1. CASE c # d \/ pc' = pc
      <4>1. pc'[c] = pc[c]
        BY <2>2, <3>1 DEF TypeOK, Look, Exists, ExistsFails, ExistsGivesUp, Create, CreatePod, AlreadyExists,
            CreateFails, CreateGivesUp, SendAgain, PodIsReady, WaitFails, ContextEnds, CarryOutLate, Go, callVars
      <4> QED BY <1>0, <2>5, <4>1 DEF DeployInv
    <3>2. CASE c = d /\ Look(d)
      BY <1>0, <2>1, <2>5, <3>2 DEF TypeOK, Look, Exists, ExistsFails, ExistsGivesUp, SendAgain, Go, DeployInv
    <3>3. CASE c = d /\ (Create(d) \/ WaitFails(d))
      BY <1>0, <2>1, <2>5, <3>3 DEF TypeOK, Create, CreatePod, AlreadyExists, CreateFails, CreateGivesUp,
          SendAgain, WaitFails, Go, DeployInv
    <3>4. CASE c = d /\ PodIsReady(d)
      <4>1. maker # <<>>
        BY <3>4 DEF PodIsReady, CreatedIsOwn, TypeOK
      <4> QED BY <1>0, <2>5, <3>4, <4>1 DEF TypeOK, PodIsReady, Go
    <3>5. CASE ContextEnds(d) \/ CarryOutLate(d)
      BY <3>1, <3>5 DEF ContextEnds, CarryOutLate, callVars
    <3> QED BY <2>2, <3>1, <3>2, <3>3, <3>4, <3>5
  <2> QED BY <2>3, <2>5, <2>6 DEF DeployInv
<1>2. CASE PodReady \/ PodGone
  BY <1>0, <1>2 DEF PodReady, PodGone, DeployInv, callVars
<1>3. CASE UNCHANGED vars
  BY <1>3 DEF vars, callVars, podVars, DeployInv
<1> QED BY <1>1, <1>2, <1>3 DEF Next, CallerStep

LEMMA DeployInit == Init => DeployInv
<1> SUFFICES ASSUME Init, kind = "processing" PROVE DeployInv
  BY DEF DeployInv
<1>1. /\ maker \in {<<>>, <<Earlier>>}
      /\ phase # "absent" => maker = <<Earlier>>
  BY DEF Init
<1>2. <<Earlier>> # <<>>
  OBVIOUS
<1>3. \A c \in Callers : pc[c] = "exists" /\ late[c]["delete"] = 0
  BY DEF Init, Requests
<1> QED BY <1>1, <1>2, <1>3 DEF DeployInv

\* A scenario never comes to DeployPod.
ScenarioInv ==
    kind = "scenario" => \A c \in Callers : pc[c] \notin {"exists", "deployed"}

LEMMA ScenarioStep == TypeOK /\ ScenarioInv /\ [Next]_vars => ScenarioInv'
<1> SUFFICES ASSUME TypeOK, ScenarioInv, [Next]_vars, kind' = "scenario", NEW c \in Callers
             PROVE  pc'[c] \notin {"exists", "deployed"}
  BY DEF ScenarioInv
<1>1. ASSUME NEW d \in Callers, CallerStep(d)
      PROVE  kind = "scenario" /\ (pc'[c] = pc[c] \/ pc'[c] \notin {"exists", "deployed"})
  <2>1. kind' = kind
    BY <1>1 DEF CallerStep, Look, Exists, ExistsFails, Create, CreatePod, CreateFails, PodIsReady, WaitFails,
        BeginDelete, Delete, DeletePod, DeleteFails, DeletionSeen, PollFails, ContextEnds, CarryOutLate, callVars
  <2>2. ~Look(d)
    BY <2>1 DEF Look, Exists, ExistsFails, ScenarioInv
  <2>3. UNCHANGED pc \/ \E place \in {"wait", "failed", "use", "delete", "poll", "gone"} : Go(d, place)
    BY <1>1, <2>1, <2>2
       DEF CallerStep, Create, CreatePod, AlreadyExists, CreateFails, CreateGivesUp, SendAgain, PodIsReady,
           WaitFails, BeginDelete, Delete, DeletePod, DeleteFails, DeletionSeen, PollFails, PollGivesUp,
           ContextEnds, CarryOutLate, callVars
  <2> QED BY <2>1, <2>3 DEF TypeOK, Go
<1>2. CASE PodReady \/ PodGone \/ UNCHANGED vars
  BY <1>2 DEF PodReady, PodGone, vars, callVars, ScenarioInv
<1> QED BY <1>1, <1>2 DEF Next, CallerStep, ScenarioInv

LEMMA ScenarioInit == Init => ScenarioInv
BY DEF Init, ScenarioInv

\* In a deployment of processing pods, a nil error means that the pod is there and stays,
\* unless it is one that an earlier run left.
THEOREM DeployedPodStaysAlways == Spec => []DeployedPodStays
<1>1. TypeOK /\ DeployInv /\ ScenarioInv => DeployedPodStays
  BY DEF TypeOK, DeployInv, DeployedPodStays, ScenarioInv
<1> QED BY <1>1, TypeInit, TypeStep, OwnInit, OwnStep, DeployInit, DeployStep,
       ScenarioInit, ScenarioStep, PTL DEF Spec

-----------------------------------------------------------------------------
(***************************************************************************)
(* Calls end.  The hypothesis of these theorems, NoCallStuck, says that    *)
(* the steps fairness speaks of can happen; TLC checks it.                 *)
(***************************************************************************)
At(c, place) == pc[c] = place
Over(c) == over[c]

\* The moves of one caller; a context that has ended stays so while the call is under way,
\* and ends the call with the request under way.
LEMMA CallerMoves ==
    ASSUME TypeOK, [Next]_vars, NEW c \in Callers
    PROVE  /\ pc'[c] = pc[c] \/ CallerStep(c)
           /\ pc[c] \in UnderWay /\ over[c] => over'[c]
<1>1. ASSUME NEW d \in Callers, CallerStep(d), d # c PROVE pc'[c] = pc[c] /\ over'[c] = over[c]
  BY <1>1 DEF TypeOK, CallerStep, Look, Exists, ExistsFails, ExistsGivesUp, Create, CreatePod,
              AlreadyExists, CreateFails, CreateGivesUp, SendAgain, PodIsReady, WaitFails,
              BeginDelete, Delete, DeletePod, DeleteFails, DeletionSeen, PollFails, PollGivesUp,
              ContextEnds, CarryOutLate, Go, callVars
<1>2. ASSUME CallerStep(c) PROVE pc[c] \in UnderWay /\ over[c] => over'[c]
  BY <1>2 DEF TypeOK, CallerStep, Look, Exists, ExistsFails, Create, CreatePod, CreateFails,
              PodIsReady, WaitFails, BeginDelete, Delete, DeletePod, DeleteFails, DeletionSeen,
              PollFails, ContextEnds, CarryOutLate, callVars, UnderWay
<1>3. ASSUME PodReady \/ PodGone \/ UNCHANGED vars PROVE UNCHANGED <<pc, over>>
  BY <1>3 DEF PodReady, PodGone, vars, callVars
<1> QED BY <1>1, <1>2, <1>3 DEF Next, CallerStep

\* Where a step of the caller takes it from each place in DeletePod.
LEMMA DeletionMoves ==
    ASSUME TypeOK, NEW c \in Callers, CallerStep(c)
    PROVE  /\ pc[c] = "delete" => pc'[c] \in {"delete", "poll", "failed"}
           /\ pc[c] = "delete" /\ over[c] /\ Delete(c) => pc'[c] = "failed"
           /\ pc[c] = "poll" => pc'[c] \in {"poll", "gone", "failed"}
           /\ PollFails(c) => pc'[c] = "failed"
           /\ ContextEnds(c) => over'[c]
BY DEF TypeOK, CallerStep, Look, Exists, ExistsFails, Create, CreatePod, CreateFails, SendAgain,
       PodIsReady, WaitFails, BeginDelete, Delete, DeletePod, DeleteFails, DeletionSeen, PollFails,
       PollGivesUp, ContextEnds, CarryOutLate, Go, callVars

\* ... and under an ended context from the places of CreateReadyPod and PodExists.
LEMMA CancelledMoves ==
    ASSUME TypeOK, NEW c \in Callers, CallerStep(c), over[c]
    PROVE  /\ pc[c] = "exists" => pc'[c] \in {"exists", "failed"}
           /\ pc[c] = "create" => pc'[c] \in {"create", "failed"}
           /\ pc[c] = "wait" => pc'[c] \in {"wait", "use", "deployed", "failed"}
           /\ pc[c] = "exists" /\ Look(c) => pc'[c] = "failed"
           /\ pc[c] = "create" /\ Create(c) => pc'[c] = "failed"
           /\ WaitFails(c) => pc'[c] = "failed"
BY DEF TypeOK, CallerStep, Look, Exists, ExistsFails, ExistsGivesUp, Create, CreatePod,
       CreateFails, CreateGivesUp, SendAgain, PodIsReady, WaitFails, BeginDelete, Delete,
       DeletePod, DeleteFails, DeletionSeen, PollFails, ContextEnds, CarryOutLate, Go, callVars

Fair(c) == CallFairness(c) /\ []CanGoOn(c)

\* An ended context ends the request that asks for the deletion.
LEMMA LateDeleteEnds ==
    ASSUME NEW c \in Callers
    PROVE  Spec /\ Fair(c) => (At(c, "delete") /\ Over(c) ~> At(c, "failed"))
<1> DEFINE Late == At(c, "delete") /\ Over(c)
<1>1. TypeOK /\ Late /\ [Next]_vars => (Late \/ At(c, "failed"))'
  <2> SUFFICES ASSUME TypeOK, Late, [Next]_vars PROVE (Late \/ At(c, "failed"))'
    OBVIOUS
  <2>1. over'[c] /\ (pc'[c] = pc[c] \/ CallerStep(c))
    BY CallerMoves DEF At, Over, UnderWay
  <2>2. CASE Delete(c)
    BY <2>2, DeletionMoves DEF At, Over, CallerStep
  <2>3. ASSUME CallerStep(c), ~Delete(c) PROVE pc'[c] = "delete"
    <3>1. pc[c] = "delete"
      BY DEF At
    <3> QED BY <2>3, <3>1 DEF CallerStep, Look, Exists, ExistsFails, Create, CreatePod, CreateFails,
              PodIsReady, WaitFails, BeginDelete, PollFails, ContextEnds, CarryOutLate, callVars
  <2> QED BY <2>1, <2>2, <2>3 DEF At, Over
<1>2. TypeOK /\ Late /\ <<Delete(c)>>_vars => At(c, "failed")'
  BY DeletionMoves DEF At, Over, CallerStep
<1>3. CanGoOn(c) => (Late => ENABLED <<Delete(c)>>_vars)
  BY DEF CanGoOn, At
<1> HIDE DEF Late
<1>4. Spec /\ Fair(c) => (Late ~> At(c, "failed"))
  BY <1>1, <1>2, <1>3, TypeCorrect, PTL DEF Spec, Fair, CallFairness
<1> QED BY <1>4 DEF Late

\* An ended context ends the wait for the deletion.
LEMMA LatePollEnds ==
    ASSUME NEW c \in Callers
    PROVE  Spec /\ Fair(c) => (At(c, "poll") /\ Over(c) ~> (At(c, "gone") \/ At(c, "failed")))
<1> DEFINE Late == At(c, "poll") /\ Over(c)
<1>1. TypeOK /\ Late /\ [Next]_vars => (Late \/ At(c, "gone") \/ At(c, "failed"))'
  BY CallerMoves, DeletionMoves DEF At, Over, UnderWay
<1>2. TypeOK /\ Late /\ <<PollTimesOut(c)>>_vars => At(c, "failed")'
  BY DeletionMoves DEF At, CallerStep, PollTimesOut
<1>3. CanGoOn(c) => (Late => ENABLED <<PollTimesOut(c)>>_vars)
  BY DEF CanGoOn, At, Over
<1> HIDE DEF Late
<1>4. Spec /\ Fair(c) => (Late ~> (At(c, "gone") \/ At(c, "failed")))
  BY <1>1, <1>2, <1>3, TypeCorrect, PTL DEF Spec, Fair, CallFairness
<1> QED BY <1>4 DEF Late

\* The deadline of the cleanup passes, unless the deletion is over before.
LEMMA DeadlinePasses ==
    ASSUME NEW c \in Callers
    PROVE  Spec /\ Fair(c)
           => (At(c, "delete") \/ At(c, "poll")
               ~> \/ At(c, "delete") /\ Over(c)
                  \/ At(c, "poll") /\ Over(c)
                  \/ At(c, "gone") \/ At(c, "failed"))
<1>1. TypeOK /\ (At(c, "delete") \/ At(c, "poll")) /\ [Next]_vars
      => (At(c, "delete") \/ At(c, "poll") \/ At(c, "gone") \/ At(c, "failed"))'
  BY CallerMoves, DeletionMoves DEF At
<1>2. TypeOK /\ (At(c, "delete") \/ At(c, "poll")) /\ <<CleanupDeadline(c)>>_vars => Over(c)'
  BY DeletionMoves DEF CleanupDeadline, CallerStep, Over
<1>3. CanGoOn(c) => ((At(c, "delete") \/ At(c, "poll")) /\ ~Over(c)
                     => ENABLED <<CleanupDeadline(c)>>_vars)
  BY DEF CanGoOn, At, Over
<1> QED BY <1>1, <1>2, <1>3, TypeCorrect, PTL DEF Spec, Fair, CallFairness

LEMMA OneDeletionEnds ==
    ASSUME NEW c \in Callers
    PROVE  Spec /\ Fair(c) => DeletionEnds(c)
<1>1. Spec /\ Fair(c) => (At(c, "delete") ~> (At(c, "gone") \/ At(c, "failed")))
  BY LateDeleteEnds, LatePollEnds, DeadlinePasses, PTL
<1>2. At(c, "gone") \/ At(c, "failed") <=> pc[c] \in {"gone", "failed"}
  BY DEF At
<1>3. At(c, "delete") <=> pc[c] = "delete"
  BY DEF At
<1> QED BY <1>1, <1>2, <1>3, PTL DEF DeletionEnds

\* An ended context ends the request or the wait of CreateReadyPod and PodExists.
LEMMA LateRequestsEnd ==
    ASSUME NEW c \in Callers
    PROVE  Spec /\ Fair(c)
           => /\ At(c, "exists") /\ Over(c) ~> At(c, "failed")
              /\ At(c, "create") /\ Over(c) ~> At(c, "failed")
              /\ At(c, "wait") /\ Over(c)
                 ~> At(c, "use") \/ At(c, "deployed") \/ At(c, "failed")
<1> DEFINE LateLook == At(c, "exists") /\ Over(c)
           LateCreate == At(c, "create") /\ Over(c)
           LateWait == At(c, "wait") /\ Over(c)
           Waited == At(c, "use") \/ At(c, "deployed") \/ At(c, "failed")
<1>1. /\ TypeOK /\ LateLook /\ [Next]_vars => (LateLook \/ At(c, "failed"))'
      /\ TypeOK /\ LateCreate /\ [Next]_vars => (LateCreate \/ At(c, "failed"))'
      /\ TypeOK /\ LateWait /\ [Next]_vars => (LateWait \/ Waited)'
  BY CallerMoves, CancelledMoves DEF At, Over, UnderWay
<1>2. /\ TypeOK /\ LateLook /\ <<Look(c)>>_vars => At(c, "failed")'
      /\ TypeOK /\ LateCreate /\ <<Create(c)>>_vars => At(c, "failed")'
      /\ TypeOK /\ LateWait /\ <<WaitFails(c)>>_vars => Waited'
  BY CancelledMoves DEF At, Over, CallerStep
<1>3. CanGoOn(c) => /\ LateLook => ENABLED <<Look(c)>>_vars
                    /\ LateCreate => ENABLED <<Create(c)>>_vars
                    /\ LateWait => ENABLED <<WaitFails(c)>>_vars
  BY DEF CanGoOn, At, Over
<1> HIDE DEF LateLook, LateCreate, LateWait, Waited
<1>4. Spec /\ Fair(c) => (LateLook ~> At(c, "failed"))
  BY <1>1, <1>2, <1>3, TypeCorrect, PTL DEF Spec, Fair, CallFairness
<1>5. Spec /\ Fair(c) => (LateCreate ~> At(c, "failed"))
  BY <1>1, <1>2, <1>3, TypeCorrect, PTL DEF Spec, Fair, CallFairness
<1>6. Spec /\ Fair(c) => (LateWait ~> Waited)
  BY <1>1, <1>2, <1>3, TypeCorrect, PTL DEF Spec, Fair, CallFairness
<1> QED BY <1>4, <1>5, <1>6 DEF LateLook, LateCreate, LateWait, Waited

LEMMA OneCancelledCallEnds ==
    ASSUME NEW c \in Callers
    PROVE  Spec /\ Fair(c) => CancelledCallEnds(c)
<1> DEFINE Out == pc[c] \notin UnderWay
           Within == pc[c] \in UnderWay
<1>1. Within <=> \/ At(c, "exists") \/ At(c, "create") \/ At(c, "wait")
                 \/ At(c, "delete") \/ At(c, "poll")
  BY DEF At, UnderWay
<1>2. At(c, "failed") \/ At(c, "use") \/ At(c, "deployed") \/ At(c, "gone") => Out
  BY DEF At, UnderWay
<1> HIDE DEF Out, Within
<1>3. Spec /\ Fair(c) => (Over(c) /\ Within ~> Out)
  BY <1>1, <1>2, LateRequestsEnd, LateDeleteEnds, LatePollEnds, PTL
<1> QED BY <1>3 DEF CancelledCallEnds, Over, Out, Within

LEMMA FairCaller ==
    ASSUME NEW c \in Callers
    PROVE  FairSpec /\ []NoCallStuck => Spec /\ Fair(c)
<1>1. Fairness => CallFairness(c)
  BY DEF Fairness
<1>2. NoCallStuck => CanGoOn(c)
  BY DEF NoCallStuck
<1> QED BY <1>1, <1>2, PTL DEF FairSpec, Fair

\* Every DeletePod ends, with the pod gone or with an error, when the deadline of the
\* cleanup has passed: neither lost answers nor a pod that terminates for ever keep it.
THEOREM DeletionsEnd == FairSpec /\ []NoCallStuck => \A c \in Callers : DeletionEnds(c)
<1>1. ASSUME NEW c \in Callers PROVE FairSpec /\ []NoCallStuck => DeletionEnds(c)
  BY FairCaller, OneDeletionEnds, PTL
<1> QED BY <1>1

\* Every call whose context ends returns with the request under way: no retry and no wait
\* for a pod outlives a cancelled run or an expired cleanup.
THEOREM CancelledCallsEnd == FairSpec /\ []NoCallStuck => \A c \in Callers : CancelledCallEnds(c)
<1>1. ASSUME NEW c \in Callers PROVE FairSpec /\ []NoCallStuck => CancelledCallEnds(c)
  BY FairCaller, OneCancelledCallEnds, PTL
<1> QED BY <1>1
-----------------------------------------------------------------------------
(***************************************************************************)
(* Requests end without a cancellation, too, as the attempts are counted.  *)
(* That a number of 1..Attempts which from some time on only grows comes   *)
(* to rest is an induction these provers cannot do on temporal formulas:   *)
(* RetryLaw states it, and restricts no behaviour.                         *)
(***************************************************************************)
Grows(c) == try'[c] > try[c]
Moves(c) == try'[c] # try[c]
RetryLaw(c) == []TypeOK /\ <>[][Grows(c)]_(try[c]) => <>[][~Moves(c)]_(try[c])

\* A request that does not end its call is the next attempt.
LEMMA RequestSteps ==
    ASSUME TypeOK, NEW c \in Callers, CallerStep(c)
    PROVE  /\ pc[c] \in {"exists", "create"} /\ pc'[c] = pc[c]
              => try'[c] = try[c] \/ try'[c] = try[c] + 1
           /\ pc[c] # "exists" => pc'[c] # "exists"
           /\ pc[c] \notin {"exists", "create"} => pc'[c] \notin {"exists", "create"}
           /\ pc[c] = "exists" /\ Look(c) /\ pc'[c] = pc[c] => try'[c] = try[c] + 1
           /\ pc[c] = "create" /\ Create(c) /\ pc'[c] = pc[c] => try'[c] = try[c] + 1
BY DEF TypeOK, CallerStep, Look, Exists, ExistsFails, ExistsGivesUp, Create, CreatePod,
       AlreadyExists, CreateFails, CreateGivesUp, SendAgain, NextTry, PodIsReady, WaitFails,
       BeginDelete, Delete, DeletePod, DeleteFails, DeletionSeen, PollFails, PollGivesUp,
       ContextEnds, CarryOutLate, Go, callVars

LEMMA OthersRequests ==
    ASSUME TypeOK, [Next]_vars, NEW c \in Callers, ~CallerStep(c)
    PROVE  pc'[c] = pc[c] /\ try'[c] = try[c]
<1>1. ASSUME NEW d \in Callers, CallerStep(d), d # c PROVE pc'[c] = pc[c] /\ try'[c] = try[c]
  BY <1>1 DEF TypeOK, CallerStep, Look, Exists, ExistsFails, ExistsGivesUp, Create, CreatePod,
              AlreadyExists, CreateFails, CreateGivesUp, SendAgain, PodIsReady, WaitFails,
              BeginDelete, Delete, DeletePod, DeleteFails, DeletionSeen, PollFails, PollGivesUp,
              ContextEnds, CarryOutLate, Go, callVars
<1>2. ASSUME PodReady \/ PodGone \/ UNCHANGED vars PROVE UNCHANGED <<pc, try>>
  BY <1>2 DEF PodReady, PodGone, vars, callVars
<1> QED BY <1>1, <1>2 DEF Next, CallerStep

LEMMA RequestMoves ==
    ASSUME TypeOK, [Next]_vars, NEW c \in Callers
    PROVE  /\ At(c, "exists") \/ At(c, "create")
              => \/ ~Moves(c) \/ Grows(c)
                 \/ (At(c, "exists") /\ ~At(c, "exists")') \/ (At(c, "create") /\ ~At(c, "create")')
           /\ ~At(c, "exists") => ~At(c, "exists")'
           /\ ~At(c, "exists") /\ ~At(c, "create") => ~At(c, "create")'
           /\ At(c, "exists") /\ Look(c) => ~At(c, "exists")' \/ Moves(c)
           /\ At(c, "create") /\ Create(c) => ~At(c, "create")' \/ Moves(c)
<1>1. try[c] \in Nat /\ try[c] + 1 > try[c] /\ try[c] + 1 # try[c]
  BY DEF TypeOK
<1>2. CASE CallerStep(c)
  BY <1>1, <1>2, RequestSteps DEF At, Grows, Moves
<1>3. CASE ~CallerStep(c)
  BY <1>3, OthersRequests DEF At, Grows, Moves, CallerStep
<1> QED BY <1>2, <1>3

LEMMA OneCallRequestsEnd ==
    ASSUME NEW c \in Callers
    PROVE  Spec /\ Fair(c) /\ RetryLaw(c) => RequestsEnd(c)
<1> DEFINE Asking == pc[c] \in {"exists", "create"}
           Answered == pc[c] \notin {"exists", "create"}
<1>1. Asking <=> At(c, "exists") \/ At(c, "create")
  BY DEF At
<1>2. Answered <=> ~At(c, "exists") /\ ~At(c, "create")
  BY DEF At
<1>3. TypeOK /\ [Next]_vars
      => /\ At(c, "exists") /\ At(c, "exists")' => [Grows(c)]_(try[c])
         /\ At(c, "create") /\ At(c, "create")' => [Grows(c)]_(try[c])
         /\ ~At(c, "exists") => ~At(c, "exists")'
         /\ ~At(c, "exists") /\ ~At(c, "create") => ~At(c, "create")'
         /\ At(c, "exists") /\ Look(c) => ~At(c, "exists")' \/ ~[~Moves(c)]_(try[c])
         /\ At(c, "create") /\ Create(c) => ~At(c, "create")' \/ ~[~Moves(c)]_(try[c])
  BY RequestMoves DEF Moves, At
<1>4. CanGoOn(c) => /\ At(c, "exists") => ENABLED <<Look(c)>>_vars
                    /\ At(c, "create") => ENABLED <<Create(c)>>_vars
  BY DEF CanGoOn, At
<1> HIDE DEF Asking, Answered
<1>5. Spec /\ Fair(c) /\ RetryLaw(c) => ~<>[]At(c, "exists")
  BY <1>3, <1>4, TypeCorrect, PTL DEF Spec, Fair, CallFairness, RetryLaw
<1>6. Spec /\ Fair(c) /\ RetryLaw(c) => ~<>[]At(c, "create")
  BY <1>3, <1>4, TypeCorrect, PTL DEF Spec, Fair, CallFairness, RetryLaw
<1>7. Spec /\ Fair(c) /\ RetryLaw(c) => (Asking ~> Answered)
  BY <1>1, <1>2, <1>3, <1>5, <1>6, TypeCorrect, PTL DEF Spec
<1> QED BY <1>7 DEF RequestsEnd, Asking, Answered

\* No call of CreateReadyPod, PodExists or DeletePod goes on asking the server for ever:
\* looking up and creating end with the last attempt, deleting at the deadline.
THEOREM CallsAlwaysEnd ==
    FairSpec /\ []NoCallStuck /\ (\A c \in Callers : RetryLaw(c)) => CallsEnd
<1>1. ASSUME NEW c \in Callers
      PROVE  FairSpec /\ []NoCallStuck /\ RetryLaw(c) => RequestsEnd(c) /\ DeletionEnds(c)
  BY FairCaller, OneDeletionEnds, OneCallRequestsEnd, PTL
<1>2. FairSpec /\ []NoCallStuck /\ (\A c \in Callers : RetryLaw(c))
      => \A c \in Callers : RequestsEnd(c) /\ DeletionEnds(c)
  BY <1>1
<1> QED BY <1>2 DEF CallsEnd
=============================================================================
