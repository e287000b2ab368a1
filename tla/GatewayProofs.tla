---------------------------- MODULE GatewayProofs ----------------------------
(***************************************************************************)
(* Proofs about Gateway for every set of requests and /health handlers and *)
(* every limit.  That the gateway uses the slots only as GatewaySlots says *)
(* needs no invariant; with it the inductive invariant of GatewaySlots     *)
(* carries over, and GatewayIInv adds the probe lock, the lease and the    *)
(* shutdown.  Until one lease after the origin of the monotonic clock      *)
(* last_healthy = 0.0 reads as fresh; the results about the lease hold     *)
(* from then on, whenever the gateway starts.                              *)
(***************************************************************************)
EXTENDS Gateway, GatewaySlotsProofs

Tasks == Requests \cup HealthCalls \cup {Monitor}

Distinct(q) == \A i, j \in 1..Len(q) : q[i] = q[j] => i = j

\* A task that was not queued joins at the end.
LEMMA JoinFacts ==
  ASSUME NEW S, NEW q \in Seq(S), NEW x \in S, Distinct(q), ~Contains(q, x)
  PROVE  /\ Append(q, x) \in Seq(S) /\ Append(q, x) # <<>>
         /\ Distinct(Append(q, x))
         /\ \A y : Contains(Append(q, x), y) <=> y = x \/ Contains(q, y)
         /\ q # <<>> => Head(Append(q, x)) = Head(q)
<1>1. /\ Append(q, x) \in Seq(S) /\ Len(Append(q, x)) = Len(q) + 1 /\ Len(q) \in Nat
      /\ \A i \in 1..Len(q) : Append(q, x)[i] = q[i]
      /\ Append(q, x)[Len(q) + 1] = x
  OBVIOUS
<1>2. Distinct(Append(q, x))
  BY <1>1 DEF Distinct, Contains
<1>3. \A y : Contains(Append(q, x), y) <=> y = x \/ Contains(q, y)
  BY <1>1 DEF Contains
<1>4. Append(q, x) # <<>> /\ (q # <<>> => Head(Append(q, x)) = Head(q))
  BY <1>1
<1>5. Append(q, x) \in Seq(S)
  BY <1>1
<1> QED  BY ONLY <1>2, <1>3, <1>4, <1>5

\* The head leaves.
LEMMA LeaveHeadFacts ==
  ASSUME NEW S, NEW q \in Seq(S), q # <<>>, Distinct(q)
  PROVE  /\ Tail(q) \in Seq(S) /\ Head(q) \in S /\ Contains(q, Head(q))
         /\ Distinct(Tail(q))
         /\ \A y : Contains(Tail(q), y) <=> y # Head(q) /\ Contains(q, y)
<1>1. /\ Tail(q) \in Seq(S) /\ Len(Tail(q)) = Len(q) - 1 /\ Len(q) \in Nat \ {0}
      /\ \A i \in 1..(Len(q) - 1) : Tail(q)[i] = q[i + 1]
      /\ Head(q) = q[1] /\ Head(q) \in S
  OBVIOUS
<1>2. Distinct(Tail(q))
  BY <1>1 DEF Distinct
<1>3. ASSUME NEW y PROVE Contains(Tail(q), y) <=> y # Head(q) /\ Contains(q, y)
  <2>1. ASSUME Contains(Tail(q), y) PROVE y # Head(q) /\ Contains(q, y)
    <3>1. PICK i \in 1..(Len(q) - 1) : q[i + 1] = y
      BY <1>1, <2>1 DEF Contains
    <3>2. i + 1 \in 1..Len(q) /\ 1 \in 1..Len(q) /\ i + 1 # 1
      BY <1>1
    <3> QED  BY <1>1, <3>1, <3>2 DEF Contains, Distinct
  <2>2. ASSUME y # Head(q), Contains(q, y) PROVE Contains(Tail(q), y)
    <3>1. PICK i \in 1..Len(q) : q[i] = y
      BY <2>2 DEF Contains
    <3>2. i - 1 \in 1..(Len(q) - 1) /\ (i - 1) + 1 = i
      BY <1>1, <2>2, <3>1
    <3> QED  BY <1>1, <3>1, <3>2 DEF Contains
  <2> QED  BY <2>1, <2>2
<1> QED  BY <1>1, <1>2, <1>3 DEF Contains

\* A task leaves from where it stands.
LEMMA LeaveAtFacts ==
  ASSUME NEW S, NEW q \in Seq(S), NEW i \in 1..Len(q), Distinct(q)
  PROVE  /\ RemoveAt(q, i) \in Seq(S)
         /\ Distinct(RemoveAt(q, i))
         /\ \A y : Contains(RemoveAt(q, i), y) <=> y # q[i] /\ Contains(q, y)
         /\ i # 1 => RemoveAt(q, i) # <<>>
<1> DEFINE s == RemoveAt(q, i)
<1>1. /\ s \in Seq(S) /\ Len(s) = Len(q) - 1 /\ Len(q) \in Nat
      /\ \A j \in 1..(Len(q) - 1) : s[j] = IF j < i THEN q[j] ELSE q[j + 1]
  BY RemoveAtFacts
<1> HIDE DEF s
<1>2. Distinct(s)
  BY <1>1 DEF Distinct
<1>3. ASSUME NEW y PROVE Contains(s, y) <=> y # q[i] /\ Contains(q, y)
  <2>1. ASSUME Contains(s, y) PROVE y # q[i] /\ Contains(q, y)
    <3>1. PICK j \in 1..(Len(q) - 1) : s[j] = y
      BY <1>1, <2>1 DEF Contains
    <3>2. PICK k \in 1..Len(q) : k # i /\ q[k] = y
      <4>1. CASE j < i
        BY <4>1, <3>1, <1>1
      <4>2. CASE ~(j < i)
        BY <4>2, <3>1, <1>1
      <4> QED  BY <4>1, <4>2
    <3> QED  BY <3>2 DEF Contains, Distinct
  <2>2. ASSUME y # q[i], Contains(q, y) PROVE Contains(s, y)
    <3>1. PICK k \in 1..Len(q) : q[k] = y
      BY <2>2 DEF Contains
    <3>2. PICK j \in 1..(Len(q) - 1) : s[j] = y
      <4>1. CASE k < i
        BY <4>1, <3>1, <1>1
      <4>2. CASE ~(k < i)
        <5>1. k - 1 \in 1..(Len(q) - 1) /\ ~(k - 1 < i) /\ (k - 1) + 1 = k
          BY <4>2, <3>1, <2>2, <1>1
        <5> QED  BY <5>1, <3>1, <1>1
      <4> QED  BY <4>1, <4>2
    <3> QED  BY <3>2, <1>1 DEF Contains
  <2> QED  BY <2>1, <2>2
<1>4. i # 1 => s # <<>>
  BY <1>1
<1> QED  BY <1>1, <1>2, <1>3, <1>4 DEF s

-----------------------------------------------------------------------------
(* Refinement *)

\* Every step of the gateway is a step of the slots or leaves them alone.
LEMMA SlotStep == [GatewayNext]_gatewayVars => [Next]_vars
<1> SUFFICES ASSUME [GatewayNext]_gatewayVars PROVE [Next]_vars
  OBVIOUS
<1>1. ASSUME NEW r \in Requests, NEW o \in {"served", "failed", "cancelled"}, Leave(r, o)
      PROVE  Next
  BY <1>1 DEF Next, Step, Finish
<1>2. ASSUME NEW r \in Requests, Launch(r) PROVE Next \/ UNCHANGED vars
  BY <1>1, <1>2 DEF Launch, End
<1>3. ASSUME NEW r \in Requests, Request(r) PROVE Next \/ UNCHANGED vars
  <2>1. CASE Submit(r) \/ Wake(r) \/ WaitEnds(r)
    BY <2>1 DEF Submit, Wake, WaitEnds, Next, Step
  <2>2. CASE EnsureReady(r) \/ Recheck(r)
    BY <2>2, <1>2 DEF EnsureReady, Recheck
  <2>3. CASE Complete(r) \/ UpstreamError(r) \/ CancelRun(r)
    BY <2>3, <1>1 DEF Complete, UpstreamError, CancelRun, End
  <2> QED  BY <1>3, <2>1, <2>2, <2>3 DEF Request
<1>4. CASE ProbeSucceeds \/ ProbeFails
  BY <1>4, <1>1, <1>2 DEF ProbeSucceeds, ProbeFails, End
<1>5. CASE DeviceLost \/ StopServing
  BY <1>5 DEF DeviceLost, StopServing, Next
<1>6. CASE GraceOver \/ Close \/ Tick
  BY <1>6 DEF GraceOver, Close, Tick
<1>7. ASSUME NEW p, JoinLock(p) \/ StartProbe(p) \/ CancelHealth(p)
      PROVE  UNCHANGED vars
  BY <1>7 DEF JoinLock, StartProbe, CancelHealth
<1>8. CASE UNCHANGED gatewayVars
  BY <1>8 DEF gatewayVars
<1> QED  BY <1>3, <1>4, <1>5, <1>6, <1>7, <1>8 DEF GatewayNext

\* Gateway.inference, the probes and serve use acquire_slot, release_slot and
\* draining only as GatewaySlots says, so every result about GatewaySlots
\* holds of the whole gateway.
THEOREM GatewayRefinement == GatewaySpec => ImplementsSlots
<1>1. GatewayInit => Init
  BY DEF GatewayInit
<1> QED  BY <1>1, SlotStep, PTL DEF GatewaySpec, ImplementsSlots, Spec

-----------------------------------------------------------------------------
(* The inductive invariant *)

\* What becomes of the queue at probe_lock when r is no longer in it.
WithoutR(q, p, r) ==
    /\ q \in Seq(Tasks) /\ Distinct(q)
    /\ \A y : Contains(q, y) <=> y # r /\ Contains(probers, y)
    /\ p \in {NoProbe} \cup 0..ProbeSeconds
    /\ p # NoProbe => q # <<>>

LEMMA IInvFacts ==
  ASSUME GatewayIInv
  PROVE  /\ pc \in [Requests -> PCs] /\ stage \in [Requests -> Stages]
         /\ probers \in Seq(Tasks) /\ Distinct(probers)
         /\ probe \in {NoProbe} \cup 0..ProbeSeconds
         /\ probe # NoProbe => probers # <<>>
         /\ lease \in 0..LeaseSeconds /\ evidence \in 0..MaxEvidence
         /\ LeaseSeconds \in Nat \ {0} /\ ProbeSeconds \in Nat /\ clock \in 0..LeaseSeconds
         /\ \A r \in Requests : /\ stage[r] # "none" <=> pc[r] = "holding"
                                /\ stage[r] = "locking" <=> Contains(probers, r)
BY LeaseAssumption, ProbeAssumption
   DEF GatewayIInv, IInv, TypeOK, GatewayTypeOK, StageSound, Distinct, Tasks

LEMMA EndKeepsStage ==
  ASSUME GatewayIInv, NEW r \in Requests, NEW o \in Resting, End(r, o),
         WithoutR(probers', probe', r)
  PROVE  StageSound' /\ stage' \in [Requests -> Stages]
<1>1. /\ pc' = [pc EXCEPT ![r] = o] /\ stage' = [stage EXCEPT ![r] = "none"]
      /\ o # "holding"
  BY DEF End, Leave, Resting
<1>2. stage' \in [Requests -> Stages]
  BY <1>1, IInvFacts DEF Stages
<1>3. ASSUME NEW x \in Requests
      PROVE  /\ stage'[x] # "none" <=> pc'[x] = "holding"
             /\ stage'[x] = "locking" <=> Contains(probers', x)
  BY <1>1, IInvFacts DEF WithoutR
<1> QED  BY <1>2, <1>3 DEF StageSound, WithoutR, Distinct

LEMMA LaunchKeepsStage ==
  ASSUME GatewayIInv, NEW r \in Requests, pc[r] = "holding", Launch(r),
         WithoutR(probers', probe', r)
  PROVE  StageSound' /\ stage' \in [Requests -> Stages]
<1>1. CASE End(r, "failed")
  BY <1>1, EndKeepsStage DEF Resting
<1>2. CASE stage' = [stage EXCEPT ![r] = "posting"] /\ UNCHANGED vars
  <2>1. stage' \in [Requests -> Stages] /\ pc' = pc
    BY <1>2, IInvFacts DEF Stages, vars
  <2>2. ASSUME NEW x \in Requests
        PROVE  /\ stage'[x] # "none" <=> pc'[x] = "holding"
               /\ stage'[x] = "locking" <=> Contains(probers', x)
    BY <1>2, <2>1, IInvFacts DEF WithoutR
  <2> QED  BY <2>1, <2>2 DEF StageSound, WithoutR, Distinct
<1> QED  BY <1>1, <1>2 DEF Launch

LEMMA HeadLeaves ==
  ASSUME GatewayIInv, probers # <<>>, probers' = Tail(probers), probe' = NoProbe
  PROVE  WithoutR(probers', probe', Head(probers)) /\ Head(probers) \in Tasks
<1>1. /\ Tail(probers) \in Seq(Tasks) /\ Head(probers) \in Tasks /\ Distinct(Tail(probers))
      /\ \A y : Contains(Tail(probers), y) <=> y # Head(probers) /\ Contains(probers, y)
  BY IInvFacts, LeaveHeadFacts
<1> QED  BY <1>1 DEF WithoutR

LEMMA LeaveLockFacts ==
  ASSUME GatewayIInv, NEW p \in Tasks, LeaveLock(p)
  PROVE  WithoutR(probers', probe', p)
<1>1. CASE Contains(probers, p)
  <2>1. PICK i \in 1..Len(probers) : probers[i] = p /\ probers' = RemoveAt(probers, i)
    BY <1>1 DEF LeaveLock
  <2>2. /\ RemoveAt(probers, i) \in Seq(Tasks) /\ Distinct(RemoveAt(probers, i))
        /\ \A y : Contains(RemoveAt(probers, i), y) <=> y # probers[i] /\ Contains(probers, y)
        /\ i # 1 => RemoveAt(probers, i) # <<>>
    BY IInvFacts, LeaveAtFacts
  <2>3. probe' = IF Head(probers) = p THEN NoProbe ELSE probe
    BY <1>1 DEF LeaveLock
  <2>4. Head(probers) # p => i # 1
    BY <2>1, IInvFacts
  <2>5. probe' \in {NoProbe} \cup 0..ProbeSeconds
    BY <2>3, IInvFacts
  <2> QED  BY <2>1, <2>2, <2>3, <2>4, <2>5 DEF WithoutR
<1>2. CASE ~Contains(probers, p)
  <2>1. probers' = probers /\ probe' = probe
    BY <1>2 DEF LeaveLock
  <2> QED  BY <1>2, <2>1, IInvFacts DEF WithoutR
<1> QED  BY <1>1, <1>2

\* Outside the queue nothing needs to leave it.
LEMMA NotQueued ==
  ASSUME GatewayIInv, NEW r, ~Contains(probers, r), UNCHANGED <<probers, probe>>
  PROVE  WithoutR(probers', probe', r)
BY IInvFacts DEF WithoutR

\* What the requests do agrees with their slots and the lock after each step,
\* and the lock stays well formed.
LockSound == probers \in Seq(Tasks) /\ probe \in {NoProbe} \cup 0..ProbeSeconds

LEMMA StageStep ==
  ASSUME GatewayIInv, GatewayNext
  PROVE  StageSound' /\ stage' \in [Requests -> Stages] /\ LockSound'
<1> DEFINE Goal == StageSound' /\ stage' \in [Requests -> Stages] /\ LockSound'
<1>a. ASSUME NEW r, WithoutR(probers', probe', r) PROVE LockSound'
  BY <1>a DEF WithoutR, LockSound
<1>b. ASSUME NEW r \in Requests, pc' = [pc EXCEPT ![r] = pc'[r]], pc[r] # "holding",
             StageAfterSlot(r), UNCHANGED <<probers, probe>>
      PROVE  Goal
  <2>1. stage' = [stage EXCEPT ![r] = IF pc'[r] = "holding" THEN "admitted" ELSE "none"]
    BY <1>b DEF StageAfterSlot
  <2>2. stage' \in [Requests -> Stages] /\ ~Contains(probers, r)
    BY <1>b, <2>1, IInvFacts DEF Stages
  <2>3. ASSUME NEW x \in Requests
        PROVE  /\ stage'[x] # "none" <=> pc'[x] = "holding"
               /\ stage'[x] = "locking" <=> Contains(probers', x)
    <3>1. CASE x = r
      BY <3>1, <1>b, <2>1, <2>2, IInvFacts
    <3>2. CASE x # r
      BY <3>2, <1>b, <2>1, IInvFacts
    <3> QED  BY <3>1, <3>2
  <2>4. StageSound'
    BY <1>b, <2>3, IInvFacts DEF StageSound, Distinct
  <2> QED  BY <1>b, <2>2, <2>4, IInvFacts DEF LockSound
<1>c. ASSUME UNCHANGED <<pc, stage, probers, probe>> PROVE Goal
  BY <1>c, IInvFacts DEF StageSound, Distinct, LockSound
<1>1. ASSUME NEW r \in Requests, Request(r) PROVE Goal
  <2>1. CASE Submit(r)
    <3>1. pc[r] # "holding" /\ StageAfterSlot(r) /\ UNCHANGED <<probers, probe>>
      BY <2>1 DEF Submit, AcquireSlot, Resting, readiness
    <3>2. pc' = [pc EXCEPT ![r] = pc'[r]]
      BY <2>1, IInvFacts
         DEF Submit, AcquireSlot, AcquireAtOnce, AcquireQueued, AcquireRefused
    <3> QED  BY <3>1, <3>2, <1>b
  <2>2. CASE Wake(r)
    <3>1. pc[r] # "holding" /\ StageAfterSlot(r) /\ UNCHANGED <<probers, probe>>
      BY <2>2 DEF Wake, Resume, ResumeInterrupted, ResumeGranted, ResumeDenied, readiness
    <3>2. pc' = [pc EXCEPT ![r] = pc'[r]]
      BY <2>2, IInvFacts DEF Wake, Resume, ResumeInterrupted, ResumeGranted, ResumeDenied
    <3> QED  BY <3>1, <3>2, <1>b
  <2>3. CASE WaitEnds(r)
    BY <2>3, <1>c DEF WaitEnds, QueueTimeout, Disconnect, readiness
  <2>4. CASE EnsureReady(r)
    <3>1. stage[r] = "admitted" /\ pc[r] = "holding" /\ ~Contains(probers, r) /\ probe' = probe
      BY <2>4, IInvFacts DEF EnsureReady
    <3>2. CASE Ready
      <4>1. Launch(r) /\ UNCHANGED <<probers, probe>>
        BY <2>4, <3>2 DEF EnsureReady
      <4> QED  BY <4>1, <3>1, NotQueued, LaunchKeepsStage, <1>a
    <3>3. CASE ~Ready
      <4>1. /\ probers' = Append(probers, r) /\ stage' = [stage EXCEPT ![r] = "locking"]
            /\ pc' = pc /\ r \in Tasks
        BY <2>4, <3>3 DEF EnsureReady, vars, Tasks
      <4>2. /\ probers' \in Seq(Tasks) /\ Distinct(probers') /\ probers' # <<>>
            /\ \A y : Contains(probers', y) <=> y = r \/ Contains(probers, y)
        BY <4>1, <3>1, IInvFacts, JoinFacts
      <4>3. stage' \in [Requests -> Stages]
        BY <4>1, IInvFacts DEF Stages
      <4>4. ASSUME NEW x \in Requests
            PROVE  /\ stage'[x] # "none" <=> pc'[x] = "holding"
                   /\ stage'[x] = "locking" <=> Contains(probers', x)
        BY <4>1, <4>2, <3>1, IInvFacts
      <4>5. StageSound'
        BY <4>2, <4>4 DEF StageSound, Distinct
      <4> QED  BY <4>2, <4>3, <4>5, <3>1, IInvFacts DEF LockSound
    <3> QED  BY <3>2, <3>3
  <2>5. CASE Recheck(r)
    <3>1. probers # <<>> /\ probe = NoProbe /\ Head(probers) = r
      BY <2>5 DEF Recheck, LockTaken
    <3>2. Contains(probers, r) /\ pc[r] = "holding"
      <4>1. Contains(probers, Head(probers))
        BY <3>1, IInvFacts, LeaveHeadFacts
      <4>2. stage[r] = "locking"
        BY <4>1, <3>1, IInvFacts
      <4> QED  BY <4>1, <4>2, <3>1, IInvFacts
    <3>3. CASE Ready
      <4>1. Launch(r) /\ probers' = Tail(probers) /\ probe' = NoProbe
        BY <2>5, <3>3, <3>1 DEF Recheck
      <4> QED  BY <4>1, <3>1, <3>2, HeadLeaves, LaunchKeepsStage, <1>a
    <3>4. CASE ~Ready
      <4>1. UNCHANGED <<pc, stage, probers>> /\ probe' = 0
        BY <2>5, <3>4 DEF Recheck, vars
      <4>2. StageSound'
        BY <4>1, <3>1, IInvFacts DEF StageSound, Distinct
      <4>3. LockSound'
        BY <4>1, IInvFacts DEF LockSound
      <4> QED  BY <4>1, <4>2, <4>3, IInvFacts
    <3> QED  BY <3>3, <3>4
  <2>6. CASE Complete(r) \/ UpstreamError(r)
    <3>1. PICK o \in {"served", "failed"} : End(r, o)
      BY <2>6 DEF Complete, UpstreamError
    <3>2. ~Contains(probers, r) /\ UNCHANGED <<probers, probe>>
      BY <2>6, IInvFacts DEF Complete, UpstreamError, readiness
    <3> QED  BY <3>1, <3>2, NotQueued, EndKeepsStage, <1>a DEF Resting
  <2>7. CASE CancelRun(r)
    <3>1. End(r, "cancelled") /\ LeaveLock(r) /\ r \in Tasks
      BY <2>7 DEF CancelRun, Tasks
    <3> QED  BY <3>1, LeaveLockFacts, EndKeepsStage, <1>a DEF Resting
  <2> QED  BY <1>1, <2>1, <2>2, <2>3, <2>4, <2>5, <2>6, <2>7 DEF Request
<1>2. ASSUME NEW p \in HealthCalls \cup {Monitor}, JoinLock(p) PROVE Goal
  <2>1. /\ probers' = Append(probers, p) /\ ~Contains(probers, p) /\ p \in Tasks
        /\ UNCHANGED <<pc, stage, probe>>
    BY <1>2 DEF JoinLock, Tasks, vars
  <2>2. /\ probers' \in Seq(Tasks) /\ Distinct(probers') /\ probers' # <<>>
        /\ \A y : Contains(probers', y) <=> y = p \/ Contains(probers, y)
    BY <2>1, IInvFacts, JoinFacts
  <2>3. p \notin Requests
    BY TaskAssumption
  <2>4. StageSound'
    BY <2>1, <2>2, <2>3, IInvFacts DEF StageSound, Distinct
  <2> QED  BY <2>1, <2>2, <2>4, IInvFacts DEF LockSound
<1>3. ASSUME NEW p \in HealthCalls \cup {Monitor}, StartProbe(p) PROVE Goal
  <2>1. UNCHANGED <<pc, stage, probers>> /\ probe' = 0 /\ probers # <<>>
    BY <1>3 DEF StartProbe, LockTaken, vars
  <2>2. LockSound'
    BY <2>1, IInvFacts DEF LockSound
  <2> QED  BY <2>1, <2>2, IInvFacts DEF StageSound, Distinct
<1>4. ASSUME NEW h \in HealthCalls, CancelHealth(h) PROVE Goal
  <2>1. LeaveLock(h) /\ UNCHANGED <<pc, stage>> /\ h \in Tasks /\ h \notin Requests
    BY <1>4, TaskAssumption DEF CancelHealth, Tasks, vars
  <2>2. WithoutR(probers', probe', h)
    BY <2>1, LeaveLockFacts
  <2>3. StageSound'
    BY <2>1, <2>2, IInvFacts DEF StageSound, Distinct, WithoutR
  <2> QED  BY <2>1, <2>2, <2>3, <1>a, IInvFacts
<1>5. CASE ProbeSucceeds \/ ProbeFails
  <2>1. probers' = Tail(probers) /\ probe' = NoProbe /\ probers # <<>>
    BY <1>5, IInvFacts DEF ProbeSucceeds, ProbeFails, ProbeDone
  <2>2. WithoutR(probers', probe', Head(probers)) /\ Head(probers) \in Tasks
    BY <2>1, HeadLeaves
  <2>3. CASE Head(probers) \in Requests
    <3>1. pc[Head(probers)] = "holding"
      <4>1. Contains(probers, Head(probers))
        BY <2>1, IInvFacts, LeaveHeadFacts
      <4> QED  BY <4>1, <2>3, IInvFacts
    <3>2. Launch(Head(probers)) \/ End(Head(probers), "failed")
      BY <1>5, <2>3 DEF ProbeSucceeds, ProbeFails
    <3>3. StageSound' /\ stage' \in [Requests -> Stages]
      BY <3>1, <3>2, <2>2, <2>3, LaunchKeepsStage, EndKeepsStage DEF Resting
    <3> QED  BY <3>3, <2>2, <1>a
  <2>4. CASE Head(probers) \notin Requests
    <3>1. UNCHANGED <<pc, stage>>
      BY <1>5, <2>4 DEF ProbeSucceeds, ProbeFails, vars
    <3>2. StageSound'
      BY <3>1, <2>2, <2>4, IInvFacts DEF StageSound, Distinct, WithoutR
    <3> QED  BY <3>1, <3>2, <2>2, <1>a, IInvFacts
  <2> QED  BY <2>3, <2>4
<1>6. CASE DeviceLost \/ StopServing \/ GraceOver
  BY <1>6, <1>c DEF DeviceLost, StopServing, GraceOver, Drain, readiness, vars
<1>7. CASE Close
  <2>1. probers' = <<>> /\ probe' = NoProbe /\ UNCHANGED <<pc, stage>>
    BY <1>7 DEF Close, vars
  <2>2. \A r \in Requests : pc[r] # "holding"
    BY <1>7 DEF Close, Resting
  <2>3. LockSound' /\ \A y : ~Contains(<<>>, y)
    BY <2>1 DEF LockSound, Contains
  <2>4. StageSound'
    BY <2>1, <2>2, <2>3, IInvFacts DEF StageSound
  <2> QED  BY <2>1, <2>3, <2>4, IInvFacts
<1>8. CASE Tick
  <2>1. /\ UNCHANGED <<pc, stage, probers>> /\ probe < ProbeSeconds
        /\ probe' = IF probe = NoProbe THEN NoProbe ELSE probe + 1
    BY <1>8 DEF Tick, vars
  <2>2. probe' \in {NoProbe} \cup 0..ProbeSeconds /\ (probe' # NoProbe => probers # <<>>)
    BY <2>1, IInvFacts DEF NoProbe
  <2> QED  BY <2>1, <2>2, IInvFacts DEF StageSound, Distinct, LockSound
<1> QED  BY <1>1, <1>2, <1>3, <1>4, <1>5, <1>6, <1>7, <1>8 DEF GatewayNext

\* The four things that can happen to the lease.
LEMMA LeaseCases ==
  ASSUME GatewayIInv, GatewayNext
  PROVE  \/ UNCHANGED <<lease, evidence, errored>>
         \/ InvalidateLease
         \/ probe # NoProbe /\ lease' = 0 /\ evidence' = probe /\ errored' = FALSE
         \/ Tick
<1>1. ASSUME NEW r \in Requests, Request(r)
      PROVE  UNCHANGED <<lease, evidence, errored>> \/ InvalidateLease
  BY <1>1 DEF Request, Submit, Wake, WaitEnds, EnsureReady, Recheck, Complete,
              UpstreamError, CancelRun, readiness
<1>2. ASSUME NEW p \in HealthCalls \cup {Monitor}, JoinLock(p) \/ StartProbe(p)
      PROVE  UNCHANGED <<lease, evidence, errored>>
  BY <1>2 DEF JoinLock, StartProbe
<1>3. ASSUME NEW h \in HealthCalls, CancelHealth(h)
      PROVE  UNCHANGED <<lease, evidence, errored>>
  BY <1>3 DEF CancelHealth
<1>4. CASE DeviceLost \/ StopServing \/ GraceOver \/ Close
  BY <1>4 DEF DeviceLost, StopServing, GraceOver, Close, readiness
<1>5. CASE ProbeFails
  BY <1>5 DEF ProbeFails
<1> QED  BY <1>1, <1>2, <1>3, <1>4, <1>5 DEF GatewayNext, ProbeSucceeds

\* The lease stays backed by a probe, whatever order probes, errors and the
\* clock come in.
LEMMA LeaseStep ==
  ASSUME GatewayIInv, GatewayNext
  PROVE  /\ lease' \in 0..LeaseSeconds /\ evidence' \in 0..MaxEvidence
         /\ clock' \in 0..LeaseSeconds /\ clock' >= clock /\ LeaseBacked'
<1> USE IInvFacts DEF Ready, LeaseBacked, MaxEvidence, NoProbe
<1>1. clock' = clock \/ (Tick /\ clock' = Older(clock, LeaseSeconds))
  BY DEF GatewayNext, Request, Submit, Wake, WaitEnds, EnsureReady, Recheck, Complete,
         UpstreamError, CancelRun, JoinLock, StartProbe, CancelHealth, ProbeSucceeds,
         ProbeFails, DeviceLost, StopServing, GraceOver, Close, Tick, server
<1>2. LeaseBacked
  BY DEF GatewayIInv
<1>a. clock' \in 0..LeaseSeconds /\ clock' >= clock
  BY <1>1 DEF Older
<1>3. CASE UNCHANGED <<lease, evidence, errored>> /\ clock' = clock
  BY <1>a, <1>2, <1>3
<1>4. CASE InvalidateLease /\ clock' = clock
  BY <1>a, <1>4 DEF InvalidateLease
<1>5. CASE probe # NoProbe /\ lease' = 0 /\ evidence' = probe /\ errored' = FALSE
  <2>1. probe \in 0..ProbeSeconds
    BY <1>5
  <2> QED  BY <1>a, <1>5, <2>1
<1>6. CASE Tick
  <2>1. /\ lease' = Older(lease, LeaseSeconds) /\ evidence' = Older(evidence, MaxEvidence)
        /\ errored' = errored /\ clock' = Older(clock, LeaseSeconds)
    BY <1>6 DEF Tick
  <2>2. Ready' => Ready /\ lease' = lease + 1
    BY <2>1 DEF Older
  <2>3. evidence' \in 0..MaxEvidence /\ evidence' <= evidence + 1
    BY <2>1 DEF Older
  <2>4. lease' \in 0..LeaseSeconds
    BY <2>1 DEF Older
  <2>5. Ready /\ lease = clock => clock' = lease + 1
    BY <2>1 DEF Older
  <2> QED  BY <1>a, <1>2, <2>1, <2>2, <2>3, <2>4, <2>5
<1> QED  BY <1>1, <1>3, <1>4, <1>5, <1>6, LeaseCases

\* A draining gateway stays draining, and only a draining one shuts down.
LEMMA DrainStep ==
  ASSUME GatewayIInv, GatewayNext
  PROVE  (phase' # "serving" => draining') /\ phase' \in {"serving", "stopping", "cancelling", "closed"}
<1>1. [Next]_vars
  BY SlotStep
<1>2. draining => draining'
  BY <1>1 DEF Next, Step, AcquireSlot, AcquireAtOnce, AcquireQueued, AcquireRefused,
              Resume, ResumeInterrupted, ResumeGranted, ResumeDenied, Finish, Leave,
              QueueTimeout, Disconnect, Drain, vars
<1>3. \/ phase' = phase
      \/ StopServing /\ phase' = "stopping"
      \/ phase = "stopping" /\ phase' = "cancelling"
      \/ phase = "cancelling" /\ phase' = "closed"
  BY DEF GatewayNext, Request, Submit, Wake, WaitEnds, EnsureReady, Recheck, Complete,
         UpstreamError, CancelRun, JoinLock, StartProbe, CancelHealth, ProbeSucceeds,
         ProbeFails, DeviceLost, StopServing, GraceOver, Close, Tick, server
<1> QED  BY <1>2, <1>3 DEF GatewayIInv, GatewayTypeOK, StopServing, Drain

\* Nothing happens to requests and probes after the server has closed.
LEMMA ClosedStep ==
  ASSUME GatewayIInv, GatewayNext, phase' = "closed"
  PROVE  ClosedSound'
<1>1. CASE Close
  BY <1>1 DEF Close, ClosedSound, vars
<1>2. ASSUME ~Close, phase = "closed" PROVE UNCHANGED <<pc, probers>>
  <2>1. /\ probers = <<>> /\ probe = NoProbe
        /\ \A r \in Requests : pc[r] \in Resting /\ stage[r] = "none"
    BY <1>2, IInvFacts DEF GatewayIInv, ClosedSound, Resting, Stages
  <2>2. \A p : ~LockTaken /\ ~Contains(probers, p)
    BY <2>1 DEF LockTaken, Contains
  <2>3. ASSUME NEW r \in Requests PROVE ~Request(r)
    <3>1. pc[r] # "waiting" /\ pc[r] # "holding"
      BY <2>1 DEF Resting
    <3> QED  BY <1>2, <2>1, <2>2, <3>1
             DEF Request, Submit, Wake, Resume, ResumeInterrupted, ResumeGranted,
                 ResumeDenied, WaitEnds, QueueTimeout, Disconnect, EnsureReady, Recheck,
                 Complete, UpstreamError, CancelRun
  <2>4. ASSUME NEW p PROVE ~JoinLock(p) /\ ~StartProbe(p) /\ ~CancelHealth(p)
    BY <1>2, <2>2 DEF JoinLock, StartProbe, CancelHealth
  <2>5. ~ProbeSucceeds /\ ~ProbeFails /\ ~StopServing /\ ~GraceOver /\ ~Tick
    BY <1>2, <2>1 DEF ProbeSucceeds, ProbeFails, StopServing, GraceOver, Tick
  <2>6. DeviceLost
    BY <1>2, <2>3, <2>4, <2>5 DEF GatewayNext
  <2> QED  BY <2>6 DEF DeviceLost, Drain, readiness
<1>3. ~Close => phase = "closed"
  BY DEF GatewayNext, Request, Submit, Wake, WaitEnds, EnsureReady, Recheck, Complete,
         UpstreamError, CancelRun, JoinLock, StartProbe, CancelHealth, ProbeSucceeds,
         ProbeFails, DeviceLost, StopServing, GraceOver, Tick, server
<1> QED  BY <1>1, <1>2, <1>3 DEF GatewayIInv, ClosedSound

LEMMA UpstreamErrorTyped ==
  ASSUME GatewayIInv, GatewayNext
  PROVE  errored' \in BOOLEAN
<1>1. errored' = errored \/ errored' = TRUE \/ errored' = FALSE
  BY DEF GatewayNext, Request, Submit, Wake, WaitEnds, EnsureReady, Recheck, Complete,
         UpstreamError, CancelRun, JoinLock, StartProbe, CancelHealth, ProbeSucceeds,
         ProbeFails, DeviceLost, StopServing, GraceOver, Close, Tick, readiness
<1> QED  BY <1>1 DEF GatewayIInv, GatewayTypeOK

LEMMA GatewayStep == GatewayIInv /\ [GatewayNext]_gatewayVars => GatewayIInv'
<1> SUFFICES ASSUME GatewayIInv, [GatewayNext]_gatewayVars PROVE GatewayIInv'
  OBVIOUS
<1>1. IInv'
  BY SlotStep, NextPreserves DEF GatewayIInv
<1>2. CASE GatewayNext
  <2>1. errored' \in BOOLEAN
    BY <1>2, UpstreamErrorTyped
  <2>2. GatewayTypeOK'
    BY <1>2, <2>1, StageStep, LeaseStep, DrainStep, LeaseAssumption
       DEF GatewayTypeOK, LockSound, Tasks
  <2> QED  BY <1>1, <1>2, <2>2, StageStep, LeaseStep, DrainStep, ClosedStep
           DEF GatewayIInv, ClosedSound
<1>3. CASE UNCHANGED gatewayVars
  BY <1>1, <1>3
     DEF gatewayVars, vars, readiness, server, GatewayIInv, GatewayTypeOK, StageSound,
         LeaseBacked, Ready, ClosedSound
<1> QED  BY <1>2, <1>3

-----------------------------------------------------------------------------
(* The theorems.  Invariance of GatewayIInv carries the type invariant, the  *)
(* agreement of requests, slots and probe lock, and the backing of the lease. *)

\* GatewayIInv holds of Gateway.inference, the probes and serve in every
\* reachable state.
THEOREM GatewayInvariance == GatewaySpec => []GatewayIInv
<1>1. GatewayInit => GatewayIInv
  <2> SUFFICES ASSUME GatewayInit PROVE GatewayIInv
    OBVIOUS
  <2>1. IInv
    BY InitIInv DEF GatewayInit
  <2>2. stage \in [Requests -> Stages] /\ \A r \in Requests : stage[r] = "none" /\ pc[r] = "idle"
    BY DEF GatewayInit, Init, Stages
  <2>3. MaxEvidence \in 0..MaxEvidence /\ BootAge \in 0..LeaseSeconds
    BY LeaseAssumption, ProbeAssumption, BootAssumption DEF MaxEvidence
  <2>4. GatewayTypeOK
    <3>1. probers \in Seq(Requests \cup HealthCalls \cup {Monitor})
      BY DEF GatewayInit
    <3> QED  BY <2>2, <2>3, <3>1 DEF GatewayInit, GatewayTypeOK
  <2>5. StageSound
    BY <2>2 DEF GatewayInit, StageSound, Contains
  <2>6. LeaseBacked /\ ClosedSound
    BY LeaseAssumption DEF GatewayInit, LeaseBacked, Ready, ClosedSound
  <2> QED  BY <2>1, <2>4, <2>5, <2>6 DEF GatewayIInv, GatewayInit
<1> QED  BY <1>1, GatewayStep, PTL DEF GatewaySpec

\* The README's "upstream errors invalidate that lease immediately": after an
\* upstream error in inference no lease holds before the next probe completes,
\* once the clock is one lease old.  Before, last_healthy = 0.0 keeps it alive;
\* the run gateway_boot shows that the condition is needed.
THEOREM ErrorsEndTheLease == GatewaySpec => [](clock = LeaseSeconds => ErrorEndsLease)
<1>1. GatewayIInv => (clock = LeaseSeconds => ErrorEndsLease)
  BY IInvFacts DEF GatewayIInv, LeaseBacked, Ready, ErrorEndsLease
<1> QED  BY <1>1, GatewayInvariance, PTL

\* A gateway that is started at least one lease after boot keeps the promise of
\* the README without exception.
THEOREM LateBootErrorsEndTheLease ==
  ASSUME BootAge = LeaseSeconds
  PROVE  GatewaySpec => []ErrorEndsLease
<1>1. GatewayInit => clock = LeaseSeconds
  BY DEF GatewayInit
<1>2. GatewayIInv /\ clock = LeaseSeconds /\ [GatewayNext]_gatewayVars => (clock = LeaseSeconds)'
  <2>1. ASSUME GatewayIInv, clock = LeaseSeconds, GatewayNext PROVE clock' = LeaseSeconds
    BY <2>1, LeaseStep, IInvFacts
  <2> QED  BY <2>1 DEF gatewayVars, server
<1> QED  BY <1>1, <1>2, GatewayInvariance, ErrorsEndTheLease, PTL DEF GatewaySpec

\* serve leaves no slot taken, no wait and no probe behind when it closes.
THEOREM ClosesQuietly == GatewaySpec => []ClosedIsQuiet
<1>1. GatewayIInv => ClosedIsQuiet
  <2> SUFFICES ASSUME GatewayIInv, phase = "closed"
               PROVE  active = 0 /\ waiters = <<>> /\ probers = <<>>
    BY DEF ClosedIsQuiet
  <2>1. /\ probers = <<>> /\ \A r \in Requests : pc[r] \in Resting
        /\ IInv /\ draining
    BY DEF GatewayIInv, ClosedSound
  <2>2. \A r \in Requests : future[r] = "none"
    BY <2>1 DEF IInv, WaitSound, Resting
  <2>3. Owners = {}
    BY <2>1, <2>2 DEF Owners, Resting
  <2>4. active = 0
    BY <2>1, <2>3, FS_EmptySet DEF IInv, SlotAccounting
  <2> QED  BY <2>1, <2>4 DEF IInv, WorkConserving
<1> QED  BY <1>1, GatewayInvariance, PTL

\* ensure_ready: no request goes upstream on a lease whose probe was sent
\* LeaseSeconds + ProbeSeconds or more before, or on one from before an error,
\* once the clock is one lease old.
THEOREM EvidenceIsFresh == GatewaySpec => PostsOnEvidence
<1> DEFINE Fresh == \A r \in Requests :
             clock = LeaseSeconds /\ stage[r] # "posting" /\ stage'[r] = "posting"
                => evidence' < MaxEvidence /\ ~errored'
<1>1. ASSUME GatewayIInv, GatewayNext PROVE Fresh
  <2> SUFFICES ASSUME NEW r \in Requests, clock = LeaseSeconds,
                      stage[r] # "posting", stage'[r] = "posting"
               PROVE  evidence' < MaxEvidence /\ ~errored'
    OBVIOUS
  <2>1. LeaseBacked'
    BY <1>1, LeaseStep
  <2>2. Ready'
    <3>1. \A x \in Requests : StageAfterSlot(x) => stage'[r] # "posting"
      BY IInvFacts, <1>1 DEF StageAfterSlot
    <3>2. \A x \in Requests, o \in Resting : End(x, o) => stage'[r] # "posting"
      BY IInvFacts, <1>1 DEF End
    <3>3. stage' # stage
      OBVIOUS
    <3>4. ASSUME NEW x \in Requests, Request(x) PROVE Ready'
      <4>1. EnsureReady(x) \/ Recheck(x)
        BY <3>1, <3>2, <3>3, <3>4
           DEF Request, Submit, Wake, WaitEnds, Complete, UpstreamError, CancelRun, Resting
      <4>2. Ready /\ lease' = lease
        <5>1. stage' = [stage EXCEPT ![x] = "locking"] => stage'[r] # "posting"
          BY IInvFacts, <1>1
        <5> QED  BY <4>1, <5>1, <3>3 DEF EnsureReady, Recheck
      <4> QED  BY <4>2 DEF Ready
    <3>5. CASE ProbeSucceeds
      BY <3>5, LeaseAssumption DEF ProbeSucceeds, Ready
    <3>6. CASE ProbeFails
      BY <3>6, <3>2, <3>3 DEF ProbeFails, Resting
    <3> QED  BY <1>1, <3>3, <3>4, <3>5, <3>6
             DEF GatewayNext, JoinLock, StartProbe, CancelHealth, DeviceLost, StopServing,
                 GraceOver, Close, Tick
  <2>3. lease' \in 0..LeaseSeconds /\ evidence' \in 0..MaxEvidence
    BY <1>1, LeaseStep
  <2>8. lease' # clock'
    BY <1>1, <2>2, LeaseStep, IInvFacts DEF Ready
  <2>4. ~errored'
    BY <2>1, <2>2, <2>8, Zenon DEF LeaseBacked
  <2>5. evidence' <= lease' + ProbeSeconds
    BY <2>1, <2>2, <2>8, Zenon DEF LeaseBacked
  <2>6. lease' < LeaseSeconds
    BY <2>2 DEF Ready
  <2>7. evidence' < MaxEvidence
    <3>1. \A e, l, L, P \in Int : e <= l + P /\ l < L => e < L + P
      OBVIOUS
    <3>2. evidence' \in Int /\ lease' \in Int /\ LeaseSeconds \in Int /\ ProbeSeconds \in Int
      BY <2>3, LeaseAssumption, ProbeAssumption DEF MaxEvidence
    <3> QED  BY <3>1, <3>2, <2>5, <2>6, Zenon DEF MaxEvidence
  <2> QED  BY <2>4, <2>7
<1>2. GatewayIInv /\ [GatewayNext]_gatewayVars => [Fresh]_gatewayVars
  BY <1>1
<1> HIDE DEF Fresh
<1>3. GatewaySpec => [][Fresh]_gatewayVars
  BY <1>2, GatewayInvariance, PTL DEF GatewaySpec
<1> QED  BY <1>3 DEF Fresh, PostsOnEvidence

=============================================================================
