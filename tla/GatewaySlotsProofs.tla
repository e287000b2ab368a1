------------------------- MODULE GatewaySlotsProofs -------------------------
(***************************************************************************)
(* Proofs about GatewaySlots for every set of requests, every concurrency  *)
(* and every queue limit.  The argument: IInv is inductive.  Its only hard *)
(* step is release_slot, whose loop runs zero times or once (ReleaseCases) *)
(* because the deque is non-empty only while every slot is taken.          *)
(***************************************************************************)
EXTENDS GatewaySlots, FiniteSetTheorems, SequenceTheorems, TLAPS

\* With IInv the loop of release_slot hands the slot to the oldest waiter if
\* there is one and otherwise frees it.
LEMMA ReleaseCases ==
  ASSUME IInv, NEW r \in Requests, r \in Owners, ReleaseSlot(r)
  PROVE  \/ /\ waiters = <<>> /\ waiters' = <<>>
            /\ active' = active - 1
            /\ future' = [future EXCEPT ![r] = "none"]
         \/ /\ waiters # <<>> /\ waiters' = Tail(waiters)
            /\ active' = active
            /\ Head(waiters) # r /\ future[Head(waiters)] = "pending"
            /\ future' = [future EXCEPT ![Head(waiters)] = "granted", ![r] = "none"]
<1> USE ConcurrencyAssumption
<1>1. /\ active \in 0..Concurrency /\ waiters \in Seq(Requests)
      /\ future \in [Requests -> Futures] /\ draining \in BOOLEAN
  BY DEF IInv, TypeOK
<1>2. PICK k \in 0..Len(waiters) :
        /\ ReleaseStops(k)
        /\ \A j \in 0..(k - 1) : ~ReleaseStops(j)
        /\ active' = Running(k)
        /\ waiters' = SubSeq(waiters, k + 1, Len(waiters))
        /\ future' = [x \in Requests |->
                        IF x \in Woken(k) THEN "granted"
                        ELSE IF x = r THEN "none" ELSE future[x]]
  BY DEF ReleaseSlot
<1>3. Woken(0) = {} /\ Running(0) = active - 1
  <2>1. Woken(0) = {}
    BY DEF Woken
  <2>2. Cardinality({}) = 0
    BY FS_EmptySet
  <2>3. Cardinality(Woken(0)) = 0
    BY <2>1, <2>2
  <2> QED  BY <2>1, <2>3, <1>1 DEF Running
<1>4. CASE waiters = <<>>
  <2>1. k = 0
    BY <1>1, <1>4
  <2>2. waiters' = <<>>
    BY <1>2, <1>4, <2>1
  <2> QED  BY <1>1, <1>2, <1>3, <1>4, <2>1, <2>2
<1>5. CASE waiters # <<>>
  <2>1. active = Concurrency /\ ~draining
    BY <1>5 DEF IInv, WorkConserving
  <2>2. Len(waiters) \in Nat \ {0} /\ Head(waiters) = waiters[1] /\ waiters[1] \in Requests
    BY <1>1, <1>5
  <2>3. future[waiters[1]] = "pending"
    BY <2>2 DEF IInv, QueueSound
  <2>4. Woken(1) = {waiters[1]}
    BY <2>3 DEF Woken
  <2>5. Running(1) = Concurrency
    <3>1. Cardinality({waiters[1]}) = 1
      BY FS_Singleton
    <3>2. Cardinality(Woken(1)) = 1
      BY <2>4, <3>1
    <3> QED  BY <2>1, <3>2 DEF Running
  <2>6. ~ReleaseStops(0) /\ ReleaseStops(1)
    BY <1>3, <2>1, <2>2, <2>5 DEF ReleaseStops
  <2>7. k = 1
    <3>1. k # 0
      BY <1>2, <2>6
    <3>2. ~(1 \in 0..(k - 1))
      BY <1>2, <2>6
    <3> QED  BY <3>1, <3>2, <1>2
  <2>8. waiters' = Tail(waiters)
    BY <1>1, <1>2, <2>7, <2>2
  <2>9. waiters[1] # r
    BY <2>3, <1>1 DEF Owners, IInv, WaitSound
  <2>10. future' = [future EXCEPT ![waiters[1]] = "granted", ![r] = "none"]
    BY <1>1, <1>2, <2>7, <2>4, <2>9, <2>2
  <2> QED  BY <1>2, <1>5, <2>1, <2>2, <2>3, <2>5, <2>7, <2>8, <2>9, <2>10
<1> QED  BY <1>4, <1>5

\* What deque.remove leaves behind.
LEMMA RemoveAtFacts ==
  ASSUME NEW S, NEW q \in Seq(S), NEW i \in 1..Len(q)
  PROVE  /\ RemoveAt(q, i) \in Seq(S)
         /\ Len(RemoveAt(q, i)) = Len(q) - 1
         /\ \A j \in 1..(Len(q) - 1) :
               RemoveAt(q, i)[j] = IF j < i THEN q[j] ELSE q[j + 1]
<1> DEFINE a == SubSeq(q, 1, i - 1)
           b == SubSeq(q, i + 1, Len(q))
<1>1. a \in Seq(S) /\ Len(a) = i - 1 /\ \A j \in 1..(i - 1) : a[j] = q[j]
  OBVIOUS
<1>2. /\ b \in Seq(S) /\ Len(b) = Len(q) - i
      /\ \A j \in 1..(Len(q) - i) : b[j] = q[j + i]
  OBVIOUS
<1>3. RemoveAt(q, i) = a \o b
  BY DEF RemoveAt
<1> HIDE DEF a, b
<1>4. a \o b \in Seq(S) /\ Len(a \o b) = Len(q) - 1
  <2>1. a \o b \in Seq(S) /\ Len(a \o b) = Len(a) + Len(b)
    BY <1>1, <1>2, ConcatProperties
  <2> QED  BY <1>1, <1>2, <2>1
<1>5. ASSUME NEW j \in 1..(Len(q) - 1)
      PROVE  (a \o b)[j] = IF j < i THEN q[j] ELSE q[j + 1]
  <2>1. CASE j < i
    BY <1>1, <1>2, <2>1
  <2>2. CASE ~(j < i)
    <3>1. (a \o b)[j] = b[j - (i - 1)]
      BY <1>1, <1>2, <2>2
    <3>2. j - (i - 1) \in 1..(Len(q) - i)
      BY <2>2
    <3>3. b[j - (i - 1)] = q[(j - (i - 1)) + i]
      BY <1>2, <3>2
    <3> QED  BY <2>2, <3>1, <3>3
  <2> QED  BY <2>1, <2>2
<1> QED  BY <1>3, <1>4, <1>5

\* A request leaves its slot for good: its task rests, its future is dropped
\* and release_slot runs.
LEMMA ReleasePreserves ==
  ASSUME IInv, NEW r \in Requests, r \in Owners, ReleaseSlot(r),
         NEW p \in Resting, pc' = [pc EXCEPT ![r] = p],
         draining' = draining,
         interrupt' = [interrupt EXCEPT ![r] = "none"]
  PROVE  IInv'
<1> USE ConcurrencyAssumption, QueueLimitAssumption
<1>1. /\ active \in 0..Concurrency /\ waiters \in Seq(Requests)
      /\ future \in [Requests -> Futures] /\ draining \in BOOLEAN
      /\ pc \in [Requests -> PCs] /\ interrupt \in [Requests -> Interrupts]
  BY DEF IInv, TypeOK
<1>2. IsFiniteSet(Owners) /\ active = Cardinality(Owners)
  BY DEF IInv, SlotAccounting
<1>3. p # "waiting" /\ p # "holding" /\ p \in PCs
  BY DEF Resting, PCs
<1>4. /\ IsFiniteSet(Owners \ {r})
      /\ Cardinality(Owners \ {r}) = active - 1
  BY <1>2, FS_RemoveElement
<1>5. active - 1 \in 0..Concurrency
  <2>1. Cardinality(Owners \ {r}) \in Nat
    BY <1>4, FS_CardinalityType
  <2> QED  BY <2>1, <1>4, <1>1
<1>6. CASE /\ waiters = <<>> /\ waiters' = <<>>
           /\ active' = active - 1
           /\ future' = [future EXCEPT ![r] = "none"]
  <2>1. Owners' = Owners \ {r}
    BY <1>1, <1>3, <1>6 DEF Owners
  <2>2. SlotAccounting'
    BY <2>1, <1>4, <1>6 DEF SlotAccounting
  <2>3. TypeOK'
    BY <1>1, <1>3, <1>5, <1>6 DEF TypeOK, Futures, Interrupts
  <2>4. WaitSound'
    BY <1>1, <1>3, <1>6 DEF IInv, WaitSound, Futures, PCs, Interrupts
  <2>5. QueueSound'
    BY <1>1, <1>6 DEF IInv, QueueSound
  <2>6. WorkConserving'
    BY <1>6 DEF WorkConserving
  <2> QED  BY <2>2, <2>3, <2>4, <2>5, <2>6 DEF IInv
<1>7. CASE /\ waiters # <<>> /\ waiters' = Tail(waiters)
           /\ active' = active
           /\ Head(waiters) # r /\ future[Head(waiters)] = "pending"
           /\ future' = [future EXCEPT ![Head(waiters)] = "granted", ![r] = "none"]
  <2> DEFINE h == Head(waiters)
  <2>1. h \in Requests /\ h = waiters[1] /\ Len(waiters) \in Nat \ {0}
    BY <1>1, <1>7
  <2>2. pc[h] = "waiting" /\ h \notin Owners /\ h # r /\ future[h] = "pending"
    BY <1>1, <1>7, <2>1 DEF Owners, IInv, WaitSound
  <2>3. future' = [future EXCEPT ![h] = "granted", ![r] = "none"]
    BY <1>7
  <2>4. /\ Tail(waiters) \in Seq(Requests) /\ Len(Tail(waiters)) = Len(waiters) - 1
        /\ \A i \in 1..(Len(waiters) - 1) : Tail(waiters)[i] = waiters[i + 1]
    BY <1>1, <1>7
  <2> HIDE DEF h
  <2>5. Owners' = (Owners \ {r}) \cup {h}
    BY <1>1, <1>3, <2>1, <2>2, <2>3 DEF Owners
  <2>6. IsFiniteSet(Owners') /\ Cardinality(Owners') = active
    <3>1. h \notin Owners \ {r}
      BY <2>2
    <3>2. /\ IsFiniteSet((Owners \ {r}) \cup {h})
          /\ Cardinality((Owners \ {r}) \cup {h}) = (active - 1) + 1
      BY <1>4, <3>1, FS_AddElement
    <3> QED  BY <2>5, <3>2, <1>1
  <2>7. SlotAccounting'
    BY <2>6, <1>7 DEF SlotAccounting
  <2>8. TypeOK'
    BY <1>1, <1>3, <1>7, <2>1, <2>3, <2>4 DEF TypeOK, Futures, Interrupts
  <2>9. WaitSound'
    BY <1>1, <1>3, <2>1, <2>2, <2>3 DEF IInv, WaitSound, Futures, PCs, Interrupts
  <2>10. QueueSound'
    <3>1. /\ Len(waiters) <= QueueLimit
          /\ \A i, j \in 1..Len(waiters) : waiters[i] = waiters[j] => i = j
          /\ \A x \in Requests :
                future[x] = "pending" <=> \E i \in 1..Len(waiters) : waiters[i] = x
      BY DEF IInv, QueueSound
    <3>2. Len(waiters') = Len(waiters) - 1
      BY <1>7, <2>4
    <3>3. \A i, j \in 1..Len(waiters') : waiters'[i] = waiters'[j] => i = j
      BY <1>7, <2>1, <2>4, <3>1, <3>2
    <3>4. ASSUME NEW x \in Requests, future'[x] = "pending"
          PROVE  \E i \in 1..Len(waiters') : waiters'[i] = x
      <4>1. x # h /\ x # r /\ future[x] = "pending"
        BY <1>1, <2>1, <2>3, <3>4
      <4>2. PICK i \in 1..Len(waiters) : waiters[i] = x
        BY <3>1, <4>1
      <4>3. i - 1 \in 1..Len(waiters') /\ (i - 1) + 1 = i
        BY <2>1, <3>2, <4>1, <4>2
      <4>4. waiters'[i - 1] = x
        BY <1>7, <2>4, <3>2, <4>2, <4>3
      <4> QED  BY <4>3, <4>4
    <3>5. ASSUME NEW x \in Requests, NEW i \in 1..Len(waiters'), waiters'[i] = x
          PROVE  future'[x] = "pending"
      <4>1. i + 1 \in 1..Len(waiters) /\ waiters[i + 1] = x /\ i + 1 # 1
        BY <1>7, <2>1, <2>4, <3>2, <3>5
      <4>2. future[x] = "pending" /\ x # h
        BY <2>1, <3>1, <4>1
      <4>3. x # r
        BY <4>2, <1>1 DEF Owners, IInv, WaitSound
      <4> QED  BY <1>1, <2>1, <2>3, <4>2, <4>3
    <3> QED  BY <3>1, <3>2, <3>3, <3>4, <3>5, <2>1 DEF QueueSound
  <2>11. WorkConserving'
    BY <1>7 DEF IInv, WorkConserving
  <2> QED  BY <2>7, <2>8, <2>9, <2>10, <2>11 DEF IInv
<1> QED  BY <1>6, <1>7, ReleaseCases

LEMMA InitIInv == Init => IInv
<1> SUFFICES ASSUME Init PROVE IInv
  OBVIOUS
<1> USE ConcurrencyAssumption, QueueLimitAssumption DEF Init
<1>1. TypeOK
  <2>1. active \in 0..Concurrency
    BY 0 \in 0..Concurrency
  <2>5. draining \in BOOLEAN
    BY Zenon
  <2>2. waiters \in Seq(Requests)
    BY EmptySeq
  <2>3. future \in [Requests -> Futures] /\ pc \in [Requests -> PCs]
    BY DEF Futures, PCs, Resting
  <2>4. interrupt \in [Requests -> Interrupts]
    BY DEF Interrupts
  <2> QED  BY <2>1, <2>2, <2>3, <2>4, <2>5 DEF TypeOK
<1>2. WaitSound /\ QueueSound /\ WorkConserving
  BY DEF WaitSound, QueueSound, WorkConserving
<1>3. SlotAccounting
  <2>1. Owners = {}
    BY DEF Owners
  <2> QED  BY <2>1, FS_EmptySet DEF SlotAccounting
<1> QED  BY <1>1, <1>2, <1>3 DEF IInv

LEMMA AcquirePreserves ==
  ASSUME IInv, NEW r \in Requests, AcquireSlot(r)
  PROVE  IInv'
<1> USE ConcurrencyAssumption, QueueLimitAssumption
<1>1. /\ active \in 0..Concurrency /\ waiters \in Seq(Requests)
      /\ future \in [Requests -> Futures] /\ draining \in BOOLEAN
      /\ pc \in [Requests -> PCs] /\ interrupt \in [Requests -> Interrupts]
  BY DEF IInv, TypeOK
<1>2. IsFiniteSet(Owners) /\ active = Cardinality(Owners)
  BY DEF IInv, SlotAccounting
<1>3. pc[r] \in Resting /\ pc[r] # "waiting" /\ future[r] = "none" /\ interrupt[r] = "none"
  BY <1>1 DEF AcquireSlot, Resting, IInv, WaitSound, Interrupts, Futures
<1>4. r \notin Owners
  BY <1>3 DEF Owners, Resting
<1>5. CASE AcquireAtOnce(r)
  <2>1. waiters = <<>> /\ active < Concurrency
    BY <1>5 DEF AcquireAtOnce, SlotFree
  <2>2. Owners' = Owners \cup {r}
    BY <1>1, <1>5 DEF AcquireAtOnce, Owners
  <2>3. SlotAccounting'
    BY <1>2, <1>4, <1>5, <2>2, FS_AddElement DEF SlotAccounting, AcquireAtOnce
  <2>4. TypeOK'
    BY <1>1, <1>5, <2>1 DEF TypeOK, AcquireAtOnce, PCs
  <2>5. WaitSound'
    BY <1>1, <1>3, <1>5 DEF IInv, WaitSound, AcquireAtOnce
  <2>6. QueueSound' /\ WorkConserving'
    BY <1>5, <2>1 DEF IInv, QueueSound, WorkConserving, AcquireAtOnce
  <2> QED  BY <2>3, <2>4, <2>5, <2>6 DEF IInv
<1>6. CASE AcquireQueued(r)
  <2>1. active = Concurrency /\ ~draining
    BY <1>1, <1>6 DEF AcquireQueued, SlotFree, IInv, WorkConserving
  <2>2. /\ waiters' \in Seq(Requests) /\ Len(waiters') = Len(waiters) + 1
        /\ waiters'[Len(waiters) + 1] = r
        /\ \A i \in 1..Len(waiters) : waiters'[i] = waiters[i]
    BY <1>1, <1>6 DEF AcquireQueued
  <2>3. Owners' = Owners
    BY <1>1, <1>4, <1>6 DEF AcquireQueued, Owners
  <2>4. SlotAccounting'
    BY <1>2, <1>6, <2>3 DEF SlotAccounting, AcquireQueued
  <2>5. TypeOK'
    BY <1>1, <1>6, <2>2 DEF TypeOK, AcquireQueued, PCs, Futures
  <2>6. WaitSound'
    BY <1>1, <1>3, <1>6 DEF IInv, WaitSound, AcquireQueued
  <2>7. QueueSound'
    <3>1. /\ Len(waiters) < QueueLimit /\ Len(waiters) \in Nat
          /\ \A i, j \in 1..Len(waiters) : waiters[i] = waiters[j] => i = j
          /\ \A x \in Requests :
                future[x] = "pending" <=> \E i \in 1..Len(waiters) : waiters[i] = x
      BY <1>1, <1>6 DEF IInv, QueueSound, AcquireQueued
    <3>2. \A i \in 1..Len(waiters) : waiters[i] # r
      BY <1>3, <3>1
    <3>3. \A i, j \in 1..Len(waiters') : waiters'[i] = waiters'[j] => i = j
      BY <2>2, <3>1, <3>2
    <3>4. \A x \in Requests :
             future'[x] = "pending" <=> \E i \in 1..Len(waiters') : waiters'[i] = x
      <4> TAKE x \in Requests
      <4>1. CASE x = r
        BY <1>1, <1>6, <2>2, <3>1, <4>1 DEF AcquireQueued
      <4>2. CASE x # r
        <5>1. future'[x] = future[x]
          BY <1>1, <1>6, <4>2 DEF AcquireQueued
        <5>2. (\E i \in 1..Len(waiters') : waiters'[i] = x)
                <=> \E i \in 1..Len(waiters) : waiters[i] = x
          BY <2>2, <3>1, <4>2
        <5> QED  BY <3>1, <5>1, <5>2
      <4> QED  BY <4>1, <4>2
    <3> QED  BY <2>2, <3>1, <3>3, <3>4 DEF QueueSound
  <2>8. WorkConserving'
    BY <1>6, <2>1 DEF WorkConserving, AcquireQueued
  <2> QED  BY <2>4, <2>5, <2>6, <2>7, <2>8 DEF IInv
<1>7. CASE AcquireRefused(r)
  <2>1. Owners' = Owners
    BY <1>1, <1>4, <1>7 DEF AcquireRefused, Owners
  <2>2. SlotAccounting'
    BY <1>2, <1>7, <2>1 DEF SlotAccounting, AcquireRefused
  <2>3. TypeOK'
    BY <1>1, <1>7 DEF TypeOK, AcquireRefused, PCs, Resting
  <2>4. WaitSound'
    BY <1>1, <1>3, <1>7 DEF IInv, WaitSound, AcquireRefused
  <2>5. QueueSound' /\ WorkConserving'
    BY <1>7 DEF IInv, QueueSound, WorkConserving, AcquireRefused
  <2> QED  BY <2>2, <2>3, <2>4, <2>5 DEF IInv
<1> QED  BY <1>5, <1>6, <1>7 DEF AcquireSlot

\* The timer or the disconnect wins: a grant is handed on, a wait is removed.
LEMMA ResumeInterruptedPreserves ==
  ASSUME IInv, NEW r \in Requests, ResumeInterrupted(r)
  PROVE  IInv'
<1> USE ConcurrencyAssumption, QueueLimitAssumption
<1>1. /\ active \in 0..Concurrency /\ waiters \in Seq(Requests)
      /\ future \in [Requests -> Futures] /\ draining \in BOOLEAN
      /\ pc \in [Requests -> PCs] /\ interrupt \in [Requests -> Interrupts]
  BY DEF IInv, TypeOK
<1>2. PICK p \in Resting : pc' = [pc EXCEPT ![r] = p]
  BY DEF ResumeInterrupted, Resting
<1>3. /\ pc[r] = "waiting" /\ draining' = draining
      /\ interrupt' = [interrupt EXCEPT ![r] = "none"]
      /\ HandBackInterrupted(r)
  BY DEF ResumeInterrupted
<1>4. CASE future[r] = "granted"
  <2>1. ReleaseSlot(r) /\ r \in Owners
    BY <1>3, <1>4 DEF HandBackInterrupted, Owners
  <2> QED  BY <1>2, <1>3, <2>1, ReleasePreserves
<1>5. CASE future[r] # "granted"
  <2>1. AbandonWait(r) /\ r \notin Owners
    BY <1>3, <1>5 DEF HandBackInterrupted, Owners
  <2>2. p # "waiting" /\ p # "holding" /\ p \in PCs
    BY DEF Resting, PCs
  <2>3. future' = [future EXCEPT ![r] = "none"] /\ active' = active
    BY <2>1 DEF AbandonWait
  <2>4. Owners' = Owners
    BY <1>1, <1>2, <2>1, <2>2, <2>3 DEF Owners
  <2>5. SlotAccounting'
    BY <2>3, <2>4 DEF IInv, SlotAccounting
  <2>6. WaitSound'
    BY <1>1, <1>2, <1>3, <2>2, <2>3 DEF IInv, WaitSound
  <2>7. /\ Len(waiters) <= QueueLimit /\ Len(waiters) \in Nat
        /\ \A i, j \in 1..Len(waiters) : waiters[i] = waiters[j] => i = j
        /\ \A x \in Requests :
              future[x] = "pending" <=> \E i \in 1..Len(waiters) : waiters[i] = x
    BY <1>1 DEF IInv, QueueSound
  <2>8. CASE ~Contains(waiters, r)
    <3>1. waiters' = waiters
      BY <2>1, <2>8 DEF AbandonWait
    <3>2. \A i \in 1..Len(waiters) : waiters[i] # r
      BY <2>8 DEF Contains
    <3>3. QueueSound'
      BY <1>1, <2>3, <2>7, <3>1, <3>2 DEF QueueSound
    <3>4. TypeOK' /\ WorkConserving'
      BY <1>1, <1>2, <1>3, <2>2, <2>3, <3>1
         DEF TypeOK, IInv, WorkConserving, Futures, Interrupts
    <3> QED  BY <2>5, <2>6, <3>3, <3>4 DEF IInv
  <2>9. CASE Contains(waiters, r)
    <3>1. PICK k \in 1..Len(waiters) : waiters[k] = r /\ waiters' = RemoveAt(waiters, k)
      BY <2>1, <2>9 DEF AbandonWait
    <3>2. /\ waiters' \in Seq(Requests) /\ Len(waiters') = Len(waiters) - 1
          /\ \A j \in 1..(Len(waiters) - 1) :
                waiters'[j] = IF j < k THEN waiters[j] ELSE waiters[j + 1]
      BY <1>1, <3>1, RemoveAtFacts
    <3>3. \A i, j \in 1..Len(waiters') : waiters'[i] = waiters'[j] => i = j
      BY <2>7, <3>1, <3>2
    <3>4. ASSUME NEW x \in Requests, future'[x] = "pending"
          PROVE  \E i \in 1..Len(waiters') : waiters'[i] = x
      <4>1. x # r /\ future[x] = "pending"
        BY <1>1, <2>3, <3>4
      <4>2. PICK i \in 1..Len(waiters) : waiters[i] = x
        BY <2>7, <4>1
      <4>3. CASE i < k
        BY <2>7, <3>1, <3>2, <4>2, <4>3
      <4>4. CASE i > k
        <5>1. i - 1 \in 1..Len(waiters') /\ ~(i - 1 < k) /\ (i - 1) + 1 = i
          BY <2>7, <3>1, <3>2, <4>4
        <5> QED  BY <3>2, <4>2, <5>1
      <4> QED  BY <3>1, <4>1, <4>2, <4>3, <4>4
    <3>5. ASSUME NEW x \in Requests, NEW i \in 1..Len(waiters'), waiters'[i] = x
          PROVE  future'[x] = "pending"
      <4>1. PICK j \in 1..Len(waiters) : j # k /\ waiters[j] = x
        BY <2>7, <3>1, <3>2, <3>5
      <4>2. x # r /\ future[x] = "pending"
        BY <2>7, <3>1, <4>1
      <4> QED  BY <1>1, <2>3, <4>2
    <3>6. QueueSound'
      BY <2>7, <3>2, <3>3, <3>4, <3>5 DEF QueueSound
    <3>7. TypeOK'
      BY <1>1, <1>2, <1>3, <2>2, <2>3, <3>2 DEF TypeOK, Futures, Interrupts
    <3>8. WorkConserving'
      <4>1. waiters # <<>>
        BY <1>1, <3>1
      <4> QED  BY <1>3, <2>3, <4>1 DEF IInv, WorkConserving
    <3> QED  BY <2>5, <2>6, <3>6, <3>7, <3>8 DEF IInv
  <2> QED  BY <2>8, <2>9
<1> QED  BY <1>4, <1>5

LEMMA ResumeGrantedPreserves ==
  ASSUME IInv, NEW r \in Requests, ResumeGranted(r)
  PROVE  IInv'
<1>1. /\ active \in 0..Concurrency /\ waiters \in Seq(Requests)
      /\ future \in [Requests -> Futures] /\ draining \in BOOLEAN
      /\ pc \in [Requests -> PCs] /\ interrupt \in [Requests -> Interrupts]
  BY DEF IInv, TypeOK
<1>2. /\ pc[r] = "waiting" /\ interrupt[r] = "none" /\ future[r] = "granted"
      /\ draining' = draining /\ interrupt' = interrupt /\ r \in Owners
  BY DEF ResumeGranted, Owners
<1>3. CASE draining
  <2>1. ReleaseSlot(r) /\ pc' = [pc EXCEPT ![r] = "refused"]
    BY <1>3 DEF ResumeGranted
  <2>2. interrupt' = [interrupt EXCEPT ![r] = "none"] /\ "refused" \in Resting
    BY <1>1, <1>2 DEF Resting
  <2> QED  BY <1>2, <2>1, <2>2, ReleasePreserves
<1>4. CASE ~draining
  <2>1. /\ future' = [future EXCEPT ![r] = "none"]
        /\ pc' = [pc EXCEPT ![r] = "holding"]
        /\ active' = active /\ waiters' = waiters
    BY <1>4 DEF ResumeGranted
  <2>2. Owners' = Owners
    BY <1>1, <1>2, <2>1 DEF Owners
  <2>3. SlotAccounting' /\ WorkConserving'
    BY <1>2, <2>1, <2>2 DEF IInv, SlotAccounting, WorkConserving
  <2>4. TypeOK'
    BY <1>1, <1>2, <2>1 DEF TypeOK, Futures, PCs
  <2>5. WaitSound'
    BY <1>1, <1>2, <2>1 DEF IInv, WaitSound
  <2>6. QueueSound'
    BY <1>1, <1>2, <2>1 DEF IInv, QueueSound
  <2> QED  BY <2>3, <2>4, <2>5, <2>6 DEF IInv
<1> QED  BY <1>3, <1>4

LEMMA ResumeDeniedPreserves ==
  ASSUME IInv, NEW r \in Requests, ResumeDenied(r)
  PROVE  IInv'
<1>1. /\ active \in 0..Concurrency /\ waiters \in Seq(Requests)
      /\ future \in [Requests -> Futures] /\ draining \in BOOLEAN
      /\ pc \in [Requests -> PCs] /\ interrupt \in [Requests -> Interrupts]
  BY DEF IInv, TypeOK
<1>2. /\ pc[r] = "waiting" /\ interrupt[r] = "none" /\ future[r] = "denied"
      /\ future' = [future EXCEPT ![r] = "none"]
      /\ pc' = [pc EXCEPT ![r] = "refused"]
      /\ UNCHANGED <<active, draining, waiters, interrupt>>
  BY DEF ResumeDenied
<1>3. Owners' = Owners
  BY <1>1, <1>2 DEF Owners
<1>4. SlotAccounting' /\ WorkConserving'
  BY <1>2, <1>3 DEF IInv, SlotAccounting, WorkConserving
<1>5. TypeOK'
  BY <1>1, <1>2 DEF TypeOK, Futures, PCs, Resting
<1>6. WaitSound'
  BY <1>1, <1>2 DEF IInv, WaitSound
<1>7. QueueSound'
  BY <1>1, <1>2 DEF IInv, QueueSound
<1> QED  BY <1>4, <1>5, <1>6, <1>7 DEF IInv

LEMMA FinishPreserves ==
  ASSUME IInv, NEW r \in Requests, Finish(r)
  PROVE  IInv'
<1>1. PICK p \in Resting : Leave(r, p)
  BY DEF Finish, Resting
<1>2. interrupt \in [Requests -> Interrupts] /\ interrupt[r] = "none" /\ r \in Owners
  BY <1>1 DEF Leave, IInv, TypeOK, WaitSound, Owners
<1>3. interrupt' = [interrupt EXCEPT ![r] = "none"]
  BY <1>1, <1>2 DEF Leave
<1> QED  BY <1>1, <1>2, <1>3, ReleasePreserves DEF Leave

LEMMA InterruptPreserves ==
  ASSUME IInv, NEW r \in Requests, QueueTimeout(r) \/ Disconnect(r)
  PROVE  IInv'
<1>1. PICK w \in {"timeout", "cancel"} :
        /\ pc[r] = "waiting" /\ interrupt' = [interrupt EXCEPT ![r] = w]
        /\ UNCHANGED <<active, draining, waiters, future, pc>>
  BY DEF QueueTimeout, Disconnect
<1>2. TypeOK' /\ WaitSound'
  BY <1>1 DEF IInv, TypeOK, WaitSound, Interrupts
<1>3. Owners' = Owners
  BY <1>1 DEF Owners
<1>4. QueueSound' /\ WorkConserving' /\ SlotAccounting'
  BY <1>1, <1>3 DEF IInv, QueueSound, WorkConserving, SlotAccounting
<1> QED  BY <1>2, <1>4 DEF IInv

LEMMA DrainPreserves ==
  ASSUME IInv, Drain
  PROVE  IInv'
<1>1. /\ active \in 0..Concurrency /\ waiters \in Seq(Requests)
      /\ future \in [Requests -> Futures] /\ draining \in BOOLEAN
      /\ pc \in [Requests -> PCs] /\ interrupt \in [Requests -> Interrupts]
  BY DEF IInv, TypeOK
<1>2. /\ draining' = TRUE /\ waiters' = <<>>
      /\ UNCHANGED <<active, pc, interrupt>>
  BY DEF Drain
<1>3. \A x \in Requests : future'[x] = IF future[x] = "pending" THEN "denied" ELSE future[x]
  <2> TAKE x \in Requests
  <2>1. future[x] = "pending" => Contains(waiters, x)
    BY DEF IInv, QueueSound, Contains
  <2> QED  BY <1>1, <2>1 DEF Drain
<1>4. future' \in [Requests -> Futures]
  BY <1>1 DEF Drain, Futures
<1>5. Owners' = Owners
  BY <1>2, <1>3 DEF Owners
<1>6. SlotAccounting' /\ WorkConserving'
  BY <1>2, <1>5 DEF IInv, SlotAccounting, WorkConserving
<1>7. TypeOK'
  BY <1>1, <1>2, <1>4, EmptySeq DEF TypeOK
<1>8. WaitSound'
  BY <1>2, <1>3 DEF IInv, WaitSound
<1>9. QueueSound'
  BY QueueLimitAssumption, <1>2, <1>3 DEF QueueSound
<1> QED  BY <1>6, <1>7, <1>8, <1>9 DEF IInv

LEMMA NextPreserves == IInv /\ [Next]_vars => IInv'
<1> SUFFICES ASSUME IInv, [Next]_vars PROVE IInv'
  OBVIOUS
<1>1. CASE Drain
  BY <1>1, DrainPreserves
<1>2. ASSUME NEW r \in Requests, Step(r)
      PROVE  IInv'
  <2>1. CASE AcquireSlot(r)
    BY <2>1, AcquirePreserves
  <2>2. CASE Resume(r)
    BY <2>2, ResumeInterruptedPreserves, ResumeGrantedPreserves, ResumeDeniedPreserves
       DEF Resume
  <2>3. CASE Finish(r)
    BY <2>3, FinishPreserves
  <2>4. CASE QueueTimeout(r) \/ Disconnect(r)
    BY <2>4, InterruptPreserves
  <2> QED  BY <1>2, <2>1, <2>2, <2>3, <2>4 DEF Step
<1>3. CASE UNCHANGED vars
  <2>1. Owners' = Owners
    BY <1>3 DEF vars, Owners
  <2> QED  BY <1>3, <2>1
           DEF vars, IInv, TypeOK, WaitSound, QueueSound, WorkConserving, SlotAccounting
<1> QED  BY <1>1, <1>2, <1>3 DEF Next

\* The inductive invariant holds of every behaviour of the bookkeeping.
THEOREM Invariance == Spec => []IInv
BY InitIInv, NextPreserves, PTL DEF Spec

\* All state of Gateway.acquire_slot and release_slot keeps its type; in
\* particular active never leaves 0..concurrency.
THEOREM TypeCorrect == Spec => []TypeOK
<1>1. IInv => TypeOK
  BY DEF IInv
<1> QED  BY <1>1, Invariance, PTL

\* Gateway.active counts exactly the reserved slots.
THEOREM SlotsAccounted == Spec => []SlotAccounting
<1>1. IInv => SlotAccounting
  BY DEF IInv
<1> QED  BY <1>1, Invariance, PTL

\* No wake-up is lost in acquire_slot and release_slot: the deque is empty
\* whenever a slot is free.
THEOREM NoLostWakeup == Spec => []WorkConserving
<1>1. IInv => WorkConserving
  BY DEF IInv
<1> QED  BY <1>1, Invariance, PTL

\* The deque of Gateway.waiters holds exactly the unresolved waits.
THEOREM QueueCorrect == Spec => []QueueSound
<1>1. IInv => QueueSound
  BY DEF IInv
<1> QED  BY <1>1, Invariance, PTL

\* At most Gateway.concurrency requests run upstream at a time.
THEOREM ConcurrencyBounded == Spec => []ConcurrencyBound
<1>1. IInv => ConcurrencyBound
  <2> SUFFICES ASSUME IInv PROVE ConcurrencyBound
    OBVIOUS
  <2> DEFINE H == {r \in Requests : pc[r] = "holding"}
  <2>1. H \in SUBSET Owners
    BY DEF Owners
  <2>2. IsFiniteSet(Owners) /\ active = Cardinality(Owners) /\ active \in 0..Concurrency
    BY DEF IInv, SlotAccounting, TypeOK
  <2> HIDE DEF H
  <2>3. IsFiniteSet(H) /\ Cardinality(H) <= Cardinality(Owners)
    BY <2>1, <2>2, FS_Subset
  <2>4. Cardinality(H) \in Nat
    BY <2>3, FS_CardinalityType
  <2>5. Cardinality(H) <= Concurrency
    BY <2>2, <2>3, <2>4, ConcurrencyAssumption
  <2> QED  BY <2>5 DEF ConcurrencyBound, H
<1> QED  BY <1>1, Invariance, PTL

LEMMA ReleaseMaps ==
  ASSUME IInv, NEW r \in Requests, r \in Owners, ReleaseSlot(r),
         NEW p \in Resting, pc' = [pc EXCEPT ![r] = p], draining' = draining
  PROVE  Pool!Return(r)
<1>1. /\ waiters \in Seq(Requests) /\ future \in [Requests -> Futures]
      /\ pc \in [Requests -> PCs] /\ p # "waiting" /\ p # "holding"
  BY DEF IInv, TypeOK, Resting
<1>2. CASE /\ waiters = <<>> /\ waiters' = <<>>
           /\ future' = [future EXCEPT ![r] = "none"]
  <2>1. Owners' = Owners \ {r}
    BY <1>1, <1>2 DEF Owners
  <2> QED  BY <1>2, <2>1 DEF Pool!Return
<1>3. CASE /\ waiters # <<>> /\ waiters' = Tail(waiters)
           /\ Head(waiters) # r /\ future[Head(waiters)] = "pending"
           /\ future' = [future EXCEPT ![Head(waiters)] = "granted", ![r] = "none"]
  <2> DEFINE h == Head(waiters)
  <2>1. h \in Requests
    BY <1>1, <1>3
  <2>2. /\ h # r /\ future[h] = "pending" /\ h \notin Owners
        /\ future' = [future EXCEPT ![h] = "granted", ![r] = "none"]
    BY <1>1, <1>3, <2>1 DEF Owners, IInv, WaitSound
  <2> HIDE DEF h
  <2>3. Owners' = (Owners \ {r}) \cup {h}
    BY <1>1, <2>1, <2>2 DEF Owners
  <2>4. ~draining
    BY <1>3 DEF IInv, WorkConserving
  <2> QED  BY <1>3, <2>3, <2>4 DEF Pool!Return, h
<1> QED  BY <1>2, <1>3, ReleaseCases

LEMMA AcquireMaps ==
  ASSUME IInv, NEW r \in Requests, AcquireSlot(r)
  PROVE  Pool!Admit(r) \/ Pool!Enqueue(r) \/ UNCHANGED Pool!vars
<1>1. /\ future \in [Requests -> Futures] /\ pc \in [Requests -> PCs]
      /\ active \in Nat /\ active = Cardinality(Owners)
  BY ConcurrencyAssumption DEF IInv, TypeOK, SlotAccounting
<1>2. pc[r] \in Resting /\ future[r] = "none" /\ r \notin Owners
  BY <1>1 DEF AcquireSlot, Resting, IInv, WaitSound, Futures, Owners
<1>3. SlotFree <=> Pool!SlotFree /\ waiters = <<>>
  <2>1. Pool!Cardinality(Owners) = Cardinality(Owners)
    BY DEF Cardinality, Pool!Cardinality, IsFiniteSet, Pool!IsFiniteSet
  <2> QED  BY <1>1, <2>1 DEF SlotFree, Pool!SlotFree
<1>4. CASE AcquireAtOnce(r)
  <2>1. Owners' = Owners \cup {r}
    BY <1>1, <1>4 DEF AcquireAtOnce, Owners
  <2> QED  BY <1>2, <1>3, <1>4, <2>1 DEF AcquireAtOnce, Pool!Admit
<1>5. CASE AcquireQueued(r)
  <2>1. Owners' = Owners
    BY <1>1, <1>2, <1>5 DEF AcquireQueued, Owners, Resting
  <2>2. ~Pool!Contains(waiters, r)
    BY <1>2 DEF IInv, QueueSound, Pool!Contains
  <2> QED  BY <1>2, <1>3, <1>5, <2>1, <2>2 DEF AcquireQueued, Pool!Enqueue
<1>6. CASE AcquireRefused(r)
  <2>1. Owners' = Owners
    BY <1>1, <1>2, <1>6 DEF AcquireRefused, Owners, Resting
  <2> QED  BY <1>6, <2>1 DEF AcquireRefused, Pool!vars
<1> QED  BY <1>4, <1>5, <1>6 DEF AcquireSlot

LEMMA ResumeMaps ==
  ASSUME IInv, NEW r \in Requests, Resume(r)
  PROVE  Pool!Withdraw(r) \/ Pool!Return(r) \/ UNCHANGED Pool!vars
<1>1. future \in [Requests -> Futures] /\ pc \in [Requests -> PCs]
  BY DEF IInv, TypeOK
<1>2. pc[r] = "waiting" /\ draining' = draining
  BY DEF Resume, ResumeInterrupted, ResumeGranted, ResumeDenied
<1>3. CASE ResumeInterrupted(r)
  <2>1. PICK p \in Resting : pc' = [pc EXCEPT ![r] = p]
    BY <1>3 DEF ResumeInterrupted, Resting
  <2>2. CASE future[r] = "granted"
    <3>1. ReleaseSlot(r) /\ r \in Owners
      BY <1>3, <2>2 DEF ResumeInterrupted, HandBackInterrupted, Owners
    <3> QED  BY <1>2, <2>1, <3>1, ReleaseMaps
  <2>3. CASE future[r] # "granted"
    <3>1. AbandonWait(r) /\ r \notin Owners
      BY <1>2, <1>3, <2>3 DEF ResumeInterrupted, HandBackInterrupted, Owners
    <3>2. Owners' = Owners
      BY <1>1, <2>1, <3>1 DEF AbandonWait, Owners, Resting
    <3>3. CASE Contains(waiters, r)
      BY <1>2, <3>1, <3>2, <3>3 DEF AbandonWait, Pool!Withdraw, RemoveAt, Pool!RemoveAt
    <3>4. CASE ~Contains(waiters, r)
      BY <1>2, <3>1, <3>2, <3>4 DEF AbandonWait, Pool!vars
    <3> QED  BY <3>3, <3>4
  <2> QED  BY <2>2, <2>3
<1>4. CASE ResumeGranted(r)
  <2>1. CASE draining
    <3>1. /\ ReleaseSlot(r) /\ r \in Owners
          /\ pc' = [pc EXCEPT ![r] = "refused"] /\ "refused" \in Resting
      BY <1>4, <2>1 DEF ResumeGranted, Owners, Resting
    <3> QED  BY <1>2, <3>1, ReleaseMaps
  <2>2. CASE ~draining
    <3>1. Owners' = Owners
      BY <1>1, <1>4, <2>2 DEF ResumeGranted, Owners
    <3> QED  BY <1>4, <2>2, <3>1 DEF ResumeGranted, Pool!vars
  <2> QED  BY <2>1, <2>2
<1>5. CASE ResumeDenied(r)
  <2>1. Owners' = Owners
    BY <1>1, <1>5 DEF ResumeDenied, Owners
  <2> QED  BY <1>5, <2>1 DEF ResumeDenied, Pool!vars
<1> QED  BY <1>3, <1>4, <1>5 DEF Resume

LEMMA StepMaps == IInv /\ [Next]_vars => [Pool!Next]_Pool!vars
<1> SUFFICES ASSUME IInv, [Next]_vars PROVE [Pool!Next]_Pool!vars
  OBVIOUS
<1>1. CASE Drain
  <2>1. \A x \in Requests : future'[x] = "granted" <=> future[x] = "granted"
    BY <1>1 DEF Drain, IInv, TypeOK, Futures
  <2>2. Owners' = Owners
    BY <1>1, <2>1 DEF Drain, Owners
  <2>3. Pool!Close
    BY <1>1, <2>2 DEF Drain, Pool!Close
  <2> QED  BY <2>3 DEF Pool!Next
<1>2. ASSUME NEW r \in Requests, Step(r)
      PROVE  [Pool!Next]_Pool!vars
  <2>1. CASE AcquireSlot(r)
    BY <2>1, AcquireMaps DEF Pool!Next
  <2>2. CASE Resume(r)
    BY <2>2, ResumeMaps DEF Pool!Next
  <2>3. CASE Finish(r)
    <3>1. PICK p \in Resting :
            /\ ReleaseSlot(r) /\ r \in Owners /\ draining' = draining
            /\ pc' = [pc EXCEPT ![r] = p]
      BY <2>3 DEF Finish, Leave, Owners, Resting
    <3>2. Pool!Return(r)
      BY <3>1, ReleaseMaps
    <3> QED  BY <3>2 DEF Pool!Next
  <2>4. CASE QueueTimeout(r) \/ Disconnect(r)
    <3>1. Owners' = Owners
      BY <2>4 DEF QueueTimeout, Disconnect, Owners
    <3> QED  BY <2>4, <3>1 DEF QueueTimeout, Disconnect, Pool!vars
  <2> QED  BY <1>2, <2>1, <2>2, <2>3, <2>4 DEF Step
<1>3. CASE UNCHANGED vars
  <2>1. Owners' = Owners
    BY <1>3 DEF vars, Owners
  <2> QED  BY <1>3, <2>1 DEF vars, Pool!vars
<1> QED  BY <1>1, <1>2, <1>3 DEF Next

\* acquire_slot, release_slot and the draining setter implement the abstract
\* pool: whatever futures, timers and disconnects do, a client sees a bounded
\* FIFO queue in front of Gateway.concurrency slots.
THEOREM Refinement == Spec => ImplementsAdmissionQueue
<1>1. Init => Pool!Init
  <2> SUFFICES ASSUME Init PROVE Pool!Init
    OBVIOUS
  <2>1. Owners = {}
    BY DEF Init, Owners
  <2> QED  BY <2>1 DEF Init, Pool!Init
<1> QED  BY <1>1, Invariance, StepMaps, PTL DEF Spec, ImplementsAdmissionQueue, Pool!Spec

\* Once draining is set no request starts to run: a granted wait that resumes
\* gives its slot back, and acquire_slot refuses.
THEOREM DrainStops == Spec => DrainStopsAdmission
<1>1. IInv /\ [Next]_vars =>
        [\A r \in Requests : draining /\ pc'[r] = "holding" => pc[r] = "holding"]_vars
  <2> SUFFICES ASSUME IInv, Next, NEW r \in Requests, draining, pc'[r] = "holding"
               PROVE  pc[r] = "holding"
    OBVIOUS
  <2>1. pc \in [Requests -> PCs]
    BY DEF IInv, TypeOK
  <2>2. CASE Drain
    BY <2>2 DEF Drain
  <2>3. ASSUME NEW x \in Requests, Step(x)
        PROVE  pc[r] = "holding"
    <3>1. \/ pc' = pc
          \/ \E p \in Resting \cup {"waiting"} : pc' = [pc EXCEPT ![x] = p]
      BY <2>3 DEF Step, AcquireSlot, AcquireAtOnce, AcquireQueued, AcquireRefused, Resume,
                  ResumeInterrupted, ResumeGranted, ResumeDenied, Finish, Leave, QueueTimeout,
                  Disconnect, Resting
    <3> QED  BY <2>1, <3>1 DEF Resting
  <2> QED  BY <2>2, <2>3 DEF Next
<1> QED  BY <1>1, Invariance, PTL DEF Spec, DrainStopsAdmission

\* Only the oldest waiter is ever granted a slot, and only by release_slot.
LEMMA GrantsHead ==
  ASSUME IInv, Next, NEW j \in 1..Len(waiters), future'[waiters[j]] = "granted"
  PROVE  j = 1
<1>1. /\ waiters \in Seq(Requests) /\ future \in [Requests -> Futures]
      /\ \A i, k \in 1..Len(waiters) : waiters[i] = waiters[k] => i = k
  BY DEF IInv, TypeOK, QueueSound
<1>2. waiters[j] \in Requests /\ future[waiters[j]] = "pending"
  BY <1>1 DEF IInv, QueueSound
<1>3. ASSUME NEW r \in Requests, ReleaseSlot(r), r \in Owners
      PROVE  j = 1
  <2>1. \/ future' = [future EXCEPT ![r] = "none"]
        \/ /\ waiters # <<>> /\ Head(waiters) # r
           /\ future' = [future EXCEPT ![Head(waiters)] = "granted", ![r] = "none"]
    BY <1>3, ReleaseCases
  <2>2. waiters[j] = Head(waiters)
    BY <1>1, <1>2, <2>1
  <2> QED  BY <1>1, <2>2
<1>4. CASE Drain
  BY <1>1, <1>2, <1>4 DEF Drain
<1>5. ASSUME NEW r \in Requests, Step(r)
      PROVE  j = 1
  <2>1. CASE AcquireSlot(r)
    BY <1>1, <1>2, <2>1 DEF AcquireSlot, AcquireAtOnce, AcquireQueued, AcquireRefused
  <2>2. CASE ResumeInterrupted(r)
    <3>1. CASE future[r] = "granted"
      BY <1>3, <2>2, <3>1 DEF ResumeInterrupted, HandBackInterrupted, Owners
    <3>2. CASE future[r] # "granted"
      BY <1>1, <1>2, <2>2, <3>2 DEF ResumeInterrupted, HandBackInterrupted, AbandonWait
    <3> QED  BY <3>1, <3>2
  <2>3. CASE ResumeGranted(r)
    <3>1. CASE draining
      BY <1>3, <2>3, <3>1 DEF ResumeGranted, Owners
    <3>2. CASE ~draining
      BY <1>1, <1>2, <2>3, <3>2 DEF ResumeGranted
    <3> QED  BY <3>1, <3>2
  <2>4. CASE ResumeDenied(r)
    BY <1>1, <1>2, <2>4 DEF ResumeDenied
  <2>5. CASE Finish(r)
    BY <1>3, <2>5 DEF Finish, Leave, Owners
  <2>6. CASE QueueTimeout(r) \/ Disconnect(r)
    BY <1>2, <2>6 DEF QueueTimeout, Disconnect
  <2> QED  BY <1>5, <2>1, <2>2, <2>3, <2>4, <2>5, <2>6 DEF Step, Resume
<1> QED  BY <1>4, <1>5 DEF Next

\* No request overtakes one that was queued before it, whatever races with the
\* grant, and no newcomer passes the queue.
THEOREM Fifo == Spec => NoOvertaking
<1> DEFINE InOrder == \A i, j \in 1..Len(waiters) :
             i < j /\ future'[waiters[j]] = "granted" => ~Contains(waiters', waiters[i])
           NoPassing == \A r \in Requests :
             pc[r] \in Resting /\ pc'[r] = "holding" => waiters = <<>>
<1>1. ASSUME IInv, Next PROVE InOrder
  <2> SUFFICES ASSUME NEW i \in 1..Len(waiters), NEW j \in 1..Len(waiters),
                      i < j, future'[waiters[j]] = "granted"
               PROVE  FALSE
    OBVIOUS
  <2>1. j = 1
    BY <1>1, GrantsHead
  <2>2. Len(waiters) \in Nat
    BY <1>1 DEF IInv, TypeOK
  <2> QED  BY <2>1, <2>2
<1>2. ASSUME IInv, Next PROVE NoPassing
  <2> SUFFICES ASSUME NEW r \in Requests, pc[r] \in Resting, pc'[r] = "holding"
               PROVE  waiters = <<>>
    OBVIOUS
  <2>1. pc \in [Requests -> PCs] /\ pc[r] # "waiting" /\ pc[r] # "holding"
    BY <1>2 DEF IInv, TypeOK, Resting
  <2>2. ~Drain
    BY <2>1 DEF Drain
  <2>3. PICK x \in Requests : Step(x)
    BY <1>2, <2>2 DEF Next
  <2>4. AcquireAtOnce(x)
    BY <2>1, <2>3 DEF Step, AcquireSlot, AcquireQueued, AcquireRefused, Resume,
                      ResumeInterrupted, ResumeGranted, ResumeDenied, Finish, Leave,
                      QueueTimeout, Disconnect, Resting
  <2> QED  BY <2>4 DEF AcquireAtOnce, SlotFree
<1>3. IInv /\ [Next]_vars => [InOrder /\ NoPassing]_vars
  BY <1>1, <1>2
<1> QED  BY <1>3, Invariance, PTL DEF Spec, NoOvertaking

=============================================================================
