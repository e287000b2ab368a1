--------------------------- MODULE SlotOwnerProofs ---------------------------
(***************************************************************************)
(* The leases of SlotOwner.tla, proved for every number of calls.          *)
(***************************************************************************)
EXTENDS SlotOwner, TLAPS

\* An observer's parts make an observer.
LEMMA ObserverType ==
    ASSUME NEW of \in Requests \cup {None}, NEW kind \in {"none", "cleanup", "witness"},
           NEW step \in {"none", "guard", "sent", "read"}, NEW dead \in BOOLEAN,
           NEW after \in BOOLEAN, NEW seen \in SlotState
    PROVE  Observer(of, kind, step, dead, after, seen) \in Probe
BY DEF Observer, Probe

\* A slot on which nothing was run yet.
LEMMA IdleType == Idle \in SlotState
BY DEF Idle, SlotState

\* A probe's parts have their types.
LEMMA ProbeParts ==
    ASSUME TypeOK, NEW role \in Roles
    PROVE  /\ probe[role] \in Probe
           /\ probe[role].of \in Requests \cup {None}
           /\ probe[role].kind \in {"none", "cleanup", "witness"}
           /\ probe[role].step \in {"none", "guard", "sent", "read"}
           /\ probe[role].dead \in BOOLEAN /\ probe[role].after \in BOOLEAN
           /\ probe[role].seen \in SlotState
           /\ probe[role].seen.busy \in BOOLEAN /\ probe[role].seen.task \in TaskIds \cup {None}
           /\ slot[role] \in SlotState
BY DEF TypeOK, Probe, SlotState

\* _probe starts an observer on a role without one.
LEMMA ObserveType ==
    ASSUME TypeOK, NEW r \in Requests, NEW kind \in {"cleanup", "witness"}, Observe(r, kind)
    PROVE  probe' \in [Roles -> Probe]
<1> DEFINE o == Observer(r, kind, "guard", FALSE, FALSE, Idle)
<1>1. o \in Probe
  BY ObserverType, IdleType
<1>2. probe' = [probe EXCEPT ![Role[r]] = o] /\ probe \in [Roles -> Probe]
  BY DEF Observe, TypeOK
<1> HIDE DEF o
<1> QED  BY <1>1, <1>2

\* An observer that sends keeps its type, and its lease's budget of two.
LEMMA SendType ==
    ASSUME TypeOK, NEW role \in Roles, ProbeSound(role), ProbeSend(role)
    PROVE  probe' \in [Roles -> Probe] /\ gets' \in [Requests -> 0..2]
<1> DEFINE p == probe[role]
           o == Observer(p.of, p.kind, "sent", FALSE, terminal[p.of] \/ active[p.of] # None, Idle)
<1>1. p.step = "guard" /\ p.of \in Requests
  BY ProbeParts DEF ProbeSend, ProbeSound
<1>2. o \in Probe
  BY ObserverType, IdleType, ProbeParts
<1>3. probe' = [probe EXCEPT ![role] = o] /\ probe \in [Roles -> Probe]
  BY DEF ProbeSend, TypeOK
<1>4. probe' \in [Roles -> Probe]
  <2> HIDE DEF o
  <2> QED  BY <1>2, <1>3
<1>5. \/ gets' = gets
      \/ gets[p.of] < (IF cancelled[p.of] THEN 2 ELSE 1) /\ gets' = [gets EXCEPT ![p.of] = @ + 1]
  BY DEF ProbeSend
<1>6. gets \in [Requests -> 0..2]
  BY DEF TypeOK
<1>7. gets' \in [Requests -> 0..2]
  <2> HIDE DEF p
  <2>1. CASE gets' = gets
    BY <1>6, <2>1
  <2>2. CASE gets[p.of] < (IF cancelled[p.of] THEN 2 ELSE 1) /\ gets' = [gets EXCEPT ![p.of] = @ + 1]
    <3>1. gets[p.of] \in 0..2 /\ gets[p.of] < 2
      BY <1>1, <1>6, <2>2
    <3>2. gets[p.of] + 1 \in 0..2
      BY <3>1
    <3> QED  BY <1>6, <2>2, <3>2
  <2> QED  BY <1>5, <2>1, <2>2
<1> QED  BY <1>4, <1>7

\* _cancel_observe observes at most twice.
LEMMA RetryType ==
    ASSUME TypeOK, NEW r \in Requests, CleanupProbe(r)
    PROVE  tries' \in [Requests -> 0..2] /\ cleanup' \in [Requests -> CleanupStates]
<1>1. tries \in [Requests -> 0..2] /\ cleanup \in [Requests -> CleanupStates]
  BY DEF TypeOK
<1>2. tries[r] < 2 /\ tries' = [tries EXCEPT ![r] = @ + 1]
  BY DEF CleanupProbe, Retried
<1>3. tries[r] + 1 \in 0..2
  BY <1>1, <1>2
<1>4. "probing" \in CleanupStates
  BY DEF CleanupStates
<1>5. cleanup' = [cleanup EXCEPT ![r] = "probing"]
  BY DEF CleanupProbe
<1> QED  BY <1>1, <1>2, <1>3, <1>4, <1>5

\* A freed slot still shows its last task.
LEMMA VacateType ==
    ASSUME TypeOK, NEW role \in Roles, Vacate(role)
    PROVE  slot' \in [Roles -> SlotState]
<1> DEFINE o == [busy |-> FALSE, task |-> slot[role].task]
<1>1. o \in SlotState
  BY ProbeParts DEF SlotState
<1>2. slot' = [slot EXCEPT ![role] = o] /\ slot \in [Roles -> SlotState]
  BY DEF Vacate, TypeOK
<1> HIDE DEF o
<1> QED  BY <1>1, <1>2

\* A busy slot shows its task.
LEMMA OccupyType ==
    ASSUME TypeOK, NEW role \in Roles, NEW t \in TaskIds, Occupy(role, t)
    PROVE  slot' \in [Roles -> SlotState]
<1> DEFINE o == [busy |-> TRUE, task |-> t]
<1>1. o \in SlotState
  BY DEF SlotState
<1>2. slot' = [slot EXCEPT ![role] = o] /\ slot \in [Roles -> SlotState]
  BY DEF Occupy, TypeOK
<1> HIDE DEF o
<1> QED  BY <1>1, <1>2

\* guard finds another process, listener or token: nothing of a receipt changes.
LEMMA DriftKeeps ==
    ASSUME SlotIInv, Drift
    PROVE  SlotIInv'
<1> USE NoneAssumption DEF callVars, sealVars, witnessVars, outcomeVars, roleVars, probeVars,
   cleanupVars, serverVars, Drift, Set
<1>1. TypeOK
  BY DEF SlotIInv
<1>3. TypeOK'
  BY <1>1 DEF TypeOK
<1>4. ASSUME NEW x \in Requests, Role[x] \in Roles, RequestSound(x) PROVE ThreadSound(x)'
  BY <1>4 DEF ThreadSound, RequestSound
<1>5. ASSUME NEW x \in Requests, Role[x] \in Roles, RequestSound(x) PROVE HoldSound(x)'
  BY <1>5 DEF HoldSound, RequestSound
<1>6. ASSUME NEW x \in Requests, Role[x] \in Roles, RequestSound(x) PROVE ObserverSound(x)'
  BY <1>6 DEF ObserverSound, RequestSound
<1>7. ASSUME NEW x \in Requests, Role[x] \in Roles, RequestSound(x) PROVE Accounted(x)'
  BY <1>7 DEF Accounted, RequestSound
<1>8. ASSUME NEW x \in Roles, ProbeSound(x), probe[x].of # None => probe[x].of \in Requests /\
             RequestSound(probe[x].of)
      PROVE ProbeSound(x)'
  BY <1>8 DEF ProbeSound
<1> DEFINE Known == TRUE
<1>9. ASSUME Foreign = {}, Known, NEW x \in Requests, Role[x] \in Roles, RequestSound(x),
             WorkSound(x)
      PROVE WorkSound(x)'
  BY <1>9 DEF WorkSound, NotBorrowed, Outstanding
<1>10. ASSUME Foreign = {}, Known, NEW x \in Roles, BusySound(x) PROVE BusySound(x)'
  BY <1>10 DEF BusySound
<1>11. ASSUME Foreign = {}, Known, NEW x \in Roles, ProbeSound(x), SeenSound(x), probe[x].of # None
              => probe[x].of \in Requests /\ RequestSound(probe[x].of)
       PROVE SeenSound(x)'
  BY <1>11 DEF SeenSound
<1>12. Known
  OBVIOUS
<1>13. \A x \in Roles : probe[x].of # None => probe[x].of \in Requests /\ RequestSound(probe[x].of)
  BY <1>1 DEF SlotIInv, TypeOK, Probe
<1> HIDE DEF Known
<1> QED  BY ONLY SlotIInv, RolesAssumption, <1>3, <1>4, <1>5, <1>6, <1>7, <1>8, <1>9, <1>10, <1>11,
   <1>12, <1>13 DEF SlotIInv, RequestSound

\* retire: a requester gives up, wherever its thread and its observers are.
LEMMA AbortKeeps ==
    ASSUME SlotIInv, NEW r \in Requests, Abort(r)
    PROVE  SlotIInv'
<1> USE NoneAssumption DEF callVars, witnessVars, outcomeVars, roleVars, probeVars, cleanupVars,
   serverVars, Abort, Retire, Set
<1>1. TypeOK
  BY DEF SlotIInv
<1>2. RequestSound(r) /\ Role[r] \in Roles
  BY RolesAssumption DEF SlotIInv
<1>3. TypeOK'
  BY <1>1, <1>2 DEF TypeOK
<1>4. ASSUME NEW x \in Requests, Role[x] \in Roles, RequestSound(x) PROVE ThreadSound(x)'
  BY <1>4 DEF ThreadSound, RequestSound
<1>5. ASSUME NEW x \in Requests, Role[x] \in Roles, RequestSound(x) PROVE HoldSound(x)'
  BY <1>5 DEF HoldSound, RequestSound
<1>6. ASSUME NEW x \in Requests, Role[x] \in Roles, RequestSound(x) PROVE ObserverSound(x)'
  BY <1>6 DEF ObserverSound, RequestSound
<1>7. ASSUME NEW x \in Requests, Role[x] \in Roles, RequestSound(x) PROVE Accounted(x)'
  BY <1>1, <1>2, <1>7 DEF TypeOK, Accounted, RequestSound
<1>8. ASSUME NEW x \in Roles, ProbeSound(x), probe[x].of # None => probe[x].of \in Requests /\
             RequestSound(probe[x].of)
      PROVE ProbeSound(x)'
  BY <1>8 DEF ProbeSound
<1> DEFINE Known == WorkSound(r)
<1>9. ASSUME Foreign = {}, Known, NEW x \in Requests, Role[x] \in Roles, RequestSound(x),
             WorkSound(x)
      PROVE WorkSound(x)'
  BY <1>9 DEF WorkSound, NotBorrowed, Outstanding
<1>10. ASSUME Foreign = {}, Known, NEW x \in Roles, BusySound(x) PROVE BusySound(x)'
  BY <1>10 DEF BusySound
<1>11. ASSUME Foreign = {}, Known, NEW x \in Roles, ProbeSound(x), SeenSound(x), probe[x].of # None
              => probe[x].of \in Requests /\ RequestSound(probe[x].of)
       PROVE SeenSound(x)'
  BY <1>11 DEF SeenSound
<1>12. Foreign = {} => Known
  BY <1>1 DEF SlotIInv, TypeOK, Probe, BusySound
<1>13. \A x \in Roles : probe[x].of # None => probe[x].of \in Requests /\ RequestSound(probe[x].of)
  BY <1>1 DEF SlotIInv, TypeOK, Probe
<1> HIDE DEF Known
<1> QED  BY ONLY SlotIInv, RolesAssumption, <1>3, <1>4, <1>5, <1>6, <1>7, <1>8, <1>9, <1>10, <1>11,
   <1>12, <1>13 DEF SlotIInv, RequestSound

\* revoke_for_drain: what was sent goes on, and only a planner's read is let finish.
LEMMA RevokeKeeps ==
    ASSUME SlotIInv, NEW r \in Requests, Revoke(r)
    PROVE  SlotIInv'
<1> USE NoneAssumption DEF callVars, witnessVars, outcomeVars, roleVars, probeVars, cleanupVars,
   serverVars, Revoke, Set
<1>1. TypeOK
  BY DEF SlotIInv
<1>2. RequestSound(r) /\ Role[r] \in Roles
  BY RolesAssumption DEF SlotIInv
<1>3. TypeOK'
  BY <1>1, <1>2 DEF TypeOK
<1>4. ASSUME NEW x \in Requests, Role[x] \in Roles, RequestSound(x) PROVE ThreadSound(x)'
  BY <1>4 DEF ThreadSound, RequestSound
<1>5. ASSUME NEW x \in Requests, Role[x] \in Roles, RequestSound(x) PROVE HoldSound(x)'
  BY <1>5 DEF HoldSound, RequestSound
<1>6. ASSUME NEW x \in Requests, Role[x] \in Roles, RequestSound(x) PROVE ObserverSound(x)'
  BY <1>6 DEF ObserverSound, RequestSound
<1>7. ASSUME NEW x \in Requests, Role[x] \in Roles, RequestSound(x) PROVE Accounted(x)'
  BY <1>1, <1>2, <1>7 DEF TypeOK, Accounted, RequestSound
<1>8. ASSUME NEW x \in Roles, ProbeSound(x), probe[x].of # None => probe[x].of \in Requests /\
             RequestSound(probe[x].of)
      PROVE ProbeSound(x)'
  BY <1>8 DEF ProbeSound
<1> DEFINE Known == WorkSound(r)
<1>9. ASSUME Foreign = {}, Known, NEW x \in Requests, Role[x] \in Roles, RequestSound(x),
             WorkSound(x)
      PROVE WorkSound(x)'
  BY <1>9 DEF WorkSound, NotBorrowed, Outstanding
<1>10. ASSUME Foreign = {}, Known, NEW x \in Roles, BusySound(x) PROVE BusySound(x)'
  BY <1>10 DEF BusySound
<1>11. ASSUME Foreign = {}, Known, NEW x \in Roles, ProbeSound(x), SeenSound(x), probe[x].of # None
              => probe[x].of \in Requests /\ RequestSound(probe[x].of)
       PROVE SeenSound(x)'
  BY <1>11 DEF SeenSound
<1>12. Foreign = {} => Known
  BY <1>1 DEF SlotIInv, TypeOK, Probe, BusySound
<1>13. \A x \in Roles : probe[x].of # None => probe[x].of \in Requests /\ RequestSound(probe[x].of)
  BY <1>1 DEF SlotIInv, TypeOK, Probe
<1> HIDE DEF Known
<1> QED  BY ONLY SlotIInv, RolesAssumption, <1>3, <1>4, <1>5, <1>6, <1>7, <1>8, <1>9, <1>10, <1>11,
   <1>12, <1>13 DEF SlotIInv, RequestSound

\* observe_active: a witness looks for what was sent and is not answered yet.
LEMMA WitnessKeeps ==
    ASSUME SlotIInv, NEW r \in Requests, Witness(r)
    PROVE  SlotIInv'
<1>0. /\ probe' \in [Roles -> Probe]
      /\ \/ probe' = probe
         \/ /\ probe[Role[r]].of = None
            /\ probe'[Role[r]].of = r /\ probe'[Role[r]].step = "guard" /\ ~probe'[Role[r]].after
            /\ probe'[Role[r]].kind = "witness"
            /\ \A x \in Roles \ {Role[r]} : probe'[x] = probe[x]
  <2>1. CASE UNCHANGED probe
    BY <2>1 DEF SlotIInv, TypeOK
  <2>2. CASE Observe(r, "witness")
    <3>1. probe' \in [Roles -> Probe] /\ probe \in [Roles -> Probe]
      BY <2>2, ObserveType DEF SlotIInv, TypeOK
    <3>2. Observer(r, "witness", "guard", FALSE, FALSE, Idle).of = r
      BY DEF Observer
    <3>3. Observer(r, "witness", "guard", FALSE, FALSE, Idle).step = "guard"
      BY DEF Observer
    <3>4. /\ ~Observer(r, "witness", "guard", FALSE, FALSE, Idle).after
          /\ Observer(r, "witness", "guard", FALSE, FALSE, Idle).kind = "witness"
      BY DEF Observer
    <3> QED  BY <2>2, <3>1, <3>2, <3>3, <3>4, RolesAssumption DEF Observe
  <2> QED  BY <2>1, <2>2 DEF Witness
<1> USE NoneAssumption DEF callVars, sealVars, witnessVars, outcomeVars, roleVars, serverVars,
   Witness, Observe, Set, Idle, NoProbe, Observer
<1>1. TypeOK
  BY DEF SlotIInv
<1>2. RequestSound(r) /\ Role[r] \in Roles
  BY RolesAssumption DEF SlotIInv
<1>3. TypeOK'
  BY <1>0, <1>1 DEF TypeOK
<1>4. ASSUME NEW x \in Requests, Role[x] \in Roles, RequestSound(x) PROVE ThreadSound(x)'
  BY <1>4 DEF ThreadSound, RequestSound
<1>5. ASSUME NEW x \in Requests, Role[x] \in Roles, RequestSound(x) PROVE HoldSound(x)'
  BY <1>5 DEF HoldSound, RequestSound
<1>6. ASSUME NEW x \in Requests, Role[x] \in Roles, RequestSound(x) PROVE ObserverSound(x)'
  <2>1. CASE probe' = probe
    BY <1>1, <1>2, <1>6, <2>1 DEF TypeOK, RequestSound, ObserverSound
  <2>2. CASE probe' # probe
    <3>1. CASE Role[x] = Role[r]
      <4>1. /\ probe'[Role[x]].of = r /\ ~probe'[Role[x]].after /\ probe'[Role[x]].kind = "witness"
            /\ probe[Role[x]].of = None
        BY <1>0, <2>2, <3>1
      <4>2. CASE x = r
        <5>1. witnessed'[r] /\ inferred[r] /\ released[r] = "" /\ ~witnessed[r]
          BY <1>1 DEF TypeOK
        <5> QED  BY <1>6, <4>1, <4>2, <5>1 DEF RequestSound, ObserverSound
      <4>3. CASE x # r
        <5>1. witnessed'[x] = witnessed[x]
          BY <1>1, <4>3 DEF TypeOK
        <5> QED  BY <1>6, <4>1, <4>3, <5>1 DEF RequestSound, ObserverSound
      <4> QED  BY <4>2, <4>3
    <3>2. CASE Role[x] # Role[r]
      <4>1. probe'[Role[x]] = probe[Role[x]] /\ x # r
        BY <1>0, <1>2, <1>6, <3>2 DEF TypeOK
      <4> QED  BY <1>1, <1>6, <4>1 DEF TypeOK, RequestSound, ObserverSound
    <3> QED  BY <3>1, <3>2
  <2> QED  BY <2>1, <2>2
<1>7. ASSUME NEW x \in Requests, Role[x] \in Roles, RequestSound(x) PROVE Accounted(x)'
  BY <1>7 DEF Accounted, RequestSound
<1>8. ASSUME NEW x \in Roles, ProbeSound(x), probe[x].of # None => probe[x].of \in Requests /\
             RequestSound(probe[x].of)
      PROVE ProbeSound(x)'
  <2>1. CASE probe' = probe
    BY <1>8, <2>1 DEF ProbeSound
  <2>2. CASE probe' # probe
    <3>1. CASE x = Role[r]
      BY <1>0, <1>1, <2>2, <3>1 DEF TypeOK, ProbeSound
    <3>2. CASE x # Role[r]
      <4>1. probe'[x] = probe[x]
        BY <1>0, <1>1, <3>2 DEF TypeOK
      <4> QED  BY <1>8, <4>1 DEF ProbeSound
    <3> QED  BY <3>1, <3>2
  <2> QED  BY <2>1, <2>2
<1> DEFINE Known == WorkSound(r)
<1>9. ASSUME Foreign = {}, Known, NEW x \in Requests, Role[x] \in Roles, RequestSound(x),
             WorkSound(x)
      PROVE WorkSound(x)'
  BY <1>9 DEF WorkSound, NotBorrowed, Outstanding
<1>10. ASSUME Foreign = {}, Known, NEW x \in Roles, BusySound(x) PROVE BusySound(x)'
  BY <1>10 DEF BusySound
<1>11. ASSUME Foreign = {}, Known, NEW x \in Roles, ProbeSound(x), SeenSound(x), probe[x].of # None
              => probe[x].of \in Requests /\ RequestSound(probe[x].of)
       PROVE SeenSound(x)'
  BY <1>1, <1>0, <1>2, <1>11 DEF TypeOK, SeenSound, ObserverSound, BusySound, Begun, RequestSound
<1>12. Foreign = {} => Known
  BY <1>1 DEF SlotIInv, TypeOK, Probe, BusySound
<1>13. \A x \in Roles : probe[x].of # None => probe[x].of \in Requests /\ RequestSound(probe[x].of)
  BY <1>1 DEF SlotIInv, TypeOK, Probe
<1> HIDE DEF Known
<1> QED  BY ONLY SlotIInv, RolesAssumption, <1>3, <1>4, <1>5, <1>6, <1>7, <1>8, <1>9, <1>10, <1>11,
   <1>12, <1>13 DEF SlotIInv, RequestSound

\* A call asks for a role.
LEMMA AskKeeps ==
    ASSUME SlotIInv, NEW r \in Requests, Ask(r)
    PROVE  SlotIInv'
<1> USE NoneAssumption DEF sealVars, witnessVars, outcomeVars, roleVars, probeVars, cleanupVars,
   serverVars, Ask, Set
<1>1. TypeOK
  BY DEF SlotIInv
<1>2. RequestSound(r) /\ Role[r] \in Roles
  BY RolesAssumption DEF SlotIInv
<1>3. TypeOK'
  BY <1>1, <1>2 DEF TypeOK, CallStates
<1>4. ASSUME NEW x \in Requests, Role[x] \in Roles, RequestSound(x) PROVE ThreadSound(x)'
  BY <1>1, <1>2, <1>4 DEF TypeOK, ThreadSound, RequestSound
<1>5. ASSUME NEW x \in Requests, Role[x] \in Roles, RequestSound(x) PROVE HoldSound(x)'
  BY <1>5 DEF HoldSound, RequestSound
<1>6. ASSUME NEW x \in Requests, Role[x] \in Roles, RequestSound(x) PROVE ObserverSound(x)'
  BY <1>1, <1>2, <1>6 DEF TypeOK, ObserverSound, RequestSound
<1>7. ASSUME NEW x \in Requests, Role[x] \in Roles, RequestSound(x) PROVE Accounted(x)'
  BY <1>1, <1>2, <1>7 DEF TypeOK, Accounted, RequestSound
<1>8. ASSUME NEW x \in Roles, ProbeSound(x), probe[x].of # None => probe[x].of \in Requests /\
             RequestSound(probe[x].of)
      PROVE ProbeSound(x)'
  BY <1>8 DEF ProbeSound
<1> DEFINE Known == WorkSound(r)
<1>9. ASSUME Foreign = {}, Known, NEW x \in Requests, Role[x] \in Roles, RequestSound(x),
             WorkSound(x)
      PROVE WorkSound(x)'
  BY <1>9 DEF WorkSound, NotBorrowed, Outstanding
<1>10. ASSUME Foreign = {}, Known, NEW x \in Roles, BusySound(x) PROVE BusySound(x)'
  BY <1>10 DEF BusySound
<1>11. ASSUME Foreign = {}, Known, NEW x \in Roles, ProbeSound(x), SeenSound(x), probe[x].of # None
              => probe[x].of \in Requests /\ RequestSound(probe[x].of)
       PROVE SeenSound(x)'
  BY <1>11 DEF SeenSound
<1>12. Foreign = {} => Known
  BY <1>1 DEF SlotIInv, TypeOK, Probe, BusySound
<1>13. \A x \in Roles : probe[x].of # None => probe[x].of \in Requests /\ RequestSound(probe[x].of)
  BY <1>1 DEF SlotIInv, TypeOK, Probe
<1> HIDE DEF Known
<1> QED  BY ONLY SlotIInv, RolesAssumption, <1>3, <1>4, <1>5, <1>6, <1>7, <1>8, <1>9, <1>10, <1>11,
   <1>12, <1>13 DEF SlotIInv, RequestSound

\* acquire: the role is free, so its last holder can have nothing on the slot.
LEMMA AcquireKeeps ==
    ASSUME SlotIInv, NEW r \in Requests, Acquire(r)
    PROVE  SlotIInv'
<1> USE NoneAssumption DEF sealVars, witnessVars, outcomeVars, probeVars, cleanupVars, serverVars,
   Acquire, Free, NotWaiting, Set
<1>1. TypeOK
  BY DEF SlotIInv
<1>2. RequestSound(r) /\ Role[r] \in Roles
  BY RolesAssumption DEF SlotIInv
<1>3. TypeOK'
  BY <1>1, <1>2 DEF TypeOK, CallStates, ThreadStates
<1>4. ASSUME NEW x \in Requests, Role[x] \in Roles, RequestSound(x) PROVE ThreadSound(x)'
  BY <1>1, <1>2, <1>4 DEF TypeOK, ThreadSound, RequestSound
<1>5. ASSUME NEW x \in Requests, Role[x] \in Roles, RequestSound(x) PROVE HoldSound(x)'
  BY <1>1, <1>2, <1>5 DEF TypeOK, HoldSound, RequestSound
<1>6. ASSUME NEW x \in Requests, Role[x] \in Roles, RequestSound(x) PROVE ObserverSound(x)'
  BY <1>1, <1>2, <1>6 DEF TypeOK, ObserverSound, ThreadSound, RequestSound
<1>7. ASSUME NEW x \in Requests, Role[x] \in Roles, RequestSound(x) PROVE Accounted(x)'
  BY <1>1, <1>2, <1>7 DEF TypeOK, Accounted, RequestSound
<1>8. ASSUME NEW x \in Roles, ProbeSound(x), probe[x].of # None => probe[x].of \in Requests /\
             RequestSound(probe[x].of)
      PROVE ProbeSound(x)'
  BY <1>8 DEF ProbeSound
<1> DEFINE Known == WorkSound(r)
<1>9. ASSUME Foreign = {}, Known, NEW x \in Requests, Role[x] \in Roles, RequestSound(x),
             WorkSound(x)
      PROVE WorkSound(x)'
  BY <1>1, <1>2, <1>9 DEF TypeOK, WorkSound, NotBorrowed, Outstanding, Begun
<1>10. ASSUME Foreign = {}, Known, NEW x \in Roles, BusySound(x) PROVE BusySound(x)'
  BY <1>10 DEF BusySound
<1>11. ASSUME Foreign = {}, Known, NEW x \in Roles, ProbeSound(x), SeenSound(x), probe[x].of # None
              => probe[x].of \in Requests /\ RequestSound(probe[x].of)
       PROVE SeenSound(x)'
  BY <1>1, <1>2, <1>11 DEF TypeOK, SeenSound, ObserverSound, ThreadSound, Begun, RequestSound
<1>12. Foreign = {} => Known
  BY <1>1 DEF SlotIInv, TypeOK, Probe, BusySound
<1>13. \A x \in Roles : probe[x].of # None => probe[x].of \in Requests /\ RequestSound(probe[x].of)
  BY <1>1 DEF SlotIInv, TypeOK, Probe
<1> HIDE DEF Known
<1> QED  BY ONLY SlotIInv, RolesAssumption, <1>3, <1>4, <1>5, <1>6, <1>7, <1>8, <1>9, <1>10, <1>11,
   <1>12, <1>13 DEF SlotIInv, RequestSound

\* A call waits for a released role; what it read before is stale.
LEMMA WaitKeeps ==
    ASSUME SlotIInv, NEW r \in Requests, Wait(r)
    PROVE  SlotIInv'
<1> USE NoneAssumption DEF sealVars, witnessVars, outcomeVars, probeVars, cleanupVars, serverVars,
   Wait, Free, Set
<1>1. TypeOK
  BY DEF SlotIInv
<1>2. RequestSound(r) /\ Role[r] \in Roles
  BY RolesAssumption DEF SlotIInv
<1>3. TypeOK'
  BY <1>1, <1>2 DEF TypeOK
<1>4. ASSUME NEW x \in Requests, Role[x] \in Roles, RequestSound(x) PROVE ThreadSound(x)'
  BY <1>4 DEF ThreadSound, RequestSound
<1>5. ASSUME NEW x \in Requests, Role[x] \in Roles, RequestSound(x) PROVE HoldSound(x)'
  BY <1>5 DEF HoldSound, RequestSound
<1>6. ASSUME NEW x \in Requests, Role[x] \in Roles, RequestSound(x) PROVE ObserverSound(x)'
  BY <1>6 DEF ObserverSound, RequestSound
<1>7. ASSUME NEW x \in Requests, Role[x] \in Roles, RequestSound(x) PROVE Accounted(x)'
  BY <1>7 DEF Accounted, RequestSound
<1>8. ASSUME NEW x \in Roles, ProbeSound(x), probe[x].of # None => probe[x].of \in Requests /\
             RequestSound(probe[x].of)
      PROVE ProbeSound(x)'
  BY <1>8 DEF ProbeSound
<1> DEFINE Known == WorkSound(r)
<1>9. ASSUME Foreign = {}, Known, NEW x \in Requests, Role[x] \in Roles, RequestSound(x),
             WorkSound(x)
      PROVE WorkSound(x)'
  BY <1>9 DEF WorkSound, NotBorrowed, Outstanding
<1>10. ASSUME Foreign = {}, Known, NEW x \in Roles, BusySound(x) PROVE BusySound(x)'
  BY <1>10 DEF BusySound
<1>11. ASSUME Foreign = {}, Known, NEW x \in Roles, ProbeSound(x), SeenSound(x), probe[x].of # None
              => probe[x].of \in Requests /\ RequestSound(probe[x].of)
       PROVE SeenSound(x)'
  BY <1>11 DEF SeenSound
<1>12. Foreign = {} => Known
  BY <1>1 DEF SlotIInv, TypeOK, Probe, BusySound
<1>13. \A x \in Roles : probe[x].of # None => probe[x].of \in Requests /\ RequestSound(probe[x].of)
  BY <1>1 DEF SlotIInv, TypeOK, Probe
<1> HIDE DEF Known
<1> QED  BY ONLY SlotIInv, RolesAssumption, <1>3, <1>4, <1>5, <1>6, <1>7, <1>8, <1>9, <1>10, <1>11,
   <1>12, <1>13 DEF SlotIInv, RequestSound

\* After the wait the identity and the token are read again.
LEMMA RefreshKeeps ==
    ASSUME SlotIInv, NEW r \in Requests, Refresh(r)
    PROVE  SlotIInv'
<1> USE NoneAssumption DEF sealVars, witnessVars, outcomeVars, roleVars, probeVars, cleanupVars,
   serverVars, Refresh, Set
<1>1. TypeOK
  BY DEF SlotIInv
<1>2. RequestSound(r) /\ Role[r] \in Roles
  BY RolesAssumption DEF SlotIInv
<1>3. TypeOK'
  BY <1>1, <1>2 DEF TypeOK
<1>4. ASSUME NEW x \in Requests, Role[x] \in Roles, RequestSound(x) PROVE ThreadSound(x)'
  BY <1>4 DEF ThreadSound, RequestSound
<1>5. ASSUME NEW x \in Requests, Role[x] \in Roles, RequestSound(x) PROVE HoldSound(x)'
  BY <1>5 DEF HoldSound, RequestSound
<1>6. ASSUME NEW x \in Requests, Role[x] \in Roles, RequestSound(x) PROVE ObserverSound(x)'
  BY <1>6 DEF ObserverSound, RequestSound
<1>7. ASSUME NEW x \in Requests, Role[x] \in Roles, RequestSound(x) PROVE Accounted(x)'
  BY <1>7 DEF Accounted, RequestSound
<1>8. ASSUME NEW x \in Roles, ProbeSound(x), probe[x].of # None => probe[x].of \in Requests /\
             RequestSound(probe[x].of)
      PROVE ProbeSound(x)'
  BY <1>8 DEF ProbeSound
<1> DEFINE Known == WorkSound(r)
<1>9. ASSUME Foreign = {}, Known, NEW x \in Requests, Role[x] \in Roles, RequestSound(x),
             WorkSound(x)
      PROVE WorkSound(x)'
  BY <1>9 DEF WorkSound, NotBorrowed, Outstanding
<1>10. ASSUME Foreign = {}, Known, NEW x \in Roles, BusySound(x) PROVE BusySound(x)'
  BY <1>10 DEF BusySound
<1>11. ASSUME Foreign = {}, Known, NEW x \in Roles, ProbeSound(x), SeenSound(x), probe[x].of # None
              => probe[x].of \in Requests /\ RequestSound(probe[x].of)
       PROVE SeenSound(x)'
  BY <1>11 DEF SeenSound
<1>12. Foreign = {} => Known
  BY <1>1 DEF SlotIInv, TypeOK, Probe, BusySound
<1>13. \A x \in Roles : probe[x].of # None => probe[x].of \in Requests /\ RequestSound(probe[x].of)
  BY <1>1 DEF SlotIInv, TypeOK, Probe
<1> HIDE DEF Known
<1> QED  BY ONLY SlotIInv, RolesAssumption, <1>3, <1>4, <1>5, <1>6, <1>7, <1>8, <1>9, <1>10, <1>11,
   <1>12, <1>13 DEF SlotIInv, RequestSound

\* A call that is refused has no lease and no thread.
LEMMA RefuseKeeps ==
    ASSUME SlotIInv, NEW r \in Requests, Refuse(r)
    PROVE  SlotIInv'
<1> USE NoneAssumption DEF sealVars, witnessVars, outcomeVars, probeVars, cleanupVars, serverVars,
   Refuse, NotWaiting, Set
<1>1. TypeOK
  BY DEF SlotIInv
<1>2. RequestSound(r) /\ Role[r] \in Roles
  BY RolesAssumption DEF SlotIInv
<1>3. TypeOK'
  BY <1>1, <1>2 DEF TypeOK, CallStates
<1>4. ASSUME NEW x \in Requests, Role[x] \in Roles, RequestSound(x) PROVE ThreadSound(x)'
  BY <1>1, <1>2, <1>4 DEF TypeOK, ThreadSound, RequestSound
<1>5. ASSUME NEW x \in Requests, Role[x] \in Roles, RequestSound(x) PROVE HoldSound(x)'
  BY <1>5 DEF HoldSound, RequestSound
<1>6. ASSUME NEW x \in Requests, Role[x] \in Roles, RequestSound(x) PROVE ObserverSound(x)'
  BY <1>1, <1>2, <1>6 DEF TypeOK, ObserverSound, RequestSound
<1>7. ASSUME NEW x \in Requests, Role[x] \in Roles, RequestSound(x) PROVE Accounted(x)'
  BY <1>1, <1>2, <1>7 DEF TypeOK, Accounted, ThreadSound, RequestSound
<1>8. ASSUME NEW x \in Roles, ProbeSound(x), probe[x].of # None => probe[x].of \in Requests /\
             RequestSound(probe[x].of)
      PROVE ProbeSound(x)'
  BY <1>8 DEF ProbeSound
<1> DEFINE Known == WorkSound(r)
<1>9. ASSUME Foreign = {}, Known, NEW x \in Requests, Role[x] \in Roles, RequestSound(x),
             WorkSound(x)
      PROVE WorkSound(x)'
  BY <1>9 DEF WorkSound, NotBorrowed, Outstanding
<1>10. ASSUME Foreign = {}, Known, NEW x \in Roles, BusySound(x) PROVE BusySound(x)'
  BY <1>10 DEF BusySound
<1>11. ASSUME Foreign = {}, Known, NEW x \in Roles, ProbeSound(x), SeenSound(x), probe[x].of # None
              => probe[x].of \in Requests /\ RequestSound(probe[x].of)
       PROVE SeenSound(x)'
  BY <1>11 DEF SeenSound
<1>12. Foreign = {} => Known
  BY <1>1 DEF SlotIInv, TypeOK, Probe, BusySound
<1>13. \A x \in Roles : probe[x].of # None => probe[x].of \in Requests /\ RequestSound(probe[x].of)
  BY <1>1 DEF SlotIInv, TypeOK, Probe
<1> HIDE DEF Known
<1> QED  BY ONLY SlotIInv, RolesAssumption, <1>3, <1>4, <1>5, <1>6, <1>7, <1>8, <1>9, <1>10, <1>11,
   <1>12, <1>13 DEF SlotIInv, RequestSound

\* completed: the answer was read in full.
LEMMA CompleteKeeps ==
    ASSUME SlotIInv, NEW r \in Requests, Complete(r)
    PROVE  SlotIInv'
<1> USE NoneAssumption DEF sealVars, witnessVars, outcomeVars, roleVars, probeVars, cleanupVars,
   serverVars, Complete, Set
<1>1. TypeOK
  BY DEF SlotIInv
<1>2. RequestSound(r) /\ Role[r] \in Roles
  BY RolesAssumption DEF SlotIInv
<1>3. TypeOK'
  BY <1>1, <1>2 DEF TypeOK, CallStates
<1>4. ASSUME NEW x \in Requests, Role[x] \in Roles, RequestSound(x) PROVE ThreadSound(x)'
  BY <1>1, <1>2, <1>4 DEF TypeOK, ThreadSound, RequestSound
<1>5. ASSUME NEW x \in Requests, Role[x] \in Roles, RequestSound(x) PROVE HoldSound(x)'
  BY <1>5 DEF HoldSound, RequestSound
<1>6. ASSUME NEW x \in Requests, Role[x] \in Roles, RequestSound(x) PROVE ObserverSound(x)'
  BY <1>1, <1>2, <1>6 DEF TypeOK, ObserverSound, RequestSound
<1>7. ASSUME NEW x \in Requests, Role[x] \in Roles, RequestSound(x) PROVE Accounted(x)'
  BY <1>1, <1>2, <1>7 DEF TypeOK, Accounted, RequestSound
<1>8. ASSUME NEW x \in Roles, ProbeSound(x), probe[x].of # None => probe[x].of \in Requests /\
             RequestSound(probe[x].of)
      PROVE ProbeSound(x)'
  BY <1>8 DEF ProbeSound
<1> DEFINE Known == WorkSound(r)
<1>9. ASSUME Foreign = {}, Known, NEW x \in Requests, Role[x] \in Roles, RequestSound(x),
             WorkSound(x)
      PROVE WorkSound(x)'
  BY <1>9 DEF WorkSound, NotBorrowed, Outstanding
<1>10. ASSUME Foreign = {}, Known, NEW x \in Roles, BusySound(x) PROVE BusySound(x)'
  BY <1>10 DEF BusySound
<1>11. ASSUME Foreign = {}, Known, NEW x \in Roles, ProbeSound(x), SeenSound(x), probe[x].of # None
              => probe[x].of \in Requests /\ RequestSound(probe[x].of)
       PROVE SeenSound(x)'
  BY <1>11 DEF SeenSound
<1>12. Foreign = {} => Known
  BY <1>1 DEF SlotIInv, TypeOK, Probe, BusySound
<1>13. \A x \in Roles : probe[x].of # None => probe[x].of \in Requests /\ RequestSound(probe[x].of)
  BY <1>1 DEF SlotIInv, TypeOK, Probe
<1> HIDE DEF Known
<1> QED  BY ONLY SlotIInv, RolesAssumption, <1>3, <1>4, <1>5, <1>6, <1>7, <1>8, <1>9, <1>10, <1>11,
   <1>12, <1>13 DEF SlotIInv, RequestSound

\* completed starts its observer once no witness is outstanding.
LEMMA ObserveEndKeeps ==
    ASSUME SlotIInv, NEW r \in Requests, ObserveEnd(r)
    PROVE  SlotIInv'
<1> USE NoneAssumption DEF sealVars, witnessVars, outcomeVars, roleVars, cleanupVars, serverVars,
   ObserveEnd, Observe, Set, Idle, NoProbe, Observer
<1>1. TypeOK
  BY DEF SlotIInv
<1>2. RequestSound(r) /\ Role[r] \in Roles
  BY RolesAssumption DEF SlotIInv
<1>3. TypeOK'
  BY <1>1, <1>2 DEF TypeOK, SlotState, TaskIds, Idle, NoProbe, Observer, Probe, ProbeSound, CallStates
<1>4. ASSUME NEW x \in Requests, Role[x] \in Roles, RequestSound(x) PROVE ThreadSound(x)'
  BY <1>1, <1>2, <1>4 DEF TypeOK, ThreadSound, RequestSound
<1>5. ASSUME NEW x \in Requests, Role[x] \in Roles, RequestSound(x) PROVE HoldSound(x)'
  BY <1>5 DEF HoldSound, RequestSound
<1>6. ASSUME NEW x \in Requests, Role[x] \in Roles, RequestSound(x) PROVE ObserverSound(x)'
  BY <1>1, <1>2, <1>6 DEF TypeOK, ObserverSound, ThreadSound, RequestSound
<1>7. ASSUME NEW x \in Requests, Role[x] \in Roles, RequestSound(x) PROVE Accounted(x)'
  BY <1>1, <1>2, <1>7 DEF TypeOK, Accounted, RequestSound
<1>8. ASSUME NEW x \in Roles, ProbeSound(x), probe[x].of # None => probe[x].of \in Requests /\
             RequestSound(probe[x].of)
      PROVE ProbeSound(x)'
  BY <1>1, <1>2, <1>8 DEF TypeOK, ProbeSound
<1> DEFINE Known == WorkSound(r)
<1>9. ASSUME Foreign = {}, Known, NEW x \in Requests, Role[x] \in Roles, RequestSound(x),
             WorkSound(x)
      PROVE WorkSound(x)'
  BY <1>9 DEF WorkSound, NotBorrowed, Outstanding
<1>10. ASSUME Foreign = {}, Known, NEW x \in Roles, BusySound(x) PROVE BusySound(x)'
  BY <1>10 DEF BusySound
<1>11. ASSUME Foreign = {}, Known, NEW x \in Roles, ProbeSound(x), SeenSound(x), probe[x].of # None
              => probe[x].of \in Requests /\ RequestSound(probe[x].of)
       PROVE SeenSound(x)'
  BY <1>1, <1>2, <1>11 DEF TypeOK, SeenSound, Begun
<1>12. Foreign = {} => Known
  BY <1>1 DEF SlotIInv, TypeOK, Probe, BusySound
<1>13. \A x \in Roles : probe[x].of # None => probe[x].of \in Requests /\ RequestSound(probe[x].of)
  BY <1>1 DEF SlotIInv, TypeOK, Probe
<1> HIDE DEF Known
<1> QED  BY ONLY SlotIInv, RolesAssumption, <1>3, <1>4, <1>5, <1>6, <1>7, <1>8, <1>9, <1>10, <1>11,
   <1>12, <1>13 DEF SlotIInv, RequestSound

\* finish: a lease that sent nothing is released, any other is kept with a reason.
LEMMA LeaveKeeps ==
    ASSUME SlotIInv, NEW r \in Requests, NEW hard \in BOOLEAN, Leave(r, hard)
    PROVE  SlotIInv'
<1> USE NoneAssumption
<1>1. TypeOK
  BY DEF SlotIInv
<1>2. RequestSound(r) /\ Role[r] \in Roles
  BY RolesAssumption DEF SlotIInv
<1>3. /\ call[r] \in {"working", "completing", "probing"} /\ call' = [call EXCEPT ![r] = "done"]
      /\ sealed' = [sealed EXCEPT ![r] = @ \/ hard \/ ~inferred[r]]
      /\ cancelled' = [cancelled EXCEPT ![r] = @ \/ hard]
      /\ UNCHANGED <<thread, inferred, terminal, active, roles, post, slot>>
      /\ UNCHANGED <<guarded, waiter, lastTask, invalid, gets, witnessed, tries, strangers>>
  BY DEF Leave, witnessVars, roleVars, serverVars
\* What the observers hold does not change, except that one may be abandoned.
<1>4. /\ probe' \in [Roles -> Probe]
      /\ \A role \in Roles : /\ probe'[role].of = probe[role].of /\ probe'[role].step = probe[role].step
                             /\ probe'[role].kind = probe[role].kind
                             /\ probe'[role].after = probe[role].after
                             /\ probe'[role].seen = probe[role].seen
  <2>1. CASE UNCHANGED probe
    BY <1>1, <2>1 DEF TypeOK
  <2>2. CASE Abandon(Role[r])
    <3> DEFINE p == probe[Role[r]]
    <3>1. Observer(p.of, p.kind, p.step, TRUE, p.after, p.seen) \in Probe
      <4>1. /\ p.of \in Requests \cup {None} /\ p.kind \in {"none", "cleanup", "witness"}
            /\ p.step \in {"none", "guard", "sent", "read"}
            /\ p.after \in BOOLEAN /\ p.seen \in SlotState
        BY <1>1, <1>2, ProbeParts
      <4> HIDE DEF p
      <4> QED  BY ONLY <4>1 DEF Observer, Probe
    <3> QED  BY <1>1, <1>2, <2>2, <3>1 DEF Abandon, TypeOK, Observer
  <2> QED  BY <2>1, <2>2 DEF Leave
<1>5. /\ released' \in [Requests -> Bases] /\ reason' \in [Requests -> Reasons]
      /\ cleanup' \in [Requests -> CleanupStates]
      /\ \A x \in Requests \ {r} : released'[x] = released[x] /\ reason'[x] = reason[x]
                                     /\ cleanup'[x] = cleanup[x]
  <2>1. /\ released \in [Requests -> Bases] /\ reason \in [Requests -> Reasons]
        /\ cleanup \in [Requests -> CleanupStates]
    BY <1>1 DEF TypeOK
  <2>2. "zero" \in Bases /\ "" \in Reasons /\ "open" \in Reasons /\ "waiting" \in CleanupStates
    BY DEF Bases, Reasons, CleanupStates
  <2>3. CASE released[r] # "" /\ UNCHANGED <<outcomeVars, cleanup>>
    BY <2>1, <2>3 DEF outcomeVars
  <2>4. CASE /\ released' = [released EXCEPT ![r] = "zero"] /\ reason' = [reason EXCEPT ![r] = ""]
             /\ UNCHANGED cleanup
    BY <2>1, <2>2, <2>4
  <2>5. CASE /\ reason' = [reason EXCEPT ![r] = IF @ = "" THEN "open" ELSE @]
             /\ cleanup' = [cleanup EXCEPT ![r] = IF cancelled'[r] THEN "waiting" ELSE @]
             /\ UNCHANGED released
    <3>1. reason[r] \in Reasons /\ cleanup[r] \in CleanupStates
      BY <2>1
    <3> QED  BY <2>1, <2>2, <2>5, <3>1
  <2> QED  BY <2>3, <2>4, <2>5 DEF Leave, Finish
<1>6. \/ released[r] # "" /\ released'[r] = released[r] /\ reason'[r] = reason[r] /\ cleanup'[r] = cleanup[r]
      \/ released[r] = "" /\ ~inferred[r] /\ released'[r] # "" /\ reason'[r] = "" /\ cleanup'[r] = cleanup[r]
      \/ released[r] = "" /\ inferred[r] /\ released'[r] = "" /\ reason'[r] # ""
  BY <1>1 DEF Leave, Finish, TypeOK, outcomeVars
<1>7. TypeOK'
  <2>1. call' \in [Requests -> CallStates] /\ sealed' \in [Requests -> BOOLEAN]
        /\ cancelled' \in [Requests -> BOOLEAN]
    BY <1>1, <1>3 DEF TypeOK, CallStates
  <2> QED  BY <1>1, <1>3, <1>4, <1>5, <2>1 DEF TypeOK
<1>8. ASSUME NEW x \in Requests, RequestSound(x) PROVE ThreadSound(x)'
  <2>1. CASE x = r
    BY <1>1, <1>2, <1>3, <1>5, <1>6, <2>1 DEF TypeOK, RequestSound, ThreadSound
  <2>2. CASE x # r
    BY <1>1, <1>3, <1>5, <1>8, <2>2 DEF TypeOK, RequestSound, ThreadSound
  <2> QED  BY <2>1, <2>2
<1>9. ASSUME NEW x \in Requests, RequestSound(x) PROVE HoldSound(x)'
  <2>1. CASE x = r
    BY <1>2, <1>3, <1>6, <2>1 DEF RequestSound, HoldSound
  <2>2. CASE x # r
    BY <1>3, <1>5, <1>9, <2>2 DEF RequestSound, HoldSound
  <2> QED  BY <2>1, <2>2
<1>10. ASSUME NEW x \in Requests, Role[x] \in Roles, RequestSound(x) PROVE ObserverSound(x)'
  <2>1. CASE x = r
    <3>1. call'[r] = "done"
      BY <1>1, <1>3 DEF TypeOK
    <3>2. cleanup'[r] # "none" \/ reason'[r] # "" => inferred[r]
      BY <1>2, <1>6 DEF RequestSound, ObserverSound
    <3>3. probe'[Role[r]].of = r => inferred[r] /\ released'[r] = ""
      BY <1>2, <1>4, <1>6 DEF RequestSound, ObserverSound
    <3> QED  BY <1>2, <1>3, <2>1, <3>1, <3>2, <3>3 DEF RequestSound, ObserverSound
  <2>2. CASE x # r
    <3>1. call'[x] = call[x]
      BY <1>1, <1>3, <2>2 DEF TypeOK
    <3> QED  BY <1>3, <1>4, <1>5, <1>10, <2>2, <3>1 DEF RequestSound, ObserverSound
  <2> QED  BY <2>1, <2>2
<1>11. ASSUME NEW x \in Requests, RequestSound(x) PROVE Accounted(x)'
  <2>1. CASE x = r
    BY <1>1, <1>2, <1>3, <1>6, <2>1 DEF TypeOK, RequestSound, Accounted
  <2>2. CASE x # r
    BY <1>1, <1>3, <1>5, <1>11, <2>2 DEF TypeOK, RequestSound, Accounted
  <2> QED  BY <2>1, <2>2
<1>12. ASSUME NEW x \in Roles, ProbeSound(x) PROVE ProbeSound(x)'
  BY <1>3, <1>4, <1>12 DEF ProbeSound
<1>13. ASSUME Foreign = {}, NEW x \in Requests, RequestSound(x), WorkSound(x) PROVE WorkSound(x)'
  <2>1. CASE x = r
    BY <1>2, <1>3, <1>6, <1>13, <2>1
       DEF RequestSound, ThreadSound, WorkSound, NotBorrowed, Outstanding
  <2>2. CASE x # r
    BY <1>3, <1>5, <1>13, <2>2 DEF WorkSound, NotBorrowed, Outstanding
  <2> QED  BY <2>1, <2>2
<1>14. ASSUME NEW x \in Roles, BusySound(x) PROVE BusySound(x)'
  BY <1>3, <1>14 DEF BusySound
<1>15. ASSUME NEW x \in Roles, SeenSound(x) PROVE SeenSound(x)'
  BY <1>3, <1>4, <1>15 DEF SeenSound
<1> QED
  BY ONLY SlotIInv, RolesAssumption, <1>7, <1>8, <1>9, <1>10, <1>11, <1>12, <1>13, <1>14, <1>15
     DEF SlotIInv, RequestSound

\* dispatch of the count of tokens: nothing is on a slot for it.
LEMMA DispatchCountKeeps ==
    ASSUME SlotIInv, NEW r \in Requests, DispatchCount(r)
    PROVE  SlotIInv'
<1> USE NoneAssumption DEF callVars, sealVars, witnessVars, outcomeVars, roleVars, probeVars,
   cleanupVars, serverVars, DispatchCount, ThreadStep, Set
<1>1. TypeOK
  BY DEF SlotIInv
<1>2. RequestSound(r) /\ Role[r] \in Roles
  BY RolesAssumption DEF SlotIInv
<1>3. TypeOK'
  BY <1>1, <1>2 DEF TypeOK, ThreadStates
<1>4. ASSUME NEW x \in Requests, Role[x] \in Roles, RequestSound(x) PROVE ThreadSound(x)'
  BY <1>1, <1>2, <1>4 DEF TypeOK, ThreadSound, RequestSound
<1>5. ASSUME NEW x \in Requests, Role[x] \in Roles, RequestSound(x) PROVE HoldSound(x)'
  BY <1>1, <1>2, <1>5 DEF TypeOK, HoldSound, RequestSound
<1>6. ASSUME NEW x \in Requests, Role[x] \in Roles, RequestSound(x) PROVE ObserverSound(x)'
  BY <1>6 DEF ObserverSound, RequestSound
<1>7. ASSUME NEW x \in Requests, Role[x] \in Roles, RequestSound(x) PROVE Accounted(x)'
  BY <1>1, <1>2, <1>7 DEF TypeOK, Accounted, RequestSound
<1>8. ASSUME NEW x \in Roles, ProbeSound(x), probe[x].of # None => probe[x].of \in Requests /\
             RequestSound(probe[x].of)
      PROVE ProbeSound(x)'
  BY <1>8 DEF ProbeSound
<1> DEFINE Known == WorkSound(r)
<1>9. ASSUME Foreign = {}, Known, NEW x \in Requests, Role[x] \in Roles, RequestSound(x),
             WorkSound(x)
      PROVE WorkSound(x)'
  BY <1>1, <1>2, <1>9 DEF TypeOK, WorkSound, NotBorrowed, Outstanding, Begun
<1>10. ASSUME Foreign = {}, Known, NEW x \in Roles, BusySound(x) PROVE BusySound(x)'
  BY <1>10 DEF BusySound
<1>11. ASSUME Foreign = {}, Known, NEW x \in Roles, ProbeSound(x), SeenSound(x), probe[x].of # None
              => probe[x].of \in Requests /\ RequestSound(probe[x].of)
       PROVE SeenSound(x)'
  BY <1>11 DEF SeenSound
<1>12. Foreign = {} => Known
  BY <1>1 DEF SlotIInv, TypeOK, Probe, BusySound
<1>13. \A x \in Roles : probe[x].of # None => probe[x].of \in Requests /\ RequestSound(probe[x].of)
  BY <1>1 DEF SlotIInv, TypeOK, Probe
<1> HIDE DEF Known
<1> QED  BY ONLY SlotIInv, RolesAssumption, <1>3, <1>4, <1>5, <1>6, <1>7, <1>8, <1>9, <1>10, <1>11,
   <1>12, <1>13 DEF SlotIInv, RequestSound

\* The count is back.
LEMMA CountedKeeps ==
    ASSUME SlotIInv, NEW r \in Requests, Counted(r)
    PROVE  SlotIInv'
<1> USE NoneAssumption DEF callVars, sealVars, witnessVars, outcomeVars, roleVars, probeVars,
   cleanupVars, serverVars, Counted, ThreadStep, Set
<1>1. TypeOK
  BY DEF SlotIInv
<1>2. RequestSound(r) /\ Role[r] \in Roles
  BY RolesAssumption DEF SlotIInv
<1>3. TypeOK'
  BY <1>1, <1>2 DEF TypeOK, ThreadStates
<1>4. ASSUME NEW x \in Requests, Role[x] \in Roles, RequestSound(x) PROVE ThreadSound(x)'
  BY <1>1, <1>2, <1>4 DEF TypeOK, ThreadSound, RequestSound
<1>5. ASSUME NEW x \in Requests, Role[x] \in Roles, RequestSound(x) PROVE HoldSound(x)'
  BY <1>1, <1>2, <1>5 DEF TypeOK, HoldSound, RequestSound
<1>6. ASSUME NEW x \in Requests, Role[x] \in Roles, RequestSound(x) PROVE ObserverSound(x)'
  BY <1>6 DEF ObserverSound, RequestSound
<1>7. ASSUME NEW x \in Requests, Role[x] \in Roles, RequestSound(x) PROVE Accounted(x)'
  BY <1>1, <1>2, <1>7 DEF TypeOK, Accounted, RequestSound
<1>8. ASSUME NEW x \in Roles, ProbeSound(x), probe[x].of # None => probe[x].of \in Requests /\
             RequestSound(probe[x].of)
      PROVE ProbeSound(x)'
  BY <1>8 DEF ProbeSound
<1> DEFINE Known == WorkSound(r)
<1>9. ASSUME Foreign = {}, Known, NEW x \in Requests, Role[x] \in Roles, RequestSound(x),
             WorkSound(x)
      PROVE WorkSound(x)'
  BY <1>1, <1>2, <1>9 DEF TypeOK, WorkSound, NotBorrowed, Outstanding, Begun
<1>10. ASSUME Foreign = {}, Known, NEW x \in Roles, BusySound(x) PROVE BusySound(x)'
  BY <1>10 DEF BusySound
<1>11. ASSUME Foreign = {}, Known, NEW x \in Roles, ProbeSound(x), SeenSound(x), probe[x].of # None
              => probe[x].of \in Requests /\ RequestSound(probe[x].of)
       PROVE SeenSound(x)'
  BY <1>11 DEF SeenSound
<1>12. Foreign = {} => Known
  BY <1>1 DEF SlotIInv, TypeOK, Probe, BusySound
<1>13. \A x \in Roles : probe[x].of # None => probe[x].of \in Requests /\ RequestSound(probe[x].of)
  BY <1>1 DEF SlotIInv, TypeOK, Probe
<1> HIDE DEF Known
<1> QED  BY ONLY SlotIInv, RolesAssumption, <1>3, <1>4, <1>5, <1>6, <1>7, <1>8, <1>9, <1>10, <1>11,
   <1>12, <1>13 DEF SlotIInv, RequestSound

\* dispatch: the attempt is counted while the lease is still held.
LEMMA DispatchInferenceKeeps ==
    ASSUME SlotIInv, NEW r \in Requests, DispatchInference(r)
    PROVE  SlotIInv'
<1> USE NoneAssumption DEF callVars, sealVars, outcomeVars, roleVars, probeVars, cleanupVars,
   serverVars, DispatchInference, ThreadStep, Dispatchable, Set
<1>1. TypeOK
  BY DEF SlotIInv
<1>2. RequestSound(r) /\ Role[r] \in Roles
  BY RolesAssumption DEF SlotIInv
<1>3. TypeOK'
  BY <1>1, <1>2 DEF TypeOK, ThreadStates
<1>4. ASSUME NEW x \in Requests, Role[x] \in Roles, RequestSound(x) PROVE ThreadSound(x)'
  BY <1>1, <1>2, <1>4 DEF TypeOK, ThreadSound, RequestSound
<1>5. ASSUME NEW x \in Requests, Role[x] \in Roles, RequestSound(x) PROVE HoldSound(x)'
  BY <1>1, <1>2, <1>5 DEF TypeOK, HoldSound, RequestSound
<1>6. ASSUME NEW x \in Requests, Role[x] \in Roles, RequestSound(x) PROVE ObserverSound(x)'
  BY <1>1, <1>2, <1>6 DEF TypeOK, ObserverSound, RequestSound
<1>7. ASSUME NEW x \in Requests, Role[x] \in Roles, RequestSound(x) PROVE Accounted(x)'
  BY <1>1, <1>2, <1>7 DEF TypeOK, Accounted, RequestSound
<1>8. ASSUME NEW x \in Roles, ProbeSound(x), probe[x].of # None => probe[x].of \in Requests /\
             RequestSound(probe[x].of)
      PROVE ProbeSound(x)'
  BY <1>8 DEF ProbeSound
<1> DEFINE Known == WorkSound(r)
<1>9. ASSUME Foreign = {}, Known, NEW x \in Requests, Role[x] \in Roles, RequestSound(x),
             WorkSound(x)
      PROVE WorkSound(x)'
  BY <1>1, <1>2, <1>9 DEF TypeOK, WorkSound, HoldSound, Accounted, NotBorrowed, Outstanding, Begun,
     RequestSound
<1>10. ASSUME Foreign = {}, Known, NEW x \in Roles, BusySound(x) PROVE BusySound(x)'
  BY <1>10 DEF BusySound
<1>11. ASSUME Foreign = {}, Known, NEW x \in Roles, ProbeSound(x), SeenSound(x), probe[x].of # None
              => probe[x].of \in Requests /\ RequestSound(probe[x].of)
       PROVE SeenSound(x)'
  BY <1>11 DEF SeenSound
<1>12. Foreign = {} => Known
  BY <1>1 DEF SlotIInv, TypeOK, Probe, BusySound
<1>13. \A x \in Roles : probe[x].of # None => probe[x].of \in Requests /\ RequestSound(probe[x].of)
  BY <1>1 DEF SlotIInv, TypeOK, Probe
<1> HIDE DEF Known
<1> QED  BY ONLY SlotIInv, RolesAssumption, <1>3, <1>4, <1>5, <1>6, <1>7, <1>8, <1>9, <1>10, <1>11,
   <1>12, <1>13 DEF SlotIInv, RequestSound

\* The inference POST is on its way.
LEMMA SendKeeps ==
    ASSUME SlotIInv, NEW r \in Requests, Send(r)
    PROVE  SlotIInv'
<1> USE NoneAssumption DEF callVars, sealVars, witnessVars, outcomeVars, roleVars, probeVars,
   cleanupVars, Send, ThreadStep, Set
<1>1. TypeOK
  BY DEF SlotIInv
<1>2. RequestSound(r) /\ Role[r] \in Roles
  BY RolesAssumption DEF SlotIInv
<1>3. TypeOK'
  BY <1>1, <1>2 DEF TypeOK, ThreadStates, PostStates
<1>4. ASSUME NEW x \in Requests, Role[x] \in Roles, RequestSound(x) PROVE ThreadSound(x)'
  BY <1>1, <1>2, <1>4 DEF TypeOK, ThreadSound, RequestSound
<1>5. ASSUME NEW x \in Requests, Role[x] \in Roles, RequestSound(x) PROVE HoldSound(x)'
  BY <1>1, <1>2, <1>5 DEF TypeOK, HoldSound, RequestSound
<1>6. ASSUME NEW x \in Requests, Role[x] \in Roles, RequestSound(x) PROVE ObserverSound(x)'
  BY <1>6 DEF ObserverSound, RequestSound
<1>7. ASSUME NEW x \in Requests, Role[x] \in Roles, RequestSound(x) PROVE Accounted(x)'
  BY <1>1, <1>2, <1>7 DEF TypeOK, Accounted, RequestSound
<1>8. ASSUME NEW x \in Roles, ProbeSound(x), probe[x].of # None => probe[x].of \in Requests /\
             RequestSound(probe[x].of)
      PROVE ProbeSound(x)'
  BY <1>8 DEF ProbeSound
<1> DEFINE Known == WorkSound(r)
<1>9. ASSUME Foreign = {}, Known, NEW x \in Requests, Role[x] \in Roles, RequestSound(x),
             WorkSound(x)
      PROVE WorkSound(x)'
  BY <1>1, <1>2, <1>9 DEF TypeOK, WorkSound, ThreadSound, NotBorrowed, Outstanding, Begun, RequestSound
<1>10. ASSUME Foreign = {}, Known, NEW x \in Roles, BusySound(x) PROVE BusySound(x)'
  BY <1>1, <1>2, <1>10 DEF TypeOK, BusySound, ThreadSound, RequestSound
<1>11. ASSUME Foreign = {}, Known, NEW x \in Roles, ProbeSound(x), SeenSound(x), probe[x].of # None
              => probe[x].of \in Requests /\ RequestSound(probe[x].of)
       PROVE SeenSound(x)'
  BY <1>1, <1>2, <1>11 DEF TypeOK, SeenSound, ProbeSound, ThreadSound, Begun, RequestSound
<1>12. Foreign = {} => Known
  BY <1>1 DEF SlotIInv, TypeOK, Probe, BusySound
<1>13. \A x \in Roles : probe[x].of # None => probe[x].of \in Requests /\ RequestSound(probe[x].of)
  BY <1>1 DEF SlotIInv, TypeOK, Probe
<1> HIDE DEF Known
<1> QED  BY ONLY SlotIInv, RolesAssumption, <1>3, <1>4, <1>5, <1>6, <1>7, <1>8, <1>9, <1>10, <1>11,
   <1>12, <1>13 DEF SlotIInv, RequestSound

\* The answer was read, so the server is done with the request or about to free its slot.
LEMMA ReadKeeps ==
    ASSUME SlotIInv, NEW r \in Requests, Read(r)
    PROVE  SlotIInv'
<1> USE NoneAssumption DEF callVars, sealVars, outcomeVars, roleVars, probeVars, cleanupVars,
   serverVars, Read, ThreadStep, Set
<1>1. TypeOK
  BY DEF SlotIInv
<1>2. RequestSound(r) /\ Role[r] \in Roles
  BY RolesAssumption DEF SlotIInv
<1>3. TypeOK'
  BY <1>1, <1>2 DEF TypeOK, ThreadStates
<1>4. ASSUME NEW x \in Requests, Role[x] \in Roles, RequestSound(x) PROVE ThreadSound(x)'
  BY <1>1, <1>2, <1>4 DEF TypeOK, ThreadSound, RequestSound
<1>5. ASSUME NEW x \in Requests, Role[x] \in Roles, RequestSound(x) PROVE HoldSound(x)'
  BY <1>1, <1>2, <1>5 DEF TypeOK, HoldSound, RequestSound
<1>6. ASSUME NEW x \in Requests, Role[x] \in Roles, RequestSound(x) PROVE ObserverSound(x)'
  BY <1>1, <1>2, <1>6 DEF TypeOK, ObserverSound, RequestSound
<1>7. ASSUME NEW x \in Requests, Role[x] \in Roles, RequestSound(x) PROVE Accounted(x)'
  BY <1>1, <1>2, <1>7 DEF TypeOK, Accounted, RequestSound
<1>8. ASSUME NEW x \in Roles, ProbeSound(x), probe[x].of # None => probe[x].of \in Requests /\
             RequestSound(probe[x].of)
      PROVE ProbeSound(x)'
  BY <1>1, <1>2, <1>8 DEF TypeOK, ProbeSound
<1> DEFINE Known == WorkSound(r)
<1>9. ASSUME Foreign = {}, Known, NEW x \in Requests, Role[x] \in Roles, RequestSound(x),
             WorkSound(x)
      PROVE WorkSound(x)'
  BY <1>1, <1>2, <1>9 DEF TypeOK, WorkSound, NotBorrowed, Outstanding, Begun
<1>10. ASSUME Foreign = {}, Known, NEW x \in Roles, BusySound(x) PROVE BusySound(x)'
  BY <1>10 DEF BusySound
<1>11. ASSUME Foreign = {}, Known, NEW x \in Roles, ProbeSound(x), SeenSound(x), probe[x].of # None
              => probe[x].of \in Requests /\ RequestSound(probe[x].of)
       PROVE SeenSound(x)'
  BY <1>11 DEF SeenSound
<1>12. Foreign = {} => Known
  BY <1>1 DEF SlotIInv, TypeOK, Probe, BusySound
<1>13. \A x \in Roles : probe[x].of # None => probe[x].of \in Requests /\ RequestSound(probe[x].of)
  BY <1>1 DEF SlotIInv, TypeOK, Probe
<1> HIDE DEF Known
<1> QED  BY ONLY SlotIInv, RolesAssumption, <1>3, <1>4, <1>5, <1>6, <1>7, <1>8, <1>9, <1>10, <1>11,
   <1>12, <1>13 DEF SlotIInv, RequestSound

\* A transaction ends without an answer; what it sent may still be on the slot.
LEMMA FailKeeps ==
    ASSUME SlotIInv, NEW r \in Requests, NEW hard \in BOOLEAN, Fail(r, hard)
    PROVE  SlotIInv'
<1> USE NoneAssumption DEF callVars, witnessVars, outcomeVars, roleVars, probeVars, cleanupVars,
   serverVars, Fail, Retire, Set
<1>1. TypeOK
  BY DEF SlotIInv
<1>2. RequestSound(r) /\ Role[r] \in Roles
  BY RolesAssumption DEF SlotIInv
<1>3. TypeOK'
  BY <1>1, <1>2 DEF TypeOK, ThreadStates
<1>4. ASSUME NEW x \in Requests, Role[x] \in Roles, RequestSound(x) PROVE ThreadSound(x)'
  BY <1>1, <1>2, <1>4 DEF TypeOK, ThreadSound, RequestSound
<1>5. ASSUME NEW x \in Requests, Role[x] \in Roles, RequestSound(x) PROVE HoldSound(x)'
  BY <1>1, <1>2, <1>5 DEF TypeOK, HoldSound, RequestSound
<1>6. ASSUME NEW x \in Requests, Role[x] \in Roles, RequestSound(x) PROVE ObserverSound(x)'
  BY <1>6 DEF ObserverSound, RequestSound
<1>7. ASSUME NEW x \in Requests, Role[x] \in Roles, RequestSound(x) PROVE Accounted(x)'
  BY <1>1, <1>2, <1>7 DEF TypeOK, Accounted, RequestSound
<1>8. ASSUME NEW x \in Roles, ProbeSound(x), probe[x].of # None => probe[x].of \in Requests /\
             RequestSound(probe[x].of)
      PROVE ProbeSound(x)'
  BY <1>8 DEF ProbeSound
<1> DEFINE Known == WorkSound(r)
<1>9. ASSUME Foreign = {}, Known, NEW x \in Requests, Role[x] \in Roles, RequestSound(x),
             WorkSound(x)
      PROVE WorkSound(x)'
  BY <1>1, <1>2, <1>9 DEF TypeOK, WorkSound, NotBorrowed, Outstanding, Begun
<1>10. ASSUME Foreign = {}, Known, NEW x \in Roles, BusySound(x) PROVE BusySound(x)'
  BY <1>10 DEF BusySound
<1>11. ASSUME Foreign = {}, Known, NEW x \in Roles, ProbeSound(x), SeenSound(x), probe[x].of # None
              => probe[x].of \in Requests /\ RequestSound(probe[x].of)
       PROVE SeenSound(x)'
  BY <1>11 DEF SeenSound
<1>12. Foreign = {} => Known
  BY <1>1 DEF SlotIInv, TypeOK, Probe, BusySound
<1>13. \A x \in Roles : probe[x].of # None => probe[x].of \in Requests /\ RequestSound(probe[x].of)
  BY <1>1 DEF SlotIInv, TypeOK, Probe
<1> HIDE DEF Known
<1> QED  BY ONLY SlotIInv, RolesAssumption, <1>3, <1>4, <1>5, <1>6, <1>7, <1>8, <1>9, <1>10, <1>11,
   <1>12, <1>13 DEF SlotIInv, RequestSound

\* _cancel_observe starts an observer for an unreleased lease.
LEMMA CleanupProbeKeeps ==
    ASSUME SlotIInv, NEW r \in Requests, CleanupProbe(r)
    PROVE  SlotIInv'
<1>0. /\ probe' \in [Roles -> Probe]
      /\ tries' \in [Requests -> 0..2] /\ cleanup' \in [Requests -> CleanupStates]
  BY RetryType, ObserveType DEF SlotIInv, CleanupProbe
<1> USE NoneAssumption DEF callVars, sealVars, witnessVars, outcomeVars, roleVars, serverVars,
   CleanupProbe, Observe, Retried, Set, Idle, NoProbe, Observer
<1>1. TypeOK
  BY DEF SlotIInv
<1>2. RequestSound(r) /\ Role[r] \in Roles
  BY RolesAssumption DEF SlotIInv
<1>3. TypeOK'
  BY <1>0, <1>1 DEF TypeOK
<1>4. ASSUME NEW x \in Requests, Role[x] \in Roles, RequestSound(x) PROVE ThreadSound(x)'
  BY <1>4 DEF ThreadSound, RequestSound
<1>5. ASSUME NEW x \in Requests, Role[x] \in Roles, RequestSound(x) PROVE HoldSound(x)'
  BY <1>5 DEF HoldSound, RequestSound
<1>6. ASSUME NEW x \in Requests, Role[x] \in Roles, RequestSound(x) PROVE ObserverSound(x)'
  BY <1>1, <1>0, <1>2, <1>6 DEF TypeOK, ObserverSound, RequestSound
<1>7. ASSUME NEW x \in Requests, Role[x] \in Roles, RequestSound(x) PROVE Accounted(x)'
  BY <1>7 DEF Accounted, RequestSound
<1>8. ASSUME NEW x \in Roles, ProbeSound(x), probe[x].of # None => probe[x].of \in Requests /\
             RequestSound(probe[x].of)
      PROVE ProbeSound(x)'
  BY <1>1, <1>0, <1>2, <1>8 DEF TypeOK, ProbeSound
<1> DEFINE Known == WorkSound(r)
<1>9. ASSUME Foreign = {}, Known, NEW x \in Requests, Role[x] \in Roles, RequestSound(x),
             WorkSound(x)
      PROVE WorkSound(x)'
  BY <1>9 DEF WorkSound, NotBorrowed, Outstanding
<1>10. ASSUME Foreign = {}, Known, NEW x \in Roles, BusySound(x) PROVE BusySound(x)'
  BY <1>10 DEF BusySound
<1>11. ASSUME Foreign = {}, Known, NEW x \in Roles, ProbeSound(x), SeenSound(x), probe[x].of # None
              => probe[x].of \in Requests /\ RequestSound(probe[x].of)
       PROVE SeenSound(x)'
  BY <1>1, <1>0, <1>2, <1>11 DEF TypeOK, SeenSound, Begun
<1>12. Foreign = {} => Known
  BY <1>1 DEF SlotIInv, TypeOK, Probe, BusySound
<1>13. \A x \in Roles : probe[x].of # None => probe[x].of \in Requests /\ RequestSound(probe[x].of)
  BY <1>1 DEF SlotIInv, TypeOK, Probe
<1> HIDE DEF Known
<1> QED  BY ONLY SlotIInv, RolesAssumption, <1>3, <1>4, <1>5, <1>6, <1>7, <1>8, <1>9, <1>10, <1>11,
   <1>12, <1>13 DEF SlotIInv, RequestSound

\* _cancel_observe goes on once its observer is gone.
LEMMA CleanupNextKeeps ==
    ASSUME SlotIInv, NEW r \in Requests, CleanupNext(r)
    PROVE  SlotIInv'
<1> USE NoneAssumption DEF callVars, sealVars, witnessVars, outcomeVars, roleVars, probeVars,
   serverVars, CleanupNext, Set
<1>1. TypeOK
  BY DEF SlotIInv
<1>2. RequestSound(r) /\ Role[r] \in Roles
  BY RolesAssumption DEF SlotIInv
<1>3. TypeOK'
  BY <1>1, <1>2 DEF TypeOK, CleanupStates
<1>4. ASSUME NEW x \in Requests, Role[x] \in Roles, RequestSound(x) PROVE ThreadSound(x)'
  BY <1>4 DEF ThreadSound, RequestSound
<1>5. ASSUME NEW x \in Requests, Role[x] \in Roles, RequestSound(x) PROVE HoldSound(x)'
  BY <1>5 DEF HoldSound, RequestSound
<1>6. ASSUME NEW x \in Requests, Role[x] \in Roles, RequestSound(x) PROVE ObserverSound(x)'
  BY <1>1, <1>2, <1>6 DEF TypeOK, ObserverSound, RequestSound
<1>7. ASSUME NEW x \in Requests, Role[x] \in Roles, RequestSound(x) PROVE Accounted(x)'
  BY <1>7 DEF Accounted, RequestSound
<1>8. ASSUME NEW x \in Roles, ProbeSound(x), probe[x].of # None => probe[x].of \in Requests /\
             RequestSound(probe[x].of)
      PROVE ProbeSound(x)'
  BY <1>8 DEF ProbeSound
<1> DEFINE Known == WorkSound(r)
<1>9. ASSUME Foreign = {}, Known, NEW x \in Requests, Role[x] \in Roles, RequestSound(x),
             WorkSound(x)
      PROVE WorkSound(x)'
  BY <1>9 DEF WorkSound, NotBorrowed, Outstanding
<1>10. ASSUME Foreign = {}, Known, NEW x \in Roles, BusySound(x) PROVE BusySound(x)'
  BY <1>10 DEF BusySound
<1>11. ASSUME Foreign = {}, Known, NEW x \in Roles, ProbeSound(x), SeenSound(x), probe[x].of # None
              => probe[x].of \in Requests /\ RequestSound(probe[x].of)
       PROVE SeenSound(x)'
  BY <1>11 DEF SeenSound
<1>12. Foreign = {} => Known
  BY <1>1 DEF SlotIInv, TypeOK, Probe, BusySound
<1>13. \A x \in Roles : probe[x].of # None => probe[x].of \in Requests /\ RequestSound(probe[x].of)
  BY <1>1 DEF SlotIInv, TypeOK, Probe
<1> HIDE DEF Known
<1> QED  BY ONLY SlotIInv, RolesAssumption, <1>3, <1>4, <1>5, <1>6, <1>7, <1>8, <1>9, <1>10, <1>11,
   <1>12, <1>13 DEF SlotIInv, RequestSound

\* _cancel_observe ends; the lease keeps its reason.
LEMMA CleanupOverKeeps ==
    ASSUME SlotIInv, NEW r \in Requests, CleanupOver(r)
    PROVE  SlotIInv'
<1> USE NoneAssumption DEF callVars, sealVars, witnessVars, outcomeVars, roleVars, probeVars,
   serverVars, CleanupOver, Set
<1>1. TypeOK
  BY DEF SlotIInv
<1>2. RequestSound(r) /\ Role[r] \in Roles
  BY RolesAssumption DEF SlotIInv
<1>3. TypeOK'
  BY <1>1, <1>2 DEF TypeOK, CleanupStates
<1>4. ASSUME NEW x \in Requests, Role[x] \in Roles, RequestSound(x) PROVE ThreadSound(x)'
  BY <1>4 DEF ThreadSound, RequestSound
<1>5. ASSUME NEW x \in Requests, Role[x] \in Roles, RequestSound(x) PROVE HoldSound(x)'
  BY <1>5 DEF HoldSound, RequestSound
<1>6. ASSUME NEW x \in Requests, Role[x] \in Roles, RequestSound(x) PROVE ObserverSound(x)'
  BY <1>1, <1>2, <1>6 DEF TypeOK, ObserverSound, RequestSound
<1>7. ASSUME NEW x \in Requests, Role[x] \in Roles, RequestSound(x) PROVE Accounted(x)'
  BY <1>7 DEF Accounted, RequestSound
<1>8. ASSUME NEW x \in Roles, ProbeSound(x), probe[x].of # None => probe[x].of \in Requests /\
             RequestSound(probe[x].of)
      PROVE ProbeSound(x)'
  BY <1>8 DEF ProbeSound
<1> DEFINE Known == WorkSound(r)
<1>9. ASSUME Foreign = {}, Known, NEW x \in Requests, Role[x] \in Roles, RequestSound(x),
             WorkSound(x)
      PROVE WorkSound(x)'
  BY <1>9 DEF WorkSound, NotBorrowed, Outstanding
<1>10. ASSUME Foreign = {}, Known, NEW x \in Roles, BusySound(x) PROVE BusySound(x)'
  BY <1>10 DEF BusySound
<1>11. ASSUME Foreign = {}, Known, NEW x \in Roles, ProbeSound(x), SeenSound(x), probe[x].of # None
              => probe[x].of \in Requests /\ RequestSound(probe[x].of)
       PROVE SeenSound(x)'
  BY <1>11 DEF SeenSound
<1>12. Foreign = {} => Known
  BY <1>1 DEF SlotIInv, TypeOK, Probe, BusySound
<1>13. \A x \in Roles : probe[x].of # None => probe[x].of \in Requests /\ RequestSound(probe[x].of)
  BY <1>1 DEF SlotIInv, TypeOK, Probe
<1> HIDE DEF Known
<1> QED  BY ONLY SlotIInv, RolesAssumption, <1>3, <1>4, <1>5, <1>6, <1>7, <1>8, <1>9, <1>10, <1>11,
   <1>12, <1>13 DEF SlotIInv, RequestSound

\* The server takes the request onto the idle slot.
LEMMA StartKeeps ==
    ASSUME SlotIInv, NEW r \in Requests, Start(r)
    PROVE  SlotIInv'
<1> USE NoneAssumption DEF callVars, sealVars, witnessVars, outcomeVars, roleVars, cleanupVars,
   probeVars, serverVars, serverOnly, Start, Occupy, Set
<1>1. TypeOK
  BY DEF SlotIInv
<1>2. RequestSound(r) /\ Role[r] \in Roles
  BY RolesAssumption DEF SlotIInv
<1>3. TypeOK'
  BY <1>1, <1>2 DEF TypeOK, SlotState, TaskIds, PostStates
<1>4. ASSUME NEW x \in Requests, Role[x] \in Roles, RequestSound(x) PROVE ThreadSound(x)'
  BY <1>1, <1>2, <1>4 DEF TypeOK, ThreadSound, RequestSound
<1>5. ASSUME NEW x \in Requests, Role[x] \in Roles, RequestSound(x) PROVE HoldSound(x)'
  BY <1>5 DEF HoldSound, RequestSound
<1>6. ASSUME NEW x \in Requests, Role[x] \in Roles, RequestSound(x) PROVE ObserverSound(x)'
  BY <1>6 DEF ObserverSound, RequestSound
<1>7. ASSUME NEW x \in Requests, Role[x] \in Roles, RequestSound(x) PROVE Accounted(x)'
  BY <1>7 DEF Accounted, RequestSound
<1>8. ASSUME NEW x \in Roles, ProbeSound(x), probe[x].of # None => probe[x].of \in Requests /\
             RequestSound(probe[x].of)
      PROVE ProbeSound(x)'
  BY <1>8 DEF ProbeSound
<1> DEFINE Known == WorkSound(r)
<1>9. ASSUME Foreign = {}, Known, NEW x \in Requests, Role[x] \in Roles, RequestSound(x),
             WorkSound(x)
      PROVE WorkSound(x)'
  BY <1>1, <1>2, <1>9 DEF TypeOK, WorkSound, NotBorrowed, Outstanding, Begun
<1>10. ASSUME Foreign = {}, Known, NEW x \in Roles, BusySound(x) PROVE BusySound(x)'
  BY <1>1, <1>2, <1>10 DEF TypeOK, BusySound
<1>11. ASSUME Foreign = {}, Known, NEW x \in Roles, ProbeSound(x), SeenSound(x), probe[x].of # None
              => probe[x].of \in Requests /\ RequestSound(probe[x].of)
       PROVE SeenSound(x)'
  BY <1>1, <1>2, <1>11 DEF TypeOK, SeenSound, Begun
<1>12. Foreign = {} => Known
  BY <1>1 DEF SlotIInv, TypeOK, Probe, BusySound
<1>13. \A x \in Roles : probe[x].of # None => probe[x].of \in Requests /\ RequestSound(probe[x].of)
  BY <1>1 DEF SlotIInv, TypeOK, Probe
<1> HIDE DEF Known
<1> QED  BY ONLY SlotIInv, RolesAssumption, <1>3, <1>4, <1>5, <1>6, <1>7, <1>8, <1>9, <1>10, <1>11,
   <1>12, <1>13 DEF SlotIInv, RequestSound

\* The server answers and still has the slot.
LEMMA AnswerKeeps ==
    ASSUME SlotIInv, NEW r \in Requests, Answer(r)
    PROVE  SlotIInv'
<1> USE NoneAssumption DEF callVars, sealVars, witnessVars, outcomeVars, roleVars, cleanupVars,
   probeVars, serverVars, serverOnly, Answer, Set
<1>1. TypeOK
  BY DEF SlotIInv
<1>2. RequestSound(r) /\ Role[r] \in Roles
  BY RolesAssumption DEF SlotIInv
<1>3. TypeOK'
  BY <1>1, <1>2 DEF TypeOK, PostStates
<1>4. ASSUME NEW x \in Requests, Role[x] \in Roles, RequestSound(x) PROVE ThreadSound(x)'
  BY <1>1, <1>2, <1>4 DEF TypeOK, ThreadSound, RequestSound
<1>5. ASSUME NEW x \in Requests, Role[x] \in Roles, RequestSound(x) PROVE HoldSound(x)'
  BY <1>5 DEF HoldSound, RequestSound
<1>6. ASSUME NEW x \in Requests, Role[x] \in Roles, RequestSound(x) PROVE ObserverSound(x)'
  BY <1>6 DEF ObserverSound, RequestSound
<1>7. ASSUME NEW x \in Requests, Role[x] \in Roles, RequestSound(x) PROVE Accounted(x)'
  BY <1>7 DEF Accounted, RequestSound
<1>8. ASSUME NEW x \in Roles, ProbeSound(x), probe[x].of # None => probe[x].of \in Requests /\
             RequestSound(probe[x].of)
      PROVE ProbeSound(x)'
  BY <1>8 DEF ProbeSound
<1> DEFINE Known == WorkSound(r)
<1>9. ASSUME Foreign = {}, Known, NEW x \in Requests, Role[x] \in Roles, RequestSound(x),
             WorkSound(x)
      PROVE WorkSound(x)'
  BY <1>1, <1>2, <1>9 DEF TypeOK, WorkSound, NotBorrowed, Outstanding, Begun
<1>10. ASSUME Foreign = {}, Known, NEW x \in Roles, BusySound(x) PROVE BusySound(x)'
  BY <1>1, <1>2, <1>10 DEF TypeOK, BusySound
<1>11. ASSUME Foreign = {}, Known, NEW x \in Roles, ProbeSound(x), SeenSound(x), probe[x].of # None
              => probe[x].of \in Requests /\ RequestSound(probe[x].of)
       PROVE SeenSound(x)'
  BY <1>1, <1>2, <1>11 DEF TypeOK, SeenSound, Begun
<1>12. Foreign = {} => Known
  BY <1>1 DEF SlotIInv, TypeOK, Probe, BusySound
<1>13. \A x \in Roles : probe[x].of # None => probe[x].of \in Requests /\ RequestSound(probe[x].of)
  BY <1>1 DEF SlotIInv, TypeOK, Probe
<1> HIDE DEF Known
<1> QED  BY ONLY SlotIInv, RolesAssumption, <1>3, <1>4, <1>5, <1>6, <1>7, <1>8, <1>9, <1>10, <1>11,
   <1>12, <1>13 DEF SlotIInv, RequestSound

\* The server frees the slot after its answer.
LEMMA EndKeeps ==
    ASSUME SlotIInv, NEW r \in Requests, End(r)
    PROVE  SlotIInv'
<1> USE NoneAssumption DEF callVars, sealVars, witnessVars, outcomeVars, roleVars, cleanupVars,
   probeVars, serverVars, serverOnly, End, Vacate, Set
<1>1. TypeOK
  BY DEF SlotIInv
<1>2. RequestSound(r) /\ Role[r] \in Roles
  BY RolesAssumption DEF SlotIInv
<1>3. TypeOK'
  BY <1>1, <1>2 DEF TypeOK, SlotState, TaskIds, PostStates
<1>4. ASSUME NEW x \in Requests, Role[x] \in Roles, RequestSound(x) PROVE ThreadSound(x)'
  BY <1>1, <1>2, <1>4 DEF TypeOK, ThreadSound, RequestSound
<1>5. ASSUME NEW x \in Requests, Role[x] \in Roles, RequestSound(x) PROVE HoldSound(x)'
  BY <1>5 DEF HoldSound, RequestSound
<1>6. ASSUME NEW x \in Requests, Role[x] \in Roles, RequestSound(x) PROVE ObserverSound(x)'
  BY <1>6 DEF ObserverSound, RequestSound
<1>7. ASSUME NEW x \in Requests, Role[x] \in Roles, RequestSound(x) PROVE Accounted(x)'
  BY <1>7 DEF Accounted, RequestSound
<1>8. ASSUME NEW x \in Roles, ProbeSound(x), probe[x].of # None => probe[x].of \in Requests /\
             RequestSound(probe[x].of)
      PROVE ProbeSound(x)'
  BY <1>8 DEF ProbeSound
<1> DEFINE Known == WorkSound(r)
<1>9. ASSUME Foreign = {}, Known, NEW x \in Requests, Role[x] \in Roles, RequestSound(x),
             WorkSound(x)
      PROVE WorkSound(x)'
  BY <1>1, <1>2, <1>9 DEF TypeOK, WorkSound, NotBorrowed, Outstanding, Begun
<1>10. ASSUME Foreign = {}, Known, NEW x \in Roles, BusySound(x) PROVE BusySound(x)'
  BY <1>1, <1>2, <1>10 DEF TypeOK, BusySound
<1>11. ASSUME Foreign = {}, Known, NEW x \in Roles, ProbeSound(x), SeenSound(x), probe[x].of # None
              => probe[x].of \in Requests /\ RequestSound(probe[x].of)
       PROVE SeenSound(x)'
  BY <1>1, <1>2, <1>11 DEF TypeOK, SeenSound, Begun
<1>12. Foreign = {} => Known
  BY <1>1 DEF SlotIInv, TypeOK, Probe, BusySound
<1>13. \A x \in Roles : probe[x].of # None => probe[x].of \in Requests /\ RequestSound(probe[x].of)
  BY <1>1 DEF SlotIInv, TypeOK, Probe
<1> HIDE DEF Known
<1> QED  BY ONLY SlotIInv, RolesAssumption, <1>3, <1>4, <1>5, <1>6, <1>7, <1>8, <1>9, <1>10, <1>11,
   <1>12, <1>13 DEF SlotIInv, RequestSound

\* The server drops a request whose client left.
LEMMA DropKeeps ==
    ASSUME SlotIInv, NEW r \in Requests, Drop(r)
    PROVE  SlotIInv'
<1>0. slot' \in [Roles -> SlotState] /\ post' \in [Requests -> PostStates]
  <2>1. slot' \in [Roles -> SlotState]
    BY VacateType, RolesAssumption DEF SlotIInv, TypeOK, Drop
  <2> QED  BY <2>1 DEF SlotIInv, TypeOK, Drop, PostStates
<1> USE NoneAssumption DEF callVars, sealVars, witnessVars, outcomeVars, roleVars, cleanupVars,
   probeVars, serverVars, serverOnly, Drop, Vacate, Set
<1>1. TypeOK
  BY DEF SlotIInv
<1>2. RequestSound(r) /\ Role[r] \in Roles
  BY RolesAssumption DEF SlotIInv
<1>3. TypeOK'
  BY <1>0, <1>1 DEF TypeOK
<1>4. ASSUME NEW x \in Requests, Role[x] \in Roles, RequestSound(x) PROVE ThreadSound(x)'
  BY <1>1, <1>0, <1>2, <1>4 DEF TypeOK, ThreadSound, RequestSound
<1>5. ASSUME NEW x \in Requests, Role[x] \in Roles, RequestSound(x) PROVE HoldSound(x)'
  BY <1>5 DEF HoldSound, RequestSound
<1>6. ASSUME NEW x \in Requests, Role[x] \in Roles, RequestSound(x) PROVE ObserverSound(x)'
  BY <1>6 DEF ObserverSound, RequestSound
<1>7. ASSUME NEW x \in Requests, Role[x] \in Roles, RequestSound(x) PROVE Accounted(x)'
  BY <1>7 DEF Accounted, RequestSound
<1>8. ASSUME NEW x \in Roles, ProbeSound(x), probe[x].of # None => probe[x].of \in Requests /\
             RequestSound(probe[x].of)
      PROVE ProbeSound(x)'
  BY <1>8 DEF ProbeSound
<1> DEFINE Known == WorkSound(r)
<1>9. ASSUME Foreign = {}, Known, NEW x \in Requests, Role[x] \in Roles, RequestSound(x),
             WorkSound(x)
      PROVE WorkSound(x)'
  BY <1>1, <1>0, <1>2, <1>9 DEF TypeOK, WorkSound, NotBorrowed, Outstanding, Begun
<1>10. ASSUME Foreign = {}, Known, NEW x \in Roles, BusySound(x) PROVE BusySound(x)'
  BY <1>1, <1>0, <1>2, <1>10 DEF TypeOK, BusySound
<1>11. ASSUME Foreign = {}, Known, NEW x \in Roles, ProbeSound(x), SeenSound(x), probe[x].of # None
              => probe[x].of \in Requests /\ RequestSound(probe[x].of)
       PROVE SeenSound(x)'
  BY <1>1, <1>0, <1>2, <1>11 DEF TypeOK, SeenSound, Begun
<1>12. Foreign = {} => Known
  BY <1>1 DEF SlotIInv, TypeOK, Probe, BusySound
<1>13. \A x \in Roles : probe[x].of # None => probe[x].of \in Requests /\ RequestSound(probe[x].of)
  BY <1>1 DEF SlotIInv, TypeOK, Probe
<1> HIDE DEF Known
<1> QED  BY ONLY SlotIInv, RolesAssumption, <1>3, <1>4, <1>5, <1>6, <1>7, <1>8, <1>9, <1>10, <1>11,
   <1>12, <1>13 DEF SlotIInv, RequestSound

\* The waiter of an observer gives up; its thread goes on.
LEMMA ProbeTimesOutKeeps ==
    ASSUME SlotIInv, NEW role \in Roles, ProbeTimesOut(role)
    PROVE  SlotIInv'
<1> USE NoneAssumption DEF callVars, sealVars, witnessVars, outcomeVars, roleVars, serverVars,
   ProbeTimesOut, Abandon, Set, Idle, NoProbe, Observer
<1>1. TypeOK
  BY DEF SlotIInv
<1>2. /\ ProbeSound(role)
      /\ probe[role].of # None => probe[role].of \in Requests /\ RequestSound(probe[role].of)
  BY <1>1 DEF SlotIInv, TypeOK, Probe
<1>3. TypeOK'
  BY <1>1, <1>2 DEF TypeOK, SlotState, TaskIds, Idle, NoProbe, Observer, Probe, ProbeSound,
     CleanupStates
<1>4. ASSUME NEW x \in Requests, Role[x] \in Roles, RequestSound(x) PROVE ThreadSound(x)'
  BY <1>4 DEF ThreadSound, RequestSound
<1>5. ASSUME NEW x \in Requests, Role[x] \in Roles, RequestSound(x) PROVE HoldSound(x)'
  BY <1>5 DEF HoldSound, RequestSound
<1>6. ASSUME NEW x \in Requests, Role[x] \in Roles, RequestSound(x) PROVE ObserverSound(x)'
  BY <1>1, <1>2, <1>6 DEF TypeOK, ObserverSound, RequestSound
<1>7. ASSUME NEW x \in Requests, Role[x] \in Roles, RequestSound(x) PROVE Accounted(x)'
  BY <1>7 DEF Accounted, RequestSound
<1>8. ASSUME NEW x \in Roles, ProbeSound(x), probe[x].of # None => probe[x].of \in Requests /\
             RequestSound(probe[x].of)
      PROVE ProbeSound(x)'
  BY <1>1, <1>2, <1>8 DEF TypeOK, ProbeSound
<1> DEFINE Known == /\ SeenSound(role)
                    /\ BusySound(role)
                    /\ (probe[role].of # None => WorkSound(probe[role].of))
                    /\ (slot[role].busy => WorkSound(slot[role].task))
<1>9. ASSUME Foreign = {}, Known, NEW x \in Requests, Role[x] \in Roles, RequestSound(x),
             WorkSound(x)
      PROVE WorkSound(x)'
  BY <1>9 DEF WorkSound, NotBorrowed, Outstanding
<1>10. ASSUME Foreign = {}, Known, NEW x \in Roles, BusySound(x) PROVE BusySound(x)'
  BY <1>10 DEF BusySound
<1>11. ASSUME Foreign = {}, Known, NEW x \in Roles, ProbeSound(x), SeenSound(x), probe[x].of # None
              => probe[x].of \in Requests /\ RequestSound(probe[x].of)
       PROVE SeenSound(x)'
  BY <1>1, <1>2, <1>11 DEF TypeOK, SeenSound, Begun
<1>12. Foreign = {} => Known
  BY <1>1 DEF SlotIInv, TypeOK, Probe, BusySound
<1>13. \A x \in Roles : probe[x].of # None => probe[x].of \in Requests /\ RequestSound(probe[x].of)
  BY <1>1 DEF SlotIInv, TypeOK, Probe
<1> HIDE DEF Known
<1> QED  BY ONLY SlotIInv, RolesAssumption, <1>3, <1>4, <1>5, <1>6, <1>7, <1>8, <1>9, <1>10, <1>11,
   <1>12, <1>13 DEF SlotIInv, RequestSound

\* An observer that is sent after evidence is marked so.
LEMMA ProbeSendKeeps ==
    ASSUME SlotIInv, NEW role \in Roles, ProbeSend(role)
    PROVE  SlotIInv'
<1>0. /\ probe' \in [Roles -> Probe] /\ gets' \in [Requests -> 0..2]
      /\ probe'[role].of = probe[role].of /\ probe'[role].step = "sent"
      /\ probe'[role].kind = probe[role].kind
      /\ probe'[role].after = (terminal[probe[role].of] \/ active[probe[role].of] # None)
      /\ \A x \in Roles \ {role} : probe'[x] = probe[x]
  BY SendType DEF SlotIInv, TypeOK, ProbeSend, Observer
<1> USE NoneAssumption DEF callVars, sealVars, witnessVars, outcomeVars, roleVars, cleanupVars,
   serverVars, ProbeSend, Set, Idle, NoProbe, Observer
<1>1. TypeOK
  BY DEF SlotIInv
<1>2. /\ ProbeSound(role)
      /\ probe[role].of # None => probe[role].of \in Requests /\ RequestSound(probe[role].of)
  BY <1>1 DEF SlotIInv, TypeOK, Probe
<1>3. TypeOK'
  BY <1>0, <1>1 DEF TypeOK
<1>4. ASSUME NEW x \in Requests, Role[x] \in Roles, RequestSound(x) PROVE ThreadSound(x)'
  BY <1>4 DEF ThreadSound, RequestSound
<1>5. ASSUME NEW x \in Requests, Role[x] \in Roles, RequestSound(x) PROVE HoldSound(x)'
  BY <1>5 DEF HoldSound, RequestSound
<1>6. ASSUME NEW x \in Requests, Role[x] \in Roles, RequestSound(x) PROVE ObserverSound(x)'
  <2>1. CASE Role[x] = role
    <3>1. CASE probe[role].of = x
      <4>1. probe'[role].of = x /\ probe'[role].kind = probe[role].kind /\ (probe[role].kind = "witness" => ~terminal[x])
        BY <1>0, <3>1
      <4>2. probe'[role].after = (terminal[x] \/ active[x] # None)
        BY <1>0, <3>1
      <4> QED  BY <1>6, <2>1, <3>1, <4>1, <4>2 DEF RequestSound, ObserverSound
    <3>2. CASE probe[role].of # x
      BY <1>0, <1>6, <2>1, <3>2 DEF RequestSound, ObserverSound
    <3> QED  BY <3>1, <3>2
  <2>2. CASE Role[x] # role
    BY <1>0, <1>6, <2>2 DEF RequestSound, ObserverSound
  <2> QED  BY <2>1, <2>2
<1>7. ASSUME NEW x \in Requests, Role[x] \in Roles, RequestSound(x) PROVE Accounted(x)'
  BY <1>7 DEF Accounted, RequestSound
<1>8. ASSUME NEW x \in Roles, ProbeSound(x), probe[x].of # None => probe[x].of \in Requests /\
             RequestSound(probe[x].of)
      PROVE ProbeSound(x)'
  BY <1>1, <1>0, <1>2, <1>8 DEF TypeOK, ProbeSound
<1> DEFINE Known == /\ SeenSound(role)
                    /\ BusySound(role)
                    /\ (probe[role].of # None => WorkSound(probe[role].of))
                    /\ (slot[role].busy => WorkSound(slot[role].task))
<1>9. ASSUME Foreign = {}, Known, NEW x \in Requests, Role[x] \in Roles, RequestSound(x),
             WorkSound(x)
      PROVE WorkSound(x)'
  BY <1>9 DEF WorkSound, NotBorrowed, Outstanding
<1>10. ASSUME Foreign = {}, Known, NEW x \in Roles, BusySound(x) PROVE BusySound(x)'
  BY <1>10 DEF BusySound
<1>11. ASSUME Foreign = {}, Known, NEW x \in Roles, ProbeSound(x), SeenSound(x), probe[x].of # None
              => probe[x].of \in Requests /\ RequestSound(probe[x].of)
       PROVE SeenSound(x)'
  BY <1>1, <1>0, <1>2, <1>11 DEF TypeOK, SeenSound, Begun
<1>12. Foreign = {} => Known
  BY <1>1 DEF SlotIInv, TypeOK, Probe, BusySound
<1>13. \A x \in Roles : probe[x].of # None => probe[x].of \in Requests /\ RequestSound(probe[x].of)
  BY <1>1 DEF SlotIInv, TypeOK, Probe
<1> HIDE DEF Known
<1> QED  BY ONLY SlotIInv, RolesAssumption, <1>3, <1>4, <1>5, <1>6, <1>7, <1>8, <1>9, <1>10, <1>11,
   <1>12, <1>13 DEF SlotIInv, RequestSound

\* What the server shows is true of the request at that moment.
LEMMA ProbeSeesKeeps ==
    ASSUME SlotIInv, NEW role \in Roles, ProbeSees(role)
    PROVE  SlotIInv'
<1> USE NoneAssumption DEF callVars, sealVars, witnessVars, outcomeVars, roleVars, cleanupVars,
   serverVars, ProbeSees, Set, Idle, NoProbe, Observer
<1>1. TypeOK
  BY DEF SlotIInv
<1>2. /\ ProbeSound(role)
      /\ probe[role].of # None => probe[role].of \in Requests /\ RequestSound(probe[role].of)
  BY <1>1 DEF SlotIInv, TypeOK, Probe
<1>3. TypeOK'
  BY <1>1, <1>2 DEF TypeOK, SlotState, TaskIds, Idle, NoProbe, Observer, Probe, ProbeSound
<1>4. ASSUME NEW x \in Requests, Role[x] \in Roles, RequestSound(x) PROVE ThreadSound(x)'
  BY <1>4 DEF ThreadSound, RequestSound
<1>5. ASSUME NEW x \in Requests, Role[x] \in Roles, RequestSound(x) PROVE HoldSound(x)'
  BY <1>5 DEF HoldSound, RequestSound
<1>6. ASSUME NEW x \in Requests, Role[x] \in Roles, RequestSound(x) PROVE ObserverSound(x)'
  BY <1>1, <1>2, <1>6 DEF TypeOK, ObserverSound, RequestSound
<1>7. ASSUME NEW x \in Requests, Role[x] \in Roles, RequestSound(x) PROVE Accounted(x)'
  BY <1>7 DEF Accounted, RequestSound
<1>8. ASSUME NEW x \in Roles, ProbeSound(x), probe[x].of # None => probe[x].of \in Requests /\
             RequestSound(probe[x].of)
      PROVE ProbeSound(x)'
  BY <1>1, <1>2, <1>8 DEF TypeOK, ProbeSound
<1> DEFINE Known == /\ SeenSound(role)
                    /\ BusySound(role)
                    /\ (probe[role].of # None => WorkSound(probe[role].of))
                    /\ (slot[role].busy => WorkSound(slot[role].task))
<1>9. ASSUME Foreign = {}, Known, NEW x \in Requests, Role[x] \in Roles, RequestSound(x),
             WorkSound(x)
      PROVE WorkSound(x)'
  BY <1>9 DEF WorkSound, NotBorrowed, Outstanding
<1>10. ASSUME Foreign = {}, Known, NEW x \in Roles, BusySound(x) PROVE BusySound(x)'
  BY <1>10 DEF BusySound
<1>11. ASSUME Foreign = {}, Known, NEW x \in Roles, ProbeSound(x), SeenSound(x), probe[x].of # None
              => probe[x].of \in Requests /\ RequestSound(probe[x].of)
       PROVE SeenSound(x)'
  <2> DEFINE q == probe[role].of
             t == slot[role].task
  <2>1. CASE x = role
    <3>1. probe'[role].of = q /\ probe'[role].after = probe[role].after /\ probe'[role].seen = slot[role]
      BY <1>1 DEF TypeOK
    <3>2. q \in Requests /\ Role[q] = role /\ RequestSound(q) /\ WorkSound(q)
      BY <1>2, <1>11 DEF ProbeSound
    <3>3. probe[role].after => terminal[q] \/ active[q] # None
      BY <1>2 DEF ProbeSound
    <3>4. probe[role].after => post[q] \in Begun
      BY <3>2, <3>3 DEF RequestSound, ThreadSound, WorkSound, Begun
    <3>5. probe[role].after /\ ~slot[role].busy => post[q] \in {"over", "dropped"}
      BY <3>2, <3>4 DEF WorkSound, Begun
    <3>6. ASSUME slot[role].busy, roles[role] = q PROVE post[q] \in Begun
      <4>1. Role[t] = role /\ post[t] \in {"running", "answered"} /\ NotBorrowed(t)
        BY <1>11, <3>6 DEF BusySound, WorkSound
      <4>2. t = q
        BY <3>6, <4>1 DEF NotBorrowed, Outstanding
      <4> QED  BY <4>1, <4>2 DEF Begun
    <3> QED  BY <2>1, <3>1, <3>5, <3>6 DEF SeenSound
  <2>2. CASE x # role
    <3>1. probe'[x] = probe[x]
      BY <1>1, <2>2 DEF TypeOK
    <3> QED  BY <1>11, <3>1 DEF SeenSound
  <2> QED  BY <2>1, <2>2
<1>12. Foreign = {} => Known
  BY <1>1 DEF SlotIInv, TypeOK, Probe, BusySound
<1>13. \A x \in Roles : probe[x].of # None => probe[x].of \in Requests /\ RequestSound(probe[x].of)
  BY <1>1 DEF SlotIInv, TypeOK, Probe
<1> HIDE DEF Known
<1> QED  BY ONLY SlotIInv, RolesAssumption, <1>3, <1>4, <1>5, <1>6, <1>7, <1>8, <1>9, <1>10, <1>11,
   <1>12, <1>13 DEF SlotIInv, RequestSound

\* _apply_slots: an idle slot releases only if it was asked for after the evidence.
LEMMA ApplyKeeps ==
    ASSUME SlotIInv, NEW role \in Roles, Apply(role)
    PROVE  SlotIInv'
<1> USE NoneAssumption
<1> DEFINE p == probe[role]
           r == p.of
<1>1. TypeOK
  BY DEF SlotIInv
<1>2. ProbeSound(role) /\ p.step = "read"
  BY DEF SlotIInv, Apply
<1>3. r \in Requests /\ Role[r] = role /\ r # None
  BY <1>1, <1>2, ProbeParts DEF ProbeSound
<1>4. RequestSound(r)
  BY <1>3 DEF SlotIInv
<1>5. /\ probe' = [probe EXCEPT ![role] = NoProbe]
      /\ UNCHANGED <<call, guarded, thread, cancelled, inferred, terminal, roles, waiter, invalid, gets,
                     witnessed, cleanup, tries, post, slot, strangers>>
  BY DEF Apply, Gone, callVars, roleVars, cleanupVars, serverVars
<1>6. /\ sealed' \in [Requests -> BOOLEAN] /\ active' \in [Requests -> TaskIds \cup {None}]
      /\ released' \in [Requests -> Bases] /\ reason' \in [Requests -> Reasons]
      /\ lastTask' \in [Roles -> TaskIds \cup {None}]
      /\ \A x \in Requests \ {r} : /\ sealed'[x] = sealed[x] /\ active'[x] = active[x]
                                   /\ released'[x] = released[x] /\ reason'[x] = reason[x]
  <2>1. p.seen.task \in TaskIds \cup {None}
    BY <1>1, ProbeParts
  <2> HIDE DEF p
  <2> USE <1>1, <1>3, <2>1 DEF TypeOK, Bases, Reasons
  <2>2. lastTask' \in [Roles -> TaskIds \cup {None}]
    BY DEF Apply, p, Doubt, Release
  <2>3. CASE UNCHANGED <<sealed, active, outcomeVars>>
    BY <2>2, <2>3 DEF outcomeVars
  <2>4. CASE \E why \in {"open", "unexpected"} : Doubt(r, why) /\ UNCHANGED <<sealed, active, released>>
    BY <2>2, <2>4 DEF Doubt
  <2>5. CASE active' = [active EXCEPT ![r] = p.seen.task] /\ Doubt(r, "open") /\ UNCHANGED <<sealed, released>>
    BY <2>2, <2>5 DEF Doubt
  <2>6. CASE \E basis \in {"terminal", "active"} : Release(r, basis) /\ UNCHANGED active
    <3>1. /\ sealed \in [Requests -> BOOLEAN] /\ released \in [Requests -> Bases]
          /\ reason \in [Requests -> Reasons] /\ active' \in [Requests -> TaskIds \cup {None}]
      BY <2>6
    <3>2. sealed' = [sealed EXCEPT ![r] = TRUE] /\ reason' = [reason EXCEPT ![r] = ""]
      BY <2>6 DEF Release, Set
    <3>3. PICK basis \in {"terminal", "active"} : released' = [released EXCEPT ![r] = basis]
      BY <2>6 DEF Release
    <3>4. sealed' \in [Requests -> BOOLEAN] /\ reason' \in [Requests -> Reasons]
      BY <3>1, <3>2
    <3>5. released' \in [Requests -> Bases]
      BY <3>1, <3>3
    <3>6. \A x \in Requests \ {r} : sealed'[x] = sealed[x] /\ reason'[x] = reason[x]
      BY <3>1, <3>2
    <3>7. \A x \in Requests \ {r} : released'[x] = released[x]
      BY <3>1, <3>3
    <3> QED  BY ONLY <2>2, <2>6, <3>1, <3>4, <3>5, <3>6, <3>7
  <2> QED  BY <2>3, <2>4, <2>5, <2>6 DEF Apply, p
<1>7. \/ sealed'[r] = sealed[r] /\ active'[r] = active[r] /\ released'[r] = released[r] /\ reason'[r] = reason[r]
      \/ /\ released[r] = "" /\ sealed'[r] = sealed[r] /\ released'[r] = released[r] /\ reason'[r] # ""
         /\ \/ active'[r] = active[r]
            \/ inferred[r] /\ p.seen.busy /\ roles[role] = r
      \/ /\ released[r] = "" /\ p.after /\ ~p.seen.busy /\ roles[role] = r
         /\ sealed'[r] /\ released'[r] # "" /\ reason'[r] = "" /\ active'[r] = active[r]
  <2> HIDE DEF p
  <2> USE <1>1, <1>3 DEF TypeOK
  <2>1. CASE UNCHANGED <<sealed, active, outcomeVars>>
    BY <2>1 DEF outcomeVars
  <2>2. CASE released[r] = "" /\ \E why \in {"open", "unexpected"} :
                                   Doubt(r, why) /\ UNCHANGED <<sealed, active, released>>
    BY <2>2 DEF Doubt
  <2>3. CASE /\ released[r] = "" /\ inferred[r] /\ p.seen.busy /\ roles[role] = r
             /\ active' = [active EXCEPT ![r] = p.seen.task]
             /\ Doubt(r, "open") /\ UNCHANGED <<sealed, released>>
    BY <2>3 DEF Doubt
  <2>4. CASE /\ released[r] = "" /\ p.after /\ ~p.seen.busy /\ roles[role] = r
             /\ \E basis \in {"terminal", "active"} : Release(r, basis) /\ UNCHANGED active
    BY <2>4 DEF Release, Set
  <2> QED  BY <2>1, <2>2, <2>3, <2>4 DEF Apply, p, Proves
<1>8. /\ probe' \in [Roles -> Probe]
      /\ probe'[role].of = None /\ probe'[role].step = "none"
      /\ \A x \in Roles \ {role} : probe'[x] = probe[x]
  <2>1. NoProbe \in Probe
    BY ObserverType, IdleType DEF NoProbe
  <2>2. NoProbe.of = None /\ NoProbe.step = "none"
    BY DEF NoProbe, Observer
  <2> QED  BY <1>1, <1>5, <2>1, <2>2 DEF TypeOK
<1> HIDE DEF p
<1>9. TypeOK'
  BY <1>1, <1>5, <1>6, <1>8 DEF TypeOK
<1>10. inferred[r] /\ released[r] = "" /\ (call[r] \in {"working", "completing"} => witnessed[r] /\ ~p.after)
  BY <1>3, <1>4 DEF RequestSound, ObserverSound, p
<1>11. ASSUME NEW x \in Requests, RequestSound(x) PROVE ThreadSound(x)'
  <2>1. thread[x] = "none" => ~inferred[x]
    BY <1>11 DEF RequestSound, ThreadSound
  <2>2. released'[x] # "" => released[x] # "" \/ inferred[x]
    BY <1>6, <1>10
  <2> QED  BY <1>5, <1>11, <2>1, <2>2 DEF RequestSound, ThreadSound
<1>12. ASSUME NEW x \in Requests, RequestSound(x) PROVE HoldSound(x)'
  <2>1. released'[x] = "" => released[x] = ""
    BY <1>6, <1>10
  <2> QED  BY <1>5, <1>12, <2>1 DEF RequestSound, HoldSound
<1>13. ASSUME NEW x \in Requests, Role[x] \in Roles, RequestSound(x) PROVE ObserverSound(x)'
  <2>1. CASE x = r
    <3>1. active'[r] # None => inferred[r]
      BY <1>10
    <3>2. call[r] \in {"working", "completing"} => released'[r] = ""
      BY <1>7, <1>10
    <3> QED  BY <1>3, <1>4, <1>5, <1>8, <1>10, <2>1, <3>1, <3>2 DEF RequestSound, ObserverSound
  <2>2. CASE x # r
    <3>1. active'[x] = active[x] /\ released'[x] = released[x] /\ reason'[x] = reason[x]
      BY <1>6, <2>2
    <3>2. probe'[Role[x]].of = x => probe'[Role[x]] = probe[Role[x]]
      BY <1>8, <1>13
    <3> QED  BY <1>5, <1>13, <3>1, <3>2 DEF RequestSound, ObserverSound
  <2> QED  BY <2>1, <2>2
<1>14. ASSUME NEW x \in Requests, RequestSound(x) PROVE Accounted(x)'
  <2>1. CASE x = r
    BY <1>4, <1>5, <1>7, <2>1 DEF RequestSound, Accounted
  <2>2. CASE x # r
    <3>1. released'[x] = released[x] /\ reason'[x] = reason[x] /\ sealed'[x] = sealed[x]
      BY <1>6, <2>2
    <3> QED  BY <1>5, <1>14, <3>1 DEF RequestSound, Accounted
  <2> QED  BY <2>1, <2>2
<1>15. ASSUME NEW x \in Roles, ProbeSound(x) PROVE ProbeSound(x)'
  <2>1. CASE x = role
    BY <1>8, <2>1 DEF ProbeSound
  <2>2. CASE x # role
    <3>1. probe'[x] = probe[x] /\ probe[x].of \in Requests \cup {None}
      BY <1>1, <1>8, <2>2, ProbeParts
    <3>2. probe[x].of # None => probe[x].of # r
      BY <1>3, <1>15, <2>2 DEF ProbeSound
    <3>3. probe[x].of # None => active'[probe[x].of] = active[probe[x].of]
      BY <1>6, <3>1, <3>2
    <3> QED  BY <1>5, <1>15, <3>1, <3>3 DEF ProbeSound
  <2> QED  BY <2>1, <2>2
<1>16. ASSUME Foreign = {}, NEW x \in Requests, RequestSound(x), WorkSound(x) PROVE WorkSound(x)'
  <2>1. CASE x = r
    <3>1. SeenSound(role)
      BY <1>16 DEF SlotIInv
    <3>2. active'[r] # None => post[r] \in Begun
      BY <1>2, <1>7, <1>16, <2>1, <3>1 DEF WorkSound, SeenSound, p
    <3>3. released'[r] # "" => post[r] \in {"over", "dropped"}
      BY <1>2, <1>7, <1>10, <3>1 DEF SeenSound, p
    <3>4. released'[r] # "" => thread[r] # "sending"
      BY <1>4, <3>3 DEF RequestSound, ThreadSound
    <3> QED  BY <1>3, <1>5, <1>16, <2>1, <3>2, <3>3, <3>4 DEF WorkSound, NotBorrowed, Outstanding
  <2>2. CASE x # r
    <3>1. released'[x] = released[x] /\ active'[x] = active[x]
      BY <1>6, <2>2
    <3> QED  BY <1>5, <1>16, <3>1 DEF WorkSound, NotBorrowed, Outstanding
  <2> QED  BY <2>1, <2>2
<1>17. ASSUME NEW x \in Roles, BusySound(x) PROVE BusySound(x)'
  BY <1>5, <1>17 DEF BusySound
<1>18. ASSUME NEW x \in Roles, SeenSound(x) PROVE SeenSound(x)'
  BY <1>5, <1>8, <1>18 DEF SeenSound
<1> QED
  BY ONLY SlotIInv, RolesAssumption, <1>9, <1>11, <1>12, <1>13, <1>14, <1>15, <1>16, <1>17, <1>18
     DEF SlotIInv, RequestSound

\* An observer fails: the lease stays, with a reason.
LEMMA ProbeFailsKeeps ==
    ASSUME SlotIInv, NEW role \in Roles, ProbeFails(role)
    PROVE  SlotIInv'
<1> USE NoneAssumption DEF callVars, sealVars, witnessVars, roleVars, cleanupVars, serverVars,
   ProbeFails, Gone, Doubt, Set, Idle, NoProbe, Observer
<1>1. TypeOK
  BY DEF SlotIInv
<1>2. /\ ProbeSound(role)
      /\ probe[role].of # None => probe[role].of \in Requests /\ RequestSound(probe[role].of)
  BY <1>1 DEF SlotIInv, TypeOK, Probe
<1>3. TypeOK'
  BY <1>1, <1>2 DEF TypeOK, SlotState, TaskIds, Idle, NoProbe, Observer, Probe, ProbeSound, Reasons
<1>4. ASSUME NEW x \in Requests, Role[x] \in Roles, RequestSound(x) PROVE ThreadSound(x)'
  BY <1>4 DEF ThreadSound, RequestSound
<1>5. ASSUME NEW x \in Requests, Role[x] \in Roles, RequestSound(x) PROVE HoldSound(x)'
  BY <1>5 DEF HoldSound, RequestSound
<1>6. ASSUME NEW x \in Requests, Role[x] \in Roles, RequestSound(x) PROVE ObserverSound(x)'
  BY <1>1, <1>2, <1>6 DEF TypeOK, ObserverSound, ProbeSound, RequestSound
<1>7. ASSUME NEW x \in Requests, Role[x] \in Roles, RequestSound(x) PROVE Accounted(x)'
  BY <1>1, <1>2, <1>7 DEF TypeOK, Accounted, ObserverSound, ProbeSound, RequestSound
<1>8. ASSUME NEW x \in Roles, ProbeSound(x), probe[x].of # None => probe[x].of \in Requests /\
             RequestSound(probe[x].of)
      PROVE ProbeSound(x)'
  BY <1>1, <1>2, <1>8 DEF TypeOK, ProbeSound
<1> DEFINE Known == /\ SeenSound(role)
                    /\ BusySound(role)
                    /\ (probe[role].of # None => WorkSound(probe[role].of))
                    /\ (slot[role].busy => WorkSound(slot[role].task))
<1>9. ASSUME Foreign = {}, Known, NEW x \in Requests, Role[x] \in Roles, RequestSound(x),
             WorkSound(x)
      PROVE WorkSound(x)'
  BY <1>9 DEF WorkSound, NotBorrowed, Outstanding
<1>10. ASSUME Foreign = {}, Known, NEW x \in Roles, BusySound(x) PROVE BusySound(x)'
  BY <1>10 DEF BusySound
<1>11. ASSUME Foreign = {}, Known, NEW x \in Roles, ProbeSound(x), SeenSound(x), probe[x].of # None
              => probe[x].of \in Requests /\ RequestSound(probe[x].of)
       PROVE SeenSound(x)'
  BY <1>1, <1>2, <1>11 DEF TypeOK, SeenSound, Begun
<1>12. Foreign = {} => Known
  BY <1>1 DEF SlotIInv, TypeOK, Probe, BusySound
<1>13. \A x \in Roles : probe[x].of # None => probe[x].of \in Requests /\ RequestSound(probe[x].of)
  BY <1>1 DEF SlotIInv, TypeOK, Probe
<1> HIDE DEF Known
<1> QED  BY ONLY SlotIInv, RolesAssumption, <1>3, <1>4, <1>5, <1>6, <1>7, <1>8, <1>9, <1>10, <1>11,
   <1>12, <1>13 DEF SlotIInv, RequestSound

\* Another client uses the slot: nothing is then known of it, and nothing claimed.
LEMMA ForeignTaskKeeps ==
    ASSUME SlotIInv, NEW role \in Roles, ForeignTask(role)
    PROVE  SlotIInv'
<1>0. slot' \in [Roles -> SlotState] /\ strangers' \subseteq Foreign
  <2>1. slot' \in [Roles -> SlotState]
    BY VacateType, OccupyType DEF SlotIInv, ForeignTask, TaskIds
  <2> QED  BY <2>1 DEF SlotIInv, TypeOK, ForeignTask
<1> USE NoneAssumption DEF callVars, sealVars, witnessVars, outcomeVars, roleVars, cleanupVars,
   probeVars, serverVars, serverOnly, ForeignTask, Occupy, Vacate, Set
<1>1. TypeOK
  BY DEF SlotIInv
<1>2. /\ ProbeSound(role)
      /\ probe[role].of # None => probe[role].of \in Requests /\ RequestSound(probe[role].of)
  BY <1>1 DEF SlotIInv, TypeOK, Probe
<1>3. TypeOK'
  BY <1>0, <1>1 DEF TypeOK
<1>4. ASSUME NEW x \in Requests, Role[x] \in Roles, RequestSound(x) PROVE ThreadSound(x)'
  BY <1>4 DEF ThreadSound, RequestSound
<1>5. ASSUME NEW x \in Requests, Role[x] \in Roles, RequestSound(x) PROVE HoldSound(x)'
  BY <1>5 DEF HoldSound, RequestSound
<1>6. ASSUME NEW x \in Requests, Role[x] \in Roles, RequestSound(x) PROVE ObserverSound(x)'
  BY <1>6 DEF ObserverSound, RequestSound
<1>7. ASSUME NEW x \in Requests, Role[x] \in Roles, RequestSound(x) PROVE Accounted(x)'
  BY <1>7 DEF Accounted, RequestSound
<1>8. ASSUME NEW x \in Roles, ProbeSound(x), probe[x].of # None => probe[x].of \in Requests /\
             RequestSound(probe[x].of)
      PROVE ProbeSound(x)'
  BY <1>8 DEF ProbeSound
<1> DEFINE Known == /\ SeenSound(role)
                    /\ BusySound(role)
                    /\ (probe[role].of # None => WorkSound(probe[role].of))
                    /\ (slot[role].busy => WorkSound(slot[role].task))
<1>9. ASSUME Foreign = {}, Known, NEW x \in Requests, Role[x] \in Roles, RequestSound(x),
             WorkSound(x)
      PROVE WorkSound(x)'
  BY <1>1, <1>0, <1>2, <1>9 DEF TypeOK, WorkSound, NotBorrowed, Outstanding, Begun
<1>10. ASSUME Foreign = {}, Known, NEW x \in Roles, BusySound(x) PROVE BusySound(x)'
  BY <1>1, <1>0, <1>2, <1>10 DEF TypeOK, BusySound
<1>11. ASSUME Foreign = {}, Known, NEW x \in Roles, ProbeSound(x), SeenSound(x), probe[x].of # None
              => probe[x].of \in Requests /\ RequestSound(probe[x].of)
       PROVE SeenSound(x)'
  BY <1>11 DEF SeenSound
<1>12. Foreign = {} => Known
  BY <1>1 DEF SlotIInv, TypeOK, Probe, BusySound
<1>13. \A x \in Roles : probe[x].of # None => probe[x].of \in Requests /\ RequestSound(probe[x].of)
  BY <1>1 DEF SlotIInv, TypeOK, Probe
<1> HIDE DEF Known
<1> QED  BY ONLY SlotIInv, RolesAssumption, <1>3, <1>4, <1>5, <1>6, <1>7, <1>8, <1>9, <1>10, <1>11,
   <1>12, <1>13 DEF SlotIInv, RequestSound

-----------------------------------------------------------------------------
\* A step that changes no variable keeps the invariant.
LEMMA StutterKeeps ==
    ASSUME SlotIInv, UNCHANGED vars
    PROVE  SlotIInv'
<1> USE DEF vars, callVars, sealVars, witnessVars, outcomeVars, roleVars, probeVars, cleanupVars,
            serverVars
<1>1. TypeOK'
  BY DEF SlotIInv, TypeOK
<1>2. ASSUME NEW x \in Requests, RequestSound(x) PROVE RequestSound(x)'
  BY <1>2 DEF RequestSound, ThreadSound, HoldSound, ObserverSound, Accounted
<1>3. ASSUME NEW x \in Roles, ProbeSound(x) PROVE ProbeSound(x)'
  BY <1>3 DEF ProbeSound
<1>4. ASSUME NEW x \in Requests, WorkSound(x) PROVE WorkSound(x)'
  BY <1>4 DEF WorkSound, NotBorrowed, Outstanding
<1>5. ASSUME NEW x \in Roles, BusySound(x) PROVE BusySound(x)'
  BY <1>5 DEF BusySound
<1>6. ASSUME NEW x \in Roles, SeenSound(x) PROVE SeenSound(x)'
  BY <1>6 DEF SeenSound
<1> QED  BY ONLY SlotIInv, <1>1, <1>2, <1>3, <1>4, <1>5, <1>6 DEF SlotIInv

\* Nothing is leased, sent or observed right after the startup observation.
LEMMA InitSound == Init => SlotIInv
<1> SUFFICES ASSUME Init PROVE SlotIInv
  OBVIOUS
<1> USE NoneAssumption, RolesAssumption DEF Init
<1>1. NoProbe \in Probe /\ NoProbe.of = None /\ NoProbe.step = "none"
  <2>1. NoProbe \in Probe
    BY ObserverType, IdleType DEF NoProbe
  <2> QED  BY <2>1 DEF NoProbe, Observer
<1>2. TypeOK
  <2>1. probe \in [Roles -> Probe] /\ slot \in [Roles -> SlotState]
    BY <1>1, IdleType
  <2>2. /\ "new" \in CallStates /\ "none" \in ThreadStates /\ "unsent" \in PostStates
        /\ "none" \in CleanupStates /\ "" \in Bases /\ "" \in Reasons
    BY DEF CallStates, ThreadStates, PostStates, CleanupStates, Bases, Reasons
  <2>3. /\ call \in [Requests -> CallStates] /\ thread \in [Requests -> ThreadStates]
        /\ post \in [Requests -> PostStates] /\ cleanup \in [Requests -> CleanupStates]
        /\ released \in [Requests -> Bases] /\ reason \in [Requests -> Reasons]
    BY <2>2
  <2>4. /\ active \in [Requests -> TaskIds \cup {None}] /\ lastTask \in [Roles -> TaskIds \cup {None}]
        /\ roles \in [Roles -> Requests \cup {None}] /\ waiter \in [Roles -> Requests \cup {None}]
    OBVIOUS
  <2>5. gets \in [Requests -> 0..2] /\ tries \in [Requests -> 0..2]
    <3>1. 0 \in 0..2
      BY ONLY TRUE
    <3>2. gets = [x \in Requests |-> 0] /\ tries = [x \in Requests |-> 0]
      OBVIOUS
    <3> QED  BY ONLY <3>1, <3>2
  <2>6. /\ guarded \in [Requests -> BOOLEAN] /\ sealed \in [Requests -> BOOLEAN]
        /\ cancelled \in [Requests -> BOOLEAN] /\ inferred \in [Requests -> BOOLEAN]
        /\ terminal \in [Requests -> BOOLEAN] /\ witnessed \in [Requests -> BOOLEAN]
        /\ invalid \in BOOLEAN /\ strangers \subseteq Foreign
    OBVIOUS
  <2> QED  BY ONLY <2>1, <2>3, <2>4, <2>5, <2>6 DEF TypeOK
<1>3. ASSUME NEW x \in Requests PROVE RequestSound(x)
  <2>1. Role[x] \in Roles /\ probe[Role[x]].of = None
    BY <1>1
  <2> QED  BY <2>1 DEF RequestSound, ThreadSound, HoldSound, ObserverSound, Accounted
<1>4. ASSUME NEW x \in Roles PROVE ProbeSound(x) /\ SeenSound(x)
  <2>1. probe[x].of = None /\ probe[x].step = "none"
    BY <1>1
  <2> QED  BY <2>1 DEF ProbeSound, SeenSound
<1>5. ASSUME NEW x \in Requests PROVE WorkSound(x)
  BY DEF WorkSound, NotBorrowed, Outstanding
<1>6. ASSUME NEW x \in Roles PROVE BusySound(x)
  BY DEF BusySound, Idle
<1> QED  BY ONLY <1>2, <1>3, <1>4, <1>5, <1>6 DEF SlotIInv

\* Whatever calls, threads, observers and the server do, in any order.
LEMMA StepKeeps == SlotIInv /\ [Next]_vars => SlotIInv'
<1> SUFFICES ASSUME SlotIInv, [Next]_vars PROVE SlotIInv'
  OBVIOUS
<1>1. CASE Drift
  BY <1>1, DriftKeeps
<1>2. ASSUME NEW r \in Requests, Abort(r) \/ Revoke(r) \/ Witness(r) PROVE SlotIInv'
  BY <1>2, AbortKeeps, RevokeKeeps, WitnessKeeps
<1>3. ASSUME NEW r \in Requests, CallStep(r) PROVE SlotIInv'
  BY <1>3, AskKeeps, AcquireKeeps, WaitKeeps, RefreshKeeps, RefuseKeeps, CompleteKeeps, ObserveEndKeeps,
     LeaveKeeps DEF CallStep
<1>4. ASSUME NEW r \in Requests, ThreadStepOf(r) PROVE SlotIInv'
  BY <1>4, DispatchCountKeeps, CountedKeeps, DispatchInferenceKeeps, SendKeeps, ReadKeeps, FailKeeps
     DEF ThreadStepOf
<1>5. ASSUME NEW r \in Requests, CleanupStep(r) PROVE SlotIInv'
  BY <1>5, CleanupProbeKeeps, CleanupNextKeeps, CleanupOverKeeps DEF CleanupStep
<1>6. ASSUME NEW r \in Requests, ServerStep(r) PROVE SlotIInv'
  BY <1>6, StartKeeps, AnswerKeeps, EndKeeps, DropKeeps DEF ServerStep
<1>7. ASSUME NEW role \in Roles, ProbeStep(role) \/ ForeignTask(role) PROVE SlotIInv'
  BY <1>7, ProbeTimesOutKeeps, ProbeSendKeeps, ProbeSeesKeeps, ApplyKeeps, ProbeFailsKeeps,
     ForeignTaskKeeps
     DEF ProbeStep
<1>8. CASE UNCHANGED vars
  BY <1>8, StutterKeeps
<1> QED  BY <1>1, <1>2, <1>3, <1>4, <1>5, <1>6, <1>7, <1>8 DEF Next

\* The inductive invariant: between them the receipts, the holds, the threads
\* and the observers tell when a slot that was seen idle is free.
THEOREM LeaseInvariance == Spec => []SlotIInv
BY InitSound, StepKeeps, PTL DEF Spec

\* The receipts and the owner keep their types, whatever is on the slots.
THEOREM LeaseTypes == Spec => []TypeOK
<1>1. SlotIInv => TypeOK
  BY DEF SlotIInv
<1> QED  BY <1>1, LeaseInvariance, PTL

\* Where the slots serve nobody else, no lease is released or handed on while
\* its inference may still reach the slot or is on it.
THEOREM NeverBorrowed == Spec => []NoBorrowedSlot
<1>1. SlotIInv => NoBorrowedSlot
  BY DEF SlotIInv, WorkSound, NoBorrowedSlot
<1> QED  BY <1>1, LeaseInvariance, PTL

\* finish and the observers leave no lease without a basis or a reason.
THEOREM Accounting == Spec => []LeasesAccounted
<1>1. SlotIInv => LeasesAccounted
  BY DEF SlotIInv, RequestSound, LeasesAccounted
<1> QED  BY <1>1, LeaseInvariance, PTL

-----------------------------------------------------------------------------
(* What a step does to what was begun, held and released *)

\* A step begins an inference only in dispatch, takes a role only in acquire
\* and releases only by finish or by an observation that the owner still trusts.
LEMMA Effects ==
    ASSUME [Next]_vars
    PROVE  /\ \/ inferred' = inferred
              \/ \E r \in Requests : DispatchInference(r)
           /\ \/ roles' = roles
              \/ \E r \in Requests : Acquire(r)
           /\ \/ UNCHANGED <<released, reason>>
              \/ \E r \in Requests, hard \in BOOLEAN : Leave(r, hard)
              \/ \E role \in Roles : Apply(role) \/ ProbeFails(role)
<1> USE DEF callVars, sealVars, witnessVars, outcomeVars, roleVars, probeVars, cleanupVars, serverVars,
            serverOnly
<1>1. CASE UNCHANGED vars \/ Drift
  BY <1>1 DEF vars, Drift
<1>2. ASSUME NEW r \in Requests, Abort(r) \/ Revoke(r) \/ Witness(r)
      PROVE  UNCHANGED <<inferred, roles, released, reason>>
  BY <1>2 DEF Abort, Revoke, Witness
<1>3. ASSUME NEW r \in Requests, CallStep(r)
      PROVE  /\ inferred' = inferred
             /\ roles' = roles \/ Acquire(r)
             /\ UNCHANGED <<released, reason>> \/ \E hard \in BOOLEAN : Leave(r, hard)
  <2>1. CASE Acquire(r)
    BY <2>1 DEF Acquire
  <2>2. ASSUME NEW hard \in BOOLEAN, Leave(r, hard) PROVE UNCHANGED <<inferred, roles>>
    BY <2>2 DEF Leave
  <2> QED  BY <1>3, <2>1, <2>2 DEF CallStep, Ask, Wait, Refresh, Refuse, Complete, ObserveEnd
<1>4. ASSUME NEW r \in Requests, ThreadStepOf(r)
      PROVE  UNCHANGED <<roles, released, reason>> /\ (inferred' = inferred \/ DispatchInference(r))
  <2>1. CASE DispatchInference(r)
    BY <2>1 DEF DispatchInference
  <2> QED  BY <1>4, <2>1 DEF ThreadStepOf, DispatchCount, Counted, Send, Read, Fail
<1>5. ASSUME NEW r \in Requests, CleanupStep(r) \/ ServerStep(r)
      PROVE  UNCHANGED <<inferred, roles, released, reason>>
  BY <1>5 DEF CleanupStep, CleanupProbe, CleanupNext, CleanupOver, ServerStep, Start, Answer, End, Drop
<1>6. ASSUME NEW role \in Roles, ProbeStep(role) \/ ForeignTask(role)
      PROVE  /\ UNCHANGED <<inferred, roles>>
             /\ UNCHANGED <<released, reason>> \/ Apply(role) \/ ProbeFails(role)
  <2>1. CASE Apply(role) \/ ProbeFails(role)
    BY <2>1 DEF Apply, ProbeFails
  <2> QED  BY <1>6, <2>1 DEF ProbeStep, ProbeTimesOut, ProbeSend, ProbeSees, ForeignTask
<1>7. CASE Next /\ ~Drift
  <2>1. CASE \E r \in Requests : Abort(r) \/ Revoke(r) \/ Witness(r)
    BY <1>2, <2>1
  <2>2. CASE \E r \in Requests : CallStep(r)
    BY <1>3, <2>2
  <2>3. CASE \E r \in Requests : ThreadStepOf(r)
    BY <1>4, <2>3
  <2>4. CASE \E r \in Requests : CleanupStep(r) \/ ServerStep(r)
    BY <1>5, <2>4
  <2>5. CASE \E role \in Roles : ProbeStep(role) \/ ForeignTask(role)
    BY <1>6, <2>5
  <2> QED  BY <1>7, <2>1, <2>2, <2>3, <2>4, <2>5 DEF Next
<1> QED  BY <1>1, <1>7

\* What an observation, its failure or finish does to one receipt.
LEMMA Outcomes ==
    ASSUME TypeOK, NEW r \in Requests,
           \/ \E x \in Requests, hard \in BOOLEAN : Leave(x, hard)
           \/ \E role \in Roles : Apply(role) \/ ProbeFails(role)
    PROVE  /\ invalid => released'[r] \in {released[r], "zero"}
           /\ reason[r] = "unexpected" =>
                 \/ reason'[r] = "unexpected" /\ released'[r] = released[r]
                 \/ released[r] = "" /\ ~inferred[r]
<1> USE DEF TypeOK
<1>1. ASSUME NEW x \in Requests, NEW hard \in BOOLEAN, Leave(x, hard)
      PROVE  /\ released'[r] \in {released[r], "zero"}
             /\ reason[r] = "unexpected" =>
                   \/ reason'[r] = "unexpected" /\ released'[r] = released[r]
                   \/ released[r] = "" /\ ~inferred[r]
  <2>1. CASE UNCHANGED outcomeVars
    BY <2>1 DEF outcomeVars
  <2>2. CASE /\ released[x] = "" /\ ~inferred[x]
             /\ released' = [released EXCEPT ![x] = "zero"] /\ reason' = [reason EXCEPT ![x] = ""]
    BY <2>2
  <2>3. CASE released' = released /\ reason' = [reason EXCEPT ![x] = IF @ = "" THEN "open" ELSE @]
    BY <2>3
  <2> QED  BY <1>1, <2>1, <2>2, <2>3 DEF Leave, Finish
<1>2. ASSUME NEW role \in Roles, ProbeFails(role)
      PROVE  released' = released /\ (reason[r] = "unexpected" => reason'[r] = "unexpected")
  BY <1>2 DEF ProbeFails, Doubt
<1>3. ASSUME NEW role \in Roles, Apply(role)
      PROVE  ~invalid /\ (reason[r] = "unexpected" => reason'[r] = "unexpected" /\ released'[r] = released[r])
  <2> DEFINE q == probe[role].of
  <2>1. ~invalid
    BY <1>3 DEF Apply
  <2>2. CASE UNCHANGED outcomeVars
    BY <2>1, <2>2 DEF outcomeVars
  <2>3. CASE reason[q] # "unexpected" /\ \E basis \in {"terminal", "active"} : Release(q, basis)
    BY <2>1, <2>3 DEF Release
  <2>4. CASE released' = released /\ \E why \in {"open", "unexpected"} : Doubt(q, why)
    BY <2>1, <2>4 DEF Doubt
  <2> HIDE DEF q
  <2> QED  BY <1>3, <2>2, <2>3, <2>4 DEF Apply, q, outcomeVars
<1> QED  BY <1>1, <1>2, <1>3

\* dispatch and revocation are atomic: what was revoked, given up or released
\* sends nothing it had not begun to send; an invalid owner leases no more.
THEOREM NothingSentAfterRevocation == Spec => RevokedSendsNothing
<1> DEFINE A == /\ \A r \in Requests : sealed[r] \/ invalid => inferred'[r] = inferred[r]
                /\ invalid => /\ roles' = roles
                              /\ \A r \in Requests : released'[r] \in {released[r], "zero"}
<1>1. ASSUME SlotIInv, [Next]_vars PROVE A
  <2>1. ASSUME NEW r \in Requests, NEW x \in Requests, DispatchInference(x), sealed[r] \/ invalid
        PROVE  inferred'[r] = inferred[r]
    BY <1>1, <2>1 DEF DispatchInference, Dispatchable, Set, SlotIInv, TypeOK
  <2>2. ASSUME NEW x \in Requests, Acquire(x) PROVE ~invalid
    BY <2>2 DEF Acquire
  <2>3. TypeOK
    BY <1>1 DEF SlotIInv
  <2>4. ASSUME NEW r \in Requests, invalid PROVE released'[r] \in {released[r], "zero"}
    <3>1. CASE UNCHANGED <<released, reason>>
      BY <3>1
    <3>2. CASE ~UNCHANGED <<released, reason>>
      BY <1>1, <2>3, <2>4, <3>2, Effects, Outcomes
    <3> QED  BY <3>1, <3>2
  <2> QED  BY <1>1, <2>1, <2>2, <2>4, Effects
<1>2. SlotIInv /\ [Next]_vars => [A]_vars
  BY <1>1
<1> QED  BY <1>2, LeaseInvariance, PTL DEF Spec, RevokedSendsNothing


\* "Contradictory task association is irreversible for this lease": the role
\* it holds is never handed on, whatever is on the slots.
THEOREM ContradictionIsFinal == Spec => ContradictionStays
<1> DEFINE A == \A r \in Requests : reason[r] = "unexpected" =>
                  reason'[r] = "unexpected" /\ released'[r] = "" /\ roles'[Role[r]] = roles[Role[r]]
<1>1. ASSUME SlotIInv, [Next]_vars, NEW r \in Requests, reason[r] = "unexpected"
      PROVE  reason'[r] = "unexpected" /\ released'[r] = "" /\ roles'[Role[r]] = roles[Role[r]]
  <2>1. TypeOK /\ RequestSound(r) /\ Role[r] \in Roles
    BY <1>1, RolesAssumption DEF SlotIInv
  <2>2. released[r] = "" /\ inferred[r]
    BY <1>1, <2>1 DEF RequestSound, Accounted, ObserverSound
  <2>3. roles[Role[r]] = r
    BY <2>1, <2>2 DEF RequestSound, ThreadSound, HoldSound
  <2>4. reason'[r] = "unexpected" /\ released'[r] = ""
    <3>1. CASE UNCHANGED <<released, reason>>
      BY <1>1, <2>2, <3>1
    <3>2. CASE ~UNCHANGED <<released, reason>>
      BY <1>1, <2>1, <2>2, <3>2, Effects, Outcomes
    <3> QED  BY <3>1, <3>2
  <2>5. ASSUME NEW x \in Requests, Acquire(x) PROVE Role[x] # Role[r]
    BY <2>2, <2>3, <2>5, NoneAssumption DEF Acquire, Free
  <2>6. ASSUME NEW x \in Requests, Acquire(x) PROVE roles'[Role[r]] = roles[Role[r]]
    BY <2>1, <2>5, <2>6 DEF Acquire, TypeOK
  <2>7. roles'[Role[r]] = roles[Role[r]]
    BY <1>1, <2>6, Effects
  <2> QED  BY <2>4, <2>7
<1>2. SlotIInv /\ [Next]_vars => [A]_vars
  BY <1>1
<1> QED  BY <1>2, LeaseInvariance, PTL DEF Spec, ContradictionStays

-----------------------------------------------------------------------------
(* The leases implement SlotLease where the slots serve nobody else *)

\* What SlotLease sees of the work of r.
WorkOf(r) == IF ~inferred[r] THEN "none" ELSE IF Outstanding(r) THEN "out" ELSE "over"

\* Between a dispatch and the next, work only ends.
LEMMA WorkOnlyEnds ==
    ASSUME SlotIInv, [Next]_vars
    PROVE  \/ \E r \in Requests : Acquire(r) \/ DispatchInference(r)
           \/ UNCHANGED <<roles, inferred, thread, post>>
           \/ \E r \in Requests :
                 /\ UNCHANGED <<roles, inferred>>
                 /\ \A x \in Requests \ {r} : thread'[x] = thread[x] /\ post'[x] = post[x]
                 /\ Outstanding(r)' => Outstanding(r) \/ ~inferred[r]
<1> DEFINE Ends(r) == /\ UNCHANGED <<roles, inferred>>
                      /\ \A x \in Requests \ {r} : thread'[x] = thread[x] /\ post'[x] = post[x]
                      /\ Outstanding(r)' => Outstanding(r) \/ ~inferred[r]
           Stays == UNCHANGED <<roles, inferred, thread, post>>
<1> USE DEF callVars, sealVars, witnessVars, outcomeVars, roleVars, probeVars, cleanupVars, serverVars,
            serverOnly
<1>1. thread \in [Requests -> ThreadStates] /\ post \in [Requests -> PostStates]
  BY DEF SlotIInv, TypeOK
<1>2. ASSUME UNCHANGED vars \/ Drift PROVE Stays
  BY <1>2 DEF vars, Drift
<1>3. ASSUME NEW r \in Requests, Abort(r) \/ Revoke(r) \/ Witness(r) \/ CleanupStep(r) PROVE Stays
  BY <1>3 DEF Abort, Revoke, Witness, CleanupStep, CleanupProbe, CleanupNext, CleanupOver
<1>4. ASSUME NEW r \in Requests, CallStep(r) PROVE Stays \/ Acquire(r)
  <2>1. ASSUME NEW hard \in BOOLEAN, Leave(r, hard) PROVE Stays
    BY <2>1 DEF Leave
  <2> QED  BY <1>4, <2>1 DEF CallStep, Ask, Wait, Refresh, Refuse, Complete, ObserveEnd
<1>5. ASSUME NEW r \in Requests, ThreadStepOf(r) PROVE Ends(r) \/ DispatchInference(r)
  <2>1. CASE DispatchCount(r) \/ Counted(r) \/ Read(r)
    BY <1>1, <2>1 DEF DispatchCount, Counted, Read, ThreadStep, Outstanding
  <2>2. CASE Send(r)
    BY <1>1, <2>2 DEF Send, ThreadStep, Outstanding
  <2>3. ASSUME NEW hard \in BOOLEAN, Fail(r, hard) PROVE Ends(r)
    BY <1>1, <2>3 DEF Fail, Outstanding
  <2> QED  BY <1>5, <2>1, <2>2, <2>3 DEF ThreadStepOf
<1>6. ASSUME NEW r \in Requests, ServerStep(r) PROVE Ends(r)
  BY <1>1, <1>6 DEF ServerStep, Start, Answer, End, Drop, Outstanding
<1>7. ASSUME NEW role \in Roles, ProbeStep(role) \/ ForeignTask(role) PROVE Stays
  BY <1>7 DEF ProbeStep, ProbeTimesOut, ProbeSend, ProbeSees, Apply, ProbeFails, ForeignTask
<1> HIDE DEF Ends, Stays
<1>8. \/ \E r \in Requests : Acquire(r) \/ DispatchInference(r)
      \/ Stays
      \/ \E r \in Requests : Ends(r)
  <2>1. CASE UNCHANGED vars \/ Drift
    BY <1>2, <2>1
  <2>2. CASE \E r \in Requests : Abort(r) \/ Revoke(r) \/ Witness(r) \/ CleanupStep(r)
    BY <1>3, <2>2
  <2>3. CASE \E r \in Requests : CallStep(r)
    BY <1>4, <2>3
  <2>4. CASE \E r \in Requests : ThreadStepOf(r)
    BY <1>5, <2>4
  <2>5. CASE \E r \in Requests : ServerStep(r)
    BY <1>6, <2>5
  <2>6. CASE \E role \in Roles : ProbeStep(role) \/ ForeignTask(role)
    BY <1>7, <2>6
  <2> QED  BY <2>1, <2>2, <2>3, <2>4, <2>5, <2>6 DEF Next
<1> QED  BY <1>8 DEF Ends, Stays

\* acquire grants a role whose last holder has no work left on the slot.
LEMMA AcquireGrants ==
    ASSUME SlotIInv, Foreign = {}, NEW r \in Requests, Acquire(r)
    PROVE  Lease!Grant(r)
<1>1. TypeOK /\ RequestSound(r) /\ Role[r] \in Roles
  BY RolesAssumption DEF SlotIInv
<1>2. /\ roles' = [roles EXCEPT ![Role[r]] = r]
      /\ inferred' = inferred /\ post' = post /\ thread' = [thread EXCEPT ![r] = "prepare"]
  BY DEF Acquire, witnessVars, serverVars
<1>3. thread[r] = "none" /\ ~inferred[r] /\ roles[Role[r]] # r
  BY <1>1 DEF Acquire, RequestSound, ThreadSound, HoldSound
<1>4. ASSUME roles[Role[r]] # None
      PROVE  roles[Role[r]] \in Requests /\ ~Outstanding(roles[Role[r]])
  <2>1. roles[Role[r]] \in Requests /\ released[roles[Role[r]]] # ""
    BY <1>1, <1>4 DEF TypeOK, Acquire, Free
  <2>2. NotBorrowed(roles[Role[r]])
    BY <2>1 DEF SlotIInv, WorkSound
  <2> QED  BY <2>1, <2>2 DEF NotBorrowed
<1>5. \A x \in Requests : (inferred[x] /\ Outstanding(x))' <=> inferred[x] /\ Outstanding(x)
  <2> SUFFICES ASSUME NEW x \in Requests
               PROVE  (inferred[x] /\ Outstanding(x))' <=> inferred[x] /\ Outstanding(x)
    OBVIOUS
  <2>1. CASE x = r
    BY <1>2, <1>3, <2>1
  <2>2. CASE x # r
    <3>1. thread'[x] = thread[x]
      BY <1>1, <1>2, <2>2 DEF TypeOK
    <3> QED  BY <1>2, <3>1 DEF Outstanding
  <2> QED  BY <2>1, <2>2
<1> HIDE DEF Outstanding
<1>6. \A x \in Requests : WorkOf(x)' = WorkOf(x)
  BY <1>2, <1>5 DEF WorkOf
<1>7. Lease!Idle(Role[r])
  BY <1>4 DEF Lease!Idle
<1>8. [x \in Requests |-> WorkOf(x)]' = [x \in Requests |-> WorkOf(x)]
  BY <1>6
<1> QED  BY <1>2, <1>3, <1>7, <1>8 DEF Lease!Grant, WorkOf

\* dispatch begins the work of the holder, once.
LEMMA DispatchBegins ==
    ASSUME SlotIInv, NEW r \in Requests, DispatchInference(r)
    PROVE  Lease!Begin(r)
<1>1. TypeOK /\ RequestSound(r)
  BY DEF SlotIInv
<1>2. /\ inferred' = [inferred EXCEPT ![r] = TRUE] /\ thread' = [thread EXCEPT ![r] = "sending"]
      /\ thread[r] = "counted" /\ ~sealed[r] /\ UNCHANGED <<roles, post>>
  BY DEF DispatchInference, Dispatchable, ThreadStep, Set, roleVars, serverVars
<1>3. ~inferred[r] /\ roles[Role[r]] = r
  BY <1>1, <1>2 DEF RequestSound, ThreadSound, HoldSound, Accounted
<1>4. WorkOf(r)' = "out"
  BY <1>1, <1>2 DEF WorkOf, Outstanding, TypeOK
<1>5. ASSUME NEW x \in Requests \ {r} PROVE WorkOf(x)' = WorkOf(x)
  BY <1>1, <1>2 DEF WorkOf, Outstanding, TypeOK
<1>6. [x \in Requests |-> WorkOf(x)]' = [[x \in Requests |-> WorkOf(x)] EXCEPT ![r] = "out"]
  BY <1>4, <1>5
<1> HIDE DEF Outstanding
<1> QED  BY <1>2, <1>3, <1>6 DEF Lease!Begin, WorkOf

\* Where the slots serve nobody else, the owner implements SlotLease: work on a
\* slot comes only from its holder, once per lease, and the slot is handed on
\* only when the holder can have no work on it.
THEOREM LeasesImplemented ==
    ASSUME Foreign = {} PROVE Spec => ImplementsLease
<1> DEFINE W == [r \in Requests |-> IF ~inferred[r] THEN "none"
                                    ELSE IF Outstanding(r) THEN "out" ELSE "over"]
<1>1. Init => Lease!Init
  BY DEF Init, Lease!Init
<1>2. ASSUME SlotIInv, [Next]_vars PROVE [Lease!Next]_<<roles, W>>
  <2>1. CASE \E r \in Requests : Acquire(r) \/ DispatchInference(r)
    BY <1>2, <2>1, AcquireGrants, DispatchBegins DEF Lease!Next
  <2>2. CASE UNCHANGED <<roles, inferred, thread, post>>
    BY <2>2 DEF WorkOf, Outstanding
  <2>3. ASSUME NEW r \in Requests, UNCHANGED <<roles, inferred>>,
               \A x \in Requests \ {r} : thread'[x] = thread[x] /\ post'[x] = post[x],
               Outstanding(r)' => Outstanding(r) \/ ~inferred[r]
        PROVE  [Lease!Next]_<<roles, W>>
    <3>1. ASSUME NEW x \in Requests \ {r} PROVE WorkOf(x)' = WorkOf(x)
      BY <2>3 DEF WorkOf, Outstanding
    <3>2. CASE WorkOf(r)' = WorkOf(r)
      BY <2>3, <3>1, <3>2 DEF WorkOf
    <3>3. CASE WorkOf(r)' # WorkOf(r)
      <4>1. WorkOf(r) = "out" /\ WorkOf(r)' = "over"
        BY <2>3, <3>3 DEF WorkOf
      <4>2. W' = [W EXCEPT ![r] = "over"]
        BY <3>1, <4>1 DEF WorkOf
      <4>3. Lease!End(r)
        BY <2>3, <4>1, <4>2 DEF Lease!End, WorkOf
      <4> QED  BY <4>3 DEF Lease!Next
    <3> QED  BY <3>2, <3>3
  <2> QED  BY <1>2, <2>1, <2>2, <2>3, WorkOnlyEnds
<1>3. SlotIInv /\ [Next]_vars => [Lease!Next]_<<roles, W>>
  BY <1>2
<1> QED  BY <1>1, <1>3, LeaseInvariance, PTL DEF Spec, ImplementsLease, Lease!Spec

=============================================================================
