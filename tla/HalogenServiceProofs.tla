------------------------ MODULE HalogenServiceProofs ------------------------
(***************************************************************************)
(* Safety of HalogenService for every set of runs and every lease age: the *)
(* leases and the engines with late starts, the lock when a docker start   *)
(* takes effect at once or never.                                          *)
(***************************************************************************)
EXTENDS HalogenService, FiniteSetTheorems, TLAPS

\* The constants are the phases of the code; the leaves look them up here.
USE DEF NoRun, Never, MaxSilence, Working, Ending, Live, GuardAlive, Running, Early, Finishing

LEMMA InitSound == LateStarts = FALSE /\ Init => ServiceIInv
  BY LeaseAgeAssumption, RunsAssumption DEF Init, All, ServiceIInv, TypeOK, RunSound

\* serve up to the end of its try clause keeps the types.
LEMMA ServeTyped ==
  ASSUME TypeOK, NEW r \in Runs, Serve(r)
  PROVE TypeOK'
<1>1. CASE Begin(r)
  BY <1>1, LeaseAgeAssumption DEF Begin, Goto, TypeOK, guardVars, boxVars
<1>2. CASE Create(r)
  BY <1>2 DEF Create, Goto, TypeOK, guardVars
<1>3. CASE SpawnGuard(r)
  BY <1>3 DEF SpawnGuard, Goto, TypeOK, boxVars
<1>4. CASE Armed(r)
  BY <1>4 DEF Armed, Goto, TypeOK, guardVars, boxVars
<1>5. CASE Start(r)
  <2>1. CASE Boot(r) /\ ctl' \in {[ctl EXCEPT ![r] = "loading"], [ctl EXCEPT ![r] = "stopping"]}
             /\ UNCHANGED pending
    BY <1>5, <2>1, LeaseAgeAssumption DEF Start, Boot, TypeOK, guardVars
  <2>2. CASE /\ pending' = [pending EXCEPT ![r] = LateStarts]
             /\ Goto(r, "stopping")
             /\ UNCHANGED <<container, lease, progress, waited>>
    <3>1. pending \in [Runs -> BOOLEAN] /\ LateStarts \in BOOLEAN
      BY LateStartsAssumption DEF TypeOK
    <3>2. pending' \in [Runs -> BOOLEAN]
      BY <2>2, <3>1, Zenon
    <3> QED
      BY <1>5, <2>2, <3>2 DEF Start, Goto, TypeOK, guardVars
  <2> QED
    BY <1>5, <2>1, <2>2 DEF Start, Goto
<1>6. CASE BecomeReady(r)
  BY <1>6 DEF BecomeReady, Goto, TypeOK, guardVars, boxVars
<1>7. CASE Abort(r)
  BY <1>7 DEF Abort, Goto, TypeOK, guardVars, boxVars
<1> QED
  BY <1>1, <1>2, <1>3, <1>4, <1>5, <1>6, <1>7 DEF Serve

\* So does the finally clause, and a crash of the controller.
LEMMA CleanUpTyped ==
  ASSUME TypeOK, NEW r \in Runs, CleanUp(r) \/ Crash(r)
  PROVE TypeOK'
<1>1. CASE BeginCleanup(r)
  BY <1>1 DEF BeginCleanup, Goto, TypeOK, guardVars, boxVars
<1>2. CASE RequestQuiescence(r)
  BY <1>2 DEF RequestQuiescence, TypeOK, ctlVars, boxVars
<1>3. CASE EndQuiescence(r)
  BY <1>3 DEF EndQuiescence, Goto, TypeOK, guardVars, boxVars
<1>4. CASE StopOwned(r)
  BY <1>4 DEF StopOwned, DockerStop, Goto, TypeOK, guardVars
<1>5. CASE Recover(r)
  <2>1. PICK back \in BOOLEAN : recovered' = [recovered EXCEPT ![r] = back]
    BY <1>5 DEF Recover
  <2>2. recovered' \in [Runs -> BOOLEAN]
    BY <2>1, Zenon DEF TypeOK
  <2>3. exitRequest' \in [Runs -> BOOLEAN]
    BY <1>5 DEF Recover, TypeOK
  <2>4. ctl' \in [Runs -> {"idle", "done", "crashed"} \cup Live]
    BY <1>5 DEF Recover, Goto, TypeOK
  <2> QED
    BY <1>5, <2>2, <2>3, <2>4 DEF Recover, TypeOK, boxVars
<1>6. CASE EndFinish(r)
  BY <1>6 DEF EndFinish, Goto, TypeOK, guardVars, boxVars
<1>7. CASE Release(r)
  BY <1>7 DEF Release, Exit, Goto, TypeOK, boxVars
<1>8. CASE Crash(r)
  BY <1>8 DEF Crash, Exit, Goto, TypeOK, boxVars
<1> QED
  BY <1>1, <1>2, <1>3, <1>4, <1>5, <1>6, <1>7, <1>8 DEF CleanUp

\* So do guard, supervisor, engine and docker.
LEMMA GuardTyped ==
  ASSUME TypeOK, NEW r \in Runs, Guard(r) \/ GuardCrash(r)
  PROVE TypeOK'
<1>1. CASE GuardBeat(r)
  BY <1>1, LeaseAgeAssumption DEF GuardBeat, TypeOK, ctlVars
<1>2. CASE GuardTurn(r)
  BY <1>2 DEF GuardTurn, TypeOK, ctlVars, boxVars
<1>3. CASE GuardFails(r)
  BY <1>3 DEF GuardFails, TypeOK, ctlVars, boxVars
<1>4. CASE GuardStops(r)
  BY <1>4 DEF GuardStops, DockerStop, TypeOK, ctlVars
<1>5. CASE GuardCrash(r)
  BY <1>5 DEF GuardCrash, TypeOK, ctlVars, boxVars
<1> QED
  BY <1>1, <1>2, <1>3, <1>4, <1>5 DEF Guard

LEMMA ContainerTyped ==
  ASSUME TypeOK, NEW r \in Runs, Supervise(r) \/ EngineExits(r) \/ LateStart(r)
  PROVE TypeOK'
<1>1. CASE Observe(r)
  BY <1>1, LeaseAgeAssumption DEF Observe, TypeOK, ctlVars, guardVars
<1>2. CASE Expire(r)
  BY <1>2 DEF Expire, TypeOK, ctlVars, guardVars
<1>3. CASE EngineExits(r)
  BY <1>3 DEF EngineExits, TypeOK, ctlVars, guardVars
<1>4. CASE LateStart(r)
  BY <1>4, LeaseAgeAssumption DEF LateStart, Boot, TypeOK, ctlVars, guardVars
<1> QED
  BY <1>1, <1>2, <1>3, <1>4 DEF Supervise

\* The ages of the lease through every step of serve and its finally clause:
\* only a boot touches them, and it starts a supervisor that has seen nothing.
LEMMA ServeLease ==
  ASSUME EngineIInv, NEW r \in Runs, Serve(r) \/ CleanUp(r) \/ Crash(r), NEW x \in Runs
  PROVE LeaseSound(x)'
<1> USE LeaseAgeAssumption DEF EngineIInv, TypeOK, LeaseSound
<1>1. CASE Create(r)
  BY <1>1 DEF Create
<1>2. CASE Start(r)
  BY <1>2 DEF Start, Boot
<1>3. CASE StopOwned(r)
  BY <1>3 DEF StopOwned, DockerStop
<1>4. CASE UNCHANGED <<container, lease, progress, waited, silence>>
  BY <1>4
<1> QED
  BY <1>1, <1>2, <1>3, <1>4 DEF Serve, CleanUp, Begin, SpawnGuard, Armed, BecomeReady, Abort,
     BeginCleanup, RequestQuiescence, EndQuiescence, Recover, EndFinish, Release, Crash, boxVars

\* The same through guard, supervisor, engine and docker: a renewal resets the
\* silence, and its observation the progress.
LEMMA GuardLease ==
  ASSUME EngineIInv, NEW r \in Runs,
         Guard(r) \/ GuardCrash(r) \/ Supervise(r) \/ EngineExits(r) \/ LateStart(r), NEW x \in Runs
  PROVE LeaseSound(x)'
<1> USE LeaseAgeAssumption DEF EngineIInv, TypeOK, LeaseSound
<1>1. CASE GuardBeat(r)
  BY <1>1 DEF GuardBeat
<1>2. CASE GuardStops(r)
  BY <1>2 DEF GuardStops, DockerStop
<1>3. CASE Observe(r)
  BY <1>3 DEF Observe, Due
<1>4. CASE Expire(r)
  BY <1>4 DEF Expire
<1>5. CASE EngineExits(r)
  BY <1>5 DEF EngineExits
<1>6. CASE LateStart(r)
  BY <1>6 DEF LateStart, Boot
<1>7. CASE UNCHANGED <<container, lease, progress, waited, silence>>
  BY <1>7
<1> QED
  BY <1>1, <1>2, <1>3, <1>4, <1>5, <1>6, <1>7
     DEF Guard, Supervise, GuardTurn, GuardFails, GuardCrash, boxVars

\* No age passes its bound: time waits until a due supervisor has acted.
LEMMA TickLease ==
  ASSUME EngineIInv, Tick
  PROVE TypeOK' /\ \A x \in Runs : LeaseSound(x)'
<1>1. \A r \in Runs : ~Due(r)
  BY DEF Tick
<1>2. beat' \in [Runs -> 0..(LeaseAge + 1)]
  BY LeaseAgeAssumption DEF Tick, Older, EngineIInv, TypeOK
<1>3. progress' \in [Runs -> {Never} \cup 0..LeaseAge] /\ waited' \in [Runs -> 0..LeaseAge]
  BY <1>1, LeaseAgeAssumption DEF Tick, Due, EngineIInv, TypeOK, LeaseSound
<1>4. silence' \in [Runs -> 0..MaxSilence]
  BY LeaseAgeAssumption DEF Tick, Older, EngineIInv, TypeOK
<1>5. TypeOK'
  BY <1>2, <1>3, <1>4 DEF Tick, EngineIInv, TypeOK, ctlVars, guardVars
<1>6. ASSUME NEW x \in Runs PROVE LeaseSound(x)'
  <2>1. container'[x] = container[x] /\ lease'[x] = lease[x]
    BY DEF Tick
  <2>2. progress'[x] = IF container[x] \notin Running \/ progress[x] = Never THEN Never
                       ELSE progress[x] + 1
    BY DEF Tick
  <2>3. waited'[x] = IF container[x] = "waiting" THEN waited[x] + 1 ELSE 0
    BY DEF Tick
  <2>4. container[x] \in Running => silence'[x] \in Nat /\ silence'[x] <= silence[x] + 1
    BY LeaseAgeAssumption DEF Tick, Older, EngineIInv, TypeOK
  <2> QED
    BY <2>1, <2>2, <2>3, <2>4, LeaseAgeAssumption DEF EngineIInv, TypeOK, LeaseSound
<1> QED
  BY <1>5, <1>6

\* A start that is given up leaves the pending starts of other runs alone, and
\* its own is pending only where starts may be late.
LEMMA PendingStart ==
  ASSUME TypeOK, NEW r \in Runs, Start(r), NEW x \in Runs
  PROVE pending'[x] = pending[x] \/ (x = r /\ pending'[x] = LateStarts)
<1>1. pending' = pending \/ pending' = [pending EXCEPT ![r] = LateStarts]
  BY DEF Start
<1>2. DOMAIN pending = Runs
  BY DEF TypeOK
<1> QED
  BY <1>1, <1>2, Zenon

\* Who serves or guards holds the lock, and what the holder creates or starts
\* finds a host on which nothing is hot.
LEMMA ServeHost ==
  ASSUME EngineIInv, NEW r \in Runs, Serve(r), NEW x \in Runs
  PROVE HostSound(x)'
<1> USE RunsAssumption DEF EngineIInv, TypeOK, HostSound, Hot
<1>1. CASE Begin(r)
  BY <1>1 DEF Begin, Goto, guardVars, boxVars
<1>2. CASE Create(r)
  BY <1>2 DEF Create, ExclusiveHost, Goto, guardVars
<1>3. CASE SpawnGuard(r)
  BY <1>3 DEF SpawnGuard, Goto, boxVars
<1>4. CASE Armed(r)
  BY <1>4 DEF Armed, Goto, guardVars, boxVars
<1>5. CASE Start(r)
  <2>1. \A y \in Runs : ~Hot(y)
    BY <1>5 DEF Start, ExclusiveHost
  <2>2. \A y \in Runs : ~Hot(y)'
    BY <1>5, <2>1 DEF Start, Boot
  <2>3. /\ lock = r /\ UNCHANGED <<lock, guard>>
        /\ ctl'[r] \in {"loading", "stopping"} /\ (x # r => ctl'[x] = ctl[x])
    BY <1>5 DEF Start, Goto, guardVars
  <2>4. x # r => container'[x] = container[x]
    BY <1>5 DEF Start, Boot
  <2>5. x # r => pending'[x] = pending[x]
    BY <1>5, PendingStart
  <2>6. ctl'[x] \in Live \/ guard'[x] \in GuardAlive => lock' = x
    BY <2>3
  <2>7. ctl'[x] = "idle" => container'[x] = "absent" /\ ~pending'[x]
    BY <2>3, <2>4, <2>5
  <2>8. ctl'[x] \in {"idle", "admitting", "spawning"} => guard'[x] = "none"
    BY <2>3
  <2> HIDE DEF Hot
  <2> QED
    BY <2>2, <2>6, <2>7, <2>8
<1>6. CASE BecomeReady(r)
  BY <1>6 DEF BecomeReady, Goto, guardVars, boxVars
<1>7. CASE Abort(r)
  BY <1>7 DEF Abort, Goto, guardVars, boxVars
<1> QED
  BY <1>1, <1>2, <1>3, <1>4, <1>5, <1>6, <1>7 DEF Serve

\* The lock is released only together with the last of the run's processes.
LEMMA CleanUpHost ==
  ASSUME EngineIInv, NEW r \in Runs, CleanUp(r) \/ Crash(r), NEW x \in Runs
  PROVE HostSound(x)'
<1> USE RunsAssumption DEF EngineIInv, TypeOK, HostSound, Hot
<1>1. CASE BeginCleanup(r)
  BY <1>1 DEF BeginCleanup, Goto, guardVars, boxVars
<1>2. CASE RequestQuiescence(r)
  BY <1>2 DEF RequestQuiescence, ctlVars, boxVars
<1>3. CASE EndQuiescence(r)
  BY <1>3 DEF EndQuiescence, Goto, guardVars, boxVars
<1>4. CASE StopOwned(r)
  BY <1>4 DEF StopOwned, DockerStop, Goto, guardVars
<1>5. CASE Recover(r)
  BY <1>5 DEF Recover, Goto, boxVars
<1>6. CASE EndFinish(r)
  BY <1>6 DEF EndFinish, Goto, guardVars, boxVars
<1>7. CASE Release(r)
  BY <1>7 DEF Release, MayUnlock, Exit, Goto, boxVars
<1>8. CASE Crash(r)
  BY <1>8 DEF Crash, Exit, Goto, boxVars
<1> QED
  BY <1>1, <1>2, <1>3, <1>4, <1>5, <1>6, <1>7, <1>8 DEF CleanUp

\* A renewal heats the holder's container only; a supervisor that looks makes
\* nothing hot that was not, and a late start leaves a cold one.
LEMMA GuardHost ==
  ASSUME EngineIInv, NEW r \in Runs,
         Guard(r) \/ GuardCrash(r) \/ Supervise(r) \/ EngineExits(r) \/ LateStart(r), NEW x \in Runs
  PROVE HostSound(x)'
<1> USE RunsAssumption DEF EngineIInv, TypeOK, HostSound, Hot
<1>1. CASE GuardBeat(r)
  BY <1>1 DEF GuardBeat, ctlVars
<1>2. CASE GuardTurn(r)
  BY <1>2 DEF GuardTurn, ctlVars, boxVars
<1>3. CASE GuardFails(r)
  BY <1>3 DEF GuardFails, ctlVars, boxVars
<1>4. CASE GuardStops(r)
  BY <1>4 DEF GuardStops, DockerStop, ctlVars
<1>5. CASE GuardCrash(r)
  BY <1>5 DEF GuardCrash, ctlVars, boxVars
<1>6. CASE Observe(r)
  BY <1>6 DEF Observe, ctlVars, guardVars
<1>7. CASE Expire(r)
  BY <1>7 DEF Expire, Due, ctlVars, guardVars
<1>8. CASE EngineExits(r)
  BY <1>8 DEF EngineExits, ctlVars, guardVars
<1>9. CASE LateStart(r)
  BY <1>9 DEF LateStart, Boot, ctlVars, guardVars
<1> QED
  BY <1>1, <1>2, <1>3, <1>4, <1>5, <1>6, <1>7, <1>8, <1>9 DEF Guard, Supervise

\* Time makes nothing hot that was not.
LEMMA TickHost ==
  ASSUME EngineIInv, Tick, NEW x \in Runs
  PROVE HostSound(x)'
<1>1. \A r \in Runs : Hot(r)' => Hot(r)
  BY DEF Tick, Hot
<1> QED
  BY <1>1 DEF Tick, EngineIInv, HostSound, ctlVars, guardVars

LEMMA EngineStep == EngineIInv /\ [Next]_vars => EngineIInv'
<1> SUFFICES ASSUME EngineIInv, [Next]_vars PROVE EngineIInv'
  OBVIOUS
<1>1. CASE UNCHANGED vars
  BY <1>1 DEF vars, ctlVars, guardVars, boxVars, EngineIInv, TypeOK, LeaseSound, HostSound, Hot
<1>2. CASE Tick
  BY <1>2, TickLease, TickHost DEF EngineIInv
<1>3. CASE \E r \in Runs : Serve(r)
  BY <1>3, ServeTyped, ServeLease, ServeHost DEF EngineIInv
<1>4. CASE \E r \in Runs : CleanUp(r) \/ Crash(r)
  BY <1>4, CleanUpTyped, ServeLease, CleanUpHost DEF EngineIInv
<1>5. CASE \E r \in Runs : Guard(r) \/ GuardCrash(r)
  BY <1>5, GuardTyped, GuardLease, GuardHost DEF EngineIInv
<1>6. CASE \E r \in Runs : Supervise(r) \/ EngineExits(r) \/ LateStart(r)
  BY <1>6, ContainerTyped, GuardLease, GuardHost DEF EngineIInv
<1> QED
  BY <1>1, <1>2, <1>3, <1>4, <1>5, <1>6 DEF Next

\* Lease ages, lock and heat of the containers stay consistent through every
\* failure, crash and late start.
THEOREM EngineInvariance == Spec => []EngineIInv
<1>1. Init => EngineIInv
  BY LeaseAgeAssumption, RunsAssumption
     DEF Init, All, EngineIInv, TypeOK, LeaseSound, HostSound, Hot
<1>2. EngineIInv /\ [Next]_vars => EngineIInv'
  BY EngineStep
<1> QED
  BY <1>1, <1>2, PTL DEF Spec

\* The variables of all three processes keep their types; in particular no age
\* passes the lease age before its supervisor has acted.
THEOREM ServiceTypes == Spec => []TypeOK
<1>1. EngineIInv => TypeOK
  BY DEF EngineIInv
<1> QED
  BY <1>1, EngineInvariance, PTL

\* ProgressLease ends an engine before two lease ages without a renewal of its
\* guard are over, whoever died, hangs or starts late.
THEOREM EngineIsLeased == Spec => []EngineLeased
<1>1. ASSUME EngineIInv, NEW r \in Runs, container[r] = "engine" PROVE silence[r] < MaxSilence
  <2>1. progress[r] \in 0..LeaseAge /\ silence[r] \in Nat
    BY <1>1, LeaseAgeAssumption DEF EngineIInv, TypeOK, LeaseSound
  <2>2. lease[r] \in {"unseen", "seen"}
    BY <1>1 DEF EngineIInv, TypeOK, LeaseSound
  <2>3. silence[r] <= progress[r] \/ silence[r] < LeaseAge + progress[r]
    BY <1>1, <2>1, <2>2 DEF EngineIInv, LeaseSound
  <2> QED
    BY <2>1, <2>3, LeaseAgeAssumption
<1>2. EngineIInv => EngineLeased
  BY <1>1 DEF EngineLeased
<1> QED
  BY <1>2, EngineInvariance, PTL

\* The supervisors never run two engines, although a docker start that was
\* given up may bring up a container without the lock.
THEOREM OneEngineOnly == Spec => []OneEngine
<1>1. ASSUME EngineIInv PROVE OneEngine
  <2> DEFINE engines == {r \in Runs : container[r] = "engine"}
  <2>1. \A r, x \in engines : r = x
    BY <1>1 DEF EngineIInv, HostSound, Hot
  <2>2. CASE engines = {}
    BY <2>2, FS_EmptySet DEF OneEngine
  <2>3. CASE engines # {}
    <3>1. PICK r : r \in engines
      BY <2>3
    <3>2. engines = {r}
      BY <2>1, <3>1
    <3>3. Cardinality({r}) = 1
      BY FS_Singleton
    <3> QED
      BY <3>2, <3>3 DEF OneEngine
  <2> QED
    BY <2>2, <2>3
<1> QED
  BY <1>1, EngineInvariance, PTL

-----------------------------------------------------------------------------
(* EngineLease.  Each step of the four processes is one of the abstract      *)
(* steps or changes nothing that EngineLease looks at.                       *)

KeeperMap == [r \in Runs |-> Keeping(r)]

\* One hot container is all there are, and the age is its silence.
LEMMA TheEngine ==
  ASSUME EngineIInv, NEW r \in Runs, Hot(r)
  PROVE  Engines = {r} /\ EngineAge = silence[r]
<1>1. \A x \in Runs : Hot(x) <=> x = r
  BY DEF EngineIInv, HostSound
<1>2. (CHOOSE x \in Runs : Hot(x)) = r
  BY <1>1
<1> QED  BY <1>1, <1>2 DEF Engines, EngineAge

LEMMA TheEngineNext ==
  ASSUME EngineIInv', NEW r \in Runs, Hot(r)'
  PROVE  Engines' = {r} /\ EngineAge' = silence'[r]
<1>1. \A x \in Runs : Hot(x)' <=> x = r
  BY DEF EngineIInv, HostSound
<1>2. (CHOOSE x \in Runs : Hot(x)') = r
  BY <1>1
<1> QED  BY <1>1, <1>2 DEF Engines, EngineAge

\* Nothing heats up, cools down or is renewed.
LEMMA EngineStays ==
  ASSUME EngineIInv, EngineIInv', \A x \in Runs : Hot(x)' <=> Hot(x),
         \A x \in Runs : Hot(x) => silence'[x] = silence[x]
  PROVE  Engines' = Engines /\ EngineAge' = EngineAge
<1>1. CASE \E r \in Runs : Hot(r)
  BY <1>1, TheEngine, TheEngineNext
<1>2. CASE \A r \in Runs : ~Hot(r)
  BY <1>2 DEF Engines, EngineAge
<1> QED  BY <1>1, <1>2

\* The container of r stops running, and no other changes.
LEMMA EngineStops ==
  ASSUME EngineIInv, EngineIInv', NEW r \in Runs, ~Hot(r)',
         \A x \in Runs \ {r} : Hot(x)' <=> Hot(x), silence' = silence
  PROVE  Promise!Stop \/ (Engines' = Engines /\ EngineAge' = EngineAge)
<1>1. CASE Hot(r)
  <2>1. \A x \in Runs : ~Hot(x)'
    BY <1>1 DEF EngineIInv, HostSound
  <2>2. Engines' = {} /\ EngineAge' = 0
    BY <2>1 DEF Engines, EngineAge
  <2> QED  BY <1>1, <2>2 DEF Promise!Stop, Engines
<1>2. CASE ~Hot(r)
  BY <1>2, EngineStays
<1> QED  BY <1>1, <1>2

\* Runs whose guard does not change keep their keeper.
LEMMA KeeperStays == guard' = guard => KeeperMap' = KeeperMap
  BY DEF KeeperMap, Keeping

\* A guard that goes is a keeper that resigns.
LEMMA KeeperResigns ==
  ASSUME TypeOK, NEW r \in Runs, guard[r] \in GuardAlive,
         NEW end \in {"exited", "failed", "dead"}, guard' = [guard EXCEPT ![r] = end]
  PROVE  KeeperMap[r] = "kept" /\ KeeperMap' = [KeeperMap EXCEPT ![r] = "gone"]
<1>1. \A x \in Runs : guard'[x] = IF x = r THEN end ELSE guard[x]
  BY DEF TypeOK
<1>2. Keeping(r) = "kept" /\ \A x \in Runs : Keeping(x)' = IF x = r THEN "gone" ELSE Keeping(x)
  BY <1>1 DEF Keeping
<1> QED  BY <1>2 DEF KeeperMap, Keeping

\* The steps of serve: only SpawnGuard appoints, and a host that is exclusive
\* has no hot container.
LEMMA ServePromise ==
  ASSUME EngineIInv, EngineIInv', NEW r \in Runs, Serve(r)
  PROVE  [Promise!Next]_<<KeeperMap, Engines, EngineAge>>
<1>1. CASE Create(r) \/ Start(r)
  <2>1. \A x \in Runs : ~Hot(x)
    BY <1>1 DEF Create, Start, ExclusiveHost, Hot
  <2>2. \A x \in Runs : ~Hot(x)'
    <3>1. CASE Create(r)
      BY <2>1, <3>1 DEF Create, Hot, EngineIInv, TypeOK
    <3>2. CASE Start(r) /\ Boot(r)
      BY <2>1, <3>2 DEF Boot, Hot, EngineIInv, TypeOK
    <3>3. CASE Start(r) /\ ~Boot(r)
      BY <2>1, <3>3 DEF Start, Hot, EngineIInv, TypeOK
    <3> QED  BY <1>1, <3>1, <3>2, <3>3
  <2>3. guard' = guard
    BY <1>1 DEF Create, Start, guardVars
  <2> QED  BY <2>1, <2>2, <2>3, KeeperStays, EngineStays
<1>2. CASE SpawnGuard(r)
  <2>1. /\ guard' = [guard EXCEPT ![r] = "watching"] /\ guard[r] = "none" /\ lock = r
        /\ UNCHANGED <<container, progress, lease, silence>>
    BY <1>2 DEF SpawnGuard, boxVars, EngineIInv, HostSound
  <2>2. KeeperMap[r] = "new" /\ KeeperMap' = [KeeperMap EXCEPT ![r] = "kept"]
    <3>1. \A x \in Runs : guard'[x] = IF x = r THEN "watching" ELSE guard[x]
      BY <2>1 DEF EngineIInv, TypeOK
    <3>2. \A x \in Runs : Keeping(x)' = IF x = r THEN "kept" ELSE Keeping(x)
      BY <3>1 DEF Keeping
    <3> QED  BY <2>1, <3>2 DEF KeeperMap, Keeping
  <2>3. \A x \in Runs : KeeperMap[x] # "kept"
    BY <2>1, RunsAssumption DEF KeeperMap, Keeping, EngineIInv, HostSound
  <2>4. Engines' = Engines /\ EngineAge' = EngineAge
    BY <2>1, EngineStays DEF Hot
  <2> QED  BY <2>2, <2>3, <2>4 DEF Promise!Next, Promise!Appoint, KeeperMap
<1>3. CASE Begin(r) \/ Armed(r) \/ BecomeReady(r) \/ Abort(r)
  <2>1. UNCHANGED <<guard, container, progress, lease, silence>>
    BY <1>3 DEF Begin, Armed, BecomeReady, Abort, guardVars, boxVars
  <2> QED  BY <2>1, KeeperStays, EngineStays DEF Hot
<1> QED  BY <1>1, <1>2, <1>3 DEF Serve

\* The finally clause stops the container and dismisses the guard, in steps of
\* their own; a crash may take the guard along.
LEMMA CleanUpPromise ==
  ASSUME EngineIInv, EngineIInv', NEW r \in Runs, CleanUp(r) \/ Crash(r)
  PROVE  [Promise!Next]_<<KeeperMap, Engines, EngineAge>>
<1>1. CASE StopOwned(r)
  <2>1. guard' = guard /\ silence' = silence
    BY <1>1 DEF StopOwned, guardVars
  <2>2. CASE UNCHANGED container
    BY <1>1, <2>1, <2>2, KeeperStays, EngineStays DEF StopOwned, Hot
  <2>3. CASE container' = [container EXCEPT ![r] = "exited"]
    <3>1. ~Hot(r)' /\ \A x \in Runs \ {r} : Hot(x)' <=> Hot(x)
      BY <1>1, <2>3 DEF StopOwned, Hot, EngineIInv, TypeOK
    <3> QED  BY <2>1, <3>1, KeeperStays, EngineStops DEF Promise!Next, Promise!Cool, KeeperMap
  <2> QED  BY <1>1, <2>2, <2>3 DEF StopOwned, DockerStop
<1>2. CASE Release(r) \/ Crash(r)
  <2>1. UNCHANGED <<container, progress, lease, silence>>
    BY <1>2 DEF Release, Crash, boxVars
  <2>2. Engines' = Engines /\ EngineAge' = EngineAge
    BY <2>1, EngineStays DEF Hot
  <2>3. CASE guard' = guard
    BY <2>2, <2>3, KeeperStays
  <2>4. CASE guard[r] \in GuardAlive /\ guard' = [guard EXCEPT ![r] = "dead"]
    BY <2>2, <2>4, KeeperResigns DEF Promise!Next, Promise!Resign, KeeperMap, EngineIInv
  <2> QED  BY <1>2, <2>3, <2>4 DEF Release, Crash, EngineIInv, TypeOK
<1>3. CASE UNCHANGED <<guard, container, progress, lease, silence>>
  BY <1>3, KeeperStays, EngineStays DEF Hot
<1> QED  BY <1>1, <1>2, <1>3 DEF CleanUp, BeginCleanup, RequestQuiescence, EndQuiescence, Recover,
             EndFinish, guardVars, boxVars

\* GuardBeat is the renewal; a guard that fails stops the engine with its last
\* act, or leaves it to the supervisor.
LEMMA GuardPromise ==
  ASSUME EngineIInv, EngineIInv', NEW r \in Runs, Guard(r) \/ GuardCrash(r)
  PROVE  [Promise!Next]_<<KeeperMap, Engines, EngineAge>>
<1>1. CASE GuardBeat(r)
  <2>1. /\ guard[r] = "watching" /\ guard' = [guard EXCEPT ![r] = "beaten"]
        /\ lease' = [lease EXCEPT ![r] = "unseen"] /\ silence' = [silence EXCEPT ![r] = 0]
        /\ UNCHANGED <<container, progress>>
    BY <1>1 DEF GuardBeat
  <2>2. KeeperMap[r] = "kept" /\ KeeperMap' = KeeperMap
    BY <2>1 DEF KeeperMap, Keeping, EngineIInv, TypeOK
  <2>3. CASE Hot(r)'
    <3>1. Engines' = {r} /\ EngineAge' = 0
      BY <2>1, <2>3, TheEngineNext DEF EngineIInv, TypeOK
    <3>2. Engines \subseteq {r}
      <4>1. \A x \in Runs : Hot(x) => x = r \/ Hot(x)'
        BY <2>1 DEF Hot, EngineIInv, TypeOK
      <4> QED  BY <4>1, <2>3 DEF Engines, EngineIInv, HostSound
    <3> QED  BY <2>2, <3>1, <3>2 DEF Promise!Next, Promise!Renew, KeeperMap
  <2>4. CASE ~Hot(r)'
    <3>1. ~Hot(r)
      BY <2>1, <2>4 DEF Hot, EngineIInv, TypeOK
    <3>2. \A x \in Runs \ {r} : (Hot(x)' <=> Hot(x)) /\ silence'[x] = silence[x]
      BY <2>1 DEF Hot, EngineIInv, TypeOK
    <3> QED  BY <2>2, <2>4, <3>1, <3>2, EngineStays
  <2> QED  BY <2>3, <2>4
<1>2. CASE GuardStops(r)
  <2>1. KeeperMap[r] = "kept" /\ KeeperMap' = [KeeperMap EXCEPT ![r] = "gone"]
    BY <1>2, KeeperResigns DEF GuardStops, EngineIInv
  <2>2. CASE UNCHANGED container
    <3>1. Engines' = Engines /\ EngineAge' = EngineAge
      BY <1>2, <2>2, EngineStays DEF GuardStops, Hot
    <3> QED  BY <2>1, <3>1 DEF Promise!Next, Promise!Resign, KeeperMap
  <2>3. CASE container' = [container EXCEPT ![r] = "exited"]
    <3>1. ~Hot(r)' /\ (\A x \in Runs \ {r} : Hot(x)' <=> Hot(x)) /\ silence' = silence
      BY <1>2, <2>3 DEF GuardStops, Hot, EngineIInv, TypeOK
    <3> QED  BY <2>1, <3>1, EngineStops DEF Promise!Next, Promise!Resign, KeeperMap
  <2> QED  BY <1>2, <2>2, <2>3 DEF GuardStops, DockerStop
<1>3. CASE GuardTurn(r) \/ GuardFails(r) \/ GuardCrash(r)
  <2>1. UNCHANGED <<container, progress, lease, silence>>
    BY <1>3 DEF GuardTurn, GuardFails, GuardCrash, boxVars
  <2>2. Engines' = Engines /\ EngineAge' = EngineAge
    BY <2>1, EngineStays DEF Hot
  <2>3. ASSUME NEW g \in GuardAlive, guard[r] \in GuardAlive, guard' = [guard EXCEPT ![r] = g]
        PROVE  KeeperMap' = KeeperMap
    BY <2>3 DEF KeeperMap, Keeping, EngineIInv, TypeOK
  <2>4. ASSUME NEW end \in {"exited", "dead"}, guard[r] \in GuardAlive,
               guard' = [guard EXCEPT ![r] = end]
        PROVE  Promise!Next
    BY <2>2, <2>4, KeeperResigns DEF Promise!Next, Promise!Resign, KeeperMap, EngineIInv
  <2> QED  BY <1>3, <2>2, <2>3, <2>4 DEF GuardTurn, GuardFails, GuardCrash
<1> QED  BY <1>1, <1>2, <1>3 DEF Guard

\* The supervisor only ends what is hot, and so does the engine itself.
LEMMA SupervisePromise ==
  ASSUME EngineIInv, EngineIInv', NEW r \in Runs, Supervise(r) \/ EngineExits(r) \/ LateStart(r)
  PROVE  [Promise!Next]_<<KeeperMap, Engines, EngineAge>>
<1>1. guard' = guard /\ silence' = silence
  BY DEF Supervise, Observe, Expire, EngineExits, LateStart, guardVars
<1>2. CASE Observe(r)
  <2>1. \A x \in Runs : Hot(x)' <=> Hot(x)
    <3>1. /\ Hot(r) <=> progress[r] # Never
          /\ Hot(r)' <=> progress[r] # Never
      BY <1>2 DEF Observe, Hot, EngineIInv, TypeOK, LeaseSound
    <3>2. \A x \in Runs \ {r} : Hot(x)' <=> Hot(x)
      BY <1>2 DEF Observe, Hot, EngineIInv, TypeOK
    <3> QED  BY <3>1, <3>2
  <2> QED  BY <1>1, <2>1, KeeperStays, EngineStays
<1>3. CASE Expire(r) \/ EngineExits(r)
  <2>1. ~Hot(r)' /\ \A x \in Runs \ {r} : Hot(x)' <=> Hot(x)
    BY <1>3 DEF Expire, EngineExits, Hot, EngineIInv, TypeOK
  <2> QED  BY <1>1, <2>1, KeeperStays, EngineStops DEF Promise!Next, Promise!Cool, KeeperMap
<1>4. CASE LateStart(r)
  <2>1. \A x \in Runs : Hot(x)' <=> Hot(x)
    BY <1>4 DEF LateStart, Boot, Hot, EngineIInv, TypeOK
  <2> QED  BY <1>1, <2>1, KeeperStays, EngineStays
<1> QED  BY <1>2, <1>3, <1>4 DEF Supervise

\* Time passes for the hot container, and stops short of Patience.
LEMMA TickPromise ==
  ASSUME EngineIInv, EngineIInv', Tick
  PROVE  [Promise!Next]_<<KeeperMap, Engines, EngineAge>>
<1>1. KeeperMap' = KeeperMap
  BY KeeperStays DEF Tick, guardVars
<1>2. \A x \in Runs : Hot(x)' <=> Hot(x)
  BY DEF Tick, Hot, EngineIInv, TypeOK
<1>3. CASE \A x \in Runs : ~Hot(x)
  BY <1>1, <1>2, <1>3, EngineStays
<1>4. ASSUME NEW r \in Runs, Hot(r) PROVE Promise!Tick
  <2>1. Engines = {r} /\ EngineAge = silence[r] /\ Engines' = {r} /\ EngineAge' = silence'[r]
    BY <1>2, <1>4, TheEngine, TheEngineNext
  <2>2. silence'[r] = Older(silence[r], MaxSilence)
    BY <1>4 DEF Tick, Hot, EngineIInv, LeaseSound
  <2>3. silence[r] \in Nat /\ progress'[r] \in 0..LeaseAge /\ waited'[r] \in 0..LeaseAge
    BY <1>2, <1>4 DEF EngineIInv, TypeOK, LeaseSound, Hot
  <2>4. silence'[r] < MaxSilence
    BY <1>2, <1>4, <2>3, LeaseAgeAssumption DEF EngineIInv, TypeOK, LeaseSound, Hot
  <2> QED  BY <1>1, <2>1, <2>2, <2>3, <2>4, LeaseAgeAssumption DEF Promise!Tick, Older, KeeperMap
<1> QED  BY <1>3, <1>4 DEF Promise!Next

\* Controller, guard, supervisor and docker implement EngineLease, for any
\* number of runs and any lease age, late docker starts included.
THEOREM EngineLeaseImplemented == Spec => ImplementsEngineLease
<1>1. Init => Promise!Init
  BY DEF Init, All, Promise!Init, Keeping, Engines, EngineAge, Hot
<1>2. ASSUME EngineIInv, EngineIInv', [Next]_vars
      PROVE  [Promise!Next]_<<KeeperMap, Engines, EngineAge>>
  <2>1. CASE UNCHANGED vars
    <3>1. UNCHANGED <<guard, container, progress, lease, silence>>
      BY <2>1 DEF vars, guardVars, boxVars
    <3> QED  BY <1>2, <3>1, KeeperStays, EngineStays DEF Hot
  <2> QED  BY <1>2, <2>1, ServePromise, CleanUpPromise, GuardPromise, SupervisePromise, TickPromise
           DEF Next
<1>3. EngineIInv /\ EngineIInv' /\ [Next]_vars => [Promise!Next]_<<KeeperMap, Engines, EngineAge>>
  BY <1>2
<1> QED  BY <1>1, <1>3, EngineInvariance, PTL
         DEF Spec, ImplementsEngineLease, Promise!Spec, KeeperMap

-----------------------------------------------------------------------------
(* BackendLock.  Only Begin takes the lock, only Release gives it back.      *)

StageMap == [r \in Runs |-> Stage(r)]

\* serve goes on within its try and finally clauses.
LEMMA StaysLive ==
  ASSUME TypeOK, NEW r \in Runs, ctl[r] \in Live, NEW label \in Live, Goto(r, label)
  PROVE  StageMap' = StageMap
<1>1. \A x \in Runs : ctl'[x] = IF x = r THEN label ELSE ctl[x]
  BY DEF Goto, TypeOK
<1>2. \A x \in Runs : Stage(x)' = Stage(x)
  BY <1>1 DEF Stage, Live, Working, Ending
<1> QED  BY <1>2 DEF StageMap

\* serve begins or ends.
LEMMA StageChanges ==
  ASSUME TypeOK, NEW r \in Runs, NEW label, Goto(r, label)
  PROVE  /\ StageMap' = [StageMap EXCEPT ![r] = Stage(r)'] /\ StageMap[r] = Stage(r)
         /\ ctl'[r] = label
<1>1. \A x \in Runs : ctl'[x] = IF x = r THEN label ELSE ctl[x]
  BY DEF Goto, TypeOK
<1>2. \A x \in Runs \ {r} : Stage(x)' = Stage(x)
  BY <1>1 DEF Stage
<1> QED  BY <1>1, <1>2 DEF StageMap

LEMMA LockStep ==
  ASSUME EngineIInv, [Next]_vars
  PROVE  [Backend!Next]_<<lock, StageMap>>
<1>1. CASE UNCHANGED <<lock, ctl>>
  BY <1>1 DEF StageMap, Stage
<1>2. ASSUME NEW r \in Runs, Begin(r) PROVE Backend!Next
  <2>1. Goto(r, "admitting") /\ Stage(r) = "before" /\ lock = NoRun /\ lock' = r
    BY <1>2 DEF Begin, Stage
  <2>2. /\ StageMap' = [StageMap EXCEPT ![r] = Stage(r)'] /\ StageMap[r] = "before"
        /\ ctl'[r] = "admitting"
    BY <2>1, StageChanges DEF EngineIInv
  <2>3. Stage(r)' = "serving"
    BY <2>2 DEF Stage, Live, Working
  <2> QED  BY <2>1, <2>2, <2>3 DEF Backend!Next, Backend!Take, Backend!To, StageMap
<1>3. ASSUME NEW r \in Runs, Release(r) \/ Crash(r) PROVE Backend!Next
  <2>1. PICK label \in {"done", "crashed"} : Goto(r, label)
    BY <1>3 DEF Release, Crash, Exit
  <2>2. ctl[r] \in Live /\ lock' \in {lock, NoRun}
    BY <1>3 DEF Release, Crash, Live, Ending
  <2>3. Stage(r) = "serving" /\ lock = r
    BY <2>2 DEF Stage, Live, Working, Ending, EngineIInv, HostSound
  <2>4. /\ StageMap' = [StageMap EXCEPT ![r] = Stage(r)'] /\ StageMap[r] = "serving"
        /\ ctl'[r] = label
    BY <2>1, <2>3, StageChanges DEF EngineIInv
  <2>5. Stage(r)' = "over"
    BY <2>4 DEF Stage, Live, Working, Ending
  <2> QED  BY <2>2, <2>3, <2>4, <2>5 DEF Backend!Next, Backend!End, Backend!To, StageMap
<1>4. ASSUME NEW r \in Runs, Serve(r), ~Begin(r) PROVE UNCHANGED <<lock, StageMap>>
  <2>1. lock' = lock /\ ctl[r] \in Live /\ \E label \in Live : Goto(r, label)
    BY <1>4 DEF Serve, Create, SpawnGuard, Armed, Start, BecomeReady, Abort, Live, Working, Ending
  <2> QED  BY <2>1, StaysLive DEF EngineIInv
<1>5. ASSUME NEW r \in Runs, CleanUp(r), ~Release(r), ctl' # ctl PROVE UNCHANGED <<lock, StageMap>>
  <2>1. lock' = lock /\ ctl[r] \in Live /\ \E label \in Live : Goto(r, label)
    BY <1>5 DEF CleanUp, BeginCleanup, RequestQuiescence, EndQuiescence, StopOwned, Recover,
       EndFinish, ctlVars, Live, Ending
  <2> QED  BY <2>1, StaysLive DEF EngineIInv
<1>6. ASSUME NEW r \in Runs, CleanUp(r), ~Release(r), ctl' = ctl PROVE lock' = lock
  BY <1>6 DEF CleanUp, BeginCleanup, RequestQuiescence, EndQuiescence, StopOwned, Recover,
     EndFinish, ctlVars
<1>7. ASSUME NEW r \in Runs, \/ Guard(r) \/ GuardCrash(r)
                             \/ Supervise(r) \/ EngineExits(r) \/ LateStart(r)
      PROVE  UNCHANGED <<lock, ctl>>
  BY <1>7 DEF Guard, GuardBeat, GuardTurn, GuardFails, GuardStops, GuardCrash, Supervise, Observe,
     Expire, EngineExits, LateStart, ctlVars
<1>8. CASE Tick \/ UNCHANGED vars
  BY <1>1, <1>8 DEF Tick, vars, ctlVars
<1> QED  BY <1>1, <1>2, <1>3, <1>4, <1>5, <1>6, <1>7, <1>8 DEF Next

\* serve takes and releases runner.lock as BackendLock says, for any number of
\* runs, through crashes and late docker starts.
THEOREM BackendLockImplemented == Spec => ImplementsBackendLock
<1>1. Init => Backend!Init
  BY DEF Init, All, Backend!Init, Stage
<1>2. EngineIInv /\ [Next]_vars => [Backend!Next]_<<lock, StageMap>>
  BY LockStep
<1> QED  BY <1>1, <1>2, EngineInvariance, PTL
         DEF Spec, ImplementsBackendLock, Backend!Spec, StageMap

-----------------------------------------------------------------------------
(* The lock, when a docker start takes effect at once or never.              *)

\* The parts of the invariant about each run x, through every step of a run r.
LEMMA ServeSound ==
  ASSUME LateStarts = FALSE, ServiceIInv, NEW r \in Runs, Serve(r), NEW x \in Runs
  PROVE RunSound(x)'
<1> USE RunsAssumption, LeaseAgeAssumption DEF ServiceIInv, TypeOK, RunSound
<1>1. CASE Begin(r)
  BY <1>1 DEF Begin, Goto, guardVars, boxVars
<1>2. CASE Create(r)
  BY <1>2 DEF Create, Goto, guardVars
<1>3. CASE SpawnGuard(r)
  BY <1>3 DEF SpawnGuard, Goto, boxVars
<1>4. CASE Armed(r)
  BY <1>4 DEF Armed, Goto, guardVars, boxVars
<1>5. CASE Start(r)
  <2>1. ~pending'[x]
    <3>1. pending'[x] = pending[x] \/ pending'[x] = FALSE
      BY <1>5, PendingStart
    <3>2. ~pending[x]
      OBVIOUS
    <3> QED
      BY <3>1, <3>2, Zenon
  <2>2. CASE Boot(r) /\ ctl' \in {[ctl EXCEPT ![r] = "loading"], [ctl EXCEPT ![r] = "stopping"]}
    <3>1. ctl[r] = "starting" /\ UNCHANGED <<lock, cid, cleanup, guardVars>>
      BY <1>5 DEF Start
    <3>2. CASE x = r
      BY <2>1, <2>2, <3>1, <3>2 DEF Boot, guardVars
    <3>3. CASE x # r
      BY <2>1, <2>2, <3>1, <3>3 DEF Boot, guardVars
    <3> QED
      BY <3>2, <3>3
  <2>3. CASE Goto(r, "stopping") /\ UNCHANGED <<container, lease, progress, waited>>
    BY <1>5, <2>1, <2>3 DEF Start, Goto, guardVars
  <2> QED
    BY <1>5, <2>2, <2>3 DEF Start, Goto
<1>6. CASE BecomeReady(r)
  BY <1>6 DEF BecomeReady, Goto, guardVars, boxVars
<1>7. CASE Abort(r)
  BY <1>7 DEF Abort, Goto, guardVars, boxVars
<1> QED
  BY <1>1, <1>2, <1>3, <1>4, <1>5, <1>6, <1>7 DEF Serve

\* The same through the finally clause and a crash of the controller.
LEMMA CleanUpSound ==
  ASSUME LateStarts = FALSE, ServiceIInv, NEW r \in Runs, CleanUp(r) \/ Crash(r), NEW x \in Runs
  PROVE RunSound(x)'
<1> USE RunsAssumption, LeaseAgeAssumption DEF ServiceIInv, TypeOK, RunSound
<1>1. CASE BeginCleanup(r)
  BY <1>1 DEF BeginCleanup, Goto, guardVars, boxVars
<1>2. CASE RequestQuiescence(r)
  BY <1>2 DEF RequestQuiescence, ctlVars, boxVars
<1>3. CASE EndQuiescence(r)
  BY <1>3 DEF EndQuiescence, Goto, guardVars, boxVars
<1>4. CASE StopOwned(r)
  BY <1>4 DEF StopOwned, DockerStop, Goto, guardVars
<1>5. CASE Recover(r)
  BY <1>5 DEF Recover, Goto, boxVars
<1>6. CASE EndFinish(r)
  BY <1>6 DEF EndFinish, Goto, guardVars, boxVars
<1>7. CASE Release(r)
  BY <1>7 DEF Release, MayUnlock, Exit, Goto, boxVars
<1>8. CASE Crash(r)
  BY <1>8 DEF Crash, Exit, Goto, boxVars
<1> QED
  BY <1>1, <1>2, <1>3, <1>4, <1>5, <1>6, <1>7, <1>8 DEF CleanUp

\* The same through every step of the guard.
LEMMA GuardSound ==
  ASSUME LateStarts = FALSE, ServiceIInv, NEW r \in Runs, Guard(r) \/ GuardCrash(r), NEW x \in Runs
  PROVE RunSound(x)'
<1> USE RunsAssumption, LeaseAgeAssumption DEF ServiceIInv, TypeOK, RunSound
<1>1. CASE GuardBeat(r)
  BY <1>1 DEF GuardBeat, ctlVars
<1>2. CASE GuardTurn(r)
  BY <1>2 DEF GuardTurn, ctlVars, boxVars
<1>3. CASE GuardFails(r)
  BY <1>3 DEF GuardFails, ctlVars, boxVars
<1>4. CASE GuardStops(r)
  BY <1>4 DEF GuardStops, DockerStop, ctlVars
<1>5. CASE GuardCrash(r)
  BY <1>5 DEF GuardCrash, ctlVars, boxVars
<1> QED
  BY <1>1, <1>2, <1>3, <1>4, <1>5 DEF Guard

\* The same through supervisor and engine; a late docker start is excluded.
LEMMA ContainerSound ==
  ASSUME LateStarts = FALSE, ServiceIInv, NEW r \in Runs, Supervise(r) \/ EngineExits(r) \/ LateStart(r), NEW x \in Runs
  PROVE RunSound(x)'
<1> USE RunsAssumption, LeaseAgeAssumption DEF ServiceIInv, TypeOK, RunSound
<1>1. CASE Observe(r)
  BY <1>1 DEF Observe, ctlVars, guardVars
<1>2. CASE Expire(r)
  BY <1>2 DEF Expire, ctlVars, guardVars
<1>3. CASE EngineExits(r)
  BY <1>3 DEF EngineExits, ctlVars, guardVars
<1>4. CASE LateStart(r)
  BY <1>4 DEF LateStart
<1> QED
  BY <1>1, <1>2, <1>3, <1>4 DEF Supervise

\* Time moves nothing that RunSound looks at.
LEMMA TickSound ==
  ASSUME ServiceIInv, Tick, NEW x \in Runs
  PROVE RunSound(x)'
BY DEF Tick, ServiceIInv, RunSound, ctlVars, guardVars

\* The invariant is inductive, given the ages that EngineIInv bounds.
LEMMA NextPreserves ==
  LateStarts = FALSE /\ ServiceIInv /\ EngineIInv' /\ [Next]_vars => ServiceIInv'
<1> SUFFICES ASSUME LateStarts = FALSE, ServiceIInv, EngineIInv', [Next]_vars PROVE ServiceIInv'
  OBVIOUS
<1>1. CASE UNCHANGED vars
  BY <1>1 DEF vars, ctlVars, guardVars, boxVars, ServiceIInv, TypeOK, RunSound
<1>2. CASE Tick
  BY <1>2, TickSound DEF ServiceIInv, EngineIInv
<1>3. CASE \E r \in Runs : Serve(r)
  BY <1>3, ServeTyped, ServeSound DEF ServiceIInv
<1>4. CASE \E r \in Runs : CleanUp(r) \/ Crash(r)
  BY <1>4, CleanUpTyped, CleanUpSound DEF ServiceIInv
<1>5. CASE \E r \in Runs : Guard(r) \/ GuardCrash(r)
  BY <1>5, GuardTyped, GuardSound DEF ServiceIInv
<1>6. CASE \E r \in Runs : Supervise(r) \/ EngineExits(r) \/ LateStart(r)
  BY <1>6, ContainerTyped, ContainerSound DEF ServiceIInv
<1> QED
  BY <1>1, <1>2, <1>3, <1>4, <1>5, <1>6 DEF Next

\* The invariant of controller, guard, supervisor and lock holds through every
\* failure and crash, as long as no given-up docker start takes effect later.
THEOREM ServiceInvariance == ASSUME LateStarts = FALSE PROVE Spec => []ServiceIInv
<1>1. Init => ServiceIInv
  BY InitSound
<1>2. ServiceIInv /\ EngineIInv' /\ [Next]_vars => ServiceIInv'
  BY NextPreserves
<1> QED
  BY <1>1, <1>2, EngineInvariance, PTL DEF Spec

\* runner.lock names the run of every container that runs, so that serve of
\* another run cannot pass open('x').
THEOREM LockCovers == ASSUME LateStarts = FALSE PROVE Spec => []LockCoversContainer
<1>1. ServiceIInv => LockCoversContainer
  BY DEF ServiceIInv, RunSound, LockCoversContainer
<1> QED
  BY <1>1, ServiceInvariance, PTL

\* The guard returns 0 only when no container of its run is left running, and
\* none is started afterwards.
THEOREM GuardLast == ASSUME LateStarts = FALSE PROVE Spec => []GuardLeavesLast
<1>1. ServiceIInv => GuardLeavesLast
  BY DEF ServiceIInv, RunSound, GuardLeavesLast
<1> QED
  BY <1>1, ServiceInvariance, PTL

\* Only Begin and Release write the lock, and Release checks MayUnlock first.
LEMMA UnlockStep ==
  ASSUME ServiceIInv, [Next]_vars, NEW r \in Runs, lock = r, lock' # r
  PROVE /\ container[r] \notin Running /\ recovered[r]
        /\ guard'[r] \notin GuardAlive /\ ~failure'[r]
<1>1. PICK x \in Runs : Begin(x) \/ Release(x)
  BY DEF Next, vars, ctlVars, Serve, CleanUp, Guard, Supervise, SpawnGuard, Create, Armed, Start,
         BecomeReady, Abort, BeginCleanup, RequestQuiescence, EndQuiescence, StopOwned, Recover,
         EndFinish, Crash, Exit, GuardBeat, GuardTurn, GuardFails, GuardStops, GuardCrash, Observe, Expire,
         EngineExits, LateStart, Tick
<1>2. Release(x)
  BY <1>1, RunsAssumption DEF Begin
<1>3. x = r /\ MayUnlock(r)
  BY <1>2, RunsAssumption DEF Release, ServiceIInv, RunSound
<1>4. container[r] \notin Running /\ recovered[r] /\ ~failure[r]
  BY <1>3 DEF MayUnlock, ServiceIInv, RunSound
<1>5. guard'[r] \notin GuardAlive /\ ~failure'[r]
  BY <1>2, <1>3, <1>4 DEF Release, MayUnlock, ServiceIInv, TypeOK
<1> QED
  BY <1>4, <1>5

\* Nobody unlinks runner.lock before the container is terminal, the memory is
\* back and the guard has gone without a failure.
THEOREM UnlockEarned == ASSUME LateStarts = FALSE PROVE Spec => UnlockIsEarned
<1>1. ServiceIInv /\ [Next]_vars
        => [\A r \in Runs :
               lock = r /\ lock' # r
                  => /\ container[r] \notin Running /\ recovered[r]
                     /\ guard'[r] \notin GuardAlive /\ ~failure'[r]]_vars
  BY UnlockStep
<1> QED
  BY <1>1, ServiceInvariance, PTL DEF Spec, UnlockIsEarned
=============================================================================
