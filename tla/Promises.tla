------------------------------ MODULE Promises ------------------------------
(***************************************************************************)
(* What the abstract specifications are worth to those who rely on them.   *)
(* Each theorem is about an abstract specification alone; it carries over  *)
(* to every module that implements the specification.                      *)
(***************************************************************************)
EXTENDS Naturals, TLAPS

CONSTANTS Writes, Requests, Roles, Role, Runs, Patience, Services, None

VARIABLES status, holder, work, keeper, hot, age, lock, stage, run, opened, life, asked, shown

Ledger == INSTANCE OperationLedger
Lease == INSTANCE SlotLease
Engine == INSTANCE EngineLease
Backend == INSTANCE BackendLock WITH Nobody <- None
Record == INSTANCE RunRecord

-----------------------------------------------------------------------------
\* At most one write to the external system is claimed and unresolved.
SingleFlight ==
    \A w, x \in Writes : {status[w], status[x]} \subseteq {"claimed", "unknown"} => w = x

LedgerInv ==
    /\ status \in [Writes -> {"new", "claimed", "unknown", "settled", "withdrawn"}]
    /\ SingleFlight

\* However claims, losses, evidence and withdrawals follow each other in the
\* journal, no two writes are unresolved together.
THEOREM LedgerSingleFlight == Ledger!Spec => []SingleFlight
<1>1. Ledger!Init => LedgerInv
  BY DEF Ledger!Init, LedgerInv, SingleFlight
<1>2. ASSUME LedgerInv, [Ledger!Next]_status PROVE LedgerInv'
  <2> USE <1>2 DEF LedgerInv, SingleFlight, Ledger!Set
  <2>1. ASSUME NEW w \in Writes, Ledger!Claim(w) PROVE LedgerInv'
    BY <2>1 DEF Ledger!Claim
  <2>2. ASSUME NEW w \in Writes, Ledger!Settle(w) \/ Ledger!Lose(w) PROVE LedgerInv'
    BY <2>2 DEF Ledger!Settle, Ledger!Lose
  <2>3. ASSUME NEW W \in SUBSET Writes, Ledger!Withdraw(W) PROVE LedgerInv'
    BY <2>3 DEF Ledger!Withdraw
  <2>4. ASSUME NEW W \in SUBSET Writes, NEW w \in Writes, Ledger!Clear(w, W) PROVE LedgerInv'
    BY <2>4 DEF Ledger!Clear
  <2>5. CASE UNCHANGED status
    BY <2>5
  <2> QED  BY <2>1, <2>2, <2>3, <2>4, <2>5 DEF Ledger!Next
<1>3. LedgerInv /\ [Ledger!Next]_status => LedgerInv'
  BY <1>2
<1> QED  BY <1>1, <1>3, PTL DEF Ledger!Spec, LedgerInv

-----------------------------------------------------------------------------
\* Two requests of one role never have work on its slot together.
OneWorker ==
    \A r, x \in Requests : Role[r] = Role[x] /\ work[r] = "out" /\ work[x] = "out" => r = x

LeaseInv ==
    /\ holder \in [Roles -> Requests \cup {None}]
    /\ work \in [Requests -> {"none", "out", "over"}]
    /\ \A r \in Requests : work[r] = "out" => holder[Role[r]] = r

\* What the owner of the slots leases it leases to one request at a time, and not
\* to the next before the last one's inference is over.
THEOREM LeaseExcludes ==
  ASSUME None \notin Requests, Role \in [Requests -> Roles]
  PROVE  Lease!Spec => []OneWorker
<1>1. Lease!Init => LeaseInv
  BY DEF Lease!Init, LeaseInv
<1>2. ASSUME LeaseInv, [Lease!Next]_<<holder, work>> PROVE LeaseInv'
  <2> USE <1>2 DEF LeaseInv
  <2>1. ASSUME NEW r \in Requests, Lease!Grant(r) PROVE LeaseInv'
    BY <2>1 DEF Lease!Grant, Lease!Idle
  <2>2. ASSUME NEW r \in Requests, Lease!Begin(r) PROVE LeaseInv'
    BY <2>2 DEF Lease!Begin
  <2>3. ASSUME NEW r \in Requests, Lease!End(r) PROVE LeaseInv'
    BY <2>3 DEF Lease!End
  <2>4. CASE UNCHANGED <<holder, work>>
    BY <2>4
  <2> QED  BY <2>1, <2>2, <2>3, <2>4 DEF Lease!Next
<1>3. LeaseInv /\ [Lease!Next]_<<holder, work>> => LeaseInv'
  BY <1>2
<1>4. LeaseInv => OneWorker
  BY DEF LeaseInv, OneWorker
<1> QED  BY <1>1, <1>3, <1>4, PTL DEF Lease!Spec

-----------------------------------------------------------------------------
\* One engine at most, whose keeper's last renewal is younger than Patience.
EngineGuarded ==
    /\ \A r, x \in hot : r = x
    /\ hot # {} => age < Patience

EngineInv ==
    /\ keeper \in [Runs -> {"new", "kept", "gone"}] /\ hot \subseteq Runs /\ age \in Nat
    /\ EngineGuarded

\* On whatever schedule the keepers renew, leave or die, the machine has one hot
\* engine at most, and none that outlives its last renewal by Patience.
THEOREM EngineGuardedAlways ==
  ASSUME Patience \in Nat \ {0}
  PROVE  Engine!Spec => []EngineGuarded
<1>1. Engine!Init => EngineInv
  BY DEF Engine!Init, EngineInv, EngineGuarded
<1>2. ASSUME EngineInv, [Engine!Next]_<<keeper, hot, age>> PROVE EngineInv'
  <2> USE <1>2 DEF EngineInv, EngineGuarded, Engine!Stop
  <2>1. CASE Engine!Cool
    BY <2>1 DEF Engine!Cool
  <2>2. CASE Engine!Tick
    BY <2>2 DEF Engine!Tick
  <2>3. ASSUME NEW r \in Runs, Engine!Appoint(r) PROVE EngineInv'
    BY <2>3 DEF Engine!Appoint
  <2>4. ASSUME NEW r \in Runs, Engine!Renew(r) PROVE EngineInv'
    BY <2>4 DEF Engine!Renew
  <2>5. ASSUME NEW r \in Runs, Engine!Resign(r) PROVE EngineInv'
    BY <2>5 DEF Engine!Resign
  <2>6. CASE UNCHANGED <<keeper, hot, age>>
    BY <2>6
  <2> QED  BY <2>1, <2>2, <2>3, <2>4, <2>5, <2>6 DEF Engine!Next
<1>3. EngineInv /\ [Engine!Next]_<<keeper, hot, age>> => EngineInv'
  BY <1>2
<1> QED  BY <1>1, <1>3, PTL DEF Engine!Spec, EngineInv

-----------------------------------------------------------------------------
\* Who is past the lock and has not ended is named in it.
Exclusive == \A s \in Services : stage[s] = "serving" => lock = s

BackendInv ==
    /\ stage \in [Services -> {"before", "serving", "over"}]
    /\ Exclusive

\* Through ends without a release and locks that others remove, runner.lock names
\* the only service that serves.
THEOREM BackendExcludes ==
  ASSUME None \notin Services
  PROVE  Backend!Spec => []Exclusive
<1>1. Backend!Init => BackendInv
  BY DEF Backend!Init, BackendInv, Exclusive
<1>2. ASSUME BackendInv, [Backend!Next]_<<lock, stage>> PROVE BackendInv'
  <2> USE <1>2 DEF BackendInv, Exclusive, Backend!To
  <2>1. CASE Backend!Clear
    BY <2>1 DEF Backend!Clear
  <2>2. ASSUME NEW s \in Services, Backend!Take(s) PROVE BackendInv'
    BY <2>2 DEF Backend!Take
  <2>3. ASSUME NEW s \in Services, Backend!GiveUp(s) PROVE BackendInv'
    BY <2>3 DEF Backend!GiveUp
  <2>4. ASSUME NEW s \in Services, Backend!End(s) PROVE BackendInv'
    BY <2>4 DEF Backend!End
  <2>5. CASE UNCHANGED <<lock, stage>>
    BY <2>5
  <2> QED  BY <2>1, <2>2, <2>3, <2>4, <2>5 DEF Backend!Next
<1>3. BackendInv /\ [Backend!Next]_<<lock, stage>> => BackendInv'
  BY <1>2
<1> QED  BY <1>1, <1>3, PTL DEF Backend!Spec, BackendInv

-----------------------------------------------------------------------------
\* Whoever reads an end in current.json finds nothing of that run, and if it says
\* stopped, somebody asked for it.
EndIsTrue ==
    shown.end # "open" =>
        /\ shown.run # run /\ life[shown.run] # "some"
        /\ shown.end = "stopped" => shown.run \in asked

RecordInv ==
    /\ opened \subseteq Runs /\ asked \subseteq Runs
    /\ run \in opened \cup {None}
    /\ life \in [Runs -> {"none", "some", "left"}]
    /\ shown.end # "open" => shown.run \in opened
    /\ EndIsTrue

\* A published end stays true: the run never comes back, nor does a process of it.
THEOREM EndsAreTrue ==
  ASSUME None \notin Runs
  PROVE  Record!Spec => []EndIsTrue
<1> DEFINE rv == <<run, opened, life, asked, shown>>
<1>1. Record!Init => RecordInv
  BY DEF Record!Init, RecordInv, EndIsTrue
<1>2. ASSUME RecordInv, [Record!Next]_rv PROVE RecordInv'
  <2> USE <1>2 DEF RecordInv, EndIsTrue
  <2>1. CASE Record!Show
    BY <2>1 DEF Record!Show
  <2>2. CASE Record!Launch
    BY <2>2 DEF Record!Launch
  <2>3. CASE Record!Vanish
    BY <2>3 DEF Record!Vanish, Record!Die
  <2>4. ASSUME NEW r \in Runs, Record!Open(r) PROVE RecordInv'
    BY <2>4 DEF Record!Open
  <2>5. ASSUME NEW r \in Runs, Record!Ask(r) PROVE RecordInv'
    BY <2>5 DEF Record!Ask
  <2>6. ASSUME NEW r \in Runs, Record!Die(r), UNCHANGED <<run, opened, asked, shown>>
        PROVE RecordInv'
    BY <2>6 DEF Record!Die
  <2>7. ASSUME NEW how \in Record!Ends, Record!End(how) PROVE RecordInv'
    BY <2>7 DEF Record!End, Record!Ends
  <2>8. CASE UNCHANGED rv
    BY <2>8
  <2> QED  BY <2>1, <2>2, <2>3, <2>4, <2>5, <2>6, <2>7, <2>8 DEF Record!Next
<1>3. RecordInv /\ [Record!Next]_rv => RecordInv'
  BY <1>2
<1> QED  BY <1>1, <1>3, PTL DEF Record!Spec, RecordInv
=============================================================================
