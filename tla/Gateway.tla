------------------------------- MODULE Gateway -------------------------------
(***************************************************************************)
(* The inference path of server/gateway.py in direct mode: the slots of    *)
(* GatewaySlots, the readiness lease (last_healthy) with its probes under  *)
(* probe_lock, the upstream exchange, and the shutdown sequence of serve.  *)
(*                                                                         *)
(* Time is counted in ticks.  Ages saturate; a probe cannot outlive its    *)
(* ClientTimeout, so time does not pass while one has reached it.          *)
(* In the code acquire_slot, the lease check and the start of the POST run *)
(* without suspension when nothing has to wait.  Launch keeps the check    *)
(* and the POST atomic; acquiring is a step of its own.                    *)
(***************************************************************************)
EXTENDS GatewaySlots

CONSTANTS HealthCalls,    \* concurrent GET /health handlers
          LeaseSeconds,   \* the 10 s lease, in ticks
          ProbeSeconds,   \* the 5 s total timeout of a probe, in ticks
          BootAge         \* time.monotonic() at the start, in ticks, capped at the lease

Monitor == "health_monitor"

ASSUME LeaseAssumption == LeaseSeconds \in Nat \ {0}
ASSUME ProbeAssumption == ProbeSeconds \in Nat
ASSUME BootAssumption == BootAge \in 0..LeaseSeconds
ASSUME TaskAssumption == Monitor \notin Requests \cup HealthCalls /\ Requests \cap HealthCalls = {}

VARIABLES
    stage,      \* how far a request that holds a slot has come
    probers,    \* tasks at probe_lock in FIFO order; the head holds it
    probe,      \* ticks since the head sent its probe, or NoProbe
    clock,      \* time.monotonic(), capped at the lease
    lease,      \* time.monotonic() - last_healthy, capped at the lease
    evidence,   \* ticks since the probe behind the lease was sent (history)
    errored,    \* an upstream error was seen and no probe completed since (history)
    phase       \* serve: "serving", "stopping", "cancelling", "closed"

readiness == <<probers, probe, lease, evidence, errored>>
server == <<phase, clock>>
gatewayVars == <<vars, stage, readiness, server>>

NoProbe == -1
MaxEvidence == LeaseSeconds + ProbeSeconds
Stages == {"none", "admitted", "locking", "posting"}

GatewayTypeOK ==
    /\ stage \in [Requests -> Stages]
    /\ probers \in Seq(Requests \cup HealthCalls \cup {Monitor})
    /\ probe \in {NoProbe} \cup 0..ProbeSeconds
    /\ clock \in 0..LeaseSeconds
    /\ lease \in 0..LeaseSeconds
    /\ evidence \in 0..MaxEvidence
    /\ errored \in BOOLEAN
    /\ phase \in {"serving", "stopping", "cancelling", "closed"}

GatewayInit ==
    /\ Init
    /\ stage = [r \in Requests |-> "none"]
    /\ probers = <<>> /\ probe = NoProbe
    /\ clock = BootAge
    /\ lease = BootAge /\ evidence = MaxEvidence  \* last_healthy = 0.0
    /\ errored = FALSE
    /\ phase = "serving"

-----------------------------------------------------------------------------
(* Admission: the steps of GatewaySlots *)

StageAfterSlot(r) ==
    stage' = [stage EXCEPT ![r] = IF pc'[r] = "holding" THEN "admitted" ELSE "none"]

\* A request whose route, body and model passed validation asks for a slot;
\* its body may have been read while the listener was already stopping.
Submit(r) ==
    /\ phase \in {"serving", "stopping"}
    /\ AcquireSlot(r) /\ StageAfterSlot(r)
    /\ UNCHANGED <<readiness, server>>

Wake(r) ==
    /\ Resume(r) /\ StageAfterSlot(r)
    /\ UNCHANGED <<readiness, server>>

WaitEnds(r) ==
    /\ QueueTimeout(r) \/ Disconnect(r)
    /\ UNCHANGED <<stage, readiness, server>>

-----------------------------------------------------------------------------
(* Readiness *)

\* Mutant: a lease without an end.
Ready_NeverExpires == lease <= LeaseSeconds

Ready == lease < LeaseSeconds

\* last_healthy = 0.0
InvalidateLease ==
    /\ lease' = clock /\ evidence' = MaxEvidence

End(r, outcome) ==
    /\ Leave(r, outcome)
    /\ stage' = [stage EXCEPT ![r] = "none"]

\* ensure_ready has returned: the memory admission guard answers 503 or the
\* POST starts, without a suspension in between.
Launch(r) ==
    \/ End(r, "failed")
    \/ /\ stage' = [stage EXCEPT ![r] = "posting"]
       /\ UNCHANGED vars

\* ensure_ready, first look at the lease, outside the lock.
EnsureReady(r) ==
    /\ pc[r] = "holding" /\ stage[r] = "admitted"
    /\ IF Ready
       THEN Launch(r) /\ UNCHANGED probers
       ELSE /\ probers' = Append(probers, r)
            /\ stage' = [stage EXCEPT ![r] = "locking"]
            /\ UNCHANGED vars
    /\ UNCHANGED <<probe, lease, evidence, errored, server>>

LockTaken == probers # <<>> /\ probe = NoProbe

\* ensure_ready, second look at the lease, holding the lock.
Recheck(r) ==
    /\ LockTaken /\ Head(probers) = r
    /\ IF Ready
       THEN Launch(r) /\ probers' = Tail(probers) /\ UNCHANGED probe
       ELSE probe' = 0 /\ UNCHANGED <<vars, stage, probers>>
    /\ UNCHANGED <<lease, evidence, errored, server>>

\* health_monitor after its sleep, or a /health handler, queues for the lock.
JoinLock(p) ==
    /\ p \in HealthCalls => phase \in {"serving", "stopping"}
    /\ phase # "closed" /\ ~Contains(probers, p)
    /\ probers' = Append(probers, p)
    /\ UNCHANGED <<vars, stage, probe, lease, evidence, errored, server>>

\* They probe whatever the lease says.
StartProbe(p) ==
    /\ LockTaken /\ Head(probers) = p
    /\ probe' = 0
    /\ UNCHANGED <<vars, stage, probers, lease, evidence, errored, server>>

ProbeDone == probers' = Tail(probers) /\ probe' = NoProbe

ProbeSucceeds ==
    /\ probe # NoProbe
    /\ ProbeDone
    /\ lease' = 0 /\ evidence' = probe /\ errored' = FALSE
    /\ IF Head(probers) \in Requests
       THEN Launch(Head(probers))
       ELSE UNCHANGED <<vars, stage>>
    /\ UNCHANGED server

\* Mutant: the monitor retries a failed probe without leaving the lock.
ProbeFails_MonitorHoldsLock ==
    /\ probe # NoProbe
    /\ probe' = NoProbe
    /\ probers' = IF Head(probers) = Monitor THEN probers ELSE Tail(probers)
    /\ IF Head(probers) \in HealthCalls
       THEN UNCHANGED <<lease, evidence>>
       ELSE InvalidateLease
    /\ IF Head(probers) \in Requests
       THEN End(Head(probers), "failed")
       ELSE UNCHANGED <<vars, stage>>
    /\ UNCHANGED <<errored, server>>

\* Refused identity, status, payload, connection, or the total timeout.  The
\* /health handler answers 503 and leaves last_healthy alone.
ProbeFails ==
    /\ probe # NoProbe
    /\ ProbeDone
    /\ IF Head(probers) \in HealthCalls
       THEN UNCHANGED <<lease, evidence>>
       ELSE InvalidateLease
    /\ IF Head(probers) \in Requests
       THEN End(Head(probers), "failed")
       ELSE UNCHANGED <<vars, stage>>
    /\ UNCHANGED <<errored, server>>

-----------------------------------------------------------------------------
(* The upstream exchange and cancellation *)

\* The answer, whatever its HTTP status below 300 or from 400, was streamed.
Complete(r) ==
    /\ stage[r] = "posting"
    /\ End(r, "served")
    /\ UNCHANGED <<readiness, server>>

\* ClientError, TimeoutError, ValueError (a redirect) or OSError.
UpstreamError(r) ==
    /\ stage[r] = "posting"
    /\ End(r, "failed")
    /\ InvalidateLease /\ errored' = TRUE
    /\ UNCHANGED <<probers, probe, server>>

\* async with leaves the lock, or its queue, when a task in it is cancelled.
LeaveLock(p) ==
    IF Contains(probers, p)
    THEN /\ \E i \in 1..Len(probers) : probers[i] = p /\ probers' = RemoveAt(probers, i)
         /\ probe' = IF Head(probers) = p THEN NoProbe ELSE probe
    ELSE UNCHANGED <<probers, probe>>

\* Mutant: the finally clause is skipped on cancellation.
CancelRun_KeepsSlot(r) ==
    /\ stage[r] \in {"locking", "posting"}
    /\ pc' = [pc EXCEPT ![r] = "cancelled"]
    /\ stage' = [stage EXCEPT ![r] = "none"]
    /\ LeaveLock(r)
    /\ UNCHANGED <<active, draining, waiters, future, interrupt>>
    /\ UNCHANGED <<lease, evidence, errored, server>>

\* Mutant: an exchange with the backend is shielded from cancellation.
CancelRun_NotPosting(r) ==
    /\ stage[r] = "locking"
    /\ End(r, "cancelled")
    /\ LeaveLock(r)
    /\ UNCHANGED <<lease, evidence, errored, server>>

\* The client of a request that holds a slot disconnects, or the shutdown
\* cancels its handler, at one of its awaits.
CancelRun(r) ==
    /\ stage[r] \in {"locking", "posting"}
    /\ End(r, "cancelled")
    /\ LeaveLock(r)
    /\ UNCHANGED <<lease, evidence, errored, server>>

CancelHealth(h) ==
    /\ Contains(probers, h)
    /\ LeaveLock(h)
    /\ UNCHANGED <<vars, stage, lease, evidence, errored, server>>

-----------------------------------------------------------------------------
(* Shutdown and time *)

\* publish_unavailability of the controller latches draining while serving.
DeviceLost ==
    /\ Drain
    /\ UNCHANGED <<stage, readiness, server>>

\* The finally clause of serve: draining, then runner.cleanup() stops the
\* listener and waits shutdown_timeout for the handlers.
StopServing ==
    /\ phase = "serving" /\ phase' = "stopping"
    /\ Drain
    /\ UNCHANGED <<stage, readiness, clock>>

GraceOver ==
    /\ phase = "stopping" /\ phase' = "cancelling"
    /\ UNCHANGED <<vars, stage, readiness, clock>>

\* All handlers are gone: the session context cancels the monitor.
Close ==
    /\ phase = "cancelling"
    /\ \A r \in Requests : pc[r] \in Resting
    /\ \A h \in HealthCalls : ~Contains(probers, h)
    /\ phase' = "closed"
    /\ probers' = <<>> /\ probe' = NoProbe
    /\ UNCHANGED <<vars, stage, lease, evidence, errored, clock>>

Older(age, bound) == IF age < bound THEN age + 1 ELSE age

Tick ==
    /\ phase # "closed"
    /\ probe < ProbeSeconds
    /\ probe' = IF probe = NoProbe THEN NoProbe ELSE probe + 1
    /\ lease' = Older(lease, LeaseSeconds)
    /\ evidence' = Older(evidence, MaxEvidence)
    /\ clock' = Older(clock, LeaseSeconds)
    /\ UNCHANGED <<vars, stage, probers, errored, phase>>

Request(r) ==
    \/ Submit(r) \/ Wake(r) \/ WaitEnds(r) \/ EnsureReady(r) \/ Recheck(r)
    \/ Complete(r) \/ UpstreamError(r) \/ CancelRun(r)

GatewayNext ==
    \/ \E r \in Requests : Request(r)
    \/ \E p \in HealthCalls \cup {Monitor} : JoinLock(p) \/ StartProbe(p)
    \/ \E h \in HealthCalls : CancelHealth(h)
    \/ ProbeSucceeds \/ ProbeFails
    \/ DeviceLost \/ StopServing \/ GraceOver \/ Close \/ Tick

GatewaySpec == GatewayInit /\ [][GatewayNext]_gatewayVars

\* The event loop runs ready tasks, ClientTimeout ends probes, shutdown_timeout
\* ends the grace period, and the shutdown cancels what is still running.
\* Nothing is assumed of clients, of the queue timer or of the clock.
ShutdownFairness ==
    /\ \A r \in Requests :
          /\ WF_gatewayVars(Wake(r))
          /\ WF_gatewayVars(EnsureReady(r))
          /\ WF_gatewayVars(Recheck(r))
          /\ WF_gatewayVars(phase = "cancelling" /\ CancelRun(r))
    /\ \A p \in HealthCalls \cup {Monitor} : WF_gatewayVars(StartProbe(p))
    /\ \A h \in HealthCalls : WF_gatewayVars(phase = "cancelling" /\ CancelHealth(h))
    /\ WF_gatewayVars(ProbeSucceeds \/ ProbeFails)
    /\ WF_gatewayVars(GraceOver)
    /\ WF_gatewayVars(Close)

ShutdownSpec == GatewaySpec /\ ShutdownFairness

\* request_seconds ends every exchange with the backend: only EveryRequestEnds
\* assumes it.
ExchangeFairness ==
    \A r \in Requests : WF_gatewayVars(Complete(r) \/ UpstreamError(r))

-----------------------------------------------------------------------------
(* Properties *)

\* What a request does agrees with the slot it holds and with its place at
\* probe_lock, and nobody queues there twice.
StageSound ==
    /\ \A r \in Requests :
          /\ stage[r] # "none" <=> pc[r] = "holding"
          /\ stage[r] = "locking" <=> Contains(probers, r)
    /\ \A i, j \in 1..Len(probers) : probers[i] = probers[j] => i = j
    /\ probe # NoProbe => probers # <<>>

\* The lease is backed by a successful probe sent at most ProbeSeconds before
\* it began, and by none from before an upstream error; or last_healthy is 0.0
\* and the clock itself is still within the lease.
LeaseBacked ==
    Ready => (evidence <= lease + ProbeSeconds /\ ~errored) \/ lease = clock

\* After the server has closed nothing is left: no slot, no wait, no probe.
ClosedSound ==
    phase = "closed" => probers = <<>> /\ \A r \in Requests : pc[r] \in Resting

\* The inductive strengthening, whenever the gateway starts.
GatewayIInv ==
    /\ IInv /\ GatewayTypeOK /\ StageSound /\ LeaseBacked /\ ClosedSound
    /\ phase # "serving" => draining

\* README: upstream errors invalidate the lease immediately.  No lease holds
\* between an upstream error and the next probe that completes.
ErrorEndsLease == errored => ~Ready

\* From one lease after the clock's origin on, no request is sent upstream on
\* evidence older than the lease plus the time one probe may take, nor after an
\* upstream error without a probe since.
PostsOnEvidence ==
    [][\A r \in Requests :
          clock = LeaseSeconds /\ stage[r] # "posting" /\ stage'[r] = "posting"
             => evidence' < MaxEvidence /\ ~errored']_gatewayVars

\* The shutdown returns every slot and empties both queues.
ClosedIsQuiet == phase = "closed" => active = 0 /\ waiters = <<>> /\ probers = <<>>

\* Probing, posting, cancelling and shutting down use the slots only as
\* GatewaySlots says.
ImplementsSlots == Spec

\* With bounded probes and exchanges a request that asked for a slot is
\* answered: the probe lock neither deadlocks nor starves it.
EveryRequestEnds ==
    ExchangeFairness => \A r \in Requests : pc[r] \notin Resting ~> pc[r] \in Resting

\* The shutdown completes even if the backend never answers.
ShutdownCompletes == phase = "stopping" ~> phase = "closed"
=============================================================================
