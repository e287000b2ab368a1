---------------------------- MODULE GatewaySlots ----------------------------
(***************************************************************************)
(* The slot bookkeeping of server/gateway.py: Gateway.acquire_slot,        *)
(* Gateway.release_slot and the setter of Gateway.draining.                *)
(*                                                                         *)
(* Every request is one asyncio task.  Code between two awaits runs        *)
(* atomically, so an action is a stretch of code between two suspension    *)
(* points.  A queued task is suspended in wait_for(shield(waiter)).  Three *)
(* things can happen to it before it runs again: release_slot or the       *)
(* draining setter resolves its future, its queue timer fires, its client  *)
(* disconnects.  They race: a future may be resolved after the timer has   *)
(* cancelled the wait and before the task has noticed, and the reverse.    *)
(***************************************************************************)
EXTENDS Integers, Sequences, FiniteSets, SequencesExt

CONSTANTS Requests,     \* identities of request tasks; a finished one may be reused
          Concurrency,  \* Gateway.concurrency
          QueueLimit    \* Gateway.queue_limit

ASSUME ConcurrencyAssumption == Concurrency \in Nat \ {0}
ASSUME QueueLimitAssumption == QueueLimit \in Nat

VARIABLES
    active,     \* Gateway.active
    draining,   \* Gateway._draining
    waiters,    \* Gateway.waiters: the deque, as the requests owning its futures
    future,     \* the waiter future of each request
    pc,         \* where each request task stands
    interrupt   \* cancellation requested of a waiting task, not yet delivered

vars == <<active, draining, waiters, future, pc, interrupt>>

Resting == {"idle", "served", "failed", "refused", "cancelled"}  \* no slot, no wait
PCs == Resting \cup {"waiting", "holding"}
Futures == {"none", "pending", "granted", "denied"}
Interrupts == {"none", "timeout", "cancel"}

TypeOK ==
    /\ active \in 0..Concurrency
    /\ draining \in BOOLEAN
    /\ waiters \in Seq(Requests)
    /\ future \in [Requests -> Futures]
    /\ pc \in [Requests -> PCs]
    /\ interrupt \in [Requests -> Interrupts]

Init ==
    /\ active = 0
    /\ draining = FALSE
    /\ waiters = <<>>
    /\ future = [r \in Requests |-> "none"]
    /\ pc = [r \in Requests |-> "idle"]
    /\ interrupt = [r \in Requests |-> "none"]

-----------------------------------------------------------------------------
(* acquire_slot up to its only await *)

SlotFree == active < Concurrency /\ waiters = <<>>

AcquireAtOnce(r) ==
    /\ ~draining /\ SlotFree
    /\ active' = active + 1
    /\ pc' = [pc EXCEPT ![r] = "holding"]
    /\ UNCHANGED <<draining, waiters, future, interrupt>>

AcquireQueued(r) ==
    /\ ~draining /\ ~SlotFree
    /\ Len(waiters) < QueueLimit
    /\ waiters' = Append(waiters, r)
    /\ future' = [future EXCEPT ![r] = "pending"]
    /\ pc' = [pc EXCEPT ![r] = "waiting"]
    /\ UNCHANGED <<active, draining, interrupt>>

AcquireRefused(r) ==
    /\ draining \/ (~SlotFree /\ Len(waiters) >= QueueLimit)
    /\ pc' = [pc EXCEPT ![r] = "refused"]
    /\ UNCHANGED <<active, draining, waiters, future, interrupt>>

AcquireSlot(r) ==
    /\ pc[r] \in Resting
    /\ AcquireAtOnce(r) \/ AcquireQueued(r) \/ AcquireRefused(r)

-----------------------------------------------------------------------------
(* release_slot *)

\* The futures its loop has resolved after popping the first k waiters.
Woken(k) == {waiters[i] : i \in {j \in 1..k : future[waiters[j]] = "pending"}}

Running(k) == active - 1 + Cardinality(Woken(k))

\* The loop ends after the first k at which its condition is false.
ReleaseStops(k) == k = Len(waiters) \/ draining \/ Running(k) >= Concurrency

\* Mutant: the deque is popped from the wrong end.
ReleaseSlot_NewestFirst(r) ==
    IF waiters = <<>> \/ draining
    THEN active' = active - 1 /\ future' = [future EXCEPT ![r] = "none"] /\ UNCHANGED waiters
    ELSE /\ UNCHANGED active
         /\ waiters' = Front(waiters)
         /\ future' = [future EXCEPT ![r] = "none", ![Last(waiters)] = "granted"]

\* r gives its slot back; the future of its own finished wait is dropped.
ReleaseSlot(r) ==
    \E k \in 0..Len(waiters) :
        /\ ReleaseStops(k)
        /\ \A j \in 0..(k - 1) : ~ReleaseStops(j)
        /\ active' = Running(k)
        /\ waiters' = SubSeq(waiters, k + 1, Len(waiters))
        /\ future' = [x \in Requests |->
                        IF x \in Woken(k) THEN "granted"
                        ELSE IF x = r THEN "none" ELSE future[x]]

-----------------------------------------------------------------------------
(* acquire_slot after its await *)

\* waiter.cancel() and waiters.remove(waiter), whose ValueError is ignored.
AbandonWait(r) ==
    /\ future' = [future EXCEPT ![r] = "none"]
    /\ IF Contains(waiters, r)
       THEN \E i \in 1..Len(waiters) : waiters[i] = r /\ waiters' = RemoveAt(waiters, i)
       ELSE UNCHANGED waiters
    /\ UNCHANGED active

\* Mutant: a grant that races with the interruption is forgotten.
HandBackInterrupted_KeepsGrant(r) == AbandonWait(r)

HandBackInterrupted(r) ==
    IF future[r] = "granted" THEN ReleaseSlot(r) ELSE AbandonWait(r)

\* The except branch: the timer answers False (429), a disconnect re-raises.
ResumeInterrupted(r) ==
    /\ pc[r] = "waiting" /\ interrupt[r] # "none"
    /\ HandBackInterrupted(r)
    /\ pc' = [pc EXCEPT ![r] = IF interrupt[r] = "cancel" THEN "cancelled" ELSE "refused"]
    /\ interrupt' = [interrupt EXCEPT ![r] = "none"]
    /\ UNCHANGED draining

\* Mutant: draining is not looked at again after the grant.
ResumeGranted_IgnoresDrain(r) ==
    /\ pc[r] = "waiting" /\ interrupt[r] = "none" /\ future[r] = "granted"
    /\ future' = [future EXCEPT ![r] = "none"]
    /\ pc' = [pc EXCEPT ![r] = "holding"]
    /\ UNCHANGED <<active, waiters, draining, interrupt>>

ResumeGranted(r) ==
    /\ pc[r] = "waiting" /\ interrupt[r] = "none" /\ future[r] = "granted"
    /\ IF draining
       THEN /\ ReleaseSlot(r)
            /\ pc' = [pc EXCEPT ![r] = "refused"]
       ELSE /\ future' = [future EXCEPT ![r] = "none"]
            /\ pc' = [pc EXCEPT ![r] = "holding"]
            /\ UNCHANGED <<active, waiters>>
    /\ UNCHANGED <<draining, interrupt>>

ResumeDenied(r) ==
    /\ pc[r] = "waiting" /\ interrupt[r] = "none" /\ future[r] = "denied"
    /\ future' = [future EXCEPT ![r] = "none"]
    /\ pc' = [pc EXCEPT ![r] = "refused"]
    /\ UNCHANGED <<active, draining, waiters, interrupt>>

Resume(r) == ResumeInterrupted(r) \/ ResumeGranted(r) \/ ResumeDenied(r)

-----------------------------------------------------------------------------
(* The rest of the task and its environment *)

\* The finally clause of inference: a request that holds a slot ends, because
\* its answer is complete, because it failed or because it was cancelled.
Leave(r, outcome) ==
    /\ pc[r] = "holding"
    /\ ReleaseSlot(r)
    /\ pc' = [pc EXCEPT ![r] = outcome]
    /\ UNCHANGED <<draining, interrupt>>

Finish(r) == \E outcome \in {"served", "failed", "cancelled"} : Leave(r, outcome)

\* queue_seconds elapse: wait_for cancels the wait, the task runs later.
QueueTimeout(r) ==
    /\ pc[r] = "waiting" /\ interrupt[r] = "none"
    /\ interrupt' = [interrupt EXCEPT ![r] = "timeout"]
    /\ UNCHANGED <<active, draining, waiters, future, pc>>

\* The client disconnects: aiohttp cancels the handler task.
Disconnect(r) ==
    /\ pc[r] = "waiting" /\ interrupt[r] # "cancel"
    /\ interrupt' = [interrupt EXCEPT ![r] = "cancel"]
    /\ UNCHANGED <<active, draining, waiters, future, pc>>

\* draining = True: queued futures resolve to False.
Drain ==
    /\ draining' = TRUE
    /\ waiters' = <<>>
    /\ future' = [r \in Requests |->
                    IF Contains(waiters, r) /\ future[r] = "pending" THEN "denied" ELSE future[r]]
    /\ UNCHANGED <<active, pc, interrupt>>

Step(r) ==
    \/ AcquireSlot(r) \/ Resume(r) \/ Finish(r)
    \/ QueueTimeout(r) \/ Disconnect(r)

Next == Drain \/ \E r \in Requests : Step(r)

Spec == Init /\ [][Next]_vars

\* The event loop runs every task that is ready, and request_seconds bounds
\* the time a request holds its slot.  Nothing is assumed of clients, of the
\* queue timer or of shutdown.
Fairness == \A r \in Requests : WF_vars(Resume(r)) /\ WF_vars(Finish(r))

FairSpec == Spec /\ Fairness

-----------------------------------------------------------------------------
(* Properties *)

\* A slot is reserved for r: it runs, or it was granted one and has not yet
\* been scheduled.
Owners == {r \in Requests : pc[r] = "holding" \/ future[r] = "granted"}

\* Gateway.active counts exactly the reserved slots, on every path through
\* grant, timeout, disconnect, drain and finish: no slot leaks, none is
\* returned twice.
SlotAccounting == IsFiniteSet(Owners) /\ active = Cardinality(Owners)

\* No more than Gateway.concurrency requests run upstream at a time.
ConcurrencyBound == Cardinality({r \in Requests : pc[r] = "holding"}) <= Concurrency

\* No lost wake-up: while a request waits in the deque every slot is taken
\* (and the gateway is not draining), so some later release_slot finds it.
WorkConserving == waiters # <<>> => active = Concurrency /\ ~draining

\* The deque holds the waiting requests whose future is unresolved, each
\* once, and never more than queue_limit of them: an abandoned wait leaves
\* nothing behind that would use up queue capacity or swallow a grant.
QueueSound ==
    /\ Len(waiters) <= QueueLimit
    /\ \A i, j \in 1..Len(waiters) : waiters[i] = waiters[j] => i = j
    /\ \A r \in Requests :
          future[r] = "pending" <=> \E i \in 1..Len(waiters) : waiters[i] = r

\* A future exists exactly while its task waits, and only a waiting task can
\* have an undelivered cancellation.
WaitSound ==
    \A r \in Requests : /\ pc[r] = "waiting" <=> future[r] # "none"
                        /\ interrupt[r] # "none" => pc[r] = "waiting"

\* The inductive strengthening: what makes the counter, the deque and the
\* futures tell one story after every step.
IInv == TypeOK /\ WaitSound /\ QueueSound /\ WorkConserving /\ SlotAccounting

\* release_slot reserves for the oldest waiter first: a slot is never granted
\* to a request while one queued before it stays queued, and a newcomer never
\* takes a slot past the queue.
NoOvertaking ==
    [][/\ \A i, j \in 1..Len(waiters) :
             i < j /\ future'[waiters[j]] = "granted" => ~Contains(waiters', waiters[i])
       /\ \A r \in Requests :
             pc[r] \in Resting /\ pc'[r] = "holding" => waiters = <<>>]_vars

\* Once draining is set no request starts to run, not even one that had been
\* granted its slot before and had not resumed yet.
DrainStopsAdmission ==
    [][\A r \in Requests : draining /\ pc'[r] = "holding" => pc[r] = "holding"]_vars

\* After draining every slot comes back for good.
DrainReturnsSlots == draining ~> [](active = 0)

\* The bookkeeping implements the abstract pool.
Pool == INSTANCE AdmissionQueue
            WITH owners <- Owners, queue <- waiters, open <- ~draining
ImplementsAdmissionQueue == Pool!Spec
=============================================================================
