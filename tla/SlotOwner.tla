------------------------------ MODULE SlotOwner ------------------------------
(***************************************************************************)
(* SharedSlotOwner of voice/native-bridge/conversation_admission.py, the   *)
(* requests it admits and the server whose slots it leases, from the       *)
(* successful startup observation on.                                      *)
(*                                                                         *)
(* A request has three actors: its call on the event loop (call), the      *)
(* thread of its chat transaction (thread), which outlives a call that     *)
(* gives up, and the cleanup task of a cancelled call.  A role has one     *)
(* thread that reads /slots (probe).  Deadlines may pass at any check, so  *)
(* a step that checks one may always fail instead.  A receipt's times      *)
(* are kept as the order that is read from them.                           *)
(***************************************************************************)
EXTENDS Naturals

CONSTANTS Requests, Roles, Role,
          Foreign,   \* task ids of other clients' work on the slots
          Planner,   \* the role whose reads may drain and be witnessed
          None

ASSUME RolesAssumption == Role \in [Requests -> Roles]
ASSUME NoneAssumption == None \notin Requests \cup Roles \cup Foreign /\ Requests \cap Foreign = {}

VARIABLES
    call,       \* where run_admitted_chat is
    guarded,    \* identity and token were read since the last wait
    thread,     \* where _chat_transaction is
    sealed, cancelled, inferred, terminal, active, released, reason,   \* the receipt
    roles, waiter, lastTask, invalid,                                  \* the owner
    probe, gets, witnessed, cleanup, tries,                            \* observers of /slots
    post,       \* external: what became of the request's inference POST
    slot,       \* external: is_processing and id_task of the role's slot
    strangers   \* external: foreign tasks that were already run

callVars == <<call, guarded>>
sealVars == <<sealed, cancelled>>
witnessVars == <<inferred, terminal, active>>
outcomeVars == <<released, reason>>
roleVars == <<roles, waiter>>
cleanupVars == <<witnessed, cleanup, tries>>
probeVars == <<probe, gets>>
serverVars == <<post, slot, strangers>>
vars == <<callVars, thread, sealVars, witnessVars, outcomeVars, roleVars, lastTask, invalid,
          probeVars, cleanupVars, serverVars>>

TaskIds == Requests \cup Foreign
SlotState == [busy : BOOLEAN, task : TaskIds \cup {None}]
Idle == [busy |-> FALSE, task |-> None]
Observer(r, kind, step, dead, after, seen) ==
    [of |-> r, kind |-> kind, step |-> step, dead |-> dead, after |-> after, seen |-> seen]
NoProbe == Observer(None, "none", "none", FALSE, FALSE, Idle)
Probe == [of : Requests \cup {None}, kind : {"none", "cleanup", "witness"},
          step : {"none", "guard", "sent", "read"}, dead : BOOLEAN, after : BOOLEAN, seen : SlotState]

CallStates == {"new", "asking", "working", "completing", "probing", "done"}
ThreadStates == {"none", "prepare", "counting", "counted", "sending", "reading", "gone"}
PostStates == {"unsent", "sent", "running", "answered", "over", "dropped"}
CleanupStates == {"none", "waiting", "probing", "over"}
Bases == {"", "zero", "terminal", "active"}
Reasons == {"", "open", "unexpected"}

TypeOK ==
    /\ call \in [Requests -> CallStates] /\ guarded \in [Requests -> BOOLEAN]
    /\ thread \in [Requests -> ThreadStates]
    /\ sealed \in [Requests -> BOOLEAN] /\ cancelled \in [Requests -> BOOLEAN]
    /\ inferred \in [Requests -> BOOLEAN] /\ terminal \in [Requests -> BOOLEAN]
    /\ active \in [Requests -> TaskIds \cup {None}]
    /\ released \in [Requests -> Bases] /\ reason \in [Requests -> Reasons]
    /\ roles \in [Roles -> Requests \cup {None}] /\ waiter \in [Roles -> Requests \cup {None}]
    /\ lastTask \in [Roles -> TaskIds \cup {None}] /\ invalid \in BOOLEAN
    /\ probe \in [Roles -> Probe] /\ gets \in [Requests -> 0..2] /\ tries \in [Requests -> 0..2]
    /\ witnessed \in [Requests -> BOOLEAN] /\ cleanup \in [Requests -> CleanupStates]
    /\ post \in [Requests -> PostStates]
    /\ slot \in [Roles -> SlotState] /\ strangers \subseteq Foreign

Init ==
    /\ call = [r \in Requests |-> "new"] /\ guarded = [r \in Requests |-> FALSE]
    /\ thread = [r \in Requests |-> "none"]
    /\ sealed = [r \in Requests |-> FALSE] /\ cancelled = [r \in Requests |-> FALSE]
    /\ inferred = [r \in Requests |-> FALSE] /\ terminal = [r \in Requests |-> FALSE]
    /\ active = [r \in Requests |-> None] /\ released = [r \in Requests |-> ""]
    /\ reason = [r \in Requests |-> ""]
    /\ roles = [role \in Roles |-> None] /\ waiter = [role \in Roles |-> None]
    /\ lastTask = [role \in Roles |-> None] /\ invalid = FALSE
    /\ probe = [role \in Roles |-> NoProbe]
    /\ gets = [r \in Requests |-> 0] /\ tries = [r \in Requests |-> 0]
    /\ witnessed = [r \in Requests |-> FALSE] /\ cleanup = [r \in Requests |-> "none"]
    /\ post = [r \in Requests |-> "unsent"]
    /\ slot = [role \in Roles |-> Idle] /\ strangers = {}

-----------------------------------------------------------------------------
(* Receipts *)

Set(f, r) == [f EXCEPT ![r] = TRUE]

\* Mutant: a later observation overwrites a contradictory association.
Doubt_Overwrites(r, why) == reason' = [reason EXCEPT ![r] = why]

\* update: a contradictory association stays.
Doubt(r, why) == reason' = [reason EXCEPT ![r] = IF @ = "unexpected" THEN @ ELSE why]

\* retire, if hard
Retire(r, hard) ==
    /\ sealed' = [sealed EXCEPT ![r] = @ \/ hard]
    /\ cancelled' = [cancelled EXCEPT ![r] = @ \/ hard]

\* The requester gives up for good.
Abort(r) ==
    /\ call[r] # "new" /\ ~cancelled[r]
    /\ Retire(r, TRUE)
    /\ UNCHANGED <<callVars, thread, witnessVars, outcomeVars, roleVars, lastTask, invalid, probeVars,
                   cleanupVars, serverVars>>

\* revoke_for_drain: a planner's read goes on, everything else is cancelled.
Revoke(r) ==
    /\ call[r] # "new"
    /\ sealed' = Set(sealed, r)
    /\ \/ Role[r] = Planner /\ inferred[r] /\ ~cancelled[r] /\ UNCHANGED cancelled
       \/ cancelled' = Set(cancelled, r)
    /\ UNCHANGED <<callVars, thread, witnessVars, outcomeVars, roleVars, lastTask, invalid, probeVars,
                   cleanupVars, serverVars>>

-----------------------------------------------------------------------------
(* acquire *)

\* guard, in whatever thread reads the identity, even one nobody waits for
\* any more: the process, its listener or the token is another one.
Drift ==
    /\ ~invalid /\ invalid' = TRUE
    /\ UNCHANGED <<callVars, thread, sealVars, witnessVars, outcomeVars, roleVars, lastTask, probeVars,
                   cleanupVars, serverVars>>

\* Mutant: a cancelled lease is handed on like a released one.
Free_Cancelled(role) ==
    roles[role] # None => released[roles[role]] # "" \/ cancelled[roles[role]]

Free(role) == roles[role] # None => released[roles[role]] # ""

NotWaiting(r) == [waiter EXCEPT ![Role[r]] = IF @ = r THEN None ELSE @]

Ask(r) ==
    /\ call[r] = "new"
    /\ call' = [call EXCEPT ![r] = "asking"] /\ guarded' = Set(guarded, r)
    /\ UNCHANGED <<thread, sealVars, witnessVars, outcomeVars, roleVars, lastTask, invalid, probeVars,
                   cleanupVars, serverVars>>

\* The lease is taken and the transaction's thread started without an await between.
Acquire(r) ==
    /\ call[r] = "asking" /\ guarded[r] /\ ~cancelled[r] /\ ~invalid
    /\ Free(Role[r])
    /\ call' = [call EXCEPT ![r] = "working"] /\ thread' = [thread EXCEPT ![r] = "prepare"]
    /\ roles' = [roles EXCEPT ![Role[r]] = r] /\ waiter' = NotWaiting(r)
    /\ UNCHANGED <<guarded, sealVars, witnessVars, outcomeVars, lastTask, invalid, probeVars,
                   cleanupVars, serverVars>>

\* Only a lease that is neither sealed nor left by its thread is waited for,
\* by one waiter; what was read before the wait is then stale.
Wait(r) ==
    LET previous == roles[Role[r]]
    IN  /\ call[r] = "asking" /\ ~cancelled[r] /\ ~invalid /\ ~Free(Role[r])
        /\ ~sealed[previous] /\ thread[previous] # "gone" /\ waiter[Role[r]] \in {None, r}
        /\ waiter' = [waiter EXCEPT ![Role[r]] = r]
        /\ guarded' = [guarded EXCEPT ![r] = FALSE]
        /\ UNCHANGED <<call, thread, sealVars, witnessVars, outcomeVars, roles, lastTask, invalid,
                       probeVars, cleanupVars, serverVars>>

Refresh(r) ==
    /\ call[r] = "asking" /\ ~guarded[r] /\ ~cancelled[r] /\ ~invalid /\ Free(Role[r])
    /\ guarded' = Set(guarded, r)
    /\ UNCHANGED <<call, thread, sealVars, witnessVars, outcomeVars, roleVars, lastTask, invalid,
                   probeVars, cleanupVars, serverVars>>

\* An unresolved role, another waiter, the bound of the wait, a deadline.
Refuse(r) ==
    /\ call[r] = "asking"
    /\ call' = [call EXCEPT ![r] = "done"] /\ waiter' = NotWaiting(r)
    /\ UNCHANGED <<guarded, thread, sealVars, witnessVars, outcomeVars, roles, lastTask, invalid,
                   probeVars, cleanupVars, serverVars>>

-----------------------------------------------------------------------------
(* The thread of _chat_transaction *)

\* Mutant: only the guard before the locks asks whether the owner is still valid.
Dispatchable_Guarded(r) == ~sealed[r] /\ ~cancelled[r]

\* dispatch, under both locks
Dispatchable(r) == ~sealed[r] /\ ~cancelled[r] /\ ~invalid

ThreadStep(r, from, to) == thread[r] = from /\ thread' = [thread EXCEPT ![r] = to]

DispatchCount(r) ==
    /\ ThreadStep(r, "prepare", "counting") /\ Dispatchable(r)
    /\ UNCHANGED <<callVars, sealVars, witnessVars, outcomeVars, roleVars, lastTask, invalid, probeVars,
                   cleanupVars, serverVars>>

Counted(r) ==
    /\ ThreadStep(r, "counting", "counted") /\ ~cancelled[r]
    /\ UNCHANGED <<callVars, sealVars, witnessVars, outcomeVars, roleVars, lastTask, invalid, probeVars,
                   cleanupVars, serverVars>>

\* The attempt is counted before anything is sent.
DispatchInference(r) ==
    /\ ThreadStep(r, "counted", "sending") /\ Dispatchable(r)
    /\ inferred' = Set(inferred, r)
    /\ UNCHANGED <<callVars, sealVars, terminal, active, outcomeVars, roleVars, lastTask, invalid,
                   probeVars, cleanupVars, serverVars>>

Send(r) ==
    /\ ThreadStep(r, "sending", "reading") /\ ~cancelled[r]
    /\ post' = [post EXCEPT ![r] = "sent"]
    /\ UNCHANGED <<callVars, sealVars, witnessVars, outcomeVars, roleVars, lastTask, invalid, probeVars,
                   cleanupVars, slot, strangers>>

\* The full answer was read and decoded in time.
Read(r) ==
    /\ ThreadStep(r, "reading", "gone") /\ post[r] \in {"answered", "over"} /\ ~cancelled[r]
    /\ terminal' = Set(terminal, r)
    /\ UNCHANGED <<callVars, sealVars, inferred, active, outcomeVars, roleVars, lastTask, invalid,
                   probeVars, cleanupVars, serverVars>>

\* Every other end; only a rejected budget or proposal does not retire.
Fail(r, hard) ==
    /\ thread[r] \notin {"none", "gone"} /\ thread' = [thread EXCEPT ![r] = "gone"]
    /\ \/ hard
       \/ thread[r] \in {"prepare", "counting"}
       \/ thread[r] = "reading" /\ post[r] \in {"answered", "over"}
    /\ Retire(r, hard)
    /\ UNCHANGED <<callVars, witnessVars, outcomeVars, roleVars, lastTask, invalid, probeVars,
                   cleanupVars, serverVars>>

-----------------------------------------------------------------------------
(* Observers of /slots *)

\* _probe, unless an observer of the role is outstanding
Observe(r, kind) ==
    /\ probe[Role[r]].of = None
    /\ probe' = [probe EXCEPT ![Role[r]] = Observer(r, kind, "guard", FALSE, FALSE, Idle)]

Gone(role) == probe' = [probe EXCEPT ![role] = NoProbe]

\* Whoever waited for it gives up; its thread is not stopped.
Abandon(role) ==
    LET p == probe[role]
    IN  probe' = [probe EXCEPT ![role] = Observer(p.of, p.kind, p.step, TRUE, p.after, p.seen)]

\* observe_active
Witness(r) ==
    /\ ~invalid /\ Role[r] = Planner /\ roles[Planner] = r
    /\ inferred[r] /\ ~terminal[r] /\ released[r] = "" /\ ~cancelled[r] /\ ~witnessed[r]
    /\ witnessed' = Set(witnessed, r)
    /\ Observe(r, "witness") \/ UNCHANGED probe
    /\ UNCHANGED <<callVars, thread, sealVars, witnessVars, outcomeVars, roleVars, lastTask, invalid,
                   gets, cleanup, tries, serverVars>>

\* The deadline of a witness or of a cleanup task's observation.
ProbeTimesOut(role) ==
    LET p == probe[role]
    IN  /\ p.of # None /\ ~p.dead
        /\ p.kind = "witness" \/ cleanup[p.of] = "probing"
        /\ Abandon(role)
        /\ cleanup' = IF p.kind = "witness" THEN cleanup ELSE [cleanup EXCEPT ![p.of] = "waiting"]
        /\ UNCHANGED <<callVars, thread, sealVars, witnessVars, outcomeVars, roleVars, lastTask, invalid,
                       gets, witnessed, tries, serverVars>>

\* The window of a witness closes with the answer; a cancelled call is observed twice.
ProbeSend(role) ==
    LET p == probe[role]
        r == p.of
    IN  /\ p.step = "guard" /\ ~p.dead
        /\ IF p.kind = "witness" THEN ~terminal[r] /\ ~cancelled[r] /\ released[r] = "" /\ UNCHANGED gets
           ELSE gets[r] < (IF cancelled[r] THEN 2 ELSE 1) /\ gets' = [gets EXCEPT ![r] = @ + 1]
        /\ probe' = [probe EXCEPT ![role] =
                         Observer(r, p.kind, "sent", FALSE, terminal[r] \/ active[r] # None, Idle)]
    /\ UNCHANGED <<callVars, thread, sealVars, witnessVars, outcomeVars, roleVars, lastTask, invalid,
                   cleanupVars, serverVars>>

\* External: the server answers the GET.
ProbeSees(role) ==
    LET p == probe[role]
    IN  /\ p.step = "sent"
        /\ probe' = [probe EXCEPT ![role] = Observer(p.of, p.kind, "read", p.dead, p.after, slot[role])]
        /\ UNCHANGED <<callVars, thread, sealVars, witnessVars, outcomeVars, roleVars, lastTask, invalid,
                       gets, cleanupVars, serverVars>>

\* Mutant: an observation counts although it was sent before the evidence.
Proves_Stale(r, p) == terminal[r] \/ active[r] # None

\* sent_at against full_terminal_at and active_observed_at
Proves(r, p) == p.after

Release(r, basis) ==
    /\ sealed' = Set(sealed, r)
    /\ released' = [released EXCEPT ![r] = basis] /\ reason' = [reason EXCEPT ![r] = ""]

\* _apply_slots; it does not look at the observer's deadline any more.
Apply(role) ==
    LET p == probe[role]
        r == p.of
        t == p.seen.task
        unexpected == \/ p.seen.busy /\ (~inferred[r] \/ t = lastTask[role] \/ active[r] \notin {None, t})
                      \/ ~p.seen.busy /\ active[r] # None /\ t \notin {None, active[r]}
        stale == roles[role] # r \/ released[r] # "" \/ reason[r] = "unexpected"
    IN  /\ p.step = "read" /\ ~invalid
        /\ \/ stale /\ UNCHANGED <<sealed, active, outcomeVars, lastTask>>
           \/ ~stale /\ unexpected
                /\ Doubt(r, "unexpected") /\ UNCHANGED <<sealed, active, released, lastTask>>
           \/ ~stale /\ ~unexpected /\ p.seen.busy
                /\ active' = [active EXCEPT ![r] = t]
                /\ Doubt(r, "open") /\ UNCHANGED <<sealed, released, lastTask>>
           \/ ~stale /\ ~unexpected /\ ~p.seen.busy /\ Proves(r, p)
                /\ lastTask' = [lastTask EXCEPT ![role] = t]
                /\ Release(r, IF terminal[r] THEN "terminal" ELSE "active") /\ UNCHANGED active
           \/ ~stale /\ ~unexpected /\ ~p.seen.busy /\ ~Proves(r, p)
                /\ Doubt(r, "open") /\ UNCHANGED <<sealed, active, released, lastTask>>
        /\ Gone(role)
        /\ UNCHANGED <<callVars, thread, cancelled, inferred, terminal, roleVars, invalid, gets,
                       cleanupVars, serverVars>>

\* A guard, the cap, the window, the deadline, the transport or the body.
ProbeFails(role) ==
    /\ probe[role].of # None
    /\ Doubt(probe[role].of, "open")
    /\ Gone(role)
    /\ UNCHANGED <<callVars, thread, sealVars, witnessVars, released, roleVars, lastTask, invalid, gets,
                   cleanupVars, serverVars>>

-----------------------------------------------------------------------------
(* run_admitted_chat: completed, finish, _cancel_observe *)

Complete(r) ==
    /\ call[r] = "working" /\ thread[r] = "gone" /\ terminal[r]
    /\ call' = [call EXCEPT ![r] = "completing"]
    /\ UNCHANGED <<guarded, thread, sealVars, witnessVars, outcomeVars, roleVars, lastTask, invalid,
                   probeVars, cleanupVars, serverVars>>

\* completed waits for an outstanding witness first.
ObserveEnd(r) ==
    /\ call[r] = "completing" /\ Observe(r, "cleanup")
    /\ call' = [call EXCEPT ![r] = "probing"]
    /\ UNCHANGED <<guarded, thread, sealVars, witnessVars, outcomeVars, roleVars, lastTask, invalid,
                   gets, cleanupVars, serverVars>>

\* Mutant: finish does not say why the lease stays.
Finish_Silent(r) ==
    \/ released[r] # "" /\ UNCHANGED <<outcomeVars, cleanup>>
    \/ released[r] = "" /\ ~inferred[r] /\ released' = [released EXCEPT ![r] = "zero"]
         /\ reason' = [reason EXCEPT ![r] = ""] /\ UNCHANGED cleanup
    \/ released[r] = "" /\ inferred[r]
         /\ cleanup' = [cleanup EXCEPT ![r] = IF cancelled'[r] THEN "waiting" ELSE @]
         /\ UNCHANGED outcomeVars

\* finish: a lease that sent nothing is released, any other needs its observers.
Finish(r) ==
    \/ released[r] # "" /\ UNCHANGED <<outcomeVars, cleanup>>
    \/ released[r] = "" /\ ~inferred[r] /\ released' = [released EXCEPT ![r] = "zero"]
         /\ reason' = [reason EXCEPT ![r] = ""] /\ UNCHANGED cleanup
    \/ released[r] = "" /\ inferred[r]
         /\ reason' = [reason EXCEPT ![r] = IF @ = "" THEN "open" ELSE @]
         /\ cleanup' = [cleanup EXCEPT ![r] = IF cancelled'[r] THEN "waiting" ELSE @]
         /\ UNCHANGED released

\* The call returns, raises (hard: by its deadline or a cancellation), and finishes.
Leave(r, hard) ==
    LET observed == call[r] = "probing" /\ probe[Role[r]].of = r
    IN  /\ call[r] \in {"working", "completing", "probing"}
        /\ \/ hard
           \/ call[r] = "working" /\ thread[r] = "gone" /\ ~terminal[r]
           \/ call[r] = "probing" /\ ~observed
        /\ call' = [call EXCEPT ![r] = "done"]
        /\ sealed' = [sealed EXCEPT ![r] = @ \/ hard \/ ~inferred[r]]
        /\ cancelled' = [cancelled EXCEPT ![r] = @ \/ hard]
        /\ Finish(r)
        /\ IF observed THEN Abandon(Role[r]) ELSE UNCHANGED probe
        /\ UNCHANGED <<guarded, thread, witnessVars, roleVars, lastTask, invalid, gets, witnessed,
                       tries, serverVars>>

\* Mutant: failed observations are repeated without bound.
Retried_Forever(r) == UNCHANGED tries

Retried(r) == tries' = [tries EXCEPT ![r] = @ + 1]

CleanupProbe(r) ==
    /\ cleanup[r] = "waiting" /\ tries[r] < 2 /\ gets[r] < 2 /\ released[r] = "" /\ ~invalid
    /\ Observe(r, "cleanup") /\ Retried(r)
    /\ cleanup' = [cleanup EXCEPT ![r] = "probing"]
    /\ UNCHANGED <<callVars, thread, sealVars, witnessVars, outcomeVars, roleVars, lastTask, invalid,
                   gets, witnessed, serverVars>>

CleanupNext(r) ==
    /\ cleanup[r] = "probing" /\ probe[Role[r]].of # r
    /\ cleanup' = [cleanup EXCEPT ![r] = "waiting"]
    /\ UNCHANGED <<callVars, thread, sealVars, witnessVars, outcomeVars, roleVars, lastTask, invalid,
                   probeVars, witnessed, tries, serverVars>>

\* Both observations made, nothing left to observe, or the first one came too
\* late or an observer does not end.
CleanupOver(r) ==
    /\ cleanup[r] = "waiting"
    /\ \/ tries[r] = 2 \/ gets[r] = 2 \/ released[r] # "" \/ invalid
       \/ (tries[r] = 0 /\ gets[r] = 0) \/ probe[Role[r]].of # None
    /\ cleanup' = [cleanup EXCEPT ![r] = "over"]
    /\ UNCHANGED <<callVars, thread, sealVars, witnessVars, outcomeVars, roleVars, lastTask, invalid,
                   probeVars, witnessed, tries, serverVars>>

-----------------------------------------------------------------------------
(* External: the server.  It works on one task per slot, frees the slot some *)
(* time after it answered, and may or may not notice that a client left.     *)

serverOnly == <<callVars, thread, sealVars, witnessVars, outcomeVars, roleVars, lastTask, invalid,
                probeVars, cleanupVars>>

Occupy(role, t) == ~slot[role].busy /\ slot' = [slot EXCEPT ![role] = [busy |-> TRUE, task |-> t]]
Vacate(role) == slot' = [slot EXCEPT ![role] = [busy |-> FALSE, task |-> slot[role].task]]

Start(r) ==
    /\ post[r] = "sent" /\ Occupy(Role[r], r)
    /\ post' = [post EXCEPT ![r] = "running"]
    /\ UNCHANGED <<strangers, serverOnly>>

Answer(r) ==
    /\ post[r] = "running" /\ post' = [post EXCEPT ![r] = "answered"]
    /\ UNCHANGED <<slot, strangers, serverOnly>>

End(r) ==
    /\ post[r] = "answered" /\ Vacate(Role[r])
    /\ post' = [post EXCEPT ![r] = "over"]
    /\ UNCHANGED <<strangers, serverOnly>>

Drop(r) ==
    /\ cancelled[r] \/ thread[r] = "gone"
    /\ \/ post[r] = "sent" /\ UNCHANGED slot
       \/ post[r] = "running" /\ Vacate(Role[r])
    /\ post' = [post EXCEPT ![r] = "dropped"]
    /\ UNCHANGED <<strangers, serverOnly>>

ForeignTask(role) ==
    /\ \/ \E t \in Foreign \ strangers : Occupy(role, t) /\ strangers' = strangers \cup {t}
       \/ slot[role].busy /\ slot[role].task \in Foreign /\ Vacate(role) /\ UNCHANGED strangers
    /\ UNCHANGED <<post, serverOnly>>

-----------------------------------------------------------------------------
CallStep(r) ==
    \/ Ask(r) \/ Acquire(r) \/ Wait(r) \/ Refresh(r) \/ Refuse(r)
    \/ Complete(r) \/ ObserveEnd(r) \/ (\E hard \in BOOLEAN : Leave(r, hard))
ThreadStepOf(r) ==
    \/ DispatchCount(r) \/ Counted(r) \/ DispatchInference(r) \/ Send(r) \/ Read(r)
    \/ \E hard \in BOOLEAN : Fail(r, hard)
CleanupStep(r) == CleanupProbe(r) \/ CleanupNext(r) \/ CleanupOver(r)
ProbeStep(role) ==
    ProbeTimesOut(role) \/ ProbeSend(role) \/ ProbeSees(role) \/ Apply(role) \/ ProbeFails(role)
ServerStep(r) == Start(r) \/ Answer(r) \/ End(r) \/ Drop(r)

Next ==
    \/ Drift
    \/ \E r \in Requests : \/ Abort(r) \/ Revoke(r) \/ Witness(r)
                           \/ CallStep(r) \/ ThreadStepOf(r) \/ CleanupStep(r) \/ ServerStep(r)
    \/ \E role \in Roles : ProbeStep(role) \/ ForeignTask(role)

Spec == Init /\ [][Next]_vars

\* Deadlines and socket timeouts bound every wait of a call, a thread, an
\* observer and a cleanup task.  Nothing is assumed of the server.
Fairness ==
    /\ \A r \in Requests : /\ WF_vars(Refuse(r)) /\ WF_vars(Leave(r, TRUE)) /\ WF_vars(Fail(r, TRUE))
                           /\ WF_vars(CleanupStep(r))
    /\ \A role \in Roles : WF_vars(ProbeFails(role))
FairSpec == Spec /\ Fairness

-----------------------------------------------------------------------------
(* Correctness *)

\* The POST of r may still reach the slot or is on it.
Outstanding(r) == thread[r] = "sending" \/ post[r] \in {"sent", "running", "answered"}

\* A lease whose inference may still occupy the slot is neither released nor
\* handed on, provided the slots serve nobody else: not after a cancellation,
\* not on an idle slot that was seen before the work arrived.
NotBorrowed(r) == Outstanding(r) => roles[Role[r]] = r /\ released[r] = ""
NoBorrowedSlot == Foreign = {} => \A r \in Requests : NotBorrowed(r)

\* finish and the observers account for every lease: once its actors are gone
\* it is released for a reason, or kept with one.
Accounted(r) ==
    /\ released[r] # "" => reason[r] = "" /\ sealed[r]
    /\ call[r] = "done" /\ thread[r] # "none" /\ released[r] = "" => reason[r] # ""
LeasesAccounted == \A r \in Requests : Accounted(r)

\* "Contradictory task association is irreversible for this lease": no later
\* observation, failure, cancellation or cleanup clears it or hands the role on.
ContradictionStays ==
    [][\A r \in Requests : reason[r] = "unexpected" =>
          reason'[r] = "unexpected" /\ released'[r] = "" /\ roles'[Role[r]] = roles[Role[r]]]_vars

\* "sealing zero attempts and marking a possible send are atomic": what was
\* revoked, given up or released sends nothing it had not begun to send, and
\* an owner whose process changed leases and releases by observation no more.
RevokedSendsNothing ==
    [][/\ \A r \in Requests : sealed[r] \/ invalid => inferred'[r] = inferred[r]
       /\ invalid => roles' = roles /\ \A r \in Requests : released'[r] \in {released[r], "zero"}]_vars

\* A thread runs for a leased call only, and what it sent tells how far it is.
ThreadSound(r) ==
    /\ call[r] \in {"new", "asking"} => thread[r] = "none"
    /\ call[r] \in {"working", "completing", "probing"} => thread[r] # "none"
    /\ released[r] # "" => thread[r] # "none"
    /\ inferred[r] => thread[r] \in {"sending", "reading", "gone"}
    /\ thread[r] \in {"sending", "reading"} => inferred[r]
    /\ post[r] # "unsent" => inferred[r] /\ thread[r] # "sending"
    /\ terminal[r] => post[r] \in {"answered", "over"} /\ thread[r] = "gone"

\* A lease is held until it is released.
HoldSound(r) ==
    /\ roles[Role[r]] = r => thread[r] # "none"
    /\ thread[r] # "none" /\ released[r] = "" => roles[Role[r]] = r

\* Observers look for what was sent, under a lease, and at first without evidence.
ObserverSound(r) ==
    LET p == probe[Role[r]]
    IN  /\ cleanup[r] # "none" \/ active[r] # None \/ reason[r] # "" => inferred[r]
        /\ call[r] \in {"completing", "probing"} => terminal[r]
        /\ p.of = r => inferred[r] /\ released[r] = ""
        /\ call[r] \in {"working", "completing"} =>
              /\ released[r] = "" /\ cleanup[r] = "none"
              /\ p.of = r => p.kind = "witness" /\ witnessed[r] /\ active[r] = None /\ ~p.after
              /\ ~witnessed[r] => active[r] = None

Begun == {"running", "answered", "over", "dropped"}

RequestSound(r) == ThreadSound(r) /\ HoldSound(r) /\ ObserverSound(r) /\ Accounted(r)

ProbeSound(role) ==
    LET p == probe[role]
    IN  /\ p.of # None => Role[p.of] = role
        /\ p.of = None <=> p.step = "none"
        /\ p.step \in {"sent", "read"} /\ p.after => terminal[p.of] \/ active[p.of] # None

\* Where the slots serve nobody else, they tell what became of a request.
WorkSound(r) ==
    /\ post[r] \in {"running", "answered"} => slot[Role[r]].busy /\ slot[Role[r]].task = r
    /\ active[r] # None => post[r] \in Begun
    /\ NotBorrowed(r)

BusySound(role) ==
    LET t == slot[role].task
    IN  slot[role].busy => t \in Requests /\ Role[t] = role /\ post[t] \in {"running", "answered"}

\* What a probe saw of the slot is still true of the request it is about.
SeenSound(role) ==
    LET p == probe[role]
    IN  p.step = "read" =>
          /\ p.after /\ ~p.seen.busy => post[p.of] \in {"over", "dropped"}
          /\ p.seen.busy /\ roles[role] = p.of => post[p.of] \in Begun

\* Inductive: between them they tell when a slot that was seen idle is free.
SlotIInv ==
    /\ TypeOK
    /\ \A r \in Requests : RequestSound(r)
    /\ \A role \in Roles : ProbeSound(role)
    /\ Foreign = {} => /\ \A r \in Requests : WorkSound(r)
                       /\ \A role \in Roles : BusySound(role) /\ SeenSound(role)

\* shutdown waits until nothing of the calls is pending: what a call leaves
\* behind ends, too.
NothingLeftBehind ==
    \A r \in Requests :
        call[r] = "working" ~> /\ call[r] = "done" /\ thread[r] = "gone"
                               /\ cleanup[r] \in {"none", "over"} /\ probe[Role[r]].of # r

\* The leases follow the abstract specification.
Lease == INSTANCE SlotLease WITH
    holder <- roles,
    work <- [r \in Requests |-> IF ~inferred[r] THEN "none" ELSE IF Outstanding(r) THEN "out" ELSE "over"]
ImplementsLease == Lease!Spec
=============================================================================
