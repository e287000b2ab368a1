--------------------------- MODULE TaskCoordinator ---------------------------
(***************************************************************************)
(* voice/native-bridge/task_coordinator.py on top of the journal: one      *)
(* attached call at a time, its worker, the routing of its input, and the  *)
(* process that holds them.                                                *)
(*                                                                         *)
(* An action is the code between two awaits; the event loop makes it       *)
(* atomic.  The router, the executor and the operator are external: a      *)
(* route is any of its intents, a turn returns any replies or fails, and   *)
(* readiness may never come.  Presentation (the output queue, status texts *)
(* and grounded answers) is left out, it never writes the journal.         *)
(***************************************************************************)
EXTENDS TaskJournal

VARIABLES
    alive,      \* the process runs
    shutdown,   \* _shutdown
    owner,      \* scope of the attachment that holds _owner
    attached,   \* its _attached; _detached is the opposite
    worker,     \* where its _run stands
    current,    \* the operation its _run holds
    wake,       \* _wake
    context,    \* _context_task
    input,      \* the utterance under _accept_lock, with what was captured for it
    turns       \* history: executor turns begun per operation

processVars == <<alive, shutdown, turns>>
callVars == <<owner, attached, worker, current, wake, context, input>>
vars == <<journalVars, processVars, callVars>>

Idle == [utterance |-> None]

CoordinatorTypeOK ==
    /\ TypeOK
    /\ alive \in BOOLEAN /\ shutdown \in BOOLEAN
    /\ owner \in Scopes \cup {None} /\ attached \in BOOLEAN
    /\ worker \in {"none", "waiting", "preparing", "turn", "holding", "closing", "ended"}
    /\ current \in Utterances \cup {None}
    /\ wake \in BOOLEAN
    /\ context \in Tasks \cup {None}
    /\ input = Idle \/ input.utterance \in Utterances
    /\ turns \in [Utterances -> Nat]
    /\ worker = "none" <=> owner = None
    /\ worker \in {"preparing", "turn"} <=> current # None

\* Nothing is attached.
Released ==
    /\ owner' = None /\ attached' = FALSE /\ worker' = "none" /\ current' = None
    /\ wake' = FALSE /\ context' = None /\ input' = Idle

Init ==
    /\ JournalInit
    /\ alive = TRUE /\ shutdown = FALSE
    /\ owner = None /\ attached = FALSE /\ worker = "none" /\ current = None
    /\ wake = FALSE /\ context = None /\ input = Idle
    /\ turns = [u \in Utterances |-> 0]

-----------------------------------------------------------------------------
(* Attachments *)

\* Mutant: a scope that has tasks may be attached again.
Attach_RevivesScope(s) ==
    /\ alive /\ ~shutdown /\ owner = None
    /\ ~HasUnresolved
    /\ owner' = s /\ attached' = TRUE /\ worker' = "waiting"
    /\ UNCHANGED <<journalVars, processVars, current, wake, context, input>>

Attach(s) ==
    /\ alive /\ ~shutdown /\ owner = None
    /\ ~HasUnresolved /\ TasksOf(s) = {}
    /\ owner' = s /\ attached' = TRUE /\ worker' = "waiting"
    /\ UNCHANGED <<journalVars, processVars, current, wake, context, input>>

\* Mutant: the worker is not woken.
LetGo_Silently ==
    /\ DetachScope(owner)
    /\ attached' = FALSE
    /\ UNCHANGED <<owner, worker, current, wake, context, input>>

\* Mutant: _attached is left to the worker.
LetGo_FlagStays ==
    /\ DetachScope(owner)
    /\ wake' = TRUE
    /\ UNCHANGED <<owner, attached, worker, current, context, input>>

\* detach of an attached call.
LetGo ==
    /\ DetachScope(owner)
    /\ attached' = FALSE /\ wake' = TRUE
    /\ UNCHANGED <<owner, worker, current, context, input>>

Detach ==
    /\ alive /\ attached /\ LetGo
    /\ UNCHANGED processVars

Shutdown ==
    /\ alive /\ ~shutdown /\ shutdown' = TRUE
    /\ IF attached THEN LetGo ELSE UNCHANGED <<journalVars, callVars>>
    /\ UNCHANGED <<alive, turns>>

-----------------------------------------------------------------------------
(* Input: a route is decided on a checkpoint and accepted only on the same *)

\* routing_checkpoint.  The latest operation of a task changes only together
\* with the version of the task.
Checkpoint(s) ==
    [attachment |-> attachment[s],
     tasks |-> {<<t, version[t], state[t] \in Closed, openQuestion[t]>> : t \in TasksOf(s)},
     questions |-> {q \in questions : q.scope = s}]

\* accept_decision takes the lock, reads the snapshot and asks the router.
BeginInput(u) ==
    /\ alive /\ attached /\ input = Idle /\ Unused(u)
    /\ input' = [utterance |-> u, context |-> context, seen |-> Checkpoint(owner)]
    /\ UNCHANGED <<journalVars, processVars, owner, attached, worker, current, wake, context>>

\* Mutant: neither the checkpoint nor the authority is checked again.
Unchanged_Unchecked == attached

\* authority() and preconditions, inside the transaction of the acceptance.
Unchanged == attached /\ input.context = context /\ input.seen = Checkpoint(owner)

\* Mutant: the worker is not told.
AcceptInput_Silently ==
    /\ alive /\ input # Idle /\ Unchanged
    /\ \/ \E t \in Tasks : AcceptNewTask(input.utterance, owner, t)
       \/ \E t \in TasksOf(owner) : Accept(input.utterance, t) \/ CancelPending(input.utterance, t)
    /\ input' = Idle
    /\ UNCHANGED <<processVars, owner, attached, worker, current, wake, context>>

AcceptInput ==
    /\ alive /\ input # Idle /\ Unchanged
    /\ \/ \E t \in Tasks : AcceptNewTask(input.utterance, owner, t)
       \/ \E t \in TasksOf(owner) : Accept(input.utterance, t) \/ CancelPending(input.utterance, t)
    /\ input' = Idle /\ wake' = TRUE
    /\ UNCHANGED <<processVars, owner, attached, worker, current, context>>

\* The route writes nothing, was refused, or the caller gave up.
DropInput ==
    /\ alive /\ input # Idle /\ input' = Idle
    /\ UNCHANGED <<journalVars, processVars, owner, attached, worker, current, wake, context>>

\* note_question for a greeting: of the task it names, of the context, or of a
\* task made for it.
Greet(q) ==
    /\ alive /\ attached /\ input = Idle
    /\ \/ \E t \in TasksOf(owner) : NoteQuestion(t, q) /\ UNCHANGED context
       \/ context = None /\ \E t \in Tasks : CreateAskedTask(owner, t, q) /\ context' = t
    /\ UNCHANGED <<processVars, owner, attached, worker, current, wake, input>>

-----------------------------------------------------------------------------
(* The worker *)

\* Pending operations of the call that fit its context, oldest first.
Eligible(u) ==
    /\ dispatchState[u] = "unsubmitted" /\ taskScope[opTask[u]] = owner
    /\ Attached(owner) /\ context \in {None, opTask[u]}

Queue == {i \in DOMAIN rows : Eligible(rows[i])}

\* The head of the inner loop, in the state the step leaves: take the oldest
\* eligible operation, or wait; a wake-up that is pending is used up then.
Round(awake) ==
    /\ \/ ~attached' /\ worker' = "closing" /\ current' = None
       \/ attached' /\ (Queue' = {} \/ HasUnresolved') /\ worker' = "waiting" /\ current' = None
       \/ /\ attached' /\ ~HasUnresolved' /\ worker' = "preparing"
          /\ \E i \in Queue' : (\A j \in Queue' : i <= j) /\ current' = rows'[i]
    /\ wake' = (awake /\ worker' = "preparing")

WorkerWakes ==
    /\ alive /\ worker = "waiting" /\ wake
    /\ UNCHANGED <<journalVars, processVars, owner, attached, context, input>>
    /\ Round(FALSE)

\* The executor is ready.  The operation was chosen before that, and _ready
\* yields once more after its last look at _attached: the operation may have
\* been cancelled, and the call detached.
Ready ==
    /\ alive /\ worker = "preparing"
    /\ \/ /\ Dispatch(current)
          /\ context' = opTask[current] /\ worker' = "turn"
          /\ turns' = [turns EXCEPT ![current] = @ + 1]
          /\ UNCHANGED <<alive, shutdown, owner, attached, current, wake, input>>
       \/ /\ ~Claimable(current)
          /\ UNCHANGED <<journalVars, processVars, owner, attached, context, input>>
          /\ Round(wake)

\* Readiness failed: keep the queue, and the slot, until the call detaches.
ReadyFails ==
    /\ alive /\ worker = "preparing" /\ attached
    /\ worker' = "holding" /\ current' = None
    /\ UNCHANGED <<journalVars, processVars, owner, attached, wake, context, input>>

Leave ==
    /\ alive /\ worker \in {"preparing", "holding"} /\ ~attached
    /\ worker' = "closing" /\ current' = None
    /\ UNCHANGED <<journalVars, processVars, owner, attached, wake, context, input>>

\* on_reply with a question for the current version of the task.
Reply(q) ==
    /\ alive /\ worker = "turn" /\ attached
    /\ version[opTask[current]] = opVersion[current]
    /\ NoteQuestion(opTask[current], q)
    /\ UNCHANGED <<processVars, callVars>>

TurnReturns ==
    /\ alive /\ worker = "turn"
    /\ \E reply \in Questions \cup {None} : Settle(current, "awaiting_input", reply)
    /\ UNCHANGED <<processVars, owner, attached, context, input>>
    /\ Round(wake)

\* Mutant: the worker goes on without a record of the failure.
TurnFails_Forgets ==
    /\ alive /\ worker = "turn"
    /\ UNCHANGED <<journalVars, processVars, owner, attached, context, input>>
    /\ Round(wake)

\* Mutant: the failed turn is tried again.
TurnFails_Retries ==
    /\ alive /\ worker = "turn"
    /\ dispatchState' = [dispatchState EXCEPT ![current] = "unsubmitted"]
    /\ UNCHANGED <<taskVars, opVars, claimVars, commands, questions>>
    /\ UNCHANGED <<processVars, owner, attached, context, input>>
    /\ Round(wake)

\* The turn raises: what it did is unknown and is not tried again.
TurnFails ==
    /\ alive /\ worker = "turn" /\ MarkUnknown(current)
    /\ UNCHANGED <<processVars, owner, attached, context, input>>
    /\ Round(wake)

\* The event loop cancels the worker at the end of the process.
WorkerCancelled ==
    /\ alive /\ shutdown /\ worker \in {"waiting", "preparing", "turn", "holding"}
    /\ IF worker = "turn" THEN MarkUnknown(current) ELSE UNCHANGED journalVars
    /\ worker' = "closing" /\ current' = None
    /\ UNCHANGED <<processVars, owner, attached, wake, context, input>>

\* executor.close: only an acknowledged cleanup without an unresolved outcome
\* gives the slot back.
Cleanup ==
    /\ alive /\ worker = "closing"
    /\ \/ ~HasUnresolved /\ Released
       \/ worker' = "ended" /\ UNCHANGED <<owner, attached, current, wake, context, input>>
    /\ UNCHANGED <<journalVars, processVars>>

-----------------------------------------------------------------------------
(* The process and the operator *)

Crash ==
    /\ alive /\ alive' = FALSE /\ shutdown' = FALSE
    /\ Released
    /\ UNCHANGED <<journalVars, turns>>

\* Mutant: the submitted operation is tried again.
Start_Retries ==
    /\ ~alive /\ alive' = TRUE
    /\ dispatchState' = [u \in Utterances |-> IF dispatchState[u] = "submitted" THEN "unsubmitted"
                                               ELSE dispatchState[u]]
    /\ UNCHANGED <<taskVars, opVars, claimVars, commands, questions, shutdown, turns, callVars>>

Start ==
    /\ ~alive /\ alive' = TRUE
    /\ Recover
    /\ UNCHANGED <<shutdown, turns, callVars>>

\* The private workflow of an operator with evidence.
Reconcile(u) ==
    /\ \/ RecordReceipt(u)
       \/ \E result \in {"succeeded", "failed", "cancelled"} : ReconcileUnknown(u, result)
    /\ UNCHANGED <<processVars, callVars>>

Run == WorkerWakes \/ Ready \/ ReadyFails \/ Leave \/ TurnReturns \/ TurnFails \/ WorkerCancelled

Next ==
    \/ \E s \in Scopes : Attach(s)
    \/ Detach \/ Shutdown
    \/ \E u \in Utterances : BeginInput(u) \/ Reconcile(u)
    \/ AcceptInput \/ DropInput
    \/ \E q \in Questions : Greet(q) \/ Reply(q)
    \/ Run \/ Cleanup
    \/ Crash \/ Start

\* The event loop runs the worker when it can go on; a turn ends, it gives up
\* after 185 s; executor.close ends.  Readiness need not come.
Fairness ==
    /\ WF_vars(WorkerWakes) /\ WF_vars(Leave) /\ WF_vars(TurnReturns \/ TurnFails) /\ WF_vars(Cleanup)

Spec == Init /\ [][Next]_vars
FairSpec == Spec /\ Fairness

-----------------------------------------------------------------------------
(* Properties *)

\* No utterance reaches the executor twice, through crashes, restarts,
\* readiness races and reconciliation, and all turns of a call belong to one
\* task: "New task never enters busy or awaiting context".
TurnsOnce ==
    \A u \in Utterances :
        /\ turns[u] <= 1
        /\ \A v \in Utterances :
              turns[u] > 0 /\ turns[v] > 0 /\ taskScope[opTask[u]] = taskScope[opTask[v]]
                => opTask[u] = opTask[v]

\* A submitted operation has exactly the worker that waits for its outcome; only
\* between a crash and the next start it has none.
ClaimObserved ==
    /\ \A u \in Utterances :
          dispatchState[u] = "submitted" => ~alive \/ (worker = "turn" /\ current = u)
    /\ worker = "turn" => dispatchState[current] = "submitted" /\ context = opTask[current]

\* A worker that sleeps has nothing to do: no acceptance, settlement or
\* reconciliation leaves an operation that it could submit.
NoLostWakeup ==
    worker = "waiting" /\ ~wake /\ attached => Queue = {} \/ HasUnresolved

\* The loop "except (StoreConflict, StoreDenied): continue" cannot spin: what
\* waits while nothing is unresolved belongs to a task that is still open.
NoPoisonedHead ==
    ~HasUnresolved =>
        \A u \in Utterances : dispatchState[u] = "unsubmitted" => state[opTask[u]] \notin Closed

\* What the invariants rest on: who may stand where, that the worker serves its
\* own call, that an unresolved outcome belongs to the context of the call, and
\* that a scope has a row only for its tasks.
CallSound ==
    /\ owner = None => ~attached /\ input = Idle
    /\ ~alive => owner = None
    /\ attached => attachment[owner] # "detached"
    /\ current # None => opTask[current] # None /\ taskScope[opTask[current]] = owner
    /\ owner # None => \A u \in Utterances : dispatchState[u] \in Unresolved => context = opTask[u]
    /\ \A s \in Scopes : attachment[s] # "absent" => TasksOf(s) # {}

\* What waits for a closed task waits for evidence.
FollowUpsHeld ==
    \A u \in Utterances : dispatchState[u] = "unsubmitted" /\ state[opTask[u]] \in Closed =>
        \E v \in OperationsOf(opTask[u]) : dispatchState[v] = "unknown"

\* Turns are counted by submitted_at, and what a call has submitted belongs to
\* its context and to the task the worker prepares.
TurnSound ==
    \A u \in Utterances :
        /\ turns[u] = IF submitted[u] THEN 1 ELSE 0
        /\ submitted[u] /\ taskScope[opTask[u]] = owner =>
              context = opTask[u] /\ (current # None => opTask[current] = opTask[u])
        /\ \A v \in Utterances :
              submitted[u] /\ submitted[v] /\ taskScope[opTask[u]] = taskScope[opTask[v]]
                => opTask[u] = opTask[v]

\* The inductive strengthening.
CoordinatorIInv ==
    /\ CoordinatorTypeOK /\ JournalIInv /\ CallSound /\ TurnSound
    /\ ClaimObserved /\ FollowUpsHeld /\ NoLostWakeup

\* on_reply checks only memory and versions; note_question must then succeed, or
\* a harmless reply would turn the whole turn into an unknown outcome.
CallbackAccepted ==
    worker = "turn" /\ attached /\ version[opTask[current]] = opVersion[current]
        => Attached(taskScope[opTask[current]]) /\ state[opTask[current]] \notin Closed

\* An answer is recorded for the question that was on offer when the utterance
\* was routed, however long the router took.
AnswersWhatWasAsked ==
    [][\A u \in Utterances : opTask[u] = None /\ opTask'[u] # None =>
          \/ answered'[u] = None /\ \A q \in input.seen.questions : q.task # opTask'[u]
          \/ \E q \in input.seen.questions : q.task = opTask'[u] /\ q.text = answered'[u]]_vars

\* What a call leaves behind, by a detach or a crash, is never submitted later.
AbandonedStaysUnsent ==
    \A u \in Utterances :
        [](dispatchState[u] = "unsubmitted" /\ owner # taskScope[opTask[u]]
             => [](dispatchState[u] # "submitted"))

\* A detached call gives its slot back, or ends with an unresolved outcome or an
\* unacknowledged cleanup.
DetachReleases ==
    \A s \in Scopes : owner = s /\ ~attached ~> owner # s \/ worker = "ended"

\* Every claim gets a recorded outcome while the process lives.
ClaimsResolve ==
    \A u \in Utterances : dispatchState[u] = "submitted" ~> dispatchState[u] # "submitted" \/ ~alive
=============================================================================
