----------------------------- MODULE TaskJournal -----------------------------
(***************************************************************************)
(* The tables of voice/native-bridge/task_store.py and its transactions.   *)
(* An action is a transaction that commits; one that raises is rolled back *)
(* and changes nothing.  Callers are arbitrary here, and Recover may come  *)
(* at any time, so whatever holds survives restarts and several users.     *)
(*                                                                         *)
(* An operation is named by its utterance_id, which the table makes unique *)
(* and which shares its name space with the command_id of a cancellation.  *)
(* A question is a token for its text and its question_id.  Receipts are   *)
(* abstracted to whether a reference is bound that evidence can match.     *)
(***************************************************************************)
EXTENDS Naturals, FiniteSets, Sequences

CONSTANTS Scopes,        \* call scopes
          Tasks,         \* task ids
          Utterances,    \* utterance and command ids
          Questions,     \* questions an assistant may ask
          TaskLimit,     \* tasks per scope
          PendingLimit,  \* operations per scope that are not settled
          None

Outcomes == {"awaiting_input", "succeeded", "failed", "cancelled"}

ASSUME NoneAssumption == None \notin Scopes \cup Tasks \cup Utterances \cup Questions \cup Outcomes
ASSUME LimitsAssumption == TaskLimit \in Nat /\ PendingLimit \in Nat

VARIABLES
    attachment,     \* scopes.attached; "absent" without a row
    taskScope,      \* tasks.scope_id; None without a row
    state,          \* tasks.state
    version,        \* tasks.context_version
    openQuestion,   \* tasks.open_question
    rows,           \* operations in the order of their rowid
    opTask,         \* operations.task_id; None without a row
    opVersion,      \* operations.context_version
    answered,       \* the question recorded with utterance_accepted
    dispatchState,  \* operations.dispatch_state
    submitted,      \* operations.submitted_at IS NOT NULL
    outcome,        \* operations.outcome
    referenced,     \* operations.request_ref or execution_ref is bound
    commands,       \* command ids of cancellations
    questions       \* scope_questions

taskVars == <<attachment, taskScope, state, version, openQuestion>>
opVars == <<rows, opTask, opVersion, answered>>
claimVars == <<submitted, outcome, referenced>>
journalVars == <<taskVars, opVars, dispatchState, claimVars, commands, questions>>

Final == {"succeeded", "failed", "cancelled", "outcome_unknown"}
Closed == Final \cup {"cancel_requested"}
Unresolved == {"submitted", "unknown"}
Backlogged == Unresolved \cup {"unsubmitted", "suspended"}

Question == [scope : Scopes, task : Tasks, text : Questions, version : Nat]

TypeOK ==
    /\ attachment \in [Scopes -> {"absent", "attached", "detached"}]
    /\ taskScope \in [Tasks -> Scopes \cup {None}]
    /\ state \in [Tasks -> {"queued", "running", "awaiting_input"} \cup Closed]
    /\ version \in [Tasks -> Nat]
    /\ openQuestion \in [Tasks -> Questions \cup {None}]
    /\ rows \in Seq(Utterances)
    /\ opTask \in [Utterances -> Tasks \cup {None}]
    /\ opVersion \in [Utterances -> Nat]
    /\ answered \in [Utterances -> Questions \cup {None}]
    /\ dispatchState \in [Utterances -> {"none", "cancelled", "settled"} \cup Backlogged]
    /\ submitted \in [Utterances -> BOOLEAN]
    /\ outcome \in [Utterances -> Outcomes \cup {None}]
    /\ referenced \in [Utterances -> BOOLEAN]
    /\ commands \subseteq Utterances
    /\ questions \subseteq Question

JournalInit ==
    /\ attachment = [s \in Scopes |-> "absent"]
    /\ taskScope = [t \in Tasks |-> None] /\ state = [t \in Tasks |-> "queued"]
    /\ version = [t \in Tasks |-> 0] /\ openQuestion = [t \in Tasks |-> None]
    /\ rows = <<>> /\ opTask = [u \in Utterances |-> None]
    /\ opVersion = [u \in Utterances |-> 0] /\ answered = [u \in Utterances |-> None]
    /\ dispatchState = [u \in Utterances |-> "none"]
    /\ submitted = [u \in Utterances |-> FALSE] /\ outcome = [u \in Utterances |-> None]
    /\ referenced = [u \in Utterances |-> FALSE]
    /\ commands = {} /\ questions = {}

TasksOf(s) == {t \in Tasks : taskScope[t] = s}
OperationsOf(t) == {u \in Utterances : opTask[u] = t}
Unused(u) == opTask[u] = None /\ u \notin commands
Attached(s) == s \in Scopes /\ attachment[s] = "attached"
HasUnresolved == \E u \in Utterances : dispatchState[u] \in Unresolved
Backlog(s) == {u \in Utterances : opTask[u] \in TasksOf(s) /\ dispatchState[u] \in Backlogged}

\* DELETE FROM scope_questions WHERE task_id=...
Without(t) == {q \in questions : q.task # t}

\* UPDATE operations SET dispatch_state=... of the unsubmitted ones of W.
Sideline(W, to) ==
    [u \in Utterances |-> IF u \in W /\ dispatchState[u] = "unsubmitted" THEN to
                          ELSE dispatchState[u]]

-----------------------------------------------------------------------------
(* Tasks and operations *)

\* The rows of create_task: the scope, if it has none, and the task.
InsertTask(s, t) ==
    /\ attachment[s] # "detached"
    /\ taskScope[t] = None /\ Cardinality(TasksOf(s)) < TaskLimit
    /\ attachment' = [attachment EXCEPT ![s] = "attached"]
    /\ taskScope' = [taskScope EXCEPT ![t] = s]
    /\ state' = [state EXCEPT ![t] = "queued"]

\* The row of accept.
InsertOperation(u, t, v, question) ==
    /\ rows' = Append(rows, u)
    /\ opTask' = [opTask EXCEPT ![u] = t]
    /\ opVersion' = [opVersion EXCEPT ![u] = v]
    /\ answered' = [answered EXCEPT ![u] = question]
    /\ dispatchState' = [dispatchState EXCEPT ![u] = "unsubmitted"]
    /\ version' = [version EXCEPT ![t] = v]
    /\ openQuestion' = [openQuestion EXCEPT ![t] = None]
    /\ questions' = Without(t)

CreateTask(s, t) ==
    /\ InsertTask(s, t)
    /\ UNCHANGED <<version, openQuestion, opVars, dispatchState, claimVars, commands, questions>>

\* The question an answer to t answers: the current one of its scope, if t asked it.
Asked(t, question) ==
    \/ \E q \in questions : q.task = t /\ q.version = version[t] /\ question = q.text
    \/ (\A q \in questions : ~(q.task = t /\ q.version = version[t])) /\ question = None

Accept(u, t) ==
    /\ taskScope[t] # None /\ Unused(u)
    /\ Attached(taskScope[t]) /\ state[t] \notin Closed
    /\ Cardinality(Backlog(taskScope[t])) < PendingLimit
    /\ \E question \in Questions \cup {None} :
          Asked(t, question) /\ InsertOperation(u, t, version[t] + 1, question)
    /\ UNCHANGED <<attachment, taskScope, state, claimVars, commands>>

\* create_task and accept in one transaction.
AcceptNewTask(u, s, t) ==
    /\ Unused(u) /\ Cardinality(Backlog(s)) < PendingLimit
    /\ InsertTask(s, t) /\ InsertOperation(u, t, version[t] + 1, None)
    /\ UNCHANGED <<claimVars, commands>>

\* INSERT OR REPLACE INTO scope_questions.
Bind(s, t, q, v) ==
    questions' = {x \in questions : x.scope # s}
                   \cup {[scope |-> s, task |-> t, text |-> q, version |-> v]}

NoteQuestion(t, q) ==
    /\ taskScope[t] # None /\ Attached(taskScope[t]) /\ state[t] \notin Closed
    /\ Bind(taskScope[t], t, q, version[t])
    /\ openQuestion' = [openQuestion EXCEPT ![t] = q]
    /\ UNCHANGED <<attachment, taskScope, state, version, opVars, dispatchState, claimVars, commands>>

\* create_task and note_question one after the other: a greeting that asks
\* before the caller has said anything.
CreateAskedTask(s, t, q) ==
    /\ InsertTask(s, t)
    /\ Bind(s, t, q, version[t])
    /\ openQuestion' = [openQuestion EXCEPT ![t] = q]
    /\ UNCHANGED <<version, opVars, dispatchState, claimVars, commands>>

\* Mutant: only operations that are still unresolved count.
Dispatched_InFlight(t) == \E x \in OperationsOf(t) : dispatchState[x] \in Unresolved

Dispatched(t) == \E x \in OperationsOf(t) : submitted[x]

\* What was not yet submitted is cancelled for good if nothing of the task ever
\* was; otherwise it is suspended and the cancellation only requested.
CancelPending(u, t) ==
    /\ taskScope[t] # None /\ Unused(u)
    /\ Attached(taskScope[t]) /\ state[t] \notin Final
    /\ state' = [state EXCEPT ![t] = IF Dispatched(t) THEN "cancel_requested" ELSE "cancelled"]
    /\ dispatchState' = Sideline(OperationsOf(t), IF Dispatched(t) THEN "suspended" ELSE "cancelled")
    /\ version' = [version EXCEPT ![t] = @ + 1]
    /\ openQuestion' = [openQuestion EXCEPT ![t] = None]
    /\ questions' = Without(t)
    /\ commands' = commands \cup {u}
    /\ UNCHANGED <<attachment, taskScope, opVars, claimVars>>

-----------------------------------------------------------------------------
(* Claims and their outcomes *)

\* Mutant: the state of the task is not looked at.
Claimable_ReopensTask(u) ==
    /\ dispatchState[u] = "unsubmitted"
    /\ Attached(taskScope[opTask[u]]) /\ ~HasUnresolved

\* Otherwise dispatch raises.
Claimable(u) ==
    /\ dispatchState[u] = "unsubmitted"
    /\ Attached(taskScope[opTask[u]]) /\ state[opTask[u]] \notin Closed
    /\ ~HasUnresolved

Dispatch(u) ==
    /\ Claimable(u)
    /\ dispatchState' = [dispatchState EXCEPT ![u] = "submitted"]
    /\ submitted' = [submitted EXCEPT ![u] = TRUE]
    /\ state' = [state EXCEPT ![opTask[u]] = "running"]
    /\ UNCHANGED <<attachment, taskScope, version, openQuestion, opVars, outcome, referenced,
                   commands, questions>>

\* A binding of the task that a settlement of u must not retract: a newer
\* question, or the current one if the turn returned no replies.
Kept(u, reply) ==
    LET t == opTask[u]
    IN  {q \in questions : /\ q.task = t
                           /\ \/ q.version > opVersion[u]
                              \/ reply = None /\ q.version = opVersion[u] /\ opVersion[u] = version[t]}

\* reply is the last reply of the turn, None if there was none.
Settle(u, result, reply) ==
    LET t == opTask[u]
        s == taskScope[t]
        bound == {q \in questions : q.scope = s}
        kept == IF result = "awaiting_input" THEN Kept(u, reply) ELSE {}
    IN  /\ dispatchState[u] = "submitted" /\ state[t] \notin Final
        /\ dispatchState' = [dispatchState EXCEPT ![u] = "settled"]
        /\ outcome' = [outcome EXCEPT ![u] = result]
        /\ state' = [state EXCEPT ![t] = IF @ = "cancel_requested" /\ result = "awaiting_input"
                                         THEN @ ELSE result]
        /\ \E text \in Questions \cup {None} :
              /\ \/ \E q \in kept : text = q.text
                 \/ kept = {} /\ text = (IF result = "awaiting_input" THEN reply ELSE None)
              /\ openQuestion' = [openQuestion EXCEPT ![t] = text]
              /\ questions' =
                   IF result # "awaiting_input" THEN Without(t)
                   ELSE IF /\ state'[t] = "awaiting_input" /\ opVersion[u] = version[t]
                           /\ Attached(s) /\ \A q \in bound : q.task = t
                   THEN (questions \ bound) \cup
                        (IF text = None THEN {}
                         ELSE {[scope |-> s, task |-> t, text |-> text, version |-> opVersion[u]]})
                   ELSE questions
        /\ UNCHANGED <<attachment, taskScope, version, opVars, submitted, referenced, commands>>

RecordReceipt(u) ==
    /\ dispatchState[u] \in Unresolved \cup {"settled"}
    /\ referenced' = [referenced EXCEPT ![u] = TRUE]
    /\ UNCHANGED <<taskVars, opVars, dispatchState, submitted, outcome, commands, questions>>

\* The outcome of the operations W is unknown, and so is that of their tasks.
LoseTrack(W) ==
    LET lost == {opTask[u] : u \in W}
    IN  /\ dispatchState' = [u \in Utterances |-> IF u \in W THEN "unknown" ELSE dispatchState[u]]
        /\ state' = [t \in Tasks |-> IF t \in lost THEN "outcome_unknown" ELSE state[t]]
        /\ openQuestion' = [t \in Tasks |-> IF t \in lost THEN None ELSE openQuestion[t]]
        /\ questions' = {q \in questions : q.task \notin lost}
        /\ UNCHANGED <<attachment, taskScope, version, opVars, claimVars, commands>>

MarkUnknown(u) == dispatchState[u] = "submitted" /\ LoseTrack({u})

\* Mutant: what was submitted is queued again.
Recover_Requeues ==
    /\ dispatchState' = [u \in Utterances |-> IF dispatchState[u] = "submitted" THEN "unsubmitted"
                                               ELSE dispatchState[u]]
    /\ UNCHANGED <<taskVars, opVars, claimVars, commands, questions>>

\* Once at process start.
Recover == LoseTrack({u \in Utterances : dispatchState[u] = "submitted"})

\* Mutant: what was accepted behind the unknown write stays queued.
ReconcileUnknown_KeepsFollowUps(u, result) ==
    LET t == opTask[u]
    IN  /\ dispatchState[u] = "unknown" /\ referenced[u]
        /\ dispatchState' = [dispatchState EXCEPT ![u] = "settled"]
        /\ outcome' = [outcome EXCEPT ![u] = result]
        /\ state' = [state EXCEPT ![t] = result]
        /\ openQuestion' = [openQuestion EXCEPT ![t] = None]
        /\ questions' = Without(t)
        /\ UNCHANGED <<attachment, taskScope, version, opVars, submitted, referenced, commands>>

\* Evidence that matches the bound reference settles an unknown operation.
\* What was accepted after it is no consent to submit again.
ReconcileUnknown(u, result) ==
    LET t == opTask[u]
    IN  /\ dispatchState[u] = "unknown" /\ referenced[u]
        /\ dispatchState' = [Sideline(OperationsOf(t), "suspended") EXCEPT ![u] = "settled"]
        /\ outcome' = [outcome EXCEPT ![u] = result]
        /\ state' = [state EXCEPT ![t] = result]
        /\ openQuestion' = [openQuestion EXCEPT ![t] = None]
        /\ questions' = Without(t)
        /\ UNCHANGED <<attachment, taskScope, version, opVars, submitted, referenced, commands>>

\* Mutant: the question of the scope stays on offer.
DetachScope_KeepsQuestion(s) ==
    /\ attachment' = [attachment EXCEPT ![s] = IF @ = "absent" THEN @ ELSE "detached"]
    /\ dispatchState' = Sideline(UNION {OperationsOf(t) : t \in TasksOf(s)}, "suspended")
    /\ UNCHANGED <<taskScope, state, version, openQuestion, opVars, claimVars, commands, questions>>

DetachScope(s) ==
    /\ attachment' = [attachment EXCEPT ![s] = IF @ = "absent" THEN @ ELSE "detached"]
    /\ questions' = {q \in questions : q.scope # s}
    /\ dispatchState' = Sideline(UNION {OperationsOf(t) : t \in TasksOf(s)}, "suspended")
    /\ UNCHANGED <<taskScope, state, version, openQuestion, opVars, claimVars, commands>>

-----------------------------------------------------------------------------
(* The specification *)

Work(u) ==
    \/ Dispatch(u)
    \/ \E result \in {"awaiting_input", "succeeded", "failed"}, reply \in Questions \cup {None} :
          Settle(u, result, reply)
    \/ RecordReceipt(u)
    \/ MarkUnknown(u)
    \/ \E result \in {"succeeded", "failed", "cancelled"} : ReconcileUnknown(u, result)

Talk(t) ==
    \/ \E s \in Scopes : CreateTask(s, t)
    \/ \E s \in Scopes, q \in Questions : CreateAskedTask(s, t, q)
    \/ \E s \in Scopes, u \in Utterances : AcceptNewTask(u, s, t)
    \/ \E u \in Utterances : Accept(u, t) \/ CancelPending(u, t)
    \/ \E q \in Questions : NoteQuestion(t, q)

JournalNext ==
    \/ \E t \in Tasks : Talk(t)
    \/ \E u \in Utterances : Work(u)
    \/ \E s \in Scopes : DetachScope(s)
    \/ Recover

JournalSpec == JournalInit /\ [][JournalNext]_journalVars

-----------------------------------------------------------------------------
(* Properties *)

\* "Global LegacyVA singleflight": whatever restarts, detaches or cancels, at
\* most one operation of the whole journal is submitted or unknown.
SingleFlight ==
    \A u, v \in Utterances :
        dispatchState[u] \in Unresolved /\ dispatchState[v] \in Unresolved => u = v

\* The version fence: two operations of a task never share a version, and after
\* a cancellation no operation has the version of its task any more, so that a
\* late reply is never taken for a current one.
VersionFence ==
    \A u \in Utterances : opTask[u] # None =>
        /\ opVersion[u] <= version[opTask[u]]
        /\ state[opTask[u]] = "cancel_requested" => opVersion[u] < version[opTask[u]]
        /\ \A v \in OperationsOf(opTask[u]) : opVersion[u] = opVersion[v] => u = v

\* A question on offer belongs to the current version of an open task of an
\* attached scope, is the only one of its scope, and both tables agree on it.
QuestionCurrent ==
    \A q \in questions :
        /\ attachment[q.scope] = "attached" /\ taskScope[q.task] = q.scope
        /\ q.version = version[q.task] /\ state[q.task] \notin Closed
        /\ openQuestion[q.task] = q.text
        /\ \A x \in questions : x.scope = q.scope => x = q

\* "cancelled" is honest: nothing of the task was ever submitted, or evidence
\* says the submitted write was cancelled.
CancelledUnsent ==
    \A t \in Tasks : state[t] = "cancelled" =>
        \/ \A u \in OperationsOf(t) : ~submitted[u]
        \/ \E u \in OperationsOf(t) : outcome[u] = "cancelled"

\* An unresolved claim is visible in the state of its task: nobody can close the
\* task under a turn, or reopen it under an unknown outcome.
ClaimShows ==
    \A u \in Utterances :
        /\ dispatchState[u] = "submitted" => state[opTask[u]] \in {"running", "cancel_requested"}
        /\ dispatchState[u] = "unknown" => state[opTask[u]] = "outcome_unknown"

TerminalKept ==
    \A t \in Tasks :
        /\ state[t] \in Final \ {"outcome_unknown"} => state'[t] = state[t]
        /\ state[t] = "cancel_requested" => state'[t] \in Closed \ {"cancelled"}
        /\ state[t] = "outcome_unknown" /\ state'[t] # state[t] =>
              \E u \in OperationsOf(t) :
                 dispatchState[u] = "unknown" /\ dispatchState'[u] = "settled"

\* "A late result must not reset a terminal state": a task that ended keeps its
\* end, a requested cancellation is never forgotten, and an unknown outcome
\* ends only by reconciliation of an unknown operation of the task.
TerminalStays == [][TerminalKept]_journalVars

UnknownKept ==
    \A u \in Utterances :
        dispatchState[u] = "unknown" /\ dispatchState'[u] # "unknown" =>
            /\ dispatchState'[u] = "settled" /\ referenced[u]
            /\ \A v \in OperationsOf(opTask[u]) : dispatchState'[v] # "unsubmitted"

\* An unknown operation is settled only on evidence for a bound reference, and
\* none of the operations that were waiting behind it can be submitted then.
UnknownHeld == [][UnknownKept]_journalVars

\* Rows, claims and outcomes of one operation agree.
OperationSound(u) ==
    /\ opTask[u] = None <=> dispatchState[u] = "none"
    /\ opTask[u] # None => taskScope[opTask[u]] # None /\ u \notin commands
    /\ submitted[u] <=> dispatchState[u] \in Unresolved \cup {"settled"}
    /\ outcome[u] # None => dispatchState[u] = "settled"

\* A task without a row is as good as new, one with a row has a scope with a
\* row, and a requested cancellation could not be had at once.
TaskSound(t) ==
    /\ IF taskScope[t] = None THEN state[t] = "queued" ELSE attachment[taskScope[t]] # "absent"
    /\ state[t] = "cancel_requested" => Dispatched(t)

\* The inductive strengthening of the invariants of the journal.
JournalIInv ==
    /\ TypeOK
    /\ \A t \in Tasks : TaskSound(t)
    /\ \A u \in Utterances : OperationSound(u)
    /\ SingleFlight /\ VersionFence /\ ClaimShows /\ CancelledUnsent /\ QuestionCurrent

\* The journal implements the ledger: a claim is made once and never again.
LedgerStatus ==
    [u \in Utterances |->
        CASE dispatchState[u] \in {"none", "unsubmitted"} -> "new"
          [] dispatchState[u] = "submitted" -> "claimed"
          [] dispatchState[u] \in {"suspended", "cancelled"} -> "withdrawn"
          [] OTHER -> dispatchState[u]]

Ledger == INSTANCE OperationLedger WITH Writes <- Utterances, status <- LedgerStatus
ImplementsLedger == Ledger!Spec
=============================================================================
