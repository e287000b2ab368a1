-------------------------- MODULE TaskJournalProofs --------------------------
(***************************************************************************)
(* Proofs about TaskJournal for any scopes, tasks, utterances and limits:  *)
(* JournalIInv is inductive, one lemma per transaction, one step per part. *)
(* The action properties and the refinement of OperationLedger follow.     *)
(***************************************************************************)
EXTENDS TaskJournal, TLAPS

\* How most transactions keep "cancelled" honest: they close no task that way,
\* submit nothing of a cancelled one and leave recorded outcomes alone.
LEMMA StillHonest ==
    ASSUME CancelledUnsent,
           \A t \in Tasks : state'[t] = "cancelled" => state[t] = "cancelled",
           \A u \in Utterances, t \in Tasks :
              state[t] = "cancelled" /\ opTask'[u] = t /\ submitted'[u] => opTask[u] = t /\ submitted[u],
           \A u \in Utterances :
              outcome[u] = "cancelled" => outcome'[u] = "cancelled" /\ opTask'[u] = opTask[u]
    PROVE  CancelledUnsent'
BY Zenon DEF CancelledUnsent, OperationsOf

\* A task without operations: nothing is claimed, asked or cancelled by it.
LEMMA CreateTaskPreserves ==
    ASSUME JournalIInv, NEW s \in Scopes, NEW t \in Tasks,
           CreateTask(s, t)
    PROVE  JournalIInv'
<1> USE NoneAssumption, LimitsAssumption DEF JournalIInv, Outcomes, Final, Closed, Unresolved, Backlogged,
        taskVars, opVars, claimVars
<1>1. TypeOK'
  BY DEF TypeOK, InsertTask, CreateTask
<1>2. (\A x \in Utterances : OperationSound(x))'
  BY DEF OperationSound, InsertTask, CreateTask
<1>3. SingleFlight'
  BY DEF SingleFlight, CreateTask
<1>4. VersionFence'
  BY DEF VersionFence, OperationsOf, InsertTask, CreateTask
<1>5. ClaimShows'
  BY DEF OperationSound, ClaimShows, InsertTask, CreateTask
<1>6. CancelledUnsent'
  <2>1. \A x \in Tasks : state'[x] = "cancelled" => state[x] = "cancelled"
    BY DEF InsertTask, CreateTask
  <2>2. \A y \in Utterances, x \in Tasks :
          state[x] = "cancelled" /\ opTask'[y] = x /\ submitted'[y] => opTask[y] = x /\ submitted[y]
    BY DEF CreateTask
  <2>3. \A y \in Utterances :
          outcome[y] = "cancelled" => outcome'[y] = "cancelled" /\ opTask'[y] = opTask[y]
    BY DEF CreateTask
  <2> QED  BY <2>1, <2>2, <2>3, StillHonest
<1>7. QuestionCurrent'
  BY DEF TypeOK, Question, QuestionCurrent, InsertTask, CreateTask
<1>8. (\A x \in Tasks : TaskSound(x))'
  BY DEF TypeOK, TaskSound, Dispatched, OperationsOf, InsertTask, CreateTask
<1> QED  BY <1>1, <1>2, <1>3, <1>4, <1>5, <1>6, <1>7, <1>8

\* The same with a question, the only one of its scope.
LEMMA CreateAskedTaskPreserves ==
    ASSUME JournalIInv, NEW s \in Scopes, NEW t \in Tasks, NEW q \in Questions,
           CreateAskedTask(s, t, q)
    PROVE  JournalIInv'
<1> USE NoneAssumption, LimitsAssumption DEF JournalIInv, Outcomes, Final, Closed, Unresolved, Backlogged,
        taskVars, opVars, claimVars
<1>1. TypeOK'
  BY DEF TypeOK, Question, InsertTask, Bind, CreateAskedTask
<1>2. (\A x \in Utterances : OperationSound(x))'
  BY DEF OperationSound, InsertTask, CreateAskedTask
<1>3. SingleFlight'
  BY DEF SingleFlight, CreateAskedTask
<1>4. VersionFence'
  BY DEF VersionFence, OperationsOf, InsertTask, CreateAskedTask
<1>5. ClaimShows'
  BY DEF OperationSound, ClaimShows, InsertTask, CreateAskedTask
<1>6. CancelledUnsent'
  <2>1. \A x \in Tasks : state'[x] = "cancelled" => state[x] = "cancelled"
    BY DEF InsertTask, CreateAskedTask
  <2>2. \A y \in Utterances, x \in Tasks :
          state[x] = "cancelled" /\ opTask'[y] = x /\ submitted'[y] => opTask[y] = x /\ submitted[y]
    BY DEF CreateAskedTask
  <2>3. \A y \in Utterances :
          outcome[y] = "cancelled" => outcome'[y] = "cancelled" /\ opTask'[y] = opTask[y]
    BY DEF CreateAskedTask
  <2> QED  BY <2>1, <2>2, <2>3, StillHonest
<1>7. QuestionCurrent'
  BY DEF TypeOK, Question, QuestionCurrent, InsertTask, Bind, CreateAskedTask
<1>8. (\A x \in Tasks : TaskSound(x))'
  BY DEF TypeOK, TaskSound, Dispatched, OperationsOf, InsertTask, CreateAskedTask
<1> QED  BY <1>1, <1>2, <1>3, <1>4, <1>5, <1>6, <1>7, <1>8

\* A new task and its first operation.
LEMMA AcceptNewTaskPreserves ==
    ASSUME JournalIInv, NEW s \in Scopes, NEW t \in Tasks, NEW u \in Utterances,
           AcceptNewTask(u, s, t)
    PROVE  JournalIInv'
<1> USE NoneAssumption, LimitsAssumption DEF JournalIInv, Outcomes, Final, Closed, Unresolved, Backlogged,
        taskVars, opVars, claimVars
<1>1. TypeOK'
  BY DEF TypeOK, InsertTask, InsertOperation, Without, AcceptNewTask
<1>2. (\A x \in Utterances : OperationSound(x))'
  BY DEF TypeOK, OperationSound, InsertTask, InsertOperation, Unused, AcceptNewTask
<1>3. SingleFlight'
  BY DEF SingleFlight, InsertOperation, AcceptNewTask
<1>4. VersionFence'
  BY DEF TypeOK, VersionFence, OperationsOf, InsertTask, InsertOperation, AcceptNewTask
<1>5. ClaimShows'
  BY DEF TypeOK, OperationSound, ClaimShows, InsertTask, InsertOperation, AcceptNewTask
<1>6. CancelledUnsent'
  <2>1. /\ opTask' = [opTask EXCEPT ![u] = t]
        /\ UNCHANGED <<submitted, outcome>>
    BY DEF AcceptNewTask, InsertOperation
  <2>2. opTask[u] = None /\ outcome[u] # "cancelled" /\ (~submitted[u])
    BY DEF AcceptNewTask, Unused, OperationSound
  <2>3. \A x \in Tasks : state'[x] = "cancelled" => state[x] = "cancelled"
    BY DEF AcceptNewTask, InsertTask
  <2>4. \A y \in Utterances, x \in Tasks :
          state[x] = "cancelled" /\ opTask'[y] = x /\ submitted'[y] => opTask[y] = x /\ submitted[y]
    BY <2>1, <2>2
  <2>5. \A y \in Utterances :
          outcome[y] = "cancelled" => outcome'[y] = "cancelled" /\ opTask'[y] = opTask[y]
    BY <2>1, <2>2
  <2> QED  BY <2>3, <2>4, <2>5, StillHonest
<1>7. QuestionCurrent'
  BY DEF QuestionCurrent, InsertTask, InsertOperation, Without, AcceptNewTask
<1>8. (\A x \in Tasks : TaskSound(x))'
  BY DEF TypeOK, TaskSound, Dispatched, OperationsOf, InsertTask, InsertOperation, Unused,
         AcceptNewTask
<1> QED  BY <1>1, <1>2, <1>3, <1>4, <1>5, <1>6, <1>7, <1>8

\* The version of the task moves on and its question is answered.
LEMMA AcceptPreserves ==
    ASSUME JournalIInv, NEW t \in Tasks, NEW u \in Utterances,
           Accept(u, t)
    PROVE  JournalIInv'
<1> USE NoneAssumption, LimitsAssumption DEF JournalIInv, Outcomes, Final, Closed, Unresolved, Backlogged,
        taskVars, opVars, claimVars
<1>1. TypeOK'
  BY DEF TypeOK, InsertOperation, Without, Accept
<1>2. (\A x \in Utterances : OperationSound(x))'
  BY DEF TypeOK, OperationSound, InsertOperation, Unused, Accept
<1>3. SingleFlight'
  BY DEF SingleFlight, InsertOperation, Accept
<1>4. VersionFence'
  BY DEF TypeOK, VersionFence, OperationsOf, InsertOperation, Accept
<1>5. ClaimShows'
  BY DEF TypeOK, ClaimShows, InsertOperation, Accept
<1>6. CancelledUnsent'
  <2>1. /\ opTask' = [opTask EXCEPT ![u] = t]
        /\ UNCHANGED <<submitted, outcome>>
    BY DEF Accept, InsertOperation
  <2>2. opTask[u] = None /\ outcome[u] # "cancelled" /\ (~submitted[u])
    BY DEF Accept, Unused, OperationSound
  <2>3. \A x \in Tasks : state'[x] = "cancelled" => state[x] = "cancelled"
    BY DEF Accept
  <2>4. \A y \in Utterances, x \in Tasks :
          state[x] = "cancelled" /\ opTask'[y] = x /\ submitted'[y] => opTask[y] = x /\ submitted[y]
    BY <2>1, <2>2
  <2>5. \A y \in Utterances :
          outcome[y] = "cancelled" => outcome'[y] = "cancelled" /\ opTask'[y] = opTask[y]
    BY <2>1, <2>2
  <2> QED  BY <2>3, <2>4, <2>5, StillHonest
<1>7. QuestionCurrent'
  BY DEF QuestionCurrent, InsertOperation, Without, Accept
<1>8. (\A x \in Tasks : TaskSound(x))'
  BY DEF TaskSound, Dispatched, OperationsOf, InsertOperation, Unused, Accept
<1> QED  BY <1>1, <1>2, <1>3, <1>4, <1>5, <1>6, <1>7, <1>8

\* The task is closed under a new version; a submitted operation shows in its
\* state.
LEMMA CancelPendingPreserves ==
    ASSUME JournalIInv, NEW t \in Tasks, NEW u \in Utterances,
           CancelPending(u, t)
    PROVE  JournalIInv'
<1> USE NoneAssumption, LimitsAssumption DEF JournalIInv, Outcomes, Final, Closed, Unresolved, Backlogged,
        taskVars, opVars, claimVars
<1>1. TypeOK'
  BY DEF TypeOK, Sideline, Without, CancelPending
<1>2. (\A x \in Utterances : OperationSound(x))'
  BY DEF OperationSound, Sideline, Unused, CancelPending
<1>3. SingleFlight'
  BY DEF SingleFlight, Sideline, CancelPending
<1>4. VersionFence'
  BY DEF TypeOK, VersionFence, OperationsOf, CancelPending
<1>5. ClaimShows'
  BY DEF OperationSound, ClaimShows, Dispatched, Sideline, OperationsOf, CancelPending
<1>6. CancelledUnsent'
  <2> SUFFICES ASSUME NEW x \in Tasks, state'[x] = "cancelled"
               PROVE  \/ \A y \in Utterances : opTask[y] = x => ~submitted[y]
                      \/ \E y \in Utterances : opTask[y] = x /\ outcome[y] = "cancelled"
    <3>1. UNCHANGED <<opTask, submitted, outcome>>
      BY DEF CancelPending
    <3> QED  BY <3>1, Zenon DEF CancelledUnsent, OperationsOf
  <2>1. CASE x = t
    <3>1. ~Dispatched(t)
      BY <2>1 DEF CancelPending
    <3> QED  BY <2>1, <3>1, Zenon DEF Dispatched, OperationsOf
  <2>2. CASE x # t
    <3>1. state[x] = "cancelled"
      BY <2>2 DEF CancelPending
    <3> QED  BY <3>1, Zenon DEF CancelledUnsent, OperationsOf
  <2> QED  BY <2>1, <2>2
<1>7. QuestionCurrent'
  BY DEF QuestionCurrent, Without, CancelPending
<1>8. (\A x \in Tasks : TaskSound(x))'
  BY DEF TaskSound, Dispatched, OperationsOf, CancelPending
<1> QED  BY <1>1, <1>2, <1>3, <1>4, <1>5, <1>6, <1>7, <1>8

\* The question replaces the one of the scope.
LEMMA NoteQuestionPreserves ==
    ASSUME JournalIInv, NEW t \in Tasks, NEW q \in Questions,
           NoteQuestion(t, q)
    PROVE  JournalIInv'
<1> USE NoneAssumption, LimitsAssumption DEF JournalIInv, Outcomes, Final, Closed, Unresolved, Backlogged,
        taskVars, opVars, claimVars
<1>1. TypeOK'
  BY DEF TypeOK, Question, Bind, NoteQuestion
<1>2. (\A x \in Utterances : OperationSound(x))'
  BY DEF OperationSound, NoteQuestion
<1>3. SingleFlight'
  BY DEF SingleFlight, NoteQuestion
<1>4. VersionFence'
  BY DEF VersionFence, OperationsOf, NoteQuestion
<1>5. ClaimShows'
  BY DEF ClaimShows, NoteQuestion
<1>6. CancelledUnsent'
  <2>1. \A x \in Tasks : state'[x] = "cancelled" => state[x] = "cancelled"
    BY DEF NoteQuestion
  <2>2. \A y \in Utterances, x \in Tasks :
          state[x] = "cancelled" /\ opTask'[y] = x /\ submitted'[y] => opTask[y] = x /\ submitted[y]
    BY DEF NoteQuestion
  <2>3. \A y \in Utterances :
          outcome[y] = "cancelled" => outcome'[y] = "cancelled" /\ opTask'[y] = opTask[y]
    BY DEF NoteQuestion
  <2> QED  BY <2>1, <2>2, <2>3, StillHonest
<1>7. QuestionCurrent'
  BY DEF TypeOK, QuestionCurrent, Bind, Attached, NoteQuestion
<1>8. (\A x \in Tasks : TaskSound(x))'
  BY DEF TaskSound, Dispatched, OperationsOf, NoteQuestion
<1> QED  BY <1>1, <1>2, <1>3, <1>4, <1>5, <1>6, <1>7, <1>8

\* The claim is the only unresolved one, and its task runs.
LEMMA DispatchPreserves ==
    ASSUME JournalIInv, NEW u \in Utterances,
           Dispatch(u)
    PROVE  JournalIInv'
<1> USE NoneAssumption, LimitsAssumption DEF JournalIInv, Outcomes, Final, Closed, Unresolved, Backlogged,
        taskVars, opVars, claimVars
<1>1. TypeOK'
  BY DEF TypeOK, Dispatch
<1>2. (\A x \in Utterances : OperationSound(x))'
  BY DEF TypeOK, OperationSound, Claimable, Dispatch
<1>3. SingleFlight'
  BY DEF SingleFlight, Claimable, HasUnresolved, Dispatch
<1>4. VersionFence'
  BY DEF VersionFence, OperationsOf, Dispatch
<1>5. ClaimShows'
  BY DEF TypeOK, OperationSound, ClaimShows, Claimable, Dispatch
<1>6. CancelledUnsent'
  <2>1. \A x \in Tasks : state'[x] = "cancelled" => state[x] = "cancelled"
    BY DEF Dispatch
  <2>2. \A y \in Utterances, x \in Tasks :
          state[x] = "cancelled" /\ opTask'[y] = x /\ submitted'[y] => opTask[y] = x /\ submitted[y]
    BY DEF Claimable, Dispatch
  <2>3. \A y \in Utterances :
          outcome[y] = "cancelled" => outcome'[y] = "cancelled" /\ opTask'[y] = opTask[y]
    BY DEF Dispatch
  <2> QED  BY <2>1, <2>2, <2>3, StillHonest
<1>7. QuestionCurrent'
  BY DEF QuestionCurrent, Dispatch
<1>8. (\A x \in Tasks : TaskSound(x))'
  BY DEF OperationSound, TaskSound, Dispatched, OperationsOf, Dispatch
<1> QED  BY <1>1, <1>2, <1>3, <1>4, <1>5, <1>6, <1>7, <1>8

\* A receipt changes no state of a task.
LEMMA RecordReceiptPreserves ==
    ASSUME JournalIInv, NEW u \in Utterances,
           RecordReceipt(u)
    PROVE  JournalIInv'
<1> USE NoneAssumption, LimitsAssumption DEF JournalIInv, Outcomes, Final, Closed, Unresolved, Backlogged,
        taskVars, opVars, claimVars
<1>1. TypeOK'
  BY DEF TypeOK, RecordReceipt
<1>2. (\A x \in Utterances : OperationSound(x))'
  BY DEF OperationSound, RecordReceipt
<1>3. SingleFlight'
  BY DEF SingleFlight, RecordReceipt
<1>4. VersionFence'
  BY DEF VersionFence, OperationsOf, RecordReceipt
<1>5. ClaimShows'
  BY DEF ClaimShows, RecordReceipt
<1>6. CancelledUnsent'
  <2>1. \A x \in Tasks : state'[x] = "cancelled" => state[x] = "cancelled"
    BY DEF RecordReceipt
  <2>2. \A y \in Utterances, x \in Tasks :
          state[x] = "cancelled" /\ opTask'[y] = x /\ submitted'[y] => opTask[y] = x /\ submitted[y]
    BY DEF RecordReceipt
  <2>3. \A y \in Utterances :
          outcome[y] = "cancelled" => outcome'[y] = "cancelled" /\ opTask'[y] = opTask[y]
    BY DEF RecordReceipt
  <2> QED  BY <2>1, <2>2, <2>3, StillHonest
<1>7. QuestionCurrent'
  BY DEF QuestionCurrent, RecordReceipt
<1>8. (\A x \in Tasks : TaskSound(x))'
  BY DEF TaskSound, Dispatched, OperationsOf, RecordReceipt
<1> QED  BY <1>1, <1>2, <1>3, <1>4, <1>5, <1>6, <1>7, <1>8

\* The scope loses its question and its pending operations.
LEMMA DetachScopePreserves ==
    ASSUME JournalIInv, NEW s \in Scopes,
           DetachScope(s)
    PROVE  JournalIInv'
<1> USE NoneAssumption, LimitsAssumption DEF JournalIInv, Outcomes, Final, Closed, Unresolved, Backlogged,
        taskVars, opVars, claimVars
<1>1. TypeOK'
  BY DEF TypeOK, Sideline, DetachScope
<1>2. (\A x \in Utterances : OperationSound(x))'
  BY DEF OperationSound, Sideline, DetachScope
<1>3. SingleFlight'
  BY DEF SingleFlight, Sideline, DetachScope
<1>4. VersionFence'
  BY DEF VersionFence, OperationsOf, DetachScope
<1>5. ClaimShows'
  BY DEF ClaimShows, Sideline, DetachScope
<1>6. CancelledUnsent'
  <2>1. \A x \in Tasks : state'[x] = "cancelled" => state[x] = "cancelled"
    BY DEF DetachScope
  <2>2. \A y \in Utterances, x \in Tasks :
          state[x] = "cancelled" /\ opTask'[y] = x /\ submitted'[y] => opTask[y] = x /\ submitted[y]
    BY DEF DetachScope
  <2>3. \A y \in Utterances :
          outcome[y] = "cancelled" => outcome'[y] = "cancelled" /\ opTask'[y] = opTask[y]
    BY DEF DetachScope
  <2> QED  BY <2>1, <2>2, <2>3, StillHonest
<1>7. QuestionCurrent'
  BY DEF QuestionCurrent, DetachScope
<1>8. (\A x \in Tasks : TaskSound(x))'
  BY DEF TaskSound, Dispatched, OperationsOf, DetachScope
<1> QED  BY <1>1, <1>2, <1>3, <1>4, <1>5, <1>6, <1>7, <1>8

\* Submitted operations become unknown together with their tasks.
LEMMA LoseTrackPreserves ==
    ASSUME JournalIInv, NEW W \in SUBSET Utterances, \A u \in W : dispatchState[u] = "submitted",
           LoseTrack(W)
    PROVE  JournalIInv'
<1> USE NoneAssumption, LimitsAssumption DEF JournalIInv, Outcomes, Final, Closed, Unresolved, Backlogged,
        taskVars, opVars, claimVars
<1>1. TypeOK'
  BY DEF TypeOK, LoseTrack
<1>2. (\A x \in Utterances : OperationSound(x))'
  BY DEF OperationSound, LoseTrack
<1>3. SingleFlight'
  BY DEF SingleFlight, LoseTrack
<1>4. VersionFence'
  BY DEF TypeOK, VersionFence, OperationsOf, LoseTrack
<1>5. ClaimShows'
  BY DEF TypeOK, OperationSound, SingleFlight, ClaimShows, LoseTrack
<1>6. CancelledUnsent'
  <2>1. \A x \in Tasks : state'[x] = "cancelled" => state[x] = "cancelled"
    BY DEF LoseTrack
  <2>2. \A y \in Utterances, x \in Tasks :
          state[x] = "cancelled" /\ opTask'[y] = x /\ submitted'[y] => opTask[y] = x /\ submitted[y]
    BY DEF LoseTrack
  <2>3. \A y \in Utterances :
          outcome[y] = "cancelled" => outcome'[y] = "cancelled" /\ opTask'[y] = opTask[y]
    BY DEF LoseTrack
  <2> QED  BY <2>1, <2>2, <2>3, StillHonest
<1>7. QuestionCurrent'
  BY DEF TypeOK, Question, QuestionCurrent, LoseTrack
<1>8. (\A x \in Tasks : TaskSound(x))'
  BY DEF OperationSound, TaskSound, Dispatched, OperationsOf, LoseTrack
<1> QED  BY <1>1, <1>2, <1>3, <1>4, <1>5, <1>6, <1>7, <1>8

\* The unknown operation is settled and its task closed.
LEMMA ReconcileUnknownPreserves ==
    ASSUME JournalIInv, NEW u \in Utterances, NEW result \in {"succeeded", "failed", "cancelled"},
           ReconcileUnknown(u, result)
    PROVE  JournalIInv'
<1> USE NoneAssumption, LimitsAssumption DEF JournalIInv, Outcomes, Final, Closed, Unresolved, Backlogged,
        taskVars, opVars, claimVars
<1>1. TypeOK'
  BY DEF TypeOK, Sideline, Without, ReconcileUnknown
<1>2. (\A x \in Utterances : OperationSound(x))'
  BY DEF OperationSound, Sideline, ReconcileUnknown
<1>3. SingleFlight'
  BY DEF SingleFlight, Sideline, ReconcileUnknown
<1>4. VersionFence'
  BY DEF VersionFence, OperationsOf, ReconcileUnknown
<1>5. ClaimShows'
  BY DEF SingleFlight, ClaimShows, Sideline, ReconcileUnknown
<1>6. CancelledUnsent'
  <2> SUFFICES ASSUME NEW x \in Tasks, state'[x] = "cancelled"
               PROVE  \/ \A y \in Utterances : opTask[y] = x => ~submitted[y]
                      \/ \E y \in Utterances : opTask[y] = x /\ outcome'[y] = "cancelled"
    <3>1. UNCHANGED <<opTask, submitted>>
      BY DEF ReconcileUnknown
    <3> QED  BY <3>1, Zenon DEF CancelledUnsent, OperationsOf
  <2>1. CASE x = opTask[u]
    BY <2>1 DEF TypeOK, ReconcileUnknown
  <2>2. CASE x # opTask[u]
    <3>1. state[x] = "cancelled"
      BY <2>2 DEF ReconcileUnknown
    <3>2. \A y \in Utterances : opTask[y] = x => outcome'[y] = outcome[y]
      BY <2>2 DEF ReconcileUnknown
    <3>3. UNCHANGED <<opTask, submitted>>
      BY DEF ReconcileUnknown
    <3>4. CASE \A y \in OperationsOf(x) : ~submitted[y]
      BY <3>4, Zenon DEF OperationsOf
    <3>5. CASE \E y \in OperationsOf(x) : outcome[y] = "cancelled"
      BY <3>2, <3>5 DEF OperationsOf
    <3> QED  BY <3>1, <3>4, <3>5, Zenon DEF CancelledUnsent
  <2> QED  BY <2>1, <2>2
<1>7. QuestionCurrent'
  BY DEF QuestionCurrent, Without, ReconcileUnknown
<1>8. (\A x \in Tasks : TaskSound(x))'
  BY DEF OperationSound, TaskSound, Dispatched, OperationsOf, ReconcileUnknown
<1> QED  BY <1>1, <1>2, <1>3, <1>4, <1>5, <1>6, <1>7, <1>8

\* A settlement of an open task: its binding is replaced, kept or removed, and
\* both tables keep agreeing on it.
LEMMA SettlePreserves ==
    ASSUME JournalIInv, NEW u \in Utterances,
           NEW result \in {"awaiting_input", "succeeded", "failed"},
           NEW reply \in Questions \cup {None},
           Settle(u, result, reply)
    PROVE  JournalIInv'
<1> USE NoneAssumption, LimitsAssumption DEF JournalIInv, Outcomes, Final, Closed, Unresolved, Backlogged,
        taskVars, opVars, claimVars
<1> DEFINE t == opTask[u]
           s == taskScope[t]
           bound == {q \in questions : q.scope = s}
           kept == IF result = "awaiting_input" THEN Kept(u, reply) ELSE {}
           rebinds == /\ state'[t] = "awaiting_input" /\ opVersion[u] = version[t]
                      /\ Attached(s) /\ \A q \in bound : q.task = t
           new(text) == [scope |-> s, task |-> t, text |-> text, version |-> opVersion[u]]
<1>a. /\ dispatchState[u] = "submitted" /\ state[t] \notin Final
      /\ t \in Tasks /\ s \in Scopes
      /\ dispatchState' = [dispatchState EXCEPT ![u] = "settled"]
      /\ outcome' = [outcome EXCEPT ![u] = result]
      /\ state' = [state EXCEPT ![t] = IF @ = "cancel_requested" /\ result = "awaiting_input"
                                       THEN @ ELSE result]
      /\ UNCHANGED <<attachment, taskScope, version, opVars, submitted, referenced, commands>>
  BY DEF Settle, TypeOK, OperationSound
<1>b. PICK text \in Questions \cup {None} :
         /\ \/ \E q \in kept : text = q.text
            \/ kept = {} /\ text = (IF result = "awaiting_input" THEN reply ELSE None)
         /\ openQuestion' = [openQuestion EXCEPT ![t] = text]
         /\ questions' = IF result # "awaiting_input" THEN Without(t)
                         ELSE IF rebinds
                         THEN (questions \ bound) \cup (IF text = None THEN {} ELSE {new(text)})
                         ELSE questions
  BY Zenon DEF Settle
<1>1. TypeOK'
  <2>1. questions' \subseteq questions \cup {new(text)} /\ (questions' \subseteq questions \/ text # None)
    BY <1>a, <1>b DEF Without
  <2>2. questions' \subseteq Question
    BY <1>a, <1>b, <2>1 DEF TypeOK, Question
  <2> QED  BY <1>a, <1>b, <2>2 DEF TypeOK
<1>2. (\A x \in Utterances : OperationSound(x))'
  BY <1>a DEF TypeOK, OperationSound
<1>3. SingleFlight'
  BY <1>a DEF SingleFlight
<1>4. VersionFence'
  BY <1>a DEF VersionFence, OperationsOf
<1>5. ClaimShows'
  BY <1>a DEF TypeOK, SingleFlight, ClaimShows
<1>6. CancelledUnsent'
  <2>1. \A x \in Tasks : state'[x] = "cancelled" => state[x] = "cancelled"
    BY <1>a
  <2>2. \A y \in Utterances, x \in Tasks :
          state[x] = "cancelled" /\ opTask'[y] = x /\ submitted'[y] => opTask[y] = x /\ submitted[y]
    BY <1>a
  <2>3. outcome[u] # "cancelled"
    BY <1>a DEF OperationSound
  <2>4. \A y \in Utterances :
          outcome[y] = "cancelled" => outcome'[y] = "cancelled" /\ opTask'[y] = opTask[y]
    BY <1>a, <2>3
  <2> QED  BY <2>1, <2>2, <2>4, StillHonest
<1>7. QuestionCurrent'
  <2>1. openQuestion' = [openQuestion EXCEPT ![t] = text]
    BY <1>b
  <2>2. CASE result # "awaiting_input"
    BY <1>a, <1>b, <2>1, <2>2 DEF QuestionCurrent, Without
  <2>3. CASE result = "awaiting_input" /\ rebinds
    BY <1>a, <1>b, <2>1, <2>3 DEF TypeOK, QuestionCurrent, Attached
  <2>4. CASE result = "awaiting_input" /\ ~rebinds
    <3>1. questions' = questions
      BY <1>b, <2>4
    <3>2. ASSUME NEW q \in questions, q.task = t
          PROVE  q.text = text
      <4>1. /\ q.scope = s /\ Attached(s) /\ q.version = version[t] /\ state[t] \notin Closed
            /\ \A x \in questions : x.scope = s => x = q
            /\ opVersion[u] <= version[t]
            /\ opVersion[u] \in Nat /\ version[t] \in Nat
        BY <1>a, <3>2 DEF TypeOK, QuestionCurrent, VersionFence, Attached
      <4>2. opVersion[u] < version[t]
        <5>1. \A x \in bound : x.task = t
          BY <4>1, <3>2
        <5>2. state'[t] = "awaiting_input"
          BY <1>a, <4>1, <2>4 DEF TypeOK
        <5> QED  BY <5>1, <5>2, <4>1, <2>4
      <4>3. q \in kept
        BY <4>1, <4>2, <2>4, <3>2 DEF Kept
      <4>4. \A x \in kept : x \in questions /\ x.task = t
        BY <2>4 DEF Kept
      <4>5. \A x \in kept : x = q
        BY <4>1, <4>4, <1>a DEF QuestionCurrent
      <4> QED  BY <4>3, <4>5, <1>b
    <3>3. \A q \in questions : q.task = t => state'[t] \notin Closed
      BY <1>a, <2>4 DEF QuestionCurrent
    <3> QED  BY <1>a, <2>1, <3>1, <3>2, <3>3 DEF QuestionCurrent
  <2> QED  BY <2>2, <2>3, <2>4
<1>8. (\A x \in Tasks : TaskSound(x))'
  BY <1>a DEF TaskSound, Dispatched, OperationsOf
<1> QED  BY <1>1, <1>2, <1>3, <1>4, <1>5, <1>6, <1>7, <1>8

-----------------------------------------------------------------------------
(* The invariant *)

\* The transactions a step can be; mark_unknown and recover are both LoseTrack.
LEMMA StepCases ==
    ASSUME [JournalNext]_journalVars
    PROVE  \/ \E s \in Scopes, t \in Tasks : CreateTask(s, t)
           \/ \E s \in Scopes, t \in Tasks, q \in Questions : CreateAskedTask(s, t, q)
           \/ \E s \in Scopes, t \in Tasks, u \in Utterances : AcceptNewTask(u, s, t)
           \/ \E t \in Tasks, u \in Utterances : Accept(u, t) \/ CancelPending(u, t)
           \/ \E t \in Tasks, q \in Questions : NoteQuestion(t, q)
           \/ \E u \in Utterances : Dispatch(u) \/ RecordReceipt(u)
           \/ \E s \in Scopes : DetachScope(s)
           \/ \E W \in SUBSET Utterances : (\A u \in W : dispatchState[u] = "submitted") /\ LoseTrack(W)
           \/ \E u \in Utterances, result \in {"succeeded", "failed", "cancelled"} :
                 ReconcileUnknown(u, result)
           \/ \E u \in Utterances, result \in {"awaiting_input", "succeeded", "failed"},
                 reply \in Questions \cup {None} : Settle(u, result, reply)
           \/ UNCHANGED journalVars
<1>1. ASSUME NEW u \in Utterances, MarkUnknown(u)
      PROVE  \E W \in SUBSET Utterances : (\A x \in W : dispatchState[x] = "submitted") /\ LoseTrack(W)
  <2>1. {u} \in SUBSET Utterances /\ (\A x \in {u} : dispatchState[x] = "submitted") /\ LoseTrack({u})
    BY <1>1 DEF MarkUnknown
  <2> QED  BY <2>1
<1>2. ASSUME Recover
      PROVE  \E W \in SUBSET Utterances : (\A x \in W : dispatchState[x] = "submitted") /\ LoseTrack(W)
  <2> DEFINE W == {u \in Utterances : dispatchState[u] = "submitted"}
  <2>1. W \in SUBSET Utterances /\ (\A u \in W : dispatchState[u] = "submitted") /\ LoseTrack(W)
    BY <1>2 DEF Recover
  <2> HIDE DEF W
  <2> QED  BY <2>1
<1> QED  BY <1>1, <1>2 DEF JournalNext, Talk, Work

\* Whoever takes it, a step of the journal keeps the invariant.
LEMMA StepPreserves ==
    ASSUME JournalIInv, [JournalNext]_journalVars
    PROVE  JournalIInv'
<1>1. CASE UNCHANGED journalVars
  BY <1>1
     DEF journalVars, taskVars, opVars, claimVars, JournalIInv, TypeOK, TaskSound, Dispatched,
         OperationSound, OperationsOf, SingleFlight, VersionFence, ClaimShows, CancelledUnsent,
         QuestionCurrent
<1> QED
  BY <1>1, StepCases, CreateTaskPreserves, CreateAskedTaskPreserves, AcceptNewTaskPreserves,
     AcceptPreserves, CancelPendingPreserves, NoteQuestionPreserves, DispatchPreserves,
     SettlePreserves, RecordReceiptPreserves, ReconcileUnknownPreserves, DetachScopePreserves,
     LoseTrackPreserves

\* A new journal is empty.
LEMMA InitSound == JournalInit => JournalIInv
BY NoneAssumption, LimitsAssumption
   DEF JournalInit, JournalIInv, TypeOK, TaskSound, OperationSound, SingleFlight, VersionFence,
       ClaimShows, CancelledUnsent, QuestionCurrent, Unresolved

\* task_store.py keeps its tables sound through every transaction, restart and
\* interleaving of users; in particular at most one operation is unresolved.
THEOREM JournalInvariance == JournalSpec => []JournalIInv
<1>1. JournalInit => JournalIInv
  BY InitSound
<1>2. JournalIInv /\ [JournalNext]_journalVars => JournalIInv'
  BY StepPreserves
<1> QED  BY <1>1, <1>2, PTL DEF JournalSpec

\* dispatch: "Global LegacyVA singleflight".
THEOREM OneInFlight == JournalSpec => []SingleFlight
<1>1. JournalIInv => SingleFlight
  BY DEF JournalIInv
<1> QED  BY <1>1, JournalInvariance, PTL

\* accept_decision and settle never leave a question on offer that is stale.
THEOREM QuestionsCurrent == JournalSpec => []QuestionCurrent
<1>1. JournalIInv => QuestionCurrent
  BY DEF JournalIInv
<1> QED  BY <1>1, JournalInvariance, PTL

\* cancel_pending says "cancelled" only of what was never submitted.
THEOREM CancellationHonest == JournalSpec => []CancelledUnsent
<1>1. JournalIInv => CancelledUnsent
  BY DEF JournalIInv
<1> QED  BY <1>1, JournalInvariance, PTL

-----------------------------------------------------------------------------
(* What a step may never do *)

\* Only running tasks, or tasks with a requested cancellation, lose track.
LEMMA LoseTrackKeeps ==
    ASSUME JournalIInv, NEW W \in SUBSET Utterances, \A u \in W : dispatchState[u] = "submitted",
           LoseTrack(W)
    PROVE  TerminalKept
<1> DEFINE lost == {opTask[u] : u \in W}
<1>1. \A t \in lost : state[t] \in {"running", "cancel_requested"}
  BY DEF JournalIInv, ClaimShows
<1>2. state' = [t \in Tasks |-> IF t \in lost THEN "outcome_unknown" ELSE state[t]]
  BY DEF LoseTrack
<1> HIDE DEF lost
<1> QED  BY <1>1, <1>2 DEF TerminalKept, Final, Closed

\* No transaction takes back the end of a task.
LEMMA TerminalStep ==
    ASSUME JournalIInv, [JournalNext]_journalVars
    PROVE  TerminalKept
<1> USE NoneAssumption DEF JournalIInv, Outcomes, Final, Closed, Unresolved, taskVars, opVars, claimVars
<1>1. ASSUME NEW s \in Scopes, NEW t \in Tasks, CreateTask(s, t)
      PROVE  TerminalKept
  BY <1>1 DEF TerminalKept, TaskSound, InsertTask, CreateTask
<1>2. ASSUME NEW s \in Scopes, NEW t \in Tasks, NEW q \in Questions, CreateAskedTask(s, t, q)
      PROVE  TerminalKept
  BY <1>2 DEF TerminalKept, TaskSound, InsertTask, CreateAskedTask
<1>3. ASSUME NEW s \in Scopes, NEW t \in Tasks, NEW u \in Utterances, AcceptNewTask(u, s, t)
      PROVE  TerminalKept
  BY <1>3 DEF TerminalKept, TaskSound, InsertTask, AcceptNewTask
<1>4. ASSUME NEW t \in Tasks, NEW u \in Utterances, Accept(u, t)
      PROVE  TerminalKept
  BY <1>4 DEF TerminalKept, Accept
<1>5. ASSUME NEW t \in Tasks, NEW u \in Utterances, CancelPending(u, t)
      PROVE  TerminalKept
  BY <1>5 DEF TerminalKept, TaskSound, CancelPending
<1>6. ASSUME NEW t \in Tasks, NEW q \in Questions, NoteQuestion(t, q)
      PROVE  TerminalKept
  BY <1>6 DEF TerminalKept, NoteQuestion
<1>7. ASSUME NEW u \in Utterances, Dispatch(u)
      PROVE  TerminalKept
  BY <1>7 DEF TerminalKept, Claimable, Dispatch
<1>8. ASSUME NEW u \in Utterances, RecordReceipt(u)
      PROVE  TerminalKept
  BY <1>8 DEF TerminalKept, RecordReceipt
<1>9. ASSUME NEW s \in Scopes, DetachScope(s)
      PROVE  TerminalKept
  BY <1>9 DEF TerminalKept, DetachScope
<1>10. ASSUME NEW W \in SUBSET Utterances,
             \A u \in W : dispatchState[u] = "submitted",
             LoseTrack(W)
      PROVE  TerminalKept
  BY <1>10, LoseTrackKeeps
<1>11. ASSUME NEW u \in Utterances,
             NEW result \in {"succeeded", "failed", "cancelled"},
             ReconcileUnknown(u, result)
      PROVE  TerminalKept
  BY <1>11 DEF OperationsOf, TerminalKept, ClaimShows, Sideline, ReconcileUnknown
<1>12. ASSUME NEW u \in Utterances,
             NEW result \in {"awaiting_input", "succeeded", "failed"},
             NEW reply \in Questions \cup {None},
             Settle(u, result, reply)
      PROVE  TerminalKept
  BY <1>12 DEF TerminalKept, Settle
<1>13. CASE UNCHANGED journalVars
  BY <1>13 DEF journalVars, TerminalKept
<1> QED  BY <1>1, <1>2, <1>3, <1>4, <1>5, <1>6, <1>7, <1>8, <1>9, <1>10, <1>11, <1>12, <1>13, StepCases

\* dispatch, settle and cancel_pending: an ended task stays ended.
THEOREM TerminalsStay == JournalSpec => TerminalStays
<1>1. JournalIInv /\ [JournalNext]_journalVars => [TerminalKept]_journalVars
  BY TerminalStep
<1> QED  BY <1>1, JournalInvariance, PTL DEF JournalSpec, TerminalStays

\* No transaction but reconcile_unknown touches an unknown operation.
LEMMA UnknownStep ==
    ASSUME JournalIInv, [JournalNext]_journalVars
    PROVE  UnknownKept
<1> USE NoneAssumption DEF JournalIInv, Outcomes, Final, Closed, Unresolved, taskVars, opVars, claimVars
<1>1. ASSUME NEW s \in Scopes, NEW t \in Tasks, CreateTask(s, t)
      PROVE  UnknownKept
  BY <1>1 DEF UnknownKept, CreateTask
<1>2. ASSUME NEW s \in Scopes, NEW t \in Tasks, NEW q \in Questions, CreateAskedTask(s, t, q)
      PROVE  UnknownKept
  BY <1>2 DEF UnknownKept, CreateAskedTask
<1>3. ASSUME NEW s \in Scopes, NEW t \in Tasks, NEW u \in Utterances, AcceptNewTask(u, s, t)
      PROVE  UnknownKept
  BY <1>3 DEF OperationSound, UnknownKept, InsertOperation, Unused, AcceptNewTask
<1>4. ASSUME NEW t \in Tasks, NEW u \in Utterances, Accept(u, t)
      PROVE  UnknownKept
  BY <1>4 DEF OperationSound, UnknownKept, InsertOperation, Unused, Accept
<1>5. ASSUME NEW t \in Tasks, NEW u \in Utterances, CancelPending(u, t)
      PROVE  UnknownKept
  BY <1>5 DEF UnknownKept, Sideline, CancelPending
<1>6. ASSUME NEW t \in Tasks, NEW q \in Questions, NoteQuestion(t, q)
      PROVE  UnknownKept
  BY <1>6 DEF UnknownKept, NoteQuestion
<1>7. ASSUME NEW u \in Utterances, Dispatch(u)
      PROVE  UnknownKept
  BY <1>7 DEF UnknownKept, Claimable, Dispatch
<1>8. ASSUME NEW u \in Utterances, RecordReceipt(u)
      PROVE  UnknownKept
  BY <1>8 DEF UnknownKept, RecordReceipt
<1>9. ASSUME NEW s \in Scopes, DetachScope(s)
      PROVE  UnknownKept
  BY <1>9 DEF UnknownKept, Sideline, DetachScope
<1>10. ASSUME NEW W \in SUBSET Utterances,
             \A u \in W : dispatchState[u] = "submitted",
             LoseTrack(W)
      PROVE  UnknownKept
  BY <1>10 DEF UnknownKept, LoseTrack
<1>11. ASSUME NEW u \in Utterances,
             NEW result \in {"succeeded", "failed", "cancelled"},
             ReconcileUnknown(u, result)
      PROVE  UnknownKept
  BY <1>11 DEF OperationsOf, UnknownKept, Sideline, ReconcileUnknown
<1>12. ASSUME NEW u \in Utterances,
             NEW result \in {"awaiting_input", "succeeded", "failed"},
             NEW reply \in Questions \cup {None},
             Settle(u, result, reply)
      PROVE  UnknownKept
  BY <1>12 DEF UnknownKept, Settle
<1>13. CASE UNCHANGED journalVars
  BY <1>13 DEF journalVars, UnknownKept
<1> QED  BY <1>1, <1>2, <1>3, <1>4, <1>5, <1>6, <1>7, <1>8, <1>9, <1>10, <1>11, <1>12, <1>13, StepCases

\* reconcile_unknown: evidence first, and nothing waiting is let through.
THEOREM UnknownsHeld == JournalSpec => UnknownHeld
<1>1. JournalIInv /\ [JournalNext]_journalVars => [UnknownKept]_journalVars
  BY UnknownStep
<1> QED  BY <1>1, JournalInvariance, PTL DEF JournalSpec, UnknownHeld

-----------------------------------------------------------------------------
(* The journal implements the ledger *)

\* The refinement mapping, read backwards.
LEMMA StatusIs ==
    ASSUME TypeOK, NEW u \in Utterances
    PROVE  /\ LedgerStatus[u] = "new" <=> dispatchState[u] \in {"none", "unsubmitted"}
           /\ LedgerStatus[u] = "claimed" <=> dispatchState[u] = "submitted"
           /\ LedgerStatus[u] = "unknown" <=> dispatchState[u] = "unknown"
           /\ LedgerStatus[u] = "settled" <=> dispatchState[u] = "settled"
           /\ LedgerStatus[u] = "withdrawn" <=> dispatchState[u] \in {"suspended", "cancelled"}
           /\ LedgerStatus[u] \in {"new", "claimed", "unknown", "settled", "withdrawn"}
BY DEF LedgerStatus, TypeOK, Backlogged, Unresolved

\* dispatch claims.
LEMMA DispatchClaims ==
    ASSUME JournalIInv, NEW u \in Utterances, Dispatch(u)
    PROVE  Ledger!Claim(u)
<1>1. TypeOK
  BY DEF JournalIInv
<1>2. dispatchState[u] = "unsubmitted" /\ \A x \in Utterances : dispatchState[x] \notin Unresolved
  BY DEF Dispatch, Claimable, HasUnresolved
<1>3. LedgerStatus[u] = "new" /\ \A x \in Utterances : LedgerStatus[x] \notin {"claimed", "unknown"}
  BY <1>1, <1>2, StatusIs DEF Unresolved
<1>4. LedgerStatus' = [w \in Utterances |-> IF w \in {u} THEN "claimed" ELSE LedgerStatus[w]]
  BY <1>1 DEF LedgerStatus, Dispatch, TypeOK
<1> QED  BY <1>3, <1>4 DEF Ledger!Claim, Ledger!Set

\* settle settles a claim.
LEMMA SettleSettles ==
    ASSUME JournalIInv, NEW u \in Utterances, NEW result, NEW reply, Settle(u, result, reply)
    PROVE  Ledger!Settle(u)
<1>1. TypeOK
  BY DEF JournalIInv
<1>2. dispatchState[u] = "submitted" /\ dispatchState' = [dispatchState EXCEPT ![u] = "settled"]
  BY DEF Settle
<1>3. LedgerStatus[u] = "claimed"
  BY <1>1, <1>2, StatusIs
<1>4. LedgerStatus' = [w \in Utterances |-> IF w \in {u} THEN "settled" ELSE LedgerStatus[w]]
  BY <1>1, <1>2 DEF LedgerStatus, TypeOK
<1> QED  BY <1>3, <1>4 DEF Ledger!Settle, Ledger!Set

\* mark_unknown and recover lose at most the one claim there is.
LEMMA LoseTrackLoses ==
    ASSUME JournalIInv, NEW W \in SUBSET Utterances, \A u \in W : dispatchState[u] = "submitted",
           LoseTrack(W)
    PROVE  LedgerStatus' = LedgerStatus \/ \E u \in Utterances : Ledger!Lose(u)
<1>1. TypeOK /\ SingleFlight
  BY DEF JournalIInv
<1>2. dispatchState' = [u \in Utterances |-> IF u \in W THEN "unknown" ELSE dispatchState[u]]
  BY DEF LoseTrack
<1>3. CASE W = {}
  BY <1>2, <1>3 DEF LedgerStatus
<1>4. CASE W # {}
  <2>1. PICK u \in Utterances : u \in W
    BY <1>4
  <2>2. W = {u}
    BY <1>1, <2>1 DEF SingleFlight, Unresolved
  <2>3. LedgerStatus[u] = "claimed"
    BY <1>1, <2>1, StatusIs
  <2>4. LedgerStatus' = [w \in Utterances |-> IF w \in {u} THEN "unknown" ELSE LedgerStatus[w]]
    BY <1>1, <1>2, <2>2 DEF LedgerStatus
  <2> QED  BY <2>3, <2>4 DEF Ledger!Lose, Ledger!Set
<1> QED  BY <1>3, <1>4

\* reconcile_unknown settles the unknown write and gives up what followed it.
LEMMA ReconcileClears ==
    ASSUME JournalIInv, NEW u \in Utterances, NEW result \in {"succeeded", "failed", "cancelled"},
           ReconcileUnknown(u, result)
    PROVE  \E G \in SUBSET Utterances : Ledger!Clear(u, G)
<1> DEFINE G == {x \in OperationsOf(opTask[u]) : dispatchState[x] = "unsubmitted"}
<1>1. TypeOK
  BY DEF JournalIInv
<1>2. /\ dispatchState[u] = "unknown"
      /\ dispatchState' = [Sideline(OperationsOf(opTask[u]), "suspended") EXCEPT ![u] = "settled"]
  BY DEF ReconcileUnknown
<1>3. LedgerStatus[u] = "unknown"
  BY <1>1, <1>2, StatusIs
<1>4. \A x \in G : LedgerStatus[x] = "new"
  BY <1>1, StatusIs DEF OperationsOf
<1>5. LedgerStatus' = [x \in Utterances |-> IF x = u THEN "settled"
                                            ELSE IF x \in G THEN "withdrawn" ELSE LedgerStatus[x]]
  BY <1>1, <1>2 DEF LedgerStatus, Sideline
<1>6. G \in SUBSET Utterances
  BY DEF OperationsOf
<1> QED  BY <1>3, <1>4, <1>5, <1>6 DEF Ledger!Clear

\* cancel_pending and detach_scope withdraw what was never claimed.
LEMMA Sidelined ==
    ASSUME TypeOK, NEW W \in SUBSET Utterances, NEW to \in {"suspended", "cancelled"},
           dispatchState' = Sideline(W, to)
    PROVE  \E G \in SUBSET Utterances : Ledger!Withdraw(G)
<1> DEFINE G == {u \in W : dispatchState[u] = "unsubmitted"}
<1>1. \A u \in G : LedgerStatus[u] = "new"
  BY StatusIs
<1>2. LedgerStatus' = [w \in Utterances |-> IF w \in G THEN "withdrawn" ELSE LedgerStatus[w]]
  BY DEF LedgerStatus, Sideline
<1> QED  BY <1>1, <1>2 DEF Ledger!Withdraw, Ledger!Set

\* A step of the journal is a step of the ledger or changes nothing there.
LEMMA LedgerStep ==
    ASSUME JournalIInv, [JournalNext]_journalVars
    PROVE  [Ledger!Next]_LedgerStatus
<1> USE NoneAssumption DEF taskVars, opVars, claimVars, Ledger!Next
<1>0. TypeOK /\ \A x \in Utterances : OperationSound(x)
  BY DEF JournalIInv
<1>1. ASSUME NEW s \in Scopes, NEW t \in Tasks, CreateTask(s, t)
      PROVE  [Ledger!Next]_LedgerStatus
  BY <1>1 DEF LedgerStatus, CreateTask
<1>2. ASSUME NEW s \in Scopes, NEW t \in Tasks, NEW q \in Questions, CreateAskedTask(s, t, q)
      PROVE  [Ledger!Next]_LedgerStatus
  BY <1>2 DEF LedgerStatus, CreateAskedTask
<1>3. ASSUME NEW s \in Scopes, NEW t \in Tasks, NEW u \in Utterances, AcceptNewTask(u, s, t)
      PROVE  [Ledger!Next]_LedgerStatus
  <2>1. dispatchState[u] = "none" /\ dispatchState' = [dispatchState EXCEPT ![u] = "unsubmitted"]
    BY <1>3, <1>0 DEF AcceptNewTask, InsertOperation, Unused, OperationSound
  <2> QED  BY <2>1, <1>0 DEF LedgerStatus
<1>4. ASSUME NEW t \in Tasks, NEW u \in Utterances, Accept(u, t)
      PROVE  [Ledger!Next]_LedgerStatus
  <2>1. dispatchState[u] = "none" /\ dispatchState' = [dispatchState EXCEPT ![u] = "unsubmitted"]
    BY <1>4, <1>0 DEF Accept, InsertOperation, Unused, OperationSound
  <2> QED  BY <2>1, <1>0 DEF LedgerStatus
<1>5. ASSUME NEW t \in Tasks, NEW u \in Utterances, CancelPending(u, t)
      PROVE  [Ledger!Next]_LedgerStatus
  <2>1. OperationsOf(t) \in SUBSET Utterances
    BY DEF OperationsOf
  <2>2. CASE Dispatched(t)
    BY <1>5, <2>1, <2>2, <1>0, Sidelined DEF CancelPending
  <2>3. CASE ~Dispatched(t)
    BY <1>5, <2>1, <2>3, <1>0, Sidelined DEF CancelPending
  <2> QED  BY <2>2, <2>3
<1>6. ASSUME NEW t \in Tasks, NEW q \in Questions, NoteQuestion(t, q)
      PROVE  [Ledger!Next]_LedgerStatus
  BY <1>6 DEF LedgerStatus, NoteQuestion
<1>7. ASSUME NEW u \in Utterances, Dispatch(u)
      PROVE  [Ledger!Next]_LedgerStatus
  BY <1>7, DispatchClaims
<1>8. ASSUME NEW u \in Utterances, RecordReceipt(u)
      PROVE  [Ledger!Next]_LedgerStatus
  BY <1>8 DEF LedgerStatus, RecordReceipt
<1>9. ASSUME NEW s \in Scopes, DetachScope(s)
      PROVE  [Ledger!Next]_LedgerStatus
  <2> DEFINE W == UNION {OperationsOf(t) : t \in TasksOf(s)}
  <2>1. W \in SUBSET Utterances /\ dispatchState' = Sideline(W, "suspended")
    BY <1>9 DEF DetachScope, OperationsOf
  <2> HIDE DEF W
  <2> QED  BY <2>1, <1>0, Sidelined
<1>10. ASSUME NEW W \in SUBSET Utterances,
             \A u \in W : dispatchState[u] = "submitted",
             LoseTrack(W)
      PROVE  [Ledger!Next]_LedgerStatus
  BY <1>10, LoseTrackLoses
<1>11. ASSUME NEW u \in Utterances,
             NEW result \in {"succeeded", "failed", "cancelled"},
             ReconcileUnknown(u, result)
      PROVE  [Ledger!Next]_LedgerStatus
  BY <1>11, ReconcileClears
<1>12. ASSUME NEW u \in Utterances,
             NEW result \in {"awaiting_input", "succeeded", "failed"},
             NEW reply \in Questions \cup {None},
             Settle(u, result, reply)
      PROVE  [Ledger!Next]_LedgerStatus
  BY <1>12, SettleSettles
<1>13. CASE UNCHANGED journalVars
  BY <1>13 DEF journalVars, LedgerStatus
<1> QED  BY <1>1, <1>2, <1>3, <1>4, <1>5, <1>6, <1>7, <1>8, <1>9, <1>10, <1>11, <1>12, <1>13, StepCases

\* task_store.py claims a business write at most once, never beside another
\* unresolved one, whatever restarts, detaches or is cancelled.
THEOREM LedgerRefinement == JournalSpec => ImplementsLedger
<1>1. JournalInit => Ledger!Init
  BY DEF JournalInit, Ledger!Init, LedgerStatus
<1>2. JournalIInv /\ [JournalNext]_journalVars => [Ledger!Next]_LedgerStatus
  BY LedgerStep
<1> QED  BY <1>1, <1>2, JournalInvariance, PTL DEF JournalSpec, ImplementsLedger, Ledger!Spec
=============================================================================
