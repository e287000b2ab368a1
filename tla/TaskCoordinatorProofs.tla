------------------------- MODULE TaskCoordinatorProofs -------------------------
(***************************************************************************)
(* Proofs about TaskCoordinator for any scopes, tasks and utterances: the  *)
(* coordinator writes the journal only by its transactions, so its         *)
(* theorems carry over, and CoordinatorIInv is inductive.                  *)
(***************************************************************************)
EXTENDS TaskCoordinator, TaskJournalProofs

\* The coordinator writes the journal only by its transactions.
LEMMA JournalStep ==
    ASSUME CoordinatorIInv, [Next]_vars
    PROVE  [JournalNext]_journalVars
<1> USE DEF Idle
<1>0. CoordinatorTypeOK /\ CallSound
  BY DEF CoordinatorIInv
<1>1. ASSUME NEW s \in Scopes, Attach(s) PROVE [JournalNext]_journalVars
  BY <1>1 DEF Attach
<1>2. ASSUME LetGo, owner \in Scopes PROVE [JournalNext]_journalVars
  BY <1>2 DEF LetGo, JournalNext
<1>3. ASSUME Detach \/ Shutdown PROVE [JournalNext]_journalVars
  BY <1>0, <1>2, <1>3 DEF Detach, Shutdown, CoordinatorTypeOK, CallSound
<1>4. ASSUME NEW u \in Utterances, BeginInput(u) PROVE [JournalNext]_journalVars
  BY <1>4 DEF BeginInput
<1>5. ASSUME NEW u \in Utterances, Reconcile(u) PROVE [JournalNext]_journalVars
  BY <1>5 DEF Reconcile, JournalNext, Work
<1>6. ASSUME AcceptInput PROVE [JournalNext]_journalVars
  <2>1. input.utterance \in Utterances /\ owner \in Scopes
    BY <1>0, <1>6 DEF AcceptInput, CoordinatorTypeOK, CallSound
  <2> QED  BY <1>6, <2>1 DEF AcceptInput, JournalNext, Talk, TasksOf
<1>7. ASSUME NEW q \in Questions, Greet(q) PROVE [JournalNext]_journalVars
  <2>1. owner \in Scopes
    BY <1>0, <1>7 DEF Greet, CoordinatorTypeOK, CallSound
  <2> QED  BY <1>7, <2>1 DEF Greet, JournalNext, Talk, TasksOf
<1>8. ASSUME NEW q \in Questions, Reply(q) PROVE [JournalNext]_journalVars
  <2>1. opTask[current] \in Tasks
    BY <1>0, <1>8 DEF Reply, CoordinatorTypeOK, CallSound, TypeOK
  <2> QED  BY <1>8, <2>1 DEF Reply, JournalNext, Talk
<1>9. ASSUME Run PROVE [JournalNext]_journalVars
  <2>1. worker \in {"preparing", "turn"} => current \in Utterances
    BY <1>0 DEF CoordinatorTypeOK
  <2>2. ASSUME Ready PROVE [JournalNext]_journalVars
    BY <2>1, <2>2 DEF Ready, JournalNext, Work
  <2>3. ASSUME TurnReturns PROVE [JournalNext]_journalVars
    BY <2>1, <2>3 DEF TurnReturns, JournalNext, Work
  <2>4. ASSUME TurnFails \/ WorkerCancelled PROVE [JournalNext]_journalVars
    BY <2>1, <2>4 DEF TurnFails, WorkerCancelled, JournalNext, Work
  <2>5. ASSUME WorkerWakes \/ ReadyFails \/ Leave PROVE [JournalNext]_journalVars
    BY <2>5 DEF WorkerWakes, ReadyFails, Leave
  <2> QED  BY <1>9, <2>2, <2>3, <2>4, <2>5 DEF Run
<1>10. ASSUME DropInput \/ Cleanup \/ Crash PROVE [JournalNext]_journalVars
  BY <1>10 DEF DropInput, Cleanup, Crash
<1>11. ASSUME Start PROVE [JournalNext]_journalVars
  BY <1>11 DEF Start, JournalNext
<1>12. CASE UNCHANGED vars
  BY <1>12 DEF vars
<1> QED
  BY <1>1, <1>3, <1>4, <1>5, <1>6, <1>7, <1>8, <1>9, <1>10, <1>11, <1>12 DEF Next

\* What a round of the worker establishes, whatever it finds.
Fits ==
    /\ worker \in {"waiting", "preparing", "closing"} /\ wake \in BOOLEAN
    /\ worker = "preparing" <=> current # None
    /\ current \in Utterances \cup {None}
    /\ current # None => /\ opTask[current] # None /\ taskScope[opTask[current]] = owner
                         /\ context \in {None, opTask[current]}
    /\ NoLostWakeup

\* The inner loop of _run picks an operation of its own call, or has none to pick.
LEMMA RoundFits ==
    ASSUME TypeOK', (\A u \in Utterances : OperationSound(u))', NEW awake \in BOOLEAN, Round(awake)
    PROVE  Fits'
<1> USE NoneAssumption
<1>1. ASSUME NEW i \in Queue'
      PROVE  /\ rows'[i] \in Utterances /\ opTask'[rows'[i]] # None
             /\ taskScope'[opTask'[rows'[i]]] = owner' /\ context' \in {None, opTask'[rows'[i]]}
  BY <1>1 DEF Queue, Eligible, TypeOK, OperationSound
<1> QED  BY <1>1 DEF Round, Fits, NoLostWakeup

\* AcceptInput but for the transaction.
Took ==
    /\ alive /\ attached /\ input # Idle /\ input' = Idle /\ wake' = TRUE
    /\ UNCHANGED <<processVars, owner, attached, worker, current, context>>

\* A new call finds no task of its scope and nothing unresolved.
LEMMA AttachKeeps ==
    ASSUME CoordinatorIInv, NEW s \in Scopes, JournalIInv', Attach(s)
    PROVE  CoordinatorIInv'
<1> USE NoneAssumption DEF CoordinatorIInv, JournalIInv, taskVars, opVars, claimVars, journalVars,
        processVars, callVars, Unresolved, Final, Closed
<1>1. CoordinatorTypeOK'
  BY DEF CoordinatorTypeOK, Attach
<1>2. CallSound'
  <2>1. attachment[s] = "absent"
    BY DEF Attach, CallSound
  <2>2. current = None /\ input = Idle
    BY DEF Attach, CallSound, CoordinatorTypeOK
  <2> QED  BY <2>1, <2>2 DEF Attach, CallSound, HasUnresolved, TasksOf
<1>3. ClaimObserved'
  BY DEF CoordinatorTypeOK, ClaimObserved, Attach
<1>4. FollowUpsHeld'
  BY DEF FollowUpsHeld, OperationsOf, Attach
<1>5. NoLostWakeup'
  BY DEF CallSound, NoLostWakeup, Queue, Eligible, Attached, TaskSound, Attach
<1>6. TurnSound'
  BY DEF TypeOK, TurnSound, OperationSound, TasksOf, Attach, HasUnresolved
<1> QED  BY <1>1, <1>2, <1>3, <1>4, <1>5, <1>6

\* A detach wakes the worker and suspends what waits; a running turn goes on.
LEMMA LetGoKeeps ==
    ASSUME CoordinatorIInv, JournalIInv', LetGo, owner # None, alive, shutdown' \in BOOLEAN,
           UNCHANGED <<alive, turns>>
    PROVE  CoordinatorIInv'
<1> USE NoneAssumption DEF CoordinatorIInv, JournalIInv, taskVars, opVars, claimVars, journalVars,
        processVars, callVars, Unresolved, Final, Closed
<1>1. CoordinatorTypeOK'
  BY DEF CoordinatorTypeOK, LetGo
<1>2. CallSound'
  BY DEF CallSound, TasksOf, LetGo, DetachScope, Sideline
<1>3. ClaimObserved'
  BY DEF CoordinatorTypeOK, ClaimObserved, LetGo, DetachScope, Sideline
<1>4. FollowUpsHeld'
  BY DEF FollowUpsHeld, OperationsOf, LetGo, DetachScope, Sideline
<1>5. NoLostWakeup'
  BY DEF NoLostWakeup, LetGo
<1>6. TurnSound'
  BY DEF TurnSound, LetGo, DetachScope
<1> QED  BY <1>1, <1>2, <1>3, <1>4, <1>5, <1>6

\* Without an attached call only the flag is set.
LEMMA ShutdownKeeps ==
    ASSUME CoordinatorIInv, JournalIInv', ~attached, shutdown' = TRUE, UNCHANGED
           <<journalVars, callVars, alive, turns>>
    PROVE  CoordinatorIInv'
<1> USE NoneAssumption DEF CoordinatorIInv, JournalIInv, taskVars, opVars, claimVars, journalVars,
        processVars, callVars, Unresolved, Final, Closed
<1>1. CoordinatorTypeOK'
  BY DEF CoordinatorTypeOK
<1>2. CallSound'
  BY DEF CallSound, TasksOf
<1>3. ClaimObserved'
  BY DEF ClaimObserved
<1>4. FollowUpsHeld'
  BY DEF FollowUpsHeld, OperationsOf
<1>5. NoLostWakeup'
  BY DEF NoLostWakeup
<1>6. TurnSound'
  BY DEF TurnSound
<1> QED  BY <1>1, <1>2, <1>3, <1>4, <1>5, <1>6

\* Nothing but the input changes.
LEMMA BeginInputKeeps ==
    ASSUME CoordinatorIInv, NEW u \in Utterances, JournalIInv', BeginInput(u)
    PROVE  CoordinatorIInv'
<1> USE NoneAssumption DEF CoordinatorIInv, JournalIInv, taskVars, opVars, claimVars, journalVars,
        processVars, callVars, Unresolved, Final, Closed
<1>1. CoordinatorTypeOK'
  BY DEF CoordinatorTypeOK, BeginInput
<1>2. CallSound'
  BY DEF CallSound, TasksOf, BeginInput
<1>3. ClaimObserved'
  BY DEF ClaimObserved, BeginInput
<1>4. FollowUpsHeld'
  BY DEF FollowUpsHeld, OperationsOf, BeginInput
<1>5. NoLostWakeup'
  BY DEF NoLostWakeup, Queue, Eligible, Attached, HasUnresolved, BeginInput
<1>6. TurnSound'
  BY DEF TurnSound, BeginInput
<1> QED  BY <1>1, <1>2, <1>3, <1>4, <1>5, <1>6

\* A new task: the worker is awake, so it may be eligible.
LEMMA AcceptTaskKeeps ==
    ASSUME CoordinatorIInv, NEW t \in Tasks, JournalIInv', Took,
           AcceptNewTask(input.utterance, owner, t)
    PROVE  CoordinatorIInv'
<1> USE NoneAssumption DEF CoordinatorIInv, JournalIInv, taskVars, opVars, claimVars, journalVars,
        processVars, callVars, Unresolved, Final, Closed
<1>1. CoordinatorTypeOK'
  BY DEF CoordinatorTypeOK, Took
<1>2. CallSound'
  BY DEF TypeOK, CallSound, TasksOf, Took, AcceptNewTask, InsertTask, InsertOperation
<1>3. ClaimObserved'
  BY DEF TypeOK, ClaimObserved, OperationSound, Took, AcceptNewTask, InsertOperation
<1>4. FollowUpsHeld'
  BY DEF TypeOK, FollowUpsHeld, OperationSound, OperationsOf, AcceptNewTask, InsertTask,
         InsertOperation
<1>5. NoLostWakeup'
  BY DEF NoLostWakeup, Took
<1>6. TurnSound'
  BY DEF TurnSound, OperationSound, Took, AcceptNewTask, InsertTask, InsertOperation, Unused
<1> QED  BY <1>1, <1>2, <1>3, <1>4, <1>5, <1>6

\* More input for an open task.
LEMMA AcceptMoreKeeps ==
    ASSUME CoordinatorIInv, NEW t \in TasksOf(owner), JournalIInv', Took,
           Accept(input.utterance, t)
    PROVE  CoordinatorIInv'
<1> USE NoneAssumption DEF CoordinatorIInv, JournalIInv, taskVars, opVars, claimVars, journalVars,
        processVars, callVars, Unresolved, Final, Closed
<1>1. CoordinatorTypeOK'
  BY DEF CoordinatorTypeOK, Took
<1>2. CallSound'
  BY DEF TypeOK, CallSound, SingleFlight, TasksOf, Took, Accept, InsertOperation
<1>3. ClaimObserved'
  BY DEF TypeOK, ClaimObserved, OperationSound, Took, Accept, InsertOperation
<1>4. FollowUpsHeld'
  BY DEF TypeOK, FollowUpsHeld, OperationSound, OperationsOf, Accept, InsertOperation
<1>5. NoLostWakeup'
  BY DEF NoLostWakeup, Took
<1>6. TurnSound'
  BY DEF TurnSound, OperationSound, Took, Accept, InsertOperation, Unused
<1> QED  BY <1>1, <1>2, <1>3, <1>4, <1>5, <1>6

\* A cancellation leaves nothing unsubmitted.
LEMMA CancelKeeps ==
    ASSUME CoordinatorIInv, NEW t \in TasksOf(owner), JournalIInv', Took,
           CancelPending(input.utterance, t)
    PROVE  CoordinatorIInv'
<1> USE NoneAssumption DEF CoordinatorIInv, JournalIInv, taskVars, opVars, claimVars, journalVars,
        processVars, callVars, Unresolved, Final, Closed
<1>1. CoordinatorTypeOK'
  BY DEF CoordinatorTypeOK, Took
<1>2. CallSound'
  BY DEF CallSound, TasksOf, Took, CancelPending, Sideline
<1>3. ClaimObserved'
  BY DEF CoordinatorTypeOK, ClaimObserved, Took, CancelPending, Sideline
<1>4. FollowUpsHeld'
  BY DEF FollowUpsHeld, OperationsOf, CancelPending, Sideline
<1>5. NoLostWakeup'
  BY DEF NoLostWakeup, Took
<1>6. TurnSound'
  BY DEF TurnSound, Took, CancelPending
<1> QED  BY <1>1, <1>2, <1>3, <1>4, <1>5, <1>6

\* Nothing but the input changes.
LEMMA DropInputKeeps ==
    ASSUME CoordinatorIInv, JournalIInv', DropInput
    PROVE  CoordinatorIInv'
<1> USE NoneAssumption DEF CoordinatorIInv, JournalIInv, taskVars, opVars, claimVars, journalVars,
        processVars, callVars, Unresolved, Final, Closed
<1>1. CoordinatorTypeOK'
  BY DEF CoordinatorTypeOK, DropInput
<1>2. CallSound'
  BY DEF CallSound, TasksOf, DropInput
<1>3. ClaimObserved'
  BY DEF ClaimObserved, DropInput
<1>4. FollowUpsHeld'
  BY DEF FollowUpsHeld, OperationsOf, DropInput
<1>5. NoLostWakeup'
  BY DEF NoLostWakeup, Queue, Eligible, Attached, HasUnresolved, DropInput
<1>6. TurnSound'
  BY DEF TurnSound, DropInput
<1> QED  BY <1>1, <1>2, <1>3, <1>4, <1>5, <1>6

\* A question concerns no operation.
LEMMA AskKeeps ==
    ASSUME CoordinatorIInv, NEW t \in TasksOf(owner), NEW q \in Questions, JournalIInv',
           alive, attached, NoteQuestion(t, q), UNCHANGED <<processVars, callVars>>
    PROVE  CoordinatorIInv'
<1> USE NoneAssumption DEF CoordinatorIInv, JournalIInv, taskVars, opVars, claimVars, journalVars,
        processVars, callVars, Unresolved, Final, Closed
<1>1. CoordinatorTypeOK'
  BY DEF CoordinatorTypeOK
<1>2. CallSound'
  BY DEF CallSound, TasksOf, NoteQuestion
<1>3. ClaimObserved'
  BY DEF ClaimObserved, NoteQuestion
<1>4. FollowUpsHeld'
  BY DEF FollowUpsHeld, OperationsOf, NoteQuestion
<1>5. NoLostWakeup'
  BY DEF NoLostWakeup, Queue, Eligible, Attached, HasUnresolved, NoteQuestion
<1>6. TurnSound'
  BY DEF TurnSound, NoteQuestion
<1> QED  BY <1>1, <1>2, <1>3, <1>4, <1>5, <1>6

\* Without a context nothing is unresolved, so any may be chosen.
LEMMA AskFirstKeeps ==
    ASSUME CoordinatorIInv, NEW t \in Tasks, NEW q \in Questions, JournalIInv', alive,
           attached, context = None, CreateAskedTask(owner, t, q), context' = t, UNCHANGED
           <<processVars, owner, attached, worker, current, wake, input>>
    PROVE  CoordinatorIInv'
<1> USE NoneAssumption DEF CoordinatorIInv, JournalIInv, taskVars, opVars, claimVars, journalVars,
        processVars, callVars, Unresolved, Final, Closed
<1>1. CoordinatorTypeOK'
  BY DEF CoordinatorTypeOK
<1>2. CallSound'
  BY DEF TypeOK, CallSound, OperationSound, TasksOf, CreateAskedTask, InsertTask
<1>3. ClaimObserved'
  BY DEF CoordinatorTypeOK, CallSound, ClaimObserved, CreateAskedTask
<1>4. FollowUpsHeld'
  BY DEF FollowUpsHeld, OperationsOf, CreateAskedTask, InsertTask
<1>5. NoLostWakeup'
  BY DEF TypeOK, NoLostWakeup, Queue, Eligible, OperationSound, CreateAskedTask, InsertTask
<1>6. TurnSound'
  BY DEF CallSound, ClaimObserved, TurnSound, OperationSound, CreateAskedTask, InsertTask
<1> QED  BY <1>1, <1>2, <1>3, <1>4, <1>5, <1>6

\* The worker looks again.
LEMMA WakesKeeps ==
    ASSUME CoordinatorIInv, JournalIInv', WorkerWakes
    PROVE  CoordinatorIInv'
<1> USE NoneAssumption DEF CoordinatorIInv, JournalIInv, taskVars, opVars, claimVars, journalVars,
        processVars, callVars, Unresolved, Final, Closed
<1>0. Fits'
  BY RoundFits DEF WorkerWakes
<1>1. CoordinatorTypeOK'
  BY <1>0 DEF Fits, CoordinatorTypeOK, WorkerWakes
<1>2. CallSound'
  BY <1>0 DEF Fits, CallSound, TasksOf, WorkerWakes
<1>3. ClaimObserved'
  BY <1>0 DEF Fits, ClaimObserved, WorkerWakes
<1>4. FollowUpsHeld'
  BY <1>0 DEF FollowUpsHeld, OperationsOf, WorkerWakes
<1>5. NoLostWakeup'
  BY <1>0 DEF Fits
<1>6. TurnSound'
  BY <1>0 DEF Fits, CoordinatorTypeOK, CallSound, TurnSound, OperationSound, TasksOf, WorkerWakes
<1> QED  BY <1>1, <1>2, <1>3, <1>4, <1>5, <1>6

\* The claim is the only one, and its task becomes the context.
LEMMA ReadyClaimsKeeps ==
    ASSUME CoordinatorIInv, JournalIInv', alive, worker = "preparing", Dispatch(current),
           context' = opTask[current], worker' = "turn", turns' = [turns EXCEPT ![current] =
           @ + 1], UNCHANGED <<alive, shutdown, owner, attached, current, wake, input>>
    PROVE  CoordinatorIInv'
<1> USE NoneAssumption DEF CoordinatorIInv, JournalIInv, taskVars, opVars, claimVars, journalVars,
        processVars, callVars, Unresolved, Final, Closed
<1>1. CoordinatorTypeOK'
  BY DEF CoordinatorTypeOK, TypeOK, Dispatch
<1>2. CallSound'
  BY DEF TypeOK, CallSound, SingleFlight, TasksOf, Dispatch
<1>3. ClaimObserved'
  BY DEF TypeOK, ClaimObserved, Dispatch
<1>4. FollowUpsHeld'
  BY DEF TypeOK, FollowUpsHeld, OperationsOf, Dispatch
<1>5. NoLostWakeup'
  BY DEF NoLostWakeup
<1>6. TurnSound'
  BY DEF TypeOK, CoordinatorTypeOK, CallSound, TurnSound, OperationSound, Dispatch, Claimable
<1> QED  BY <1>1, <1>2, <1>3, <1>4, <1>5, <1>6

\* The operation was cancelled, or the call left.
LEMMA ReadyMissesKeeps ==
    ASSUME CoordinatorIInv, JournalIInv', alive, worker = "preparing", ~Claimable(current),
           UNCHANGED <<journalVars, processVars, owner, attached, context, input>>,
           Round(wake)
    PROVE  CoordinatorIInv'
<1> USE NoneAssumption DEF CoordinatorIInv, JournalIInv, taskVars, opVars, claimVars, journalVars,
        processVars, callVars, Unresolved, Final, Closed
<1>0. Fits'
  <2>1. TypeOK' /\ (\A u \in Utterances : OperationSound(u))'
    OBVIOUS
  <2>2. wake \in BOOLEAN
    BY DEF CoordinatorTypeOK
  <2> QED  BY <2>1, <2>2, RoundFits
<1>1. CoordinatorTypeOK'
  BY <1>0 DEF Fits, CoordinatorTypeOK
<1>2. CallSound'
  BY <1>0 DEF Fits, CallSound, TasksOf
<1>3. ClaimObserved'
  BY <1>0 DEF Fits, ClaimObserved
<1>4. FollowUpsHeld'
  BY <1>0 DEF FollowUpsHeld, OperationsOf
<1>5. NoLostWakeup'
  BY <1>0 DEF Fits
<1>6. TurnSound'
  BY <1>0 DEF Fits, CoordinatorTypeOK, CallSound, TurnSound
<1> QED  BY <1>1, <1>2, <1>3, <1>4, <1>5, <1>6

\* The worker stops before a claim.
LEMMA StopsKeeps ==
    ASSUME CoordinatorIInv, JournalIInv', ReadyFails \/ Leave
    PROVE  CoordinatorIInv'
<1> USE NoneAssumption DEF CoordinatorIInv, JournalIInv, taskVars, opVars, claimVars, journalVars,
        processVars, callVars, Unresolved, Final, Closed
<1>1. CoordinatorTypeOK'
  BY DEF CoordinatorTypeOK, ReadyFails, Leave
<1>2. CallSound'
  BY DEF CallSound, TasksOf, ReadyFails, Leave
<1>3. ClaimObserved'
  BY DEF ClaimObserved, ReadyFails, Leave
<1>4. FollowUpsHeld'
  BY DEF FollowUpsHeld, OperationsOf, ReadyFails, Leave
<1>5. NoLostWakeup'
  BY DEF NoLostWakeup, ReadyFails, Leave
<1>6. TurnSound'
  BY DEF TurnSound, ReadyFails, Leave
<1> QED  BY <1>1, <1>2, <1>3, <1>4, <1>5, <1>6

\* The claim is settled, the task stays open or cancelled.
LEMMA ReturnsKeeps ==
    ASSUME CoordinatorIInv, NEW reply \in Questions \cup {None}, JournalIInv', alive, worker
           = "turn", Settle(current, "awaiting_input", reply), UNCHANGED <<processVars,
           owner, attached, context, input>>, Round(wake)
    PROVE  CoordinatorIInv'
<1> USE NoneAssumption DEF CoordinatorIInv, JournalIInv, taskVars, opVars, claimVars, journalVars,
        processVars, callVars, Unresolved, Final, Closed
<1>0. Fits'
  BY RoundFits DEF CoordinatorTypeOK
<1>1. CoordinatorTypeOK'
  BY <1>0 DEF Fits, CoordinatorTypeOK
<1>2. CallSound'
  BY <1>0 DEF Fits, CallSound, TasksOf, Settle
<1>3. ClaimObserved'
  BY <1>0 DEF Fits, TypeOK, ClaimObserved, Settle
<1>4. FollowUpsHeld'
  BY <1>0 DEF FollowUpsHeld, OperationsOf, Settle
<1>5. NoLostWakeup'
  BY <1>0 DEF Fits
<1>6. TurnSound'
  BY <1>0 DEF Fits, TypeOK, CoordinatorTypeOK, TurnSound, Settle
<1> QED  BY <1>1, <1>2, <1>3, <1>4, <1>5, <1>6

\* What waits for the task now waits for evidence.
LEMMA FailsKeeps ==
    ASSUME CoordinatorIInv, JournalIInv', TurnFails
    PROVE  CoordinatorIInv'
<1> USE NoneAssumption DEF CoordinatorIInv, JournalIInv, taskVars, opVars, claimVars, journalVars,
        processVars, callVars, Unresolved, Final, Closed
<1>0. Fits'
  BY RoundFits DEF CoordinatorTypeOK, TurnFails
<1>1. CoordinatorTypeOK'
  BY <1>0 DEF Fits, CoordinatorTypeOK, TurnFails
<1>2. CallSound'
  BY <1>0 DEF Fits, CallSound, TasksOf, TurnFails, MarkUnknown, LoseTrack
<1>3. ClaimObserved'
  BY <1>0 DEF Fits, ClaimObserved, TurnFails, MarkUnknown, LoseTrack
<1>4. FollowUpsHeld'
  BY <1>0 DEF TypeOK, CoordinatorTypeOK, FollowUpsHeld, OperationSound, OperationsOf, TurnFails,
       MarkUnknown, LoseTrack
<1>5. NoLostWakeup'
  BY <1>0 DEF Fits
<1>6. TurnSound'
  BY <1>0 DEF Fits, CoordinatorTypeOK, CallSound, TurnSound, TurnFails, MarkUnknown, LoseTrack
<1> QED  BY <1>1, <1>2, <1>3, <1>4, <1>5, <1>6

\* A cancelled turn has failed.
LEMMA CancelledKeeps ==
    ASSUME CoordinatorIInv, JournalIInv', WorkerCancelled
    PROVE  CoordinatorIInv'
<1> USE NoneAssumption DEF CoordinatorIInv, JournalIInv, taskVars, opVars, claimVars, journalVars,
        processVars, callVars, Unresolved, Final, Closed
<1>1. CoordinatorTypeOK'
  BY DEF CoordinatorTypeOK, WorkerCancelled
<1>2. CallSound'
  BY DEF CallSound, TasksOf, WorkerCancelled, MarkUnknown, LoseTrack
<1>3. ClaimObserved'
  BY DEF ClaimObserved, WorkerCancelled, MarkUnknown, LoseTrack
<1>4. FollowUpsHeld'
  BY DEF TypeOK, CoordinatorTypeOK, FollowUpsHeld, OperationSound, OperationsOf, WorkerCancelled,
         MarkUnknown, LoseTrack
<1>5. NoLostWakeup'
  BY DEF NoLostWakeup, WorkerCancelled
<1>6. TurnSound'
  BY DEF TurnSound, WorkerCancelled, MarkUnknown, LoseTrack
<1> QED  BY <1>1, <1>2, <1>3, <1>4, <1>5, <1>6

\* The slot is given back without an unresolved outcome.
LEMMA CleanupKeeps ==
    ASSUME CoordinatorIInv, JournalIInv', Cleanup
    PROVE  CoordinatorIInv'
<1> USE NoneAssumption DEF CoordinatorIInv, JournalIInv, taskVars, opVars, claimVars, journalVars,
        processVars, callVars, Unresolved, Final, Closed
<1>1. CoordinatorTypeOK'
  BY DEF CoordinatorTypeOK, Idle, Cleanup, Released
<1>2. CallSound'
  BY DEF CallSound, TasksOf, Cleanup, Released
<1>3. ClaimObserved'
  BY DEF ClaimObserved, Cleanup, Released
<1>4. FollowUpsHeld'
  BY DEF FollowUpsHeld, OperationsOf, Cleanup
<1>5. NoLostWakeup'
  BY DEF NoLostWakeup, Cleanup, Released
<1>6. TurnSound'
  BY DEF TurnSound, OperationSound, Cleanup, Released
<1> QED  BY <1>1, <1>2, <1>3, <1>4, <1>5, <1>6

\* A crash leaves the claim to the next start.
LEMMA CrashKeeps ==
    ASSUME CoordinatorIInv, JournalIInv', Crash
    PROVE  CoordinatorIInv'
<1> USE NoneAssumption DEF CoordinatorIInv, JournalIInv, taskVars, opVars, claimVars, journalVars,
        processVars, callVars, Unresolved, Final, Closed
<1>1. CoordinatorTypeOK'
  BY DEF CoordinatorTypeOK, Crash, Released
<1>2. CallSound'
  BY DEF CallSound, TasksOf, Crash, Released
<1>3. ClaimObserved'
  BY DEF ClaimObserved, Crash, Released
<1>4. FollowUpsHeld'
  BY DEF FollowUpsHeld, OperationsOf, Crash
<1>5. NoLostWakeup'
  BY DEF NoLostWakeup, Crash, Released
<1>6. TurnSound'
  BY DEF TurnSound, OperationSound, Crash, Released
<1> QED  BY <1>1, <1>2, <1>3, <1>4, <1>5, <1>6

\* Claims without a worker become unknown.
LEMMA StartKeeps ==
    ASSUME CoordinatorIInv, JournalIInv', Start
    PROVE  CoordinatorIInv'
<1> USE NoneAssumption DEF CoordinatorIInv, JournalIInv, taskVars, opVars, claimVars, journalVars,
        processVars, callVars, Unresolved, Final, Closed
<1>1. CoordinatorTypeOK'
  BY DEF CoordinatorTypeOK, Start
<1>2. CallSound'
  BY DEF CallSound, TasksOf, Start, Recover, LoseTrack
<1>3. ClaimObserved'
  BY DEF CoordinatorTypeOK, CallSound, ClaimObserved, Start, Recover, LoseTrack
<1>4. FollowUpsHeld'
  BY DEF TypeOK, FollowUpsHeld, OperationSound, OperationsOf, Start, Recover, LoseTrack
<1>5. NoLostWakeup'
  BY DEF CallSound, NoLostWakeup, Start
<1>6. TurnSound'
  BY DEF TurnSound, Start, Recover, LoseTrack
<1> QED  BY <1>1, <1>2, <1>3, <1>4, <1>5, <1>6

\* A receipt changes no claim.
LEMMA ReceiptKeeps ==
    ASSUME CoordinatorIInv, NEW u \in Utterances, JournalIInv', RecordReceipt(u), UNCHANGED
           <<processVars, callVars>>
    PROVE  CoordinatorIInv'
<1> USE NoneAssumption DEF CoordinatorIInv, JournalIInv, taskVars, opVars, claimVars, journalVars,
        processVars, callVars, Unresolved, Final, Closed
<1>1. CoordinatorTypeOK'
  BY DEF CoordinatorTypeOK
<1>2. CallSound'
  BY DEF CallSound, TasksOf, RecordReceipt
<1>3. ClaimObserved'
  BY DEF ClaimObserved, RecordReceipt
<1>4. FollowUpsHeld'
  BY DEF FollowUpsHeld, OperationsOf, RecordReceipt
<1>5. NoLostWakeup'
  <2>1. Queue' = Queue /\ HasUnresolved' = HasUnresolved
    BY DEF Queue, Eligible, Attached, HasUnresolved, RecordReceipt
  <2> QED  BY <2>1 DEF NoLostWakeup
<1>6. TurnSound'
  BY DEF TurnSound, RecordReceipt
<1> QED  BY <1>1, <1>2, <1>3, <1>4, <1>5, <1>6

\* What waited behind the unknown operation is suspended with it, so a sleeping
\* worker has missed nothing.
LEMMA ReconcileKeeps ==
    ASSUME CoordinatorIInv, NEW u \in Utterances, NEW result \in {"succeeded", "failed",
           "cancelled"}, JournalIInv', ReconcileUnknown(u, result), UNCHANGED <<processVars,
           callVars>>
    PROVE  CoordinatorIInv'
<1> USE NoneAssumption DEF CoordinatorIInv, JournalIInv, taskVars, opVars, claimVars, journalVars,
        processVars, callVars, Unresolved, Final, Closed
<1>1. CoordinatorTypeOK'
  BY DEF CoordinatorTypeOK
<1>2. CallSound'
  BY DEF CallSound, TasksOf, ReconcileUnknown, Sideline
<1>3. ClaimObserved'
  BY DEF CoordinatorTypeOK, ClaimObserved, ReconcileUnknown, Sideline
<1>4. FollowUpsHeld'
  BY DEF TypeOK, FollowUpsHeld, ClaimShows, OperationsOf, ReconcileUnknown, Sideline
<1>5. NoLostWakeup'
  <2>1. ASSUME attached
        PROVE  Queue' = {}
    <3>1. context = opTask[u] /\ opTask[u] # None
      BY <2>1 DEF CallSound, OperationSound, ReconcileUnknown
    <3>2. \A x \in Utterances : opTask[x] = opTask[u] => dispatchState'[x] # "unsubmitted"
      BY DEF ReconcileUnknown, Sideline, OperationsOf
    <3>3. \A i \in DOMAIN rows : rows[i] \in Utterances
      BY DEF TypeOK
    <3> QED  BY <3>1, <3>2, <3>3 DEF Queue, Eligible, ReconcileUnknown
  <2> QED  BY <2>1 DEF NoLostWakeup
<1>6. TurnSound'
  BY DEF TurnSound, ReconcileUnknown
<1> QED  BY <1>1, <1>2, <1>3, <1>4, <1>5, <1>6

-----------------------------------------------------------------------------
(* The invariant *)

\* A new coordinator is idle.
LEMMA CoordinatorInit == Init => CoordinatorIInv
<1>1. Init => JournalIInv
  BY InitSound DEF Init
<1>2. Init => CoordinatorTypeOK
  <2>1. Init => TypeOK
    BY <1>1 DEF JournalIInv
  <2>2. Init => turns \in [Utterances -> Nat]
    BY DEF Init
  <2> QED  BY <2>1, <2>2 DEF Init, CoordinatorTypeOK
<1>3. Init => CallSound
  BY DEF Init, JournalInit, CallSound
<1>4. Init => TurnSound /\ ClaimObserved /\ FollowUpsHeld /\ NoLostWakeup
  BY DEF Init, JournalInit, TurnSound, ClaimObserved, FollowUpsHeld, NoLostWakeup
<1> QED  BY <1>1, <1>2, <1>3, <1>4 DEF CoordinatorIInv

\* The invariant speaks of variables only.
LEMMA StutterKeeps ==
    ASSUME CoordinatorIInv, UNCHANGED vars
    PROVE  CoordinatorIInv'
<1>1. JournalIInv'
  BY StepPreserves DEF CoordinatorIInv, vars
<1>2. TypeOK'
  BY <1>1 DEF JournalIInv
<1> USE DEF vars, journalVars, taskVars, opVars, claimVars, processVars, callVars, CoordinatorIInv
<1>3. CoordinatorTypeOK'
  BY <1>2 DEF CoordinatorTypeOK
<1>4. CallSound' /\ TurnSound' /\ ClaimObserved' /\ FollowUpsHeld'
  BY DEF CallSound, TurnSound, ClaimObserved, FollowUpsHeld, TasksOf, OperationsOf
<1>5. NoLostWakeup'
  BY DEF NoLostWakeup, Queue, Eligible, Attached, HasUnresolved
<1> QED  BY <1>1, <1>3, <1>4, <1>5

\* Every step of the coordinator keeps the invariant.
LEMMA StepKeeps ==
    ASSUME CoordinatorIInv, [Next]_vars
    PROVE  CoordinatorIInv'
<1>0. JournalIInv'
  BY JournalStep, StepPreserves DEF CoordinatorIInv
<1>1. owner \in Scopes \cup {None} /\ current \in Utterances \cup {None} /\ (owner = None => ~attached)
  BY DEF CoordinatorIInv, CoordinatorTypeOK, CallSound
<1>2. shutdown \in BOOLEAN
  BY DEF CoordinatorIInv, CoordinatorTypeOK
<1>3. ASSUME Detach PROVE CoordinatorIInv'
  BY <1>0, <1>1, <1>2, <1>3, LetGoKeeps DEF Detach, processVars
<1>4. ASSUME Shutdown PROVE CoordinatorIInv'
  <2>1. CASE attached
    BY <1>0, <1>1, <1>4, <2>1, LetGoKeeps DEF Shutdown
  <2>2. CASE ~attached
    BY <1>0, <1>4, <2>2, ShutdownKeeps DEF Shutdown
  <2> QED  BY <2>1, <2>2
<1>5. ASSUME AcceptInput PROVE CoordinatorIInv'
  <2>1. Took
    BY <1>5 DEF AcceptInput, Unchanged, Took
  <2> QED  BY <1>0, <1>5, <2>1, AcceptTaskKeeps, AcceptMoreKeeps, CancelKeeps DEF AcceptInput
<1>6. ASSUME NEW q \in Questions, Greet(q) PROVE CoordinatorIInv'
  BY <1>0, <1>6, AskKeeps, AskFirstKeeps DEF Greet, callVars
<1>7. ASSUME NEW q \in Questions, Reply(q) PROVE CoordinatorIInv'
  <2>1. opTask[current] \in TasksOf(owner)
    BY <1>7 DEF Reply, CoordinatorIInv, CoordinatorTypeOK, TypeOK, CallSound, TasksOf
  <2> QED  BY <1>0, <1>7, <2>1, AskKeeps DEF Reply
<1>8. ASSUME Ready PROVE CoordinatorIInv'
  BY <1>0, <1>8, ReadyClaimsKeeps, ReadyMissesKeeps DEF Ready
<1>9. ASSUME TurnReturns PROVE CoordinatorIInv'
  BY <1>0, <1>9, ReturnsKeeps DEF TurnReturns
<1>10. ASSUME Run PROVE CoordinatorIInv'
  BY <1>0, <1>8, <1>9, <1>10, WakesKeeps, StopsKeeps, FailsKeeps, CancelledKeeps DEF Run
<1>11. ASSUME NEW u \in Utterances, Reconcile(u) PROVE CoordinatorIInv'
  BY <1>0, <1>11, ReceiptKeeps, ReconcileKeeps DEF Reconcile
<1> QED
  BY <1>0, <1>3, <1>4, <1>5, <1>6, <1>7, <1>10, <1>11, AttachKeeps, BeginInputKeeps, DropInputKeeps,
     CleanupKeeps, CrashKeeps, StartKeeps, StutterKeeps DEF Next

\* task_coordinator.py keeps worker, context and journal in step through every
\* detach, crash, restart and reconciliation, for calls and tasks of any number.
THEOREM CoordinatorInvariance == Spec => []CoordinatorIInv
<1>1. Init => CoordinatorIInv
  BY CoordinatorInit
<1>2. CoordinatorIInv /\ [Next]_vars => CoordinatorIInv'
  BY StepKeeps
<1> QED  BY <1>1, <1>2, PTL DEF Spec

\* The coordinator uses the journal only by its transactions: what holds of the
\* journal, under any callers, holds here.
THEOREM UsesJournal == Spec => JournalSpec
<1>1. Init => JournalInit
  BY DEF Init
<1>2. CoordinatorIInv /\ [Next]_vars => [JournalNext]_journalVars
  BY JournalStep
<1> QED  BY <1>1, <1>2, CoordinatorInvariance, PTL DEF Spec, JournalSpec

\* A claim is made once: every attached call implements the ledger.
THEOREM CoordinatorLedger == Spec => ImplementsLedger
BY UsesJournal, LedgerRefinement, PTL

-----------------------------------------------------------------------------
(* What follows *)

\* _run submits no utterance twice and keeps a call to one task.
THEOREM SubmitsOnce == Spec => []TurnsOnce
<1>1. CoordinatorIInv => TurnsOnce
  <2> SUFFICES ASSUME TurnSound, NEW u \in Utterances
               PROVE  /\ turns[u] <= 1
                      /\ \A v \in Utterances :
                            /\ turns[u] > 0 /\ turns[v] > 0
                            /\ taskScope[opTask[u]] = taskScope[opTask[v]]
                            => opTask[u] = opTask[v]
    BY DEF CoordinatorIInv, TurnsOnce
  <2>1. \A v \in Utterances : turns[v] \in {0, 1} /\ (turns[v] = 1 <=> submitted[v])
    BY DEF TurnSound
  <2> QED  BY <2>1 DEF TurnSound
<1> QED  BY <1>1, CoordinatorInvariance, PTL

\* Every submitted operation has the turn that waits for its outcome.
THEOREM ClaimsObserved == Spec => []ClaimObserved
<1>1. CoordinatorIInv => ClaimObserved
  BY DEF CoordinatorIInv
<1> QED  BY <1>1, CoordinatorInvariance, PTL

\* _wake is never lost.
THEOREM WakesUp == Spec => []NoLostWakeup
<1>1. CoordinatorIInv => NoLostWakeup
  BY DEF CoordinatorIInv
<1> QED  BY <1>1, CoordinatorInvariance, PTL

\* The queue of _run has no head that dispatch refuses for ever.
THEOREM HeadsAreSound == Spec => []NoPoisonedHead
<1>1. CoordinatorIInv => NoPoisonedHead
  BY DEF CoordinatorIInv, FollowUpsHeld, NoPoisonedHead, HasUnresolved, OperationsOf, Unresolved
<1> QED  BY <1>1, CoordinatorInvariance, PTL

\* A reply that passes the checks of on_reply is accepted by note_question.
THEOREM RepliesAccepted == Spec => []CallbackAccepted
<1>1. CoordinatorIInv => CallbackAccepted
  <2> SUFFICES ASSUME CoordinatorIInv, worker = "turn", attached,
                      version[opTask[current]] = opVersion[current]
               PROVE  Attached(taskScope[opTask[current]]) /\ state[opTask[current]] \notin Closed
    BY DEF CallbackAccepted
  <2> USE NoneAssumption DEF CoordinatorIInv, JournalIInv, CoordinatorTypeOK, CallSound, TypeOK
  <2>1. /\ current \in Utterances /\ dispatchState[current] = "submitted"
        /\ opTask[current] \in Tasks /\ taskScope[opTask[current]] = owner /\ owner \in Scopes
    BY DEF ClaimObserved
  <2>2. attachment[owner] = "attached"
    BY <2>1 DEF TaskSound
  <2>3. state[opTask[current]] \in {"running", "cancel_requested"}
    BY <2>1 DEF ClaimShows
  <2>4. state[opTask[current]] # "cancel_requested"
    BY <2>1 DEF VersionFence
  <2> QED  BY <2>1, <2>2, <2>3, <2>4 DEF Attached, Closed, Final
<1> QED  BY <1>1, CoordinatorInvariance, PTL

\* What accept_decision records as the question an utterance answers.
Answers(u, seen) ==
    \/ answered'[u] = None /\ \A q \in seen : q.task # opTask'[u]
    \/ \E q \in seen : q.task = opTask'[u] /\ q.text = answered'[u]

\* The row of accept concerns no other operation.
LEMMA RowAnswers ==
    ASSUME JournalIInv, NEW u \in Utterances, NEW t \in Tasks, NEW v, NEW question, NEW seen,
           InsertOperation(u, t, v, question),
           \/ question = None /\ \A q \in seen : q.task # t
           \/ \E q \in seen : q.task = t /\ q.text = question
    PROVE  \A x \in Utterances : opTask[x] = None /\ opTask'[x] # None => Answers(x, seen)
<1>1. opTask' = [opTask EXCEPT ![u] = t] /\ answered' = [answered EXCEPT ![u] = question]
  BY DEF InsertOperation
<1>2. opTask \in [Utterances -> Tasks \cup {None}] /\ answered \in [Utterances -> Questions \cup {None}]
  BY DEF JournalIInv, TypeOK
<1>3. \A x \in Utterances : opTask[x] = None /\ opTask'[x] # None => x = u
  BY <1>1, <1>2
<1>4. opTask'[u] = t /\ answered'[u] = question
  BY <1>1, <1>2
<1> QED  BY <1>3, <1>4 DEF Answers

\* The checkpoint that accept_decision compares holds the question of the scope.
LEMMA AcceptAnswers ==
    ASSUME CoordinatorIInv, AcceptInput, NEW u \in Utterances, opTask[u] = None, opTask'[u] # None
    PROVE  Answers(u, input.seen.questions)
<1> USE DEF CoordinatorIInv
<1>1. /\ input.seen.questions = {q \in questions : q.scope = owner}
      /\ input.utterance \in Utterances /\ owner \in Scopes
  BY DEF AcceptInput, Unchanged, Checkpoint, CoordinatorTypeOK, CallSound
<1> DEFINE seen == input.seen.questions
<1>2. ASSUME NEW t \in Tasks, AcceptNewTask(input.utterance, owner, t) PROVE Answers(u, seen)
  <2>1. \A q \in seen : q.task # t
    BY <1>1, <1>2, NoneAssumption DEF AcceptNewTask, InsertTask, JournalIInv, QuestionCurrent
  <2>2. InsertOperation(input.utterance, t, version[t] + 1, None)
    BY <1>2 DEF AcceptNewTask
  <2> HIDE DEF seen
  <2> QED  BY <1>1, <2>1, <2>2, RowAnswers
<1>3. ASSUME NEW t \in TasksOf(owner), Accept(input.utterance, t) PROVE Answers(u, seen)
  <2>1. t \in Tasks /\ taskScope[t] = owner
    BY DEF TasksOf
  <2>2. PICK question \in Questions \cup {None} :
           Asked(t, question) /\ InsertOperation(input.utterance, t, version[t] + 1, question)
    BY <1>3 DEF Accept
  <2>3. \A q \in questions : q.task = t => q \in seen /\ q.version = version[t]
    BY <1>1, <2>1 DEF JournalIInv, QuestionCurrent
  <2>4. seen \subseteq questions
    BY <1>1
  <2> HIDE DEF seen
  <2>5. \/ question = None /\ \A q \in seen : q.task # t
        \/ \E q \in seen : q.task = t /\ q.text = question
    BY <2>2, <2>3, <2>4 DEF Asked
  <2> QED  BY <1>1, <2>1, <2>2, <2>5, RowAnswers
<1>4. ASSUME NEW t \in TasksOf(owner), CancelPending(input.utterance, t) PROVE FALSE
  BY <1>4 DEF CancelPending, opVars
<1> QED  BY <1>2, <1>3, <1>4 DEF AcceptInput

\* accept_decision answers the question that was on offer when it asked the router.
THEOREM AnswersTheQuestion == Spec => AnswersWhatWasAsked
<1> DEFINE Answered ==
      \A u \in Utterances : opTask[u] = None /\ opTask'[u] # None =>
          \/ answered'[u] = None /\ \A q \in input.seen.questions : q.task # opTask'[u]
          \/ \E q \in input.seen.questions : q.task = opTask'[u] /\ q.text = answered'[u]
<1>1. ASSUME CoordinatorIInv, AcceptInput PROVE Answered
  BY <1>1, AcceptAnswers DEF Answers
<1>2. ASSUME CoordinatorIInv, [Next]_vars, ~AcceptInput PROVE Answered
  <2>1. UNCHANGED opTask
    BY <1>2 DEF Next, Attach, Detach, Shutdown, LetGo, DetachScope, BeginInput, Reconcile,
         RecordReceipt, ReconcileUnknown, DropInput, Greet, NoteQuestion, CreateAskedTask, Reply,
         Run, WorkerWakes, Ready, Dispatch, ReadyFails, Leave, TurnReturns, Settle, TurnFails,
         MarkUnknown, LoseTrack, WorkerCancelled, Cleanup, Crash, Start, Recover, vars,
         journalVars, opVars
  <2> QED  BY <2>1
<1>3. CoordinatorIInv /\ [Next]_vars => [Answered]_vars
  BY <1>1, <1>2
<1> QED  BY <1>3, CoordinatorInvariance, PTL DEF Spec, AnswersWhatWasAsked

\* Neither a task nor an operation ever moves.
LEMMA RowsStay ==
    ASSUME JournalIInv, [JournalNext]_journalVars
    PROVE  /\ \A u \in Utterances : opTask[u] # None => opTask'[u] = opTask[u]
           /\ \A t \in Tasks : taskScope[t] # None => taskScope'[t] = taskScope[t]
<1> DEFINE Stay == /\ \A u \in Utterances : opTask[u] # None => opTask'[u] = opTask[u]
                   /\ \A t \in Tasks : taskScope[t] # None => taskScope'[t] = taskScope[t]
<1>0. opTask \in [Utterances -> Tasks \cup {None}] /\ taskScope \in [Tasks -> Scopes \cup {None}]
  BY DEF JournalIInv, TypeOK
<1> DEFINE Same == opTask' = opTask /\ taskScope' = taskScope
<1>1. ASSUME NEW s \in Scopes, NEW t \in Tasks, CreateTask(s, t) PROVE Stay
  BY <1>0, <1>1 DEF CreateTask, InsertTask, opVars
<1>2. ASSUME NEW s \in Scopes, NEW t \in Tasks, NEW q \in Questions, CreateAskedTask(s, t, q)
      PROVE Stay
  BY <1>0, <1>2 DEF CreateAskedTask, InsertTask, opVars
<1>3. ASSUME NEW s \in Scopes, NEW t \in Tasks, NEW u \in Utterances, AcceptNewTask(u, s, t)
      PROVE Stay
  BY <1>0, <1>3 DEF AcceptNewTask, InsertTask, InsertOperation, Unused
<1>4. ASSUME NEW t \in Tasks, NEW u \in Utterances, Accept(u, t) PROVE Stay
  BY <1>0, <1>4 DEF Accept, InsertOperation, Unused, taskVars
<1>5. ASSUME NEW t \in Tasks, NEW u \in Utterances, CancelPending(u, t) PROVE Same
  BY <1>5 DEF CancelPending, opVars
<1>6. ASSUME NEW t \in Tasks, NEW q \in Questions, NoteQuestion(t, q) PROVE Same
  BY <1>6 DEF NoteQuestion, opVars
<1>7. ASSUME NEW u \in Utterances, Dispatch(u) \/ RecordReceipt(u) PROVE Same
  BY <1>7 DEF Dispatch, RecordReceipt, taskVars, opVars
<1>8. ASSUME NEW s \in Scopes, DetachScope(s) PROVE Same
  BY <1>8 DEF DetachScope, taskVars, opVars
<1>9. ASSUME NEW W \in SUBSET Utterances, LoseTrack(W) PROVE Same
  BY <1>9 DEF LoseTrack, opVars
<1>10. ASSUME NEW u \in Utterances, NEW result, ReconcileUnknown(u, result) PROVE Same
  BY <1>10 DEF ReconcileUnknown, opVars
<1>11. ASSUME NEW u \in Utterances, NEW result, NEW reply, Settle(u, result, reply) PROVE Same
  BY <1>11 DEF Settle, opVars
<1>12. ASSUME UNCHANGED journalVars PROVE Same
  BY <1>12 DEF journalVars, taskVars, opVars
<1>13. ASSUME Same PROVE Stay
  BY <1>13
<1> HIDE DEF Stay, Same
<1>14. Stay
  BY <1>1, <1>2, <1>3, <1>4, <1>5, <1>6, <1>7, <1>8, <1>9, <1>10, <1>11, <1>12, <1>13, StepCases
<1> QED  BY <1>14 DEF Stay

\* An operation of another call is never submitted: no worker serves it again.
LEMMA LeftBehind ==
    ASSUME CoordinatorIInv, [Next]_vars, NEW u \in Utterances,
           opTask[u] # None, owner # taskScope[opTask[u]], dispatchState[u] # "submitted"
    PROVE  (opTask[u] # None /\ owner # taskScope[opTask[u]] /\ dispatchState[u] # "submitted")'
<1> USE NoneAssumption DEF CoordinatorIInv
<1>1. opTask[u] \in Tasks /\ taskScope[opTask[u]] \in Scopes
  BY DEF JournalIInv, TypeOK, OperationSound
<1>2. opTask'[u] = opTask[u] /\ taskScope'[opTask[u]] = taskScope[opTask[u]]
  BY <1>1, RowsStay, JournalStep
<1>3. owner' # taskScope[opTask[u]]
  <2>1. owner' = owner \/ owner' = None \/ \E s \in Scopes : Attach(s)
    BY DEF Next, Detach, Shutdown, LetGo, BeginInput, Reconcile, AcceptInput, DropInput, Greet,
           Reply, Run, WorkerWakes, Ready, ReadyFails, Leave, TurnReturns, TurnFails,
           WorkerCancelled, Cleanup, Crash, Start, Released, vars, callVars
  <2>2. ASSUME NEW s \in Scopes, Attach(s) PROVE owner' # taskScope[opTask[u]]
    BY <1>1, <2>2 DEF Attach, TasksOf
  <2> QED  BY <1>1, <2>1, <2>2
<1>4. dispatchState'[u] # "submitted"
  <2>1. CASE Ready
    <3>1. current # u
      BY <2>1 DEF CallSound
    <3> QED  BY <2>1, <3>1 DEF Ready, Dispatch, JournalIInv, TypeOK, journalVars
  <2> USE DEF JournalIInv, TypeOK
  <2>2. CASE AcceptInput
    BY <1>1, <2>2, NoneAssumption
       DEF AcceptInput, Accept, AcceptNewTask, InsertOperation, CancelPending, Sideline
  <2>3. CASE LetGo
    BY <2>3 DEF LetGo, DetachScope, Sideline
  <2>4. CASE Start
    BY <2>4 DEF Start, Recover, LoseTrack
  <2>5. ASSUME NEW x \in Utterances, Reconcile(x) PROVE dispatchState'[u] # "submitted"
    <3>1. CASE RecordReceipt(x)
      BY <3>1 DEF RecordReceipt
    <3>2. ASSUME NEW result, ReconcileUnknown(x, result) PROVE dispatchState'[u] # "submitted"
      BY <3>2 DEF ReconcileUnknown, Sideline
    <3> QED  BY <2>5, <3>1, <3>2 DEF Reconcile
  <2>6. CASE TurnReturns \/ TurnFails \/ WorkerCancelled
    BY <2>6 DEF TurnReturns, Settle, TurnFails, MarkUnknown, LoseTrack, WorkerCancelled,
         journalVars
  <2>7. CASE UNCHANGED dispatchState
    BY <2>7
  <2>8. \/ Ready \/ AcceptInput \/ LetGo \/ Start \/ (\E x \in Utterances : Reconcile(x))
        \/ TurnReturns \/ TurnFails \/ WorkerCancelled \/ UNCHANGED dispatchState
    BY DEF Next, Attach, Detach, Shutdown, BeginInput, DropInput, Greet, NoteQuestion,
           CreateAskedTask, Reply, Run, WorkerWakes, ReadyFails, Leave, Cleanup, Crash, vars,
           journalVars
  <2> QED  BY <2>1, <2>2, <2>3, <2>4, <2>5, <2>6, <2>7, <2>8
<1> QED  BY <1>2, <1>3, <1>4

\* What a detach or a crash leaves behind is never submitted.
THEOREM AbandonedUnsent == Spec => AbandonedStaysUnsent
<1> SUFFICES ASSUME NEW u \in Utterances
             PROVE  Spec => [](dispatchState[u] = "unsubmitted" /\ owner # taskScope[opTask[u]]
                                 => [](dispatchState[u] # "submitted"))
  BY DEF AbandonedStaysUnsent
<1> DEFINE Left == opTask[u] # None /\ owner # taskScope[opTask[u]] /\ dispatchState[u] # "submitted"
<1>1. CoordinatorIInv /\ [Next]_vars /\ Left => Left'
  BY LeftBehind
<1>2. CoordinatorIInv /\ dispatchState[u] = "unsubmitted" /\ owner # taskScope[opTask[u]] => Left
  BY NoneAssumption DEF CoordinatorIInv, JournalIInv, OperationSound
<1>3. Left => dispatchState[u] # "submitted"
  OBVIOUS
<1> QED  BY <1>1, <1>2, <1>3, CoordinatorInvariance, PTL DEF Spec
=============================================================================
