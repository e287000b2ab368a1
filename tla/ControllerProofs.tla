-------------------------- MODULE ControllerProofs --------------------------
(***************************************************************************)
(* Proofs about Controller: the controller stops no service but its own,   *)
(* publishes no end before its engine is gone, and says stopped only after *)
(* an order to stop and a proved end, for any number of runs and services. *)
(*                                                                         *)
(* The invariant has five parts besides the types, each with a lemma that  *)
(* a step preserves it: what the controller holds (SeatSound), whom it may *)
(* have told to stop (StopsSound), why it stops (AskedSound), what the     *)
(* lock and the file of the backend say (LockSound), and, where no service *)
(* writes its end over its successor's file, that the file names the       *)
(* recognised service to its proved end (FileSound).                       *)
(***************************************************************************)
EXTENDS Controller, TLAPS

-----------------------------------------------------------------------------
(* The parts of the invariant, step by step. *)

\* The variables keep their types: whatever run() and the services do, current.json
\* and current-service.json name runs and services that exist.
LEMMA TypeOKStep ==
    ASSUME TypeOK, SeatSound, Next
    PROVE  TypeOK'
<1>1. ASSUME NEW r \in Runs, Open(r) PROVE TypeOK'
  BY <1>1, RunsAssumption DEF Open, taskVars, engineVars, backendVars, operatorVars, TypeOK,
         SeatSound, File, ServiceFile, Phases, Living, Ended, Published, Trying, Looping, Ending,
         Services
<1>2. CASE Announce
  BY <1>2, RunsAssumption DEF Announce, Publishes, taskVars, engineVars, ownVars, backendVars,
         operatorVars, TypeOK, SeatSound, File, ServiceFile, Phases, Living, Ended, Published,
         Trying, Looping, Ending, Services
<1>3. CASE Preflight
  BY <1>3, RunsAssumption DEF Preflight, taskVars, ownVars, backendVars, operatorVars, Halogen,
         TypeOK, SeatSound, File, ServiceFile, Phases, Living, Ended, Published, Trying, Looping,
         Ending, Services
<1>4. CASE Spawn
  BY <1>4, RunsAssumption DEF Spawn, Become, ownVars, backendVars, operatorVars, TypeOK,
         SeatSound, File, ServiceFile, Phases, Living, Ended, Published, Trying, Looping, Ending,
         Services
<1>5. CASE StartFails
  <2>1. run \in Runs /\ run \in Services /\ Quit(TRUE)
    BY <1>5 DEF StartFails, TypeOK, SeatSound, Services, Looping
  <2>2. [run |-> run, phase |-> "stopping"] \in File
    BY <2>1 DEF File, Phases
  <2>3. current' \in File
    BY <2>1, <2>2 DEF Quit, MayPublish, TypeOK
  <2>4. failed' \in BOOLEAN /\ stop' \in BOOLEAN /\ pc' \in Ending /\ phase' \in Phases
    BY <2>1 DEF Quit, Ending, Phases
  <2>5. UNCHANGED <<guard, server, lost, engineVars, ownVars, backendVars, told, child,
                 operatorVars>>
    BY <2>1 DEF Quit
  <2>6. QED
    BY <2>3, <2>4, <2>5 DEF engineVars, ownVars, backendVars, operatorVars, TypeOK
<1>6. CASE StartTurn
  BY <1>6, RunsAssumption DEF StartTurn, MayPublish, taskVars, engineVars, ownVars, backendVars,
         operatorVars, TypeOK, SeatSound, File, ServiceFile, Phases, Living, Ended, Published,
         Trying, Looping, Ending, Services
<1>7. CASE StartCancelled
  <2>1. run \in Runs /\ run \in Services /\ Quit(FALSE)
    BY <1>7 DEF StartCancelled, TypeOK, SeatSound, Services, Looping
  <2>2. [run |-> run, phase |-> "stopping"] \in File
    BY <2>1 DEF File, Phases
  <2>3. current' \in File
    BY <2>1, <2>2 DEF Quit, MayPublish, TypeOK
  <2>4. failed' \in BOOLEAN /\ stop' \in BOOLEAN /\ pc' \in Ending /\ phase' \in Phases
    BY <2>1 DEF Quit, Ending, Phases
  <2>5. UNCHANGED <<guard, server, lost, engineVars, ownVars, backendVars, told, child,
                 operatorVars>>
    BY <2>1 DEF Quit
  <2>6. QED
    BY <2>3, <2>4, <2>5 DEF engineVars, ownVars, backendVars, operatorVars, TypeOK
<1>8. CASE StartError
  <2>1. run \in Runs /\ run \in Services /\ Quit(TRUE)
    BY <1>8 DEF StartError, TypeOK, SeatSound, Services, Looping
  <2>2. [run |-> run, phase |-> "stopping"] \in File
    BY <2>1 DEF File, Phases
  <2>3. current' \in File
    BY <2>1, <2>2 DEF Quit, MayPublish, TypeOK
  <2>4. failed' \in BOOLEAN /\ stop' \in BOOLEAN /\ pc' \in Ending /\ phase' \in Phases
    BY <2>1 DEF Quit, Ending, Phases
  <2>5. UNCHANGED <<guard, server, lost, engineVars, ownVars, backendVars, told, child,
                 operatorVars>>
    BY <2>1 DEF Quit
  <2>6. QED
    BY <2>3, <2>4, <2>5 DEF engineVars, ownVars, backendVars, operatorVars, TypeOK
<1>9. CASE Look
  BY <1>9, RunsAssumption DEF Look, taskVars, ownVars, backendVars, operatorVars, Views, MayHold,
         Shown, Exited, Alive, Halogen, TypeOK, SeatSound, File, ServiceFile, Phases, Living,
         Ended, Published, Trying, Looping, Ending, Services
<1>10. CASE ProbeAgain
  BY <1>10, RunsAssumption DEF ProbeAgain, taskVars, engineVars, ownVars, backendVars,
         operatorVars, TypeOK, SeatSound, File, ServiceFile, Phases, Living, Ended, Published,
         Trying, Looping, Ending, Services
<1>11. CASE BecomeReady
  BY <1>11, RunsAssumption DEF BecomeReady, engineVars, ownVars, backendVars, operatorVars,
         TypeOK, SeatSound, File, ServiceFile, Phases, Living, Ended, Published, Trying, Looping,
         Ending, Services
<1>12. CASE ServeTurn
  BY <1>12, RunsAssumption DEF ServeTurn, MayPublish, taskVars, engineVars, ownVars, backendVars,
         operatorVars, TypeOK, SeatSound, File, ServiceFile, Phases, Living, Ended, Published,
         Trying, Looping, Ending, Services
<1>13. CASE ServeCancelled
  <2>1. run \in Runs /\ run \in Services /\ Quit(FALSE)
    BY <1>13 DEF ServeCancelled, TypeOK, SeatSound, Services, Looping
  <2>2. [run |-> run, phase |-> "stopping"] \in File
    BY <2>1 DEF File, Phases
  <2>3. current' \in File
    BY <2>1, <2>2 DEF Quit, MayPublish, TypeOK
  <2>4. failed' \in BOOLEAN /\ stop' \in BOOLEAN /\ pc' \in Ending /\ phase' \in Phases
    BY <2>1 DEF Quit, Ending, Phases
  <2>5. UNCHANGED <<guard, server, lost, engineVars, ownVars, backendVars, told, child,
                 operatorVars>>
    BY <2>1 DEF Quit
  <2>6. QED
    BY <2>3, <2>4, <2>5 DEF engineVars, ownVars, backendVars, operatorVars, TypeOK
<1>14. CASE ServeError
  <2>1. run \in Runs /\ run \in Services /\ Quit(TRUE)
    BY <1>14 DEF ServeError, TypeOK, SeatSound, Services, Looping
  <2>2. [run |-> run, phase |-> "stopping"] \in File
    BY <2>1 DEF File, Phases
  <2>3. current' \in File
    BY <2>1, <2>2 DEF Quit, MayPublish, TypeOK
  <2>4. failed' \in BOOLEAN /\ stop' \in BOOLEAN /\ pc' \in Ending /\ phase' \in Phases
    BY <2>1 DEF Quit, Ending, Phases
  <2>5. UNCHANGED <<guard, server, lost, engineVars, ownVars, backendVars, told, child,
                 operatorVars>>
    BY <2>1 DEF Quit
  <2>6. QED
    BY <2>3, <2>4, <2>5 DEF engineVars, ownVars, backendVars, operatorVars, TypeOK
<1>15. CASE StopHalogen
  BY <1>15, RunsAssumption DEF StopHalogen, Quiet, Faulted, taskVars, ownVars, backendVars,
         operatorVars, Views, MayHold, Shown, Exited, Alive, Halogen, TypeOK, SeatSound, File,
         ServiceFile, Phases, Living, Ended, Published, Trying, Looping, Ending, Services
<1>16. CASE StopNative
  <2>1. run \in Runs /\ run \in Services
    BY <1>16 DEF StopNative, Quiet, TypeOK, SeatSound, Services
  <2>2. child' \in [Services -> {"none", "dying"} \cup Living \cup Ended]
    BY <1>16, <2>1 DEF StopNative, Quiet, Faulted, Close, CloseUnconfirmed, Kill, Become, Exited,
           ownVars, backendVars, operatorVars, Halogen, TypeOK, Living, Ended
  <2>3. job' \in {"none", "open", "closed"}
    BY <1>16 DEF StopNative, Close, CloseUnconfirmed, Kill, TypeOK
  <2>4. adopted' \in Services \cup {None}
    BY <1>16 DEF StopNative, TypeOK, ServiceFile
  <2>5. pc' \in {"none"} \cup Trying \cup Ending /\ failed' \in BOOLEAN /\ stop' \in BOOLEAN
    BY <1>16 DEF StopNative, Quiet, Faulted, TypeOK, Ending, taskVars
  <2>6. guard' \in {"none", "watching", "ok", "failed"} /\ server' = server /\ previous' = previous
    BY <1>16 DEF StopNative, TypeOK, taskVars
  <2>7. UNCHANGED <<phase, lost, ownVars, current, backendVars, told, operatorVars>>
    BY <1>16 DEF StopNative
  <2>8. QED
    BY <2>2, <2>3, <2>4, <2>5, <2>6, <2>7 DEF ownVars, backendVars, operatorVars, TypeOK
<1>17. CASE StopNothing
  BY <1>17, RunsAssumption DEF StopNothing, Quiet, Faulted, taskVars, engineVars, ownVars,
         backendVars, operatorVars, TypeOK, SeatSound, File, ServiceFile, Phases, Living, Ended,
         Published, Trying, Looping, Ending, Services
<1>18. CASE Waited
  <2>1. run \in Runs /\ run \in Services
    BY <1>18 DEF Waited, TypeOK, SeatSound, Services
  <2>2. child' \in [Services -> {"none", "dying"} \cup Living \cup Ended]
    BY <1>18, <2>1 DEF Waited, Exited, Alive, Close, Kill, ownVars, backendVars, operatorVars,
           TypeOK, Living, Ended
  <2>3. job' \in {"none", "open", "closed"}
    BY <1>18 DEF Waited, Close, Kill, TypeOK
  <2>4. adopted' \in Services \cup {None}
    BY <1>18 DEF Waited, Views, TypeOK, ServiceFile
  <2>5. pc' \in {"none"} \cup Trying \cup Ending /\ failed' \in BOOLEAN /\ stop' \in BOOLEAN
    BY <1>18 DEF Waited, TypeOK, Ending, taskVars
  <2>6. guard' \in {"none", "watching", "ok", "failed"} /\ server' = server /\ previous' = previous
    BY <1>18 DEF Waited, TypeOK, taskVars
  <2>7. UNCHANGED <<phase, lost, ownVars, current, backendVars, told, operatorVars>>
    BY <1>18 DEF Waited
  <2>8. QED
    BY <2>2, <2>3, <2>4, <2>5, <2>6, <2>7 DEF ownVars, backendVars, operatorVars, TypeOK
<1>19. CASE StopFails
  BY <1>19, RunsAssumption DEF StopFails, Quiet, taskVars, engineVars, ownVars, backendVars,
         operatorVars, TypeOK, SeatSound, File, ServiceFile, Phases, Living, Ended, Published,
         Trying, Looping, Ending, Services
<1>20. CASE CloseJob
  <2>1. run \in Runs /\ run \in Services
    BY <1>20 DEF CloseJob, TypeOK, SeatSound, Services
  <2>2. child' \in [Services -> {"none", "dying"} \cup Living \cup Ended]
    BY <1>20, <2>1 DEF CloseJob, Close, Kill, Become, Exited, ownVars, backendVars, operatorVars,
           TypeOK, Living, Ended
  <2>3. job' \in {"none", "open", "closed"}
    BY <1>20 DEF CloseJob, Close, Kill, Leave, TypeOK
  <2>4. adopted' \in Services \cup {None}
    BY <1>20 DEF CloseJob, Leave, TypeOK, ServiceFile
  <2>5. QED
    BY <1>20, <2>2, <2>3, <2>4 DEF CloseJob, Close, Leave, taskVars, ownVars, backendVars,
           operatorVars, TypeOK, Trying, Looping, Ending, Phases
<1>21. CASE Settle
  <2>1. run \in Runs /\ run \in Services
    BY <1>21 DEF Settle, TypeOK, SeatSound, Services
  <2>2. \A p \in Published : [run |-> run, phase |-> p] \in File
    BY <2>1 DEF File, Phases
  <2>3. current' \in File
    BY <1>21, <2>2 DEF Settle, MayPublish, Published, TypeOK
  <2>4. QED
    BY <1>21, <2>3 DEF Settle, Leave, backendVars, operatorVars, TypeOK, Phases
<1>22. CASE GuardEnds("ok")
  BY <1>22, RunsAssumption DEF GuardEnds, engineVars, ownVars, backendVars, operatorVars, TypeOK,
         SeatSound, File, ServiceFile, Phases, Living, Ended, Published, Trying, Looping, Ending,
         Services
<1>23. CASE \E how \in {"closed", "failed"} : ServerEnds(how)
  BY <1>23, RunsAssumption DEF ServerEnds, engineVars, ownVars, backendVars, operatorVars, TypeOK,
         SeatSound, File, ServiceFile, Phases, Living, Ended, Published, Trying, Looping, Ending,
         Services
<1>24. CASE DeviceLost
  BY <1>24, RunsAssumption DEF DeviceLost, taskVars, engineVars, ownVars, backendVars,
         operatorVars, TypeOK, SeatSound, File, ServiceFile, Phases, Living, Ended, Published,
         Trying, Looping, Ending, Services
<1>25. CASE GuardTrips
  <2>1. run \in Runs /\ run \in Services
    BY <1>25 DEF GuardTrips, TypeOK, SeatSound, Services
  <2>2. child' \in [Services -> {"none", "dying"} \cup Living \cup Ended]
    BY <1>25, <2>1 DEF GuardTrips, Close, CloseUnconfirmed, Kill, Become, Exited, ownVars,
           backendVars, operatorVars, Halogen, TypeOK, Living, Ended
  <2>3. job' \in {"none", "open", "closed"}
    BY <1>25 DEF GuardTrips, Close, CloseUnconfirmed, Kill, TypeOK
  <2>4. adopted' \in Services \cup {None}
    BY <1>25 DEF GuardTrips, TypeOK, ServiceFile
  <2>5. pc' \in {"none"} \cup Trying \cup Ending /\ failed' \in BOOLEAN /\ stop' \in BOOLEAN
    BY <1>25 DEF GuardTrips, TypeOK, Ending, taskVars
  <2>6. guard' \in {"none", "watching", "ok", "failed"} /\ server' = server /\ previous' = previous
    BY <1>25 DEF GuardTrips, TypeOK, taskVars
  <2>7. UNCHANGED <<phase, lost, ownVars, current, backendVars, told, operatorVars>>
    BY <1>25 DEF GuardTrips
  <2>8. QED
    BY <2>2, <2>3, <2>4, <2>5, <2>6, <2>7 DEF ownVars, backendVars, operatorVars, TypeOK
<1>26. CASE GuardEnds("failed")
  BY <1>26, RunsAssumption DEF GuardEnds, engineVars, ownVars, backendVars, operatorVars, TypeOK,
         SeatSound, File, ServiceFile, Phases, Living, Ended, Published, Trying, Looping, Ending,
         Services
<1>27. CASE Crash
  <2>1. run \in Runs /\ run \in Services
    BY <1>27 DEF Crash, TypeOK, SeatSound, Services
  <2>2. child' \in [Services -> {"none", "dying"} \cup Living \cup Ended]
    BY <1>27, <2>1 DEF Crash, Kill, Exited, backendVars, operatorVars, TypeOK, Living, Ended
  <2>3. job' \in {"none", "open", "closed"}
    BY <1>27 DEF Crash, Kill, Leave, TypeOK
  <2>4. adopted' \in Services \cup {None}
    BY <1>27 DEF Crash, Leave, TypeOK, ServiceFile
  <2>5. QED
    BY <1>27, <2>2, <2>3, <2>4 DEF Crash, Leave, backendVars, operatorVars, TypeOK, Trying,
           Looping, Ending, Phases
<1>28. CASE ReadCurrent
  BY <1>28, RunsAssumption DEF ReadCurrent, runVars, engineVars, ownVars, backendVars, TypeOK,
         SeatSound, File, ServiceFile, Phases, Living, Ended, Published, Trying, Looping, Ending,
         Services
<1>29. CASE WriteStop
  BY <1>29, RunsAssumption DEF WriteStop, runVars, engineVars, ownVars, backendVars, TypeOK,
         SeatSound, File, ServiceFile, Phases, Living, Ended, Published, Trying, Looping, Ending,
         Services
<1>30. CASE Interrupt
  BY <1>30, RunsAssumption DEF Interrupt, runVars, engineVars, ownVars, backendVars, TypeOK,
         SeatSound, File, ServiceFile, Phases, Living, Ended, Published, Trying, Looping, Ending,
         Services
<1>31. CASE Unlock
  BY <1>31, RunsAssumption DEF Unlock, Exited, runVars, engineVars, ownVars, operatorVars, TypeOK,
         SeatSound, File, ServiceFile, Phases, Living, Ended, Published, Trying, Looping, Ending,
         Services
<1>32. ASSUME NEW s \in Services, StartByHand(s) PROVE TypeOK'
  BY <1>32, RunsAssumption DEF StartByHand, Become, backendVars, serviceVars, runVars, engineVars,
         ownVars, operatorVars, TypeOK, SeatSound, File, ServiceFile, Phases, Living, Ended,
         Published, Trying, Looping, Ending, Services
<1>33. ASSUME NEW s \in Services, TakeLock(s) PROVE TypeOK'
  BY <1>33, RunsAssumption DEF TakeLock, Become, serviceVars, runVars, engineVars, ownVars,
         operatorVars, TypeOK, SeatSound, File, ServiceFile, Phases, Living, Ended, Published,
         Trying, Looping, Ending, Services
<1>34. ASSUME NEW s \in Services, ShowUp(s) PROVE TypeOK'
  BY <1>34, RunsAssumption DEF ShowUp, Become, Writes, serviceVars, runVars, engineVars, ownVars,
         operatorVars, TypeOK, SeatSound, File, ServiceFile, Phases, Living, Ended, Published,
         Trying, Looping, Ending, Services
<1>35. ASSUME NEW s \in Services, GetReady(s) PROVE TypeOK'
  BY <1>35, RunsAssumption DEF GetReady, Become, Writes, serviceVars, runVars, engineVars,
         ownVars, operatorVars, TypeOK, SeatSound, File, ServiceFile, Phases, Living, Ended,
         Published, Trying, Looping, Ending, Services
<1>36. ASSUME NEW s \in Services, EndService(s) PROVE TypeOK'
    <2>1. child' \in [Services -> {"none", "dying"} \cup Living \cup Ended]
      BY <1>36 DEF EndService, Become, TypeOK, Living
    <2>2. [run |-> s, phase |-> "stopping", proven |-> FALSE] \in ServiceFile
      BY DEF ServiceFile, Phases
    <2>3. service' \in ServiceFile
      BY <1>36, <2>2 DEF EndService, Writes, TypeOK
    <2>4. QED
      BY <1>36, <2>1, <2>3 DEF EndService, serviceVars, runVars, engineVars, ownVars,
             operatorVars, TypeOK
<1>37. ASSUME NEW s \in Services, ReleaseLock(s) PROVE TypeOK'
  BY <1>37, RunsAssumption DEF ReleaseLock, Become, serviceVars, runVars, engineVars, ownVars,
         operatorVars, TypeOK, SeatSound, File, ServiceFile, Phases, Living, Ended, Published,
         Trying, Looping, Ending, Services
<1>38. ASSUME NEW s \in Services, WriteOutcome(s) PROVE TypeOK'
  BY <1>38, RunsAssumption DEF WriteOutcome, Become, Writes, serviceVars, runVars, engineVars,
         ownVars, operatorVars, TypeOK, SeatSound, File, ServiceFile, Phases, Living, Ended,
         Published, Trying, Looping, Ending, Services
<1>39. ASSUME NEW s \in Services, ProcessEnds(s) PROVE TypeOK'
  BY <1>39, RunsAssumption DEF ProcessEnds, Become, backendVars, Alive, serviceVars, runVars,
         engineVars, ownVars, operatorVars, TypeOK, SeatSound, File, ServiceFile, Phases, Living,
         Ended, Published, Trying, Looping, Ending, Services
<1>40. QED
  BY <1>1, <1>2, <1>3, <1>4, <1>5, <1>6, <1>7, <1>8, <1>9, <1>10, <1>11, <1>12, <1>13, <1>14,
         <1>15, <1>16, <1>17, <1>18, <1>19, <1>20, <1>21, <1>22, <1>23, <1>24, <1>25, <1>26,
         <1>27, <1>28, <1>29, <1>30, <1>31, <1>32, <1>33, <1>34, <1>35, <1>36, <1>37, <1>38, <1>39
         DEF Next, MainStep, TasksEnd, Faults, Operator, ServiceStep

\* run() has a job exactly from JobChild to its end, a run that is over has
\* nothing left in its job but what close could not see die, and current.json
\* shows an end only of a run that left nothing alive.
LEMMA SeatSoundStep ==
    ASSUME TypeOK, SeatSound, Next
    PROVE  SeatSound'
<1>1. ASSUME NEW r \in Runs, Open(r) PROVE SeatSound'
  BY <1>1, RunsAssumption DEF Open, taskVars, engineVars, TypeOK, SeatSound, File, Ended,
         Published, Looping, Trying, Ending, Services, Living
<1>2. CASE Announce
  BY <1>2, RunsAssumption DEF Announce, Publishes, taskVars, engineVars, ownVars, TypeOK,
         SeatSound, File, Ended, Published, Looping, Trying, Ending, Services, Living
<1>3. CASE Preflight
  BY <1>3, RunsAssumption DEF Preflight, taskVars, ownVars, Halogen, TypeOK, SeatSound, File,
         Ended, Published, Looping, Trying, Ending, Services, Living
<1>4. CASE Spawn
  BY <1>4, RunsAssumption DEF Spawn, Become, ownVars, TypeOK, SeatSound, File, Ended, Published,
         Looping, Trying, Ending, Services, Living
<1>5. CASE StartFails
  BY <1>5, RunsAssumption DEF StartFails, Quit, MayPublish, engineVars, ownVars, TypeOK,
         SeatSound, File, Ended, Published, Looping, Trying, Ending, Services, Living
<1>6. CASE StartTurn
  BY <1>6, RunsAssumption DEF StartTurn, MayPublish, taskVars, engineVars, ownVars, TypeOK,
         SeatSound, File, Ended, Published, Looping, Trying, Ending, Services, Living
<1>7. CASE StartCancelled
  BY <1>7, RunsAssumption DEF StartCancelled, Quit, MayPublish, Cancelled, engineVars, ownVars,
         TypeOK, SeatSound, File, Ended, Published, Looping, Trying, Ending, Services, Living
<1>8. CASE StartError
  BY <1>8, RunsAssumption DEF StartError, Quit, MayPublish, Cancelled, engineVars, ownVars,
         TypeOK, SeatSound, File, Ended, Published, Looping, Trying, Ending, Services, Living
<1>9. CASE Look
  BY <1>9, RunsAssumption DEF Look, taskVars, ownVars, Views, MayHold, Shown, Exited, Alive,
         Halogen, TypeOK, SeatSound, File, Ended, Published, Looping, Trying, Ending, Services,
         Living
<1>10. CASE ProbeAgain
  BY <1>10, RunsAssumption DEF ProbeAgain, taskVars, engineVars, ownVars, TypeOK, SeatSound, File,
         Ended, Published, Looping, Trying, Ending, Services, Living
<1>11. CASE BecomeReady
  BY <1>11, RunsAssumption DEF BecomeReady, engineVars, ownVars, TypeOK, SeatSound, File, Ended,
         Published, Looping, Trying, Ending, Services, Living
<1>12. CASE ServeTurn
  BY <1>12, RunsAssumption DEF ServeTurn, MayPublish, taskVars, engineVars, ownVars, TypeOK,
         SeatSound, File, Ended, Published, Looping, Trying, Ending, Services, Living
<1>13. CASE ServeCancelled
  BY <1>13, RunsAssumption DEF ServeCancelled, Quit, MayPublish, Cancelled, engineVars, ownVars,
         TypeOK, SeatSound, File, Ended, Published, Looping, Trying, Ending, Services, Living
<1>14. CASE ServeError
  BY <1>14, RunsAssumption DEF ServeError, Quit, MayPublish, engineVars, ownVars, TypeOK,
         SeatSound, File, Ended, Published, Looping, Trying, Ending, Services, Living
<1>15. CASE StopHalogen
  BY <1>15, RunsAssumption DEF StopHalogen, Quiet, Faulted, taskVars, ownVars, Views, MayHold,
         Shown, Exited, Alive, Halogen, TypeOK, SeatSound, File, Ended, Published, Looping,
         Trying, Ending, Services, Living
<1>16. CASE StopNative
  BY <1>16, RunsAssumption DEF StopNative, Quiet, Faulted, Close, CloseUnconfirmed, Kill, Become,
         Exited, taskVars, ownVars, Halogen, TypeOK, SeatSound, File, Ended, Published, Looping,
         Trying, Ending, Services, Living
<1>17. CASE StopNothing
  BY <1>17, RunsAssumption DEF StopNothing, Quiet, Faulted, taskVars, engineVars, ownVars, TypeOK,
         SeatSound, File, Ended, Published, Looping, Trying, Ending, Services, Living
<1>18. CASE Waited
  <2>1. run \in Halogen /\ run \in Runs /\ run # None /\ run \in opened /\ stop /\ job # "none"
    BY <1>18, RunsAssumption DEF Waited, TypeOK, SeatSound, Ending
  <2>2. child' = child /\ child[run] \in Ended
    BY <1>18 DEF Waited, Close, Kill, Exited
  <2>3. (pc' = "closing" \/ pc' = "settled") /\ job' # "none"
    BY <1>18, <2>1 DEF Waited, Close
  <2>4. UNCHANGED <<run, opened, phase, stop, guard, current>>
    BY <1>18 DEF Waited, taskVars, ownVars
  <2>5. QED
    BY <2>1, <2>2, <2>3, <2>4 DEF SeatSound, Halogen, Looping, Ending
<1>19. CASE StopFails
  BY <1>19, RunsAssumption DEF StopFails, Quiet, taskVars, engineVars, ownVars, TypeOK, SeatSound,
         File, Ended, Published, Looping, Trying, Ending, Services, Living
<1>20. CASE CloseJob
  <2>1. run \in Runs /\ run # None /\ run \in Services /\ job # "none" /\ stop /\ pc = "closing"
    BY <1>20, RunsAssumption DEF CloseJob, TypeOK, SeatSound, Services, Ending
  <2>2. CASE /\ Close /\ pc' = "settled"
             /\ UNCHANGED <<phase, failed, taskVars, lost, previous, adopted, ownVars, current>>
    BY <2>1, <2>2 DEF Close, Kill, Exited, taskVars, ownVars, SeatSound, TypeOK, Ended, Looping
  <2>3. CASE Become(run, "dying") /\ Leave /\ UNCHANGED current
    <3>1. /\ run' = None /\ pc' = "none" /\ phase' = "none" /\ job' = "none"
          /\ adopted' = None /\ ~stop' /\ guard' = "none"
      BY <2>3 DEF Leave
    <3>2. opened' = opened /\ current' = current
      BY <2>3 DEF Leave
    <3>3. child'[run] = "dying" /\ \A x \in Services : x # run => child'[x] = child[x]
      BY <2>3, <2>1 DEF Become, TypeOK
    <3>4. current.phase \in Published =>
            current.run \in Runs /\ current.run # run /\ current.run # None
      BY RunsAssumption DEF SeatSound
    <3>5. \A r \in Runs : child'[r] \in {"none", "dying"} \cup Ended
      BY <3>3 DEF SeatSound, Services
    <3>6. \A r \in Runs \ opened : child'[r] = "none"
      BY <3>3, <2>1 DEF SeatSound, Services
    <3>7. current.phase \in Published => child'[current.run] \in {"none"} \cup Ended
      BY <3>3, <3>4 DEF SeatSound, Services
    <3>8. current.run # None => current.run \in opened
      BY DEF SeatSound
    <3>9. None \notin Native
      BY RunsAssumption
    <3>10. QED
      BY <3>1, <3>2, <3>4, <3>5, <3>6, <3>7, <3>8, <3>9 DEF SeatSound, Trying, Looping, Ending
  <2>4. QED
    BY <1>20, <2>2, <2>3 DEF CloseJob, Leave
<1>21. CASE Settle
  BY <1>21, RunsAssumption DEF Settle, MayPublish, Leave, TypeOK, SeatSound, File, Ended,
         Published, Looping, Trying, Ending, Services, Living
<1>22. CASE GuardEnds("ok")
  BY <1>22, RunsAssumption DEF GuardEnds, engineVars, ownVars, TypeOK, SeatSound, File, Ended,
         Published, Looping, Trying, Ending, Services, Living
<1>23. CASE \E how \in {"closed", "failed"} : ServerEnds(how)
  BY <1>23 DEF ServerEnds, engineVars, ownVars, SeatSound
<1>24. CASE DeviceLost
  BY <1>24 DEF DeviceLost, taskVars, engineVars, ownVars, SeatSound
<1>25. CASE GuardTrips
  <2>1. run \in Runs /\ run \in opened /\ pc \in Looping /\ job # "none"
    BY <1>25 DEF GuardTrips, TypeOK, SeatSound, Trying
  <2>2. \/ child' = child
        \/ \E v \in {"dead", "dying"} : child' = [child EXCEPT ![run] = v]
    BY <1>25 DEF GuardTrips, Close, CloseUnconfirmed, Kill, Become
  <2>3. job' = job \/ job' = "closed"
    BY <1>25 DEF GuardTrips, Close, CloseUnconfirmed
  <2>4. UNCHANGED <<run, opened, pc, phase, adopted, current>>
    BY <1>25 DEF GuardTrips, ownVars
  <2>5. QED
    BY <2>1, <2>2, <2>3, <2>4 DEF SeatSound, TypeOK, Looping, Ending, Services
<1>26. CASE GuardEnds("failed")
  BY <1>26, RunsAssumption DEF GuardEnds, engineVars, ownVars, TypeOK, SeatSound, File, Ended,
         Published, Looping, Trying, Ending, Services, Living
<1>27. CASE Crash
  BY <1>27, RunsAssumption DEF Crash, Kill, Leave, Exited, TypeOK, SeatSound, File, Ended,
         Published, Looping, Trying, Ending, Services, Living
<1>28. CASE ReadCurrent
  BY <1>28 DEF ReadCurrent, runVars, engineVars, ownVars, SeatSound
<1>29. CASE WriteStop
  BY <1>29 DEF WriteStop, runVars, engineVars, ownVars, SeatSound
<1>30. CASE Interrupt
  BY <1>30, RunsAssumption DEF Interrupt, runVars, engineVars, ownVars, TypeOK, SeatSound, File,
         Ended, Published, Looping, Trying, Ending, Services, Living
<1>31. CASE Unlock
  BY <1>31 DEF Unlock, runVars, engineVars, ownVars, SeatSound
<1>32. ASSUME NEW s \in Services, StartByHand(s) PROVE SeatSound'
  BY <1>32, RunsAssumption DEF StartByHand, Become, serviceVars, runVars, engineVars, ownVars,
         TypeOK, SeatSound, File, Ended, Published, Looping, Trying, Ending, Services, Living
<1>33. ASSUME NEW s \in Services, TakeLock(s) PROVE SeatSound'
  BY <1>33, RunsAssumption DEF TakeLock, Become, serviceVars, runVars, engineVars, ownVars,
         TypeOK, SeatSound, File, Ended, Published, Looping, Trying, Ending, Services, Living
<1>34. ASSUME NEW s \in Services, ShowUp(s) PROVE SeatSound'
  BY <1>34, RunsAssumption DEF ShowUp, Become, Writes, serviceVars, runVars, engineVars, ownVars,
         TypeOK, SeatSound, File, Ended, Published, Looping, Trying, Ending, Services, Living
<1>35. ASSUME NEW s \in Services, GetReady(s) PROVE SeatSound'
  BY <1>35, RunsAssumption DEF GetReady, Become, Writes, serviceVars, runVars, engineVars,
         ownVars, TypeOK, SeatSound, File, Ended, Published, Looping, Trying, Ending, Services,
         Living
<1>36. ASSUME NEW s \in Services, EndService(s) PROVE SeatSound'
  BY <1>36, RunsAssumption DEF EndService, Become, Writes, serviceVars, runVars, engineVars,
         ownVars, TypeOK, SeatSound, File, Ended, Published, Looping, Trying, Ending, Services,
         Living
<1>37. ASSUME NEW s \in Services, ReleaseLock(s) PROVE SeatSound'
  BY <1>37, RunsAssumption DEF ReleaseLock, Become, serviceVars, runVars, engineVars, ownVars,
         TypeOK, SeatSound, File, Ended, Published, Looping, Trying, Ending, Services, Living
<1>38. ASSUME NEW s \in Services, WriteOutcome(s) PROVE SeatSound'
  BY <1>38, RunsAssumption DEF WriteOutcome, Become, Writes, serviceVars, runVars, engineVars,
         ownVars, TypeOK, SeatSound, File, Ended, Published, Looping, Trying, Ending, Services,
         Living
<1>39. ASSUME NEW s \in Services, ProcessEnds(s) PROVE SeatSound'
  BY <1>39, RunsAssumption DEF ProcessEnds, Become, Alive, serviceVars, runVars, engineVars,
         ownVars, TypeOK, SeatSound, File, Ended, Published, Looping, Trying, Ending, Services,
         Living
<1>40. QED
  BY <1>1, <1>2, <1>3, <1>4, <1>5, <1>6, <1>7, <1>8, <1>9, <1>10, <1>11, <1>12, <1>13, <1>14,
         <1>15, <1>16, <1>17, <1>18, <1>19, <1>20, <1>21, <1>22, <1>23, <1>24, <1>25, <1>26,
         <1>27, <1>28, <1>29, <1>30, <1>31, <1>32, <1>33, <1>34, <1>35, <1>36, <1>37, <1>38, <1>39
         DEF Next, MainStep, TasksEnd, Faults, Operator, ServiceStep

\* Engine.state recognises a service only through its job, so whoever it
\* recognised or told to stop is its own child or was dead before.
LEMMA StopsSoundStep ==
    ASSUME TypeOK, SeatSound, StopsSound, Next
    PROVE  StopsSound'
<1>1. ASSUME NEW r \in Runs, Open(r) PROVE StopsSound'
  BY <1>1, RunsAssumption DEF Open, engineVars, TypeOK, SeatSound, StopsSound, Exited, Ended,
         Living, Services
<1>2. CASE Announce
  BY <1>2 DEF Announce, engineVars, ownVars, StopsSound, Exited
<1>3. CASE Preflight
  BY <1>3 DEF Preflight, ownVars, StopsSound, Exited
<1>4. CASE Spawn
  BY <1>4, RunsAssumption DEF Spawn, Become, ownVars, TypeOK, SeatSound, StopsSound, Exited,
         Ended, Living, Services
<1>5. CASE StartFails
  BY <1>5 DEF StartFails, Quit, engineVars, ownVars, StopsSound, Exited
<1>6. CASE StartTurn
  BY <1>6 DEF StartTurn, engineVars, ownVars, StopsSound, Exited
<1>7. CASE StartCancelled
  BY <1>7 DEF StartCancelled, Quit, engineVars, ownVars, StopsSound, Exited
<1>8. CASE StartError
  BY <1>8 DEF StartError, Quit, engineVars, ownVars, StopsSound, Exited
<1>9. CASE Look
  BY <1>9, RunsAssumption DEF Look, ownVars, Views, MayHold, Shown, Exited, Alive, Halogen,
         TypeOK, SeatSound, StopsSound, Ended, Living, Services
<1>10. CASE ProbeAgain
  BY <1>10 DEF ProbeAgain, engineVars, ownVars, StopsSound, Exited
<1>11. CASE BecomeReady
  BY <1>11 DEF BecomeReady, engineVars, ownVars, StopsSound, Exited
<1>12. CASE ServeTurn
  BY <1>12 DEF ServeTurn, engineVars, ownVars, StopsSound, Exited
<1>13. CASE ServeCancelled
  BY <1>13 DEF ServeCancelled, Quit, engineVars, ownVars, StopsSound, Exited
<1>14. CASE ServeError
  BY <1>14 DEF ServeError, Quit, engineVars, ownVars, StopsSound, Exited
<1>15. CASE StopHalogen
  BY <1>15, RunsAssumption DEF StopHalogen, Quiet, Faulted, ownVars, Views, MayHold, Shown,
         Exited, Alive, Halogen, TypeOK, SeatSound, StopsSound, Ended, Living, Services
<1>16. CASE StopNative
  BY <1>16, RunsAssumption DEF StopNative, Quiet, Faulted, Close, CloseUnconfirmed, Kill, Become,
         Exited, ownVars, Halogen, TypeOK, SeatSound, StopsSound, Ended, Living, Services
<1>17. CASE StopNothing
  BY <1>17 DEF StopNothing, engineVars, ownVars, StopsSound, Exited
<1>18. CASE Waited
  BY <1>18, RunsAssumption DEF Waited, Views, MayHold, Shown, Exited, Alive, Close, Kill, ownVars,
         TypeOK, SeatSound, StopsSound, Ended, Living, Services
<1>19. CASE StopFails
  BY <1>19 DEF StopFails, engineVars, ownVars, StopsSound, Exited
<1>20. CASE CloseJob
  BY <1>20, RunsAssumption DEF CloseJob, Close, Kill, Become, Exited, Leave, ownVars, TypeOK,
         SeatSound, StopsSound, Ended, Living, Services
<1>21. CASE Settle
  BY <1>21, RunsAssumption DEF Settle, MayPublish, Leave, TypeOK, SeatSound, StopsSound, Exited,
         Ended, Living, Services
<1>22. CASE GuardEnds("ok")
  BY <1>22 DEF GuardEnds, engineVars, ownVars, StopsSound, Exited
<1>23. CASE \E how \in {"closed", "failed"} : ServerEnds(how)
  BY <1>23 DEF ServerEnds, engineVars, ownVars, StopsSound, Exited
<1>24. CASE DeviceLost
  BY <1>24 DEF DeviceLost, engineVars, ownVars, StopsSound, Exited
<1>25. CASE GuardTrips
  BY <1>25, RunsAssumption DEF GuardTrips, Close, CloseUnconfirmed, Kill, Become, Exited, ownVars,
         Halogen, TypeOK, SeatSound, StopsSound, Ended, Living, Services
<1>26. CASE GuardEnds("failed")
  BY <1>26 DEF GuardEnds, engineVars, ownVars, StopsSound, Exited
<1>27. CASE Crash
  BY <1>27, RunsAssumption DEF Crash, Kill, Leave, Exited, TypeOK, SeatSound, StopsSound, Ended,
         Living, Services
<1>28. CASE ReadCurrent
  BY <1>28 DEF ReadCurrent, runVars, engineVars, ownVars, StopsSound, Exited
<1>29. CASE WriteStop
  BY <1>29 DEF WriteStop, runVars, engineVars, ownVars, StopsSound, Exited
<1>30. CASE Interrupt
  BY <1>30 DEF Interrupt, runVars, engineVars, ownVars, StopsSound, Exited
<1>31. CASE Unlock
  BY <1>31 DEF Unlock, Exited, runVars, engineVars, ownVars, StopsSound
<1>32. ASSUME NEW s \in Services, StartByHand(s) PROVE StopsSound'
  BY <1>32, RunsAssumption DEF StartByHand, Become, serviceVars, runVars, engineVars, ownVars,
         TypeOK, SeatSound, StopsSound, Exited, Ended, Living, Services
<1>33. ASSUME NEW s \in Services, TakeLock(s) PROVE StopsSound'
  BY <1>33, RunsAssumption DEF TakeLock, Become, serviceVars, runVars, engineVars, ownVars,
         TypeOK, SeatSound, StopsSound, Exited, Ended, Living, Services
<1>34. ASSUME NEW s \in Services, ShowUp(s) PROVE StopsSound'
  BY <1>34, RunsAssumption DEF ShowUp, Become, Writes, serviceVars, runVars, engineVars, ownVars,
         TypeOK, SeatSound, StopsSound, Exited, Ended, Living, Services
<1>35. ASSUME NEW s \in Services, GetReady(s) PROVE StopsSound'
  BY <1>35, RunsAssumption DEF GetReady, Become, Writes, serviceVars, runVars, engineVars,
         ownVars, TypeOK, SeatSound, StopsSound, Exited, Ended, Living, Services
<1>36. ASSUME NEW s \in Services, EndService(s) PROVE StopsSound'
  BY <1>36, RunsAssumption DEF EndService, Become, Writes, serviceVars, runVars, engineVars,
         ownVars, TypeOK, SeatSound, StopsSound, Exited, Ended, Living, Services
<1>37. ASSUME NEW s \in Services, ReleaseLock(s) PROVE StopsSound'
  BY <1>37, RunsAssumption DEF ReleaseLock, Become, serviceVars, runVars, engineVars, ownVars,
         TypeOK, SeatSound, StopsSound, Exited, Ended, Living, Services
<1>38. ASSUME NEW s \in Services, WriteOutcome(s) PROVE StopsSound'
  BY <1>38, RunsAssumption DEF WriteOutcome, Become, Writes, serviceVars, runVars, engineVars,
         ownVars, TypeOK, SeatSound, StopsSound, Exited, Ended, Living, Services
<1>39. ASSUME NEW s \in Services, ProcessEnds(s) PROVE StopsSound'
  BY <1>39, RunsAssumption DEF ProcessEnds, Become, Alive, serviceVars, runVars, engineVars,
         ownVars, TypeOK, SeatSound, StopsSound, Exited, Ended, Living, Services
<1>40. QED
  BY <1>1, <1>2, <1>3, <1>4, <1>5, <1>6, <1>7, <1>8, <1>9, <1>10, <1>11, <1>12, <1>13, <1>14,
         <1>15, <1>16, <1>17, <1>18, <1>19, <1>20, <1>21, <1>22, <1>23, <1>24, <1>25, <1>26,
         <1>27, <1>28, <1>29, <1>30, <1>31, <1>32, <1>33, <1>34, <1>35, <1>36, <1>37, <1>38, <1>39
         DEF Next, MainStep, TasksEnd, Faults, Operator, ServiceStep

\* The event stop is set by an order for this run or by the memory guard, and
\* what the guard did becomes an error before engine.stop is called.
LEMMA AskedSoundStep ==
    ASSUME TypeOK, SeatSound, AskedSound, Next
    PROVE  AskedSound'
<1>1. ASSUME NEW r \in Runs, Open(r) PROVE AskedSound'
  BY <1>1, RunsAssumption DEF Open, taskVars, operatorVars, TypeOK, SeatSound, AskedSound,
         Faulted, Trying, Looping
<1>2. CASE Announce
  BY <1>2, RunsAssumption DEF Announce, Publishes, taskVars, ownVars, operatorVars, TypeOK,
         SeatSound, AskedSound, Faulted, Trying, Looping
<1>3. CASE Preflight
  BY <1>3, RunsAssumption DEF Preflight, taskVars, ownVars, operatorVars, Halogen, TypeOK,
         SeatSound, AskedSound, Faulted, Trying, Looping
<1>4. CASE Spawn
  BY <1>4, RunsAssumption DEF Spawn, Become, ownVars, operatorVars, TypeOK, SeatSound, AskedSound,
         Faulted, Trying, Looping
<1>5. CASE StartFails
  BY <1>5, RunsAssumption DEF StartFails, Quit, MayPublish, ownVars, operatorVars, TypeOK,
         SeatSound, AskedSound, Faulted, Trying, Looping
<1>6. CASE StartTurn
  BY <1>6, RunsAssumption DEF StartTurn, MayPublish, taskVars, ownVars, operatorVars, TypeOK,
         SeatSound, AskedSound, Faulted, Trying, Looping, Cancelled
<1>7. CASE StartCancelled
  BY <1>7, RunsAssumption DEF StartCancelled, Quit, MayPublish, Cancelled, ownVars, operatorVars,
         TypeOK, SeatSound, AskedSound, Faulted, Trying, Looping
<1>8. CASE StartError
  BY <1>8, RunsAssumption DEF StartError, Quit, MayPublish, Cancelled, ownVars, operatorVars,
         TypeOK, SeatSound, AskedSound, Faulted, Trying, Looping
<1>9. CASE Look
  BY <1>9, RunsAssumption DEF Look, taskVars, ownVars, operatorVars, Views, MayHold, Shown,
         Exited, Alive, Halogen, TypeOK, SeatSound, AskedSound, Faulted, Trying, Looping
<1>10. CASE ProbeAgain
  BY <1>10, RunsAssumption DEF ProbeAgain, taskVars, ownVars, operatorVars, TypeOK, SeatSound,
         AskedSound, Faulted, Trying, Looping
<1>11. CASE BecomeReady
  BY <1>11, RunsAssumption DEF BecomeReady, ownVars, operatorVars, TypeOK, SeatSound, AskedSound,
         Faulted, Trying, Looping
<1>12. CASE ServeTurn
  BY <1>12 DEF ServeTurn, taskVars, ownVars, operatorVars, AskedSound, Faulted
<1>13. CASE ServeCancelled
  BY <1>13, RunsAssumption DEF ServeCancelled, Quit, MayPublish, Cancelled, ownVars, operatorVars,
         TypeOK, SeatSound, AskedSound, Faulted, Trying, Looping
<1>14. CASE ServeError
  BY <1>14, RunsAssumption DEF ServeError, Quit, MayPublish, ownVars, operatorVars, TypeOK,
         SeatSound, AskedSound, Faulted, Trying, Looping, Cancelled
<1>15. CASE StopHalogen
  BY <1>15, RunsAssumption DEF StopHalogen, Quiet, Faulted, taskVars, ownVars, operatorVars,
         Views, MayHold, Shown, Exited, Alive, Halogen, TypeOK, SeatSound, AskedSound, Trying,
         Looping
<1>16. CASE StopNative
  BY <1>16, RunsAssumption DEF StopNative, Quiet, Faulted, Close, CloseUnconfirmed, Kill, Become,
         Exited, taskVars, ownVars, operatorVars, Halogen, TypeOK, SeatSound, AskedSound, Trying,
         Looping
<1>17. CASE StopNothing
  BY <1>17, RunsAssumption DEF StopNothing, Quiet, Faulted, taskVars, ownVars, operatorVars,
         TypeOK, SeatSound, AskedSound, Trying, Looping
<1>18. CASE Waited
  BY <1>18, RunsAssumption DEF Waited, Views, MayHold, Shown, Exited, Alive, Close, Kill,
         taskVars, ownVars, operatorVars, TypeOK, SeatSound, AskedSound, Faulted, Trying, Looping
<1>19. CASE StopFails
  BY <1>19, RunsAssumption DEF StopFails, Quiet, taskVars, ownVars, operatorVars, TypeOK,
         SeatSound, AskedSound, Faulted, Trying, Looping
<1>20. CASE CloseJob
  BY <1>20, RunsAssumption DEF CloseJob, Close, Kill, Become, Exited, Leave, taskVars, ownVars,
         operatorVars, TypeOK, SeatSound, AskedSound, Faulted, Trying, Looping
<1>21. CASE Settle
  BY <1>21, RunsAssumption DEF Settle, MayPublish, Leave, operatorVars, TypeOK, SeatSound,
         AskedSound, Faulted, Trying, Looping
<1>22. CASE GuardEnds("ok")
  BY <1>22, RunsAssumption DEF GuardEnds, ownVars, operatorVars, TypeOK, SeatSound, AskedSound,
         Faulted, Trying, Looping
<1>23. CASE \E how \in {"closed", "failed"} : ServerEnds(how)
  BY <1>23, RunsAssumption DEF ServerEnds, ownVars, operatorVars, TypeOK, SeatSound, AskedSound,
         Faulted, Trying, Looping
<1>24. CASE DeviceLost
  BY <1>24 DEF DeviceLost, taskVars, ownVars, operatorVars, AskedSound, Faulted
<1>25. CASE GuardTrips
  BY <1>25, RunsAssumption DEF GuardTrips, Close, CloseUnconfirmed, Kill, Become, Exited, ownVars,
         operatorVars, Halogen, TypeOK, SeatSound, AskedSound, Faulted, Trying, Looping
<1>26. CASE GuardEnds("failed")
  BY <1>26, RunsAssumption DEF GuardEnds, ownVars, operatorVars, TypeOK, SeatSound, AskedSound,
         Faulted, Trying, Looping
<1>27. CASE Crash
  BY <1>27, RunsAssumption DEF Crash, Kill, Leave, Exited, operatorVars, TypeOK, SeatSound,
         AskedSound, Faulted, Trying, Looping
<1>28. CASE ReadCurrent
  BY <1>28 DEF ReadCurrent, runVars, ownVars, AskedSound, Faulted
<1>29. CASE WriteStop
  BY <1>29, RunsAssumption DEF WriteStop, runVars, ownVars, TypeOK, SeatSound, AskedSound,
         Faulted, Trying, Looping
<1>30. CASE Interrupt
  BY <1>30, RunsAssumption DEF Interrupt, runVars, ownVars, TypeOK, SeatSound, AskedSound,
         Faulted, Trying, Looping
<1>31. CASE Unlock
  BY <1>31 DEF Unlock, runVars, ownVars, operatorVars, AskedSound, Faulted
<1>32. ASSUME NEW s \in Services, StartByHand(s) PROVE AskedSound'
  BY <1>32 DEF StartByHand, serviceVars, runVars, ownVars, operatorVars, AskedSound, Faulted
<1>33. ASSUME NEW s \in Services, TakeLock(s) PROVE AskedSound'
  BY <1>33 DEF TakeLock, serviceVars, runVars, ownVars, operatorVars, AskedSound, Faulted
<1>34. ASSUME NEW s \in Services, ShowUp(s) PROVE AskedSound'
  BY <1>34 DEF ShowUp, serviceVars, runVars, ownVars, operatorVars, AskedSound, Faulted
<1>35. ASSUME NEW s \in Services, GetReady(s) PROVE AskedSound'
  BY <1>35 DEF GetReady, serviceVars, runVars, ownVars, operatorVars, AskedSound, Faulted
<1>36. ASSUME NEW s \in Services, EndService(s) PROVE AskedSound'
  BY <1>36 DEF EndService, serviceVars, runVars, ownVars, operatorVars, AskedSound, Faulted
<1>37. ASSUME NEW s \in Services, ReleaseLock(s) PROVE AskedSound'
  BY <1>37 DEF ReleaseLock, serviceVars, runVars, ownVars, operatorVars, AskedSound, Faulted
<1>38. ASSUME NEW s \in Services, WriteOutcome(s) PROVE AskedSound'
  BY <1>38 DEF WriteOutcome, serviceVars, runVars, ownVars, operatorVars, AskedSound, Faulted
<1>39. ASSUME NEW s \in Services, ProcessEnds(s) PROVE AskedSound'
  BY <1>39 DEF ProcessEnds, serviceVars, runVars, ownVars, operatorVars, AskedSound, Faulted
<1>40. QED
  BY <1>1, <1>2, <1>3, <1>4, <1>5, <1>6, <1>7, <1>8, <1>9, <1>10, <1>11, <1>12, <1>13, <1>14,
         <1>15, <1>16, <1>17, <1>18, <1>19, <1>20, <1>21, <1>22, <1>23, <1>24, <1>25, <1>26,
         <1>27, <1>28, <1>29, <1>30, <1>31, <1>32, <1>33, <1>34, <1>35, <1>36, <1>37, <1>38, <1>39
         DEF Next, MainStep, TasksEnd, Faults, Operator, ServiceStep

\* runner.lock belongs to the service that is past serve's start, and outlives
\* the service unless its cleanup and recovery were proved.
LEMMA LockSoundStep ==
    ASSUME TypeOK, SeatSound, LockSound, Next
    PROVE  LockSound'
<1>1. ASSUME NEW r \in Runs, Open(r) PROVE LockSound'
  BY <1>1, RunsAssumption DEF Open, engineVars, backendVars, TypeOK, SeatSound, LockSound,
         ServiceFile, Ended, Living, Services, Halogen, Looping
<1>2. CASE Announce
  BY <1>2, RunsAssumption DEF Announce, Publishes, engineVars, ownVars, backendVars, TypeOK,
         SeatSound, LockSound, ServiceFile, Ended, Living, Services, Halogen, Looping
<1>3. CASE Preflight
  BY <1>3, RunsAssumption DEF Preflight, ownVars, backendVars, Halogen, TypeOK, SeatSound,
         LockSound, ServiceFile, Ended, Living, Services, Looping
<1>4. CASE Spawn
  <2>1. run \in Runs /\ run \in Services /\ child[run] = "none" /\ adopted = None /\ pc = "spawning"
    BY <1>4 DEF Spawn, TypeOK, SeatSound, Services
  <2>2. child' = [child EXCEPT ![run] = "booting"] /\ job' = "open" /\ pc' = "starting"
    BY <1>4 DEF Spawn, Become
  <2>3. UNCHANGED <<run, previous, adopted, lock, service, proven>>
    BY <1>4 DEF Spawn, ownVars, backendVars
  <2>4. service.run # None => service.run \in Services /\ service.run # run
    BY <2>1 DEF LockSound, TypeOK, ServiceFile
  <2>5. ~proven[run]
    BY <2>1 DEF LockSound, Ended
  <2>6. service.run # None => child'[service.run] \notin {"none", "booting", "locked"}
    BY <2>1, <2>2, <2>4 DEF LockSound, TypeOK
  <2>7. child'[run] = "booting" /\ \A x \in Services : x # run => child'[x] = child[x]
    BY <2>1, <2>2 DEF TypeOK
  <2>8. /\ \A s \in Services : child'[s] \in {"locked", "starting", "ready", "stopping"} => lock = s
        /\ \A s \in Services : child'[s] = "unlocked" => lock = s \/ proven[s]
    BY <2>7 DEF LockSound
  <2>9. \A s \in Services : proven[s] => child'[s] \in {"unlocked", "dying"} \cup Ended
    BY <2>7, <2>5 DEF LockSound
  <2>10. run \in Halogen /\ service.run \notin {None, previous} =>
            lock = service.run \/ proven[service.run]
    BY <2>1 DEF LockSound
  <2>11. service.proven => service.run # None /\ proven[service.run]
    BY DEF LockSound
  <2>12. QED
    BY <2>1, <2>2, <2>3, <2>6, <2>8, <2>9, <2>10, <2>11 DEF LockSound
<1>5. CASE StartFails
  BY <1>5, RunsAssumption DEF StartFails, Quit, MayPublish, engineVars, ownVars, backendVars,
         TypeOK, SeatSound, LockSound, ServiceFile, Ended, Living, Services, Halogen, Looping
<1>6. CASE StartTurn
  BY <1>6, RunsAssumption DEF StartTurn, MayPublish, engineVars, ownVars, backendVars, TypeOK,
         SeatSound, LockSound, ServiceFile, Ended, Living, Services, Halogen, Exited, Looping
<1>7. CASE StartCancelled
  BY <1>7, RunsAssumption DEF StartCancelled, Quit, MayPublish, Cancelled, engineVars, ownVars,
         backendVars, TypeOK, SeatSound, LockSound, ServiceFile, Ended, Living, Services, Halogen,
         Looping
<1>8. CASE StartError
  BY <1>8, RunsAssumption DEF StartError, Quit, MayPublish, Cancelled, engineVars, ownVars,
         backendVars, TypeOK, SeatSound, LockSound, ServiceFile, Ended, Living, Services, Halogen,
         Looping
<1>9. CASE Look
  BY <1>9, RunsAssumption DEF Look, ownVars, backendVars, Views, MayHold, Shown, Exited, Alive,
         Halogen, TypeOK, SeatSound, LockSound, ServiceFile, Ended, Living, Services, Looping
<1>10. CASE ProbeAgain
  BY <1>10, RunsAssumption DEF ProbeAgain, engineVars, ownVars, backendVars, TypeOK, SeatSound,
         LockSound, ServiceFile, Ended, Living, Services, Halogen, Looping
<1>11. CASE BecomeReady
  BY <1>11, RunsAssumption DEF BecomeReady, engineVars, ownVars, backendVars, TypeOK, SeatSound,
         LockSound, ServiceFile, Ended, Living, Services, Halogen, Looping
<1>12. CASE ServeTurn
  BY <1>12 DEF ServeTurn, engineVars, ownVars, backendVars, LockSound
<1>13. CASE ServeCancelled
  BY <1>13, RunsAssumption DEF ServeCancelled, Quit, MayPublish, Cancelled, engineVars, ownVars,
         backendVars, TypeOK, SeatSound, LockSound, ServiceFile, Ended, Living, Services, Halogen,
         Looping
<1>14. CASE ServeError
  BY <1>14, RunsAssumption DEF ServeError, Quit, MayPublish, engineVars, ownVars, backendVars,
         TypeOK, SeatSound, LockSound, ServiceFile, Ended, Living, Services, Halogen, Looping
<1>15. CASE StopHalogen
  BY <1>15, RunsAssumption DEF StopHalogen, Quiet, Faulted, ownVars, backendVars, Views, MayHold,
         Shown, Exited, Alive, Halogen, TypeOK, SeatSound, LockSound, ServiceFile, Ended, Living,
         Services, Looping
<1>16. CASE StopNative
  BY <1>16, RunsAssumption DEF StopNative, Quiet, Faulted, Close, CloseUnconfirmed, Kill, Become,
         Exited, ownVars, backendVars, Halogen, TypeOK, SeatSound, LockSound, ServiceFile, Ended,
         Living, Services, Looping
<1>17. CASE StopNothing
  BY <1>17, RunsAssumption DEF StopNothing, Quiet, Faulted, engineVars, ownVars, backendVars,
         TypeOK, SeatSound, LockSound, ServiceFile, Ended, Living, Services, Halogen, Looping
<1>18. CASE Waited
  BY <1>18, RunsAssumption DEF Waited, Views, MayHold, Shown, Exited, Alive, Close, Kill, ownVars,
         backendVars, TypeOK, SeatSound, LockSound, ServiceFile, Ended, Living, Services, Halogen,
         Looping
<1>19. CASE StopFails
  BY <1>19, RunsAssumption DEF StopFails, Quiet, engineVars, ownVars, backendVars, TypeOK,
         SeatSound, LockSound, ServiceFile, Ended, Living, Services, Halogen, Looping
<1>20. CASE CloseJob
  BY <1>20, RunsAssumption DEF CloseJob, Close, Kill, Become, Exited, Leave, ownVars, backendVars,
         TypeOK, SeatSound, LockSound, ServiceFile, Ended, Living, Services, Halogen, Looping
<1>21. CASE Settle
  BY <1>21, RunsAssumption DEF Settle, MayPublish, Leave, backendVars, TypeOK, SeatSound,
         LockSound, ServiceFile, Ended, Living, Services, Halogen, Looping
<1>22. CASE GuardEnds("ok")
  BY <1>22 DEF GuardEnds, engineVars, ownVars, backendVars, LockSound
<1>23. CASE \E how \in {"closed", "failed"} : ServerEnds(how)
  BY <1>23 DEF ServerEnds, engineVars, ownVars, backendVars, LockSound
<1>24. CASE DeviceLost
  BY <1>24 DEF DeviceLost, engineVars, ownVars, backendVars, LockSound
<1>25. CASE GuardTrips
  BY <1>25, RunsAssumption DEF GuardTrips, Close, CloseUnconfirmed, Kill, Become, Exited, ownVars,
         backendVars, Halogen, TypeOK, SeatSound, LockSound, ServiceFile, Ended, Living, Services,
         Looping
<1>26. CASE GuardEnds("failed")
  BY <1>26 DEF GuardEnds, engineVars, ownVars, backendVars, LockSound
<1>27. CASE Crash
  BY <1>27, RunsAssumption DEF Crash, Kill, Leave, Exited, backendVars, TypeOK, SeatSound,
         LockSound, ServiceFile, Ended, Living, Services, Halogen, Looping
<1>28. CASE ReadCurrent
  BY <1>28 DEF ReadCurrent, runVars, engineVars, ownVars, backendVars, LockSound
<1>29. CASE WriteStop
  BY <1>29 DEF WriteStop, runVars, engineVars, ownVars, backendVars, LockSound
<1>30. CASE Interrupt
  BY <1>30 DEF Interrupt, runVars, engineVars, ownVars, backendVars, LockSound
<1>31. CASE Unlock
  BY <1>31, RunsAssumption DEF Unlock, Exited, runVars, engineVars, ownVars, TypeOK, SeatSound,
         LockSound, ServiceFile, Ended, Living, Services, Halogen, Looping
<1>32. ASSUME NEW s \in Services, StartByHand(s) PROVE LockSound'
  BY <1>32, RunsAssumption DEF StartByHand, Become, backendVars, serviceVars, runVars, engineVars,
         ownVars, TypeOK, SeatSound, LockSound, ServiceFile, Ended, Living, Services, Halogen,
         Looping
<1>33. ASSUME NEW s \in Services, TakeLock(s) PROVE LockSound'
  BY <1>33, RunsAssumption DEF TakeLock, Become, serviceVars, runVars, engineVars, ownVars,
         TypeOK, SeatSound, LockSound, ServiceFile, Ended, Living, Services, Halogen, Looping
<1>34. ASSUME NEW s \in Services, ShowUp(s) PROVE LockSound'
  BY <1>34, RunsAssumption DEF ShowUp, Become, Writes, serviceVars, runVars, engineVars, ownVars,
         TypeOK, SeatSound, LockSound, ServiceFile, Ended, Living, Services, Halogen, Looping
<1>35. ASSUME NEW s \in Services, GetReady(s) PROVE LockSound'
  BY <1>35, RunsAssumption DEF GetReady, Become, Writes, serviceVars, runVars, engineVars,
         ownVars, TypeOK, SeatSound, LockSound, ServiceFile, Ended, Living, Services, Halogen,
         Looping
<1>36. ASSUME NEW s \in Services, EndService(s) PROVE LockSound'
  BY <1>36, RunsAssumption DEF EndService, Become, Writes, serviceVars, runVars, engineVars,
         ownVars, TypeOK, SeatSound, LockSound, ServiceFile, Ended, Living, Services, Halogen,
         Looping
<1>37. ASSUME NEW s \in Services, ReleaseLock(s) PROVE LockSound'
  BY <1>37, RunsAssumption DEF ReleaseLock, Become, serviceVars, runVars, engineVars, ownVars,
         TypeOK, SeatSound, LockSound, ServiceFile, Ended, Living, Services, Halogen, Looping
<1>38. ASSUME NEW s \in Services, WriteOutcome(s) PROVE LockSound'
  BY <1>38, RunsAssumption DEF WriteOutcome, Become, Writes, serviceVars, runVars, engineVars,
         ownVars, TypeOK, SeatSound, LockSound, ServiceFile, Ended, Living, Services, Halogen,
         Looping
<1>39. ASSUME NEW s \in Services, ProcessEnds(s) PROVE LockSound'
  BY <1>39, RunsAssumption DEF ProcessEnds, Become, backendVars, Alive, serviceVars, runVars,
         engineVars, ownVars, TypeOK, SeatSound, LockSound, ServiceFile, Ended, Living, Services,
         Halogen, Looping
<1>40. QED
  BY <1>1, <1>2, <1>3, <1>4, <1>5, <1>6, <1>7, <1>8, <1>9, <1>10, <1>11, <1>12, <1>13, <1>14,
         <1>15, <1>16, <1>17, <1>18, <1>19, <1>20, <1>21, <1>22, <1>23, <1>24, <1>25, <1>26,
         <1>27, <1>28, <1>29, <1>30, <1>31, <1>32, <1>33, <1>34, <1>35, <1>36, <1>37, <1>38, <1>39
         DEF Next, MainStep, TasksEnd, Faults, Operator, ServiceStep

\* current-service.json names the recognised service until its end is proved,
\* if no finished service can write over its successor's file.
LEMMA FileSoundStep ==
    ASSUME TypeOK, SeatSound, AskedSound, LockSound, FileSound, LateWrites = FALSE, Next
    PROVE  FileSound'
<1>1. ASSUME NEW r \in Runs, Open(r) PROVE FileSound'
  BY <1>1, RunsAssumption DEF Open, engineVars, backendVars, TypeOK, SeatSound, LockSound,
         FileSound, ServiceFile, Ended, Living, Services, Published
<1>2. CASE Announce
  BY <1>2, RunsAssumption DEF Announce, Publishes, engineVars, ownVars, backendVars, TypeOK,
         SeatSound, LockSound, FileSound, ServiceFile, Ended, Living, Services, Published
<1>3. CASE Preflight
  BY <1>3, RunsAssumption DEF Preflight, ownVars, backendVars, Halogen, TypeOK, SeatSound,
         LockSound, FileSound, ServiceFile, Ended, Living, Services, Published
<1>4. CASE Spawn
  BY <1>4, RunsAssumption DEF Spawn, Become, ownVars, backendVars, TypeOK, SeatSound, LockSound,
         FileSound, ServiceFile, Ended, Living, Services, Published
<1>5. CASE StartFails
  BY <1>5, RunsAssumption DEF StartFails, Quit, MayPublish, engineVars, ownVars, backendVars,
         TypeOK, SeatSound, LockSound, FileSound, ServiceFile, Ended, Living, Services, Published
<1>6. CASE StartTurn
  BY <1>6, RunsAssumption DEF StartTurn, MayPublish, engineVars, ownVars, backendVars, TypeOK,
         SeatSound, LockSound, FileSound, ServiceFile, Ended, Living, Services, Exited, Published
<1>7. CASE StartCancelled
  BY <1>7, RunsAssumption DEF StartCancelled, Quit, MayPublish, Cancelled, engineVars, ownVars,
         backendVars, TypeOK, SeatSound, LockSound, FileSound, ServiceFile, Ended, Living,
         Services, Published
<1>8. CASE StartError
  BY <1>8, RunsAssumption DEF StartError, Quit, MayPublish, Cancelled, engineVars, ownVars,
         backendVars, TypeOK, SeatSound, LockSound, FileSound, ServiceFile, Ended, Living,
         Services, Published
<1>9. CASE Look
  BY <1>9, RunsAssumption DEF Look, ownVars, backendVars, Views, MayHold, Shown, Exited, Alive,
         Halogen, TypeOK, SeatSound, LockSound, FileSound, ServiceFile, Ended, Living, Services,
         Published
<1>10. CASE ProbeAgain
  BY <1>10, RunsAssumption DEF ProbeAgain, engineVars, ownVars, backendVars, TypeOK, SeatSound,
         LockSound, FileSound, ServiceFile, Ended, Living, Services, Published
<1>11. CASE BecomeReady
  BY <1>11, RunsAssumption DEF BecomeReady, engineVars, ownVars, backendVars, TypeOK, SeatSound,
         LockSound, FileSound, ServiceFile, Ended, Living, Services, Published
<1>12. CASE ServeTurn
  BY <1>12 DEF ServeTurn, engineVars, ownVars, backendVars, FileSound
<1>13. CASE ServeCancelled
  BY <1>13, RunsAssumption DEF ServeCancelled, Quit, MayPublish, Cancelled, engineVars, ownVars,
         backendVars, TypeOK, SeatSound, LockSound, FileSound, ServiceFile, Ended, Living,
         Services, Published
<1>14. CASE ServeError
  BY <1>14, RunsAssumption DEF ServeError, Quit, MayPublish, engineVars, ownVars, backendVars,
         TypeOK, SeatSound, LockSound, FileSound, ServiceFile, Ended, Living, Services, Published
<1>15. CASE StopHalogen
  BY <1>15, RunsAssumption DEF StopHalogen, Quiet, Faulted, ownVars, backendVars, Views, MayHold,
         Shown, Exited, Alive, Halogen, TypeOK, SeatSound, LockSound, FileSound, ServiceFile,
         Ended, Living, Services, Published
<1>16. CASE StopNative
  BY <1>16, RunsAssumption DEF StopNative, Quiet, Faulted, Close, CloseUnconfirmed, Kill, Become,
         Exited, ownVars, backendVars, Halogen, TypeOK, SeatSound, LockSound, FileSound,
         ServiceFile, Ended, Living, Services, Published
<1>17. CASE StopNothing
  BY <1>17, RunsAssumption DEF StopNothing, Quiet, Faulted, engineVars, ownVars, backendVars,
         TypeOK, SeatSound, LockSound, FileSound, ServiceFile, Ended, Living, Services, Published
<1>18. CASE Waited
  BY <1>18, RunsAssumption DEF Waited, Views, MayHold, Shown, Exited, Alive, Close, Kill, ownVars,
         backendVars, TypeOK, SeatSound, LockSound, FileSound, ServiceFile, Ended, Living,
         Services, Published
<1>19. CASE StopFails
  BY <1>19, RunsAssumption DEF StopFails, Quiet, engineVars, ownVars, backendVars, TypeOK,
         SeatSound, LockSound, FileSound, ServiceFile, Ended, Living, Services, Published
<1>20. CASE CloseJob
  <2>1. run \in Runs /\ run # None /\ run \in Services /\ job # "none" /\ failed
    BY <1>20, RunsAssumption DEF CloseJob, TypeOK, SeatSound, Services, AskedSound
  <2>2. UNCHANGED <<lock, service, proven>>
    BY <1>20 DEF CloseJob, Leave, backendVars
  <2>3. \/ child' = child
        \/ \E v \in {"dead", "dying"} : child' = [child EXCEPT ![run] = v]
    BY <1>20 DEF CloseJob, Close, Kill, Become
  <2>4. \/ adopted' = adopted /\ failed'
        \/ adopted' = None
    BY <1>20, <2>1 DEF CloseJob, Leave
  <2>5. QED
    BY <2>1, <2>2, <2>3, <2>4 DEF FileSound, TypeOK
<1>21. CASE Settle
  BY <1>21, RunsAssumption DEF Settle, MayPublish, Leave, backendVars, TypeOK, SeatSound,
         LockSound, FileSound, ServiceFile, Ended, Living, Services, Published
<1>22. CASE GuardEnds("ok")
  BY <1>22 DEF GuardEnds, engineVars, ownVars, backendVars, FileSound
<1>23. CASE \E how \in {"closed", "failed"} : ServerEnds(how)
  BY <1>23 DEF ServerEnds, engineVars, ownVars, backendVars, FileSound
<1>24. CASE DeviceLost
  BY <1>24 DEF DeviceLost, engineVars, ownVars, backendVars, FileSound
<1>25. CASE GuardTrips
  BY <1>25, RunsAssumption DEF GuardTrips, Close, CloseUnconfirmed, Kill, Become, Exited, ownVars,
         backendVars, Halogen, TypeOK, SeatSound, LockSound, FileSound, ServiceFile, Ended,
         Living, Services, Published
<1>26. CASE GuardEnds("failed")
  BY <1>26 DEF GuardEnds, engineVars, ownVars, backendVars, FileSound
<1>27. CASE Crash
  BY <1>27, RunsAssumption DEF Crash, Kill, Leave, Exited, backendVars, TypeOK, SeatSound,
         LockSound, FileSound, ServiceFile, Ended, Living, Services, Published
<1>28. CASE ReadCurrent
  BY <1>28 DEF ReadCurrent, runVars, engineVars, ownVars, backendVars, FileSound
<1>29. CASE WriteStop
  BY <1>29 DEF WriteStop, runVars, engineVars, ownVars, backendVars, FileSound
<1>30. CASE Interrupt
  BY <1>30 DEF Interrupt, runVars, engineVars, ownVars, backendVars, FileSound
<1>31. CASE Unlock
  BY <1>31, RunsAssumption DEF Unlock, Exited, runVars, engineVars, ownVars, TypeOK, SeatSound,
         LockSound, FileSound, ServiceFile, Ended, Living, Services, Published
<1>32. ASSUME NEW s \in Services, StartByHand(s) PROVE FileSound'
  BY <1>32, RunsAssumption DEF StartByHand, Become, backendVars, serviceVars, runVars, engineVars,
         ownVars, TypeOK, SeatSound, LockSound, FileSound, ServiceFile, Ended, Living, Services,
         Published
<1>33. ASSUME NEW s \in Services, TakeLock(s) PROVE FileSound'
  BY <1>33, RunsAssumption DEF TakeLock, Become, serviceVars, runVars, engineVars, ownVars,
         TypeOK, SeatSound, LockSound, FileSound, ServiceFile, Ended, Living, Services, Published
<1>34. ASSUME NEW s \in Services, ShowUp(s) PROVE FileSound'
  BY <1>34, RunsAssumption DEF ShowUp, Become, Writes, serviceVars, runVars, engineVars, ownVars,
         TypeOK, SeatSound, LockSound, FileSound, ServiceFile, Ended, Living, Services, Published
<1>35. ASSUME NEW s \in Services, GetReady(s) PROVE FileSound'
  BY <1>35, RunsAssumption DEF GetReady, Become, Writes, serviceVars, runVars, engineVars,
         ownVars, TypeOK, SeatSound, LockSound, FileSound, ServiceFile, Ended, Living, Services,
         Published
<1>36. ASSUME NEW s \in Services, EndService(s) PROVE FileSound'
  BY <1>36, RunsAssumption DEF EndService, Become, Writes, serviceVars, runVars, engineVars,
         ownVars, TypeOK, SeatSound, LockSound, FileSound, ServiceFile, Ended, Living, Services,
         Published
<1>37. ASSUME NEW s \in Services, ReleaseLock(s) PROVE FileSound'
  BY <1>37, RunsAssumption DEF ReleaseLock, Become, serviceVars, runVars, engineVars, ownVars,
         TypeOK, SeatSound, LockSound, FileSound, ServiceFile, Ended, Living, Services, Published
<1>38. ASSUME NEW s \in Services, WriteOutcome(s) PROVE FileSound'
  BY <1>38, RunsAssumption DEF WriteOutcome, Become, Writes, serviceVars, runVars, engineVars,
         ownVars, TypeOK, SeatSound, LockSound, FileSound, ServiceFile, Ended, Living, Services,
         Published
<1>39. ASSUME NEW s \in Services, ProcessEnds(s) PROVE FileSound'
  BY <1>39, RunsAssumption DEF ProcessEnds, Become, backendVars, Alive, serviceVars, runVars,
         engineVars, ownVars, TypeOK, SeatSound, LockSound, FileSound, ServiceFile, Ended, Living,
         Services, Published
<1>40. QED
  BY <1>1, <1>2, <1>3, <1>4, <1>5, <1>6, <1>7, <1>8, <1>9, <1>10, <1>11, <1>12, <1>13, <1>14,
         <1>15, <1>16, <1>17, <1>18, <1>19, <1>20, <1>21, <1>22, <1>23, <1>24, <1>25, <1>26,
         <1>27, <1>28, <1>29, <1>30, <1>31, <1>32, <1>33, <1>34, <1>35, <1>36, <1>37, <1>38, <1>39
         DEF Next, MainStep, TasksEnd, Faults, Operator, ServiceStep

\* current.json changes after the settled stop only by the last write of run().
LEMMA OnlyEndsPublish ==
    ASSUME TypeOK, SeatSound, Next, pc = "settled", current' # current
    PROVE  Settle
<1>1. ASSUME NEW r \in Runs, Open(r) PROVE FALSE
  BY <1>1 DEF Open, SeatSound
<1>2. ASSUME Announce PROVE FALSE
  BY <1>2 DEF Announce
<1>3. ASSUME Preflight PROVE FALSE
  BY <1>3 DEF Preflight
<1>4. ASSUME Spawn PROVE FALSE
  BY <1>4 DEF Spawn
<1>5. ASSUME StartFails PROVE FALSE
  BY <1>5 DEF StartFails
<1>6. ASSUME StartTurn PROVE FALSE
  BY <1>6 DEF StartTurn
<1>7. ASSUME StartCancelled PROVE FALSE
  BY <1>7 DEF StartCancelled
<1>8. ASSUME StartError PROVE FALSE
  BY <1>8 DEF StartError
<1>9. ASSUME Look PROVE FALSE
  BY <1>9 DEF Look
<1>10. ASSUME ProbeAgain PROVE FALSE
  BY <1>10 DEF ProbeAgain
<1>11. ASSUME BecomeReady PROVE FALSE
  BY <1>11 DEF BecomeReady
<1>12. ASSUME ServeTurn PROVE FALSE
  BY <1>12 DEF ServeTurn
<1>13. ASSUME ServeCancelled PROVE FALSE
  BY <1>13 DEF ServeCancelled
<1>14. ASSUME ServeError PROVE FALSE
  BY <1>14 DEF ServeError
<1>15. ASSUME StopHalogen PROVE FALSE
  BY <1>15 DEF StopHalogen
<1>16. ASSUME StopNative PROVE FALSE
  BY <1>16 DEF StopNative
<1>17. ASSUME StopNothing PROVE FALSE
  BY <1>17 DEF StopNothing
<1>18. ASSUME Waited PROVE FALSE
  BY <1>18 DEF Waited
<1>19. ASSUME StopFails PROVE FALSE
  BY <1>19 DEF StopFails
<1>20. ASSUME CloseJob PROVE FALSE
  BY <1>20 DEF CloseJob
<1>21. CASE Settle
  BY <1>21
<1>22. ASSUME GuardEnds("ok") PROVE FALSE
  BY <1>22 DEF GuardEnds
<1>23. ASSUME \E how \in {"closed", "failed"} : ServerEnds(how) PROVE FALSE
  BY <1>23 DEF ServerEnds
<1>24. ASSUME DeviceLost PROVE FALSE
  BY <1>24 DEF DeviceLost
<1>25. ASSUME GuardTrips PROVE FALSE
  BY <1>25 DEF GuardTrips
<1>26. ASSUME GuardEnds("failed") PROVE FALSE
  BY <1>26 DEF GuardEnds
<1>27. ASSUME Crash PROVE FALSE
  BY <1>27 DEF Crash
<1>28. ASSUME ReadCurrent PROVE FALSE
  BY <1>28 DEF ReadCurrent, runVars
<1>29. ASSUME WriteStop PROVE FALSE
  BY <1>29 DEF WriteStop, runVars
<1>30. ASSUME Interrupt PROVE FALSE
  BY <1>30 DEF Interrupt, runVars
<1>31. ASSUME Unlock PROVE FALSE
  BY <1>31 DEF Unlock, runVars
<1>32. ASSUME NEW s \in Services, StartByHand(s) PROVE FALSE
  BY <1>32 DEF StartByHand, serviceVars, runVars
<1>33. ASSUME NEW s \in Services, TakeLock(s) PROVE FALSE
  BY <1>33 DEF TakeLock, serviceVars, runVars
<1>34. ASSUME NEW s \in Services, ShowUp(s) PROVE FALSE
  BY <1>34 DEF ShowUp, serviceVars, runVars
<1>35. ASSUME NEW s \in Services, GetReady(s) PROVE FALSE
  BY <1>35 DEF GetReady, serviceVars, runVars
<1>36. ASSUME NEW s \in Services, EndService(s) PROVE FALSE
  BY <1>36 DEF EndService, serviceVars, runVars
<1>37. ASSUME NEW s \in Services, ReleaseLock(s) PROVE FALSE
  BY <1>37 DEF ReleaseLock, serviceVars, runVars
<1>38. ASSUME NEW s \in Services, WriteOutcome(s) PROVE FALSE
  BY <1>38 DEF WriteOutcome, serviceVars, runVars
<1>39. ASSUME NEW s \in Services, ProcessEnds(s) PROVE FALSE
  BY <1>39 DEF ProcessEnds, serviceVars, runVars
<1>40. QED
  BY <1>1, <1>2, <1>3, <1>4, <1>5, <1>6, <1>7, <1>8, <1>9, <1>10, <1>11, <1>12, <1>13, <1>14,
         <1>15, <1>16, <1>17, <1>18, <1>19, <1>20, <1>21, <1>22, <1>23, <1>24, <1>25, <1>26,
         <1>27, <1>28, <1>29, <1>30, <1>31, <1>32, <1>33, <1>34, <1>35, <1>36, <1>37, <1>38, <1>39
         DEF Next, MainStep, TasksEnd, Faults, Operator, ServiceStep

-----------------------------------------------------------------------------
(* The two promises.  What a step does to what they speak of.                *)

\* The controller works on, and may publish that its run is under way.
Steady ==
    /\ UNCHANGED <<run, opened, job, child, aim, requested, lock>>
    /\ \/ current' = current
       \/ run \in Runs /\ \E p \in Phases \ Published : current' = [run |-> run, phase |-> p]

\* The run's process, if there is one that has not ended, is killed.
Spared == child' = child
Killed ==
    /\ job # "none" /\ ~Exited(run)
    /\ \E to \in {"dead", "dying"} : child' = [child EXCEPT ![run] = to]

Closing ==
    /\ run \in Runs /\ job # "none" /\ job' # "none" /\ (Spared \/ Killed)
    /\ UNCHANGED <<run, opened, aim, requested, lock, current>>

\* The controller is over, with or without a last word.
Leaving ==
    /\ run \in Runs /\ run' = None /\ job' = "none"
    /\ UNCHANGED <<opened, aim, requested, lock>>
    /\ \/ current' = current /\ (Spared \/ Killed)
       \/ /\ pc = "settled" /\ Spared
          /\ current' = [run |-> run, phase |-> IF failed THEN "failed" ELSE "stopped"]

LEMMA Quitting ==
    ASSUME TypeOK, SeatSound, pc \in Trying, NEW error, Quit(error)
    PROVE  Steady
<1>1. run \in Runs
  BY DEF TypeOK, SeatSound, Trying, Looping
<1>2. "stopping" \in Phases \ Published
  BY DEF Phases, Published
<1>3. QED
  BY <1>1, <1>2 DEF Quit, MayPublish, Steady, engineVars, ownVars, backendVars, operatorVars

\* Every step of run() is of one of these kinds.
LEMMA MainKinds ==
    ASSUME TypeOK, SeatSound, MainStep
    PROVE  Steady \/ Closing \/ Leaving \/ Spawn
<1> USE DEF taskVars, engineVars, ownVars, backendVars, operatorVars
<1>1. run \in Runs /\ phase \notin Published
  BY DEF MainStep, Announce, Preflight, Spawn, StartFails, StartTurn, StartCancelled, StartError,
     Look, ProbeAgain, BecomeReady, ServeTurn, ServeCancelled, ServeError, StopHalogen, StopNative,
     StopNothing, Waited, StopFails, CloseJob, Settle, Quiet, TypeOK, SeatSound
<1>2. CASE Announce \/ StartTurn
  <2>1. phase \in Phases \ Published
    BY <1>1 DEF TypeOK
  <2>2. QED
    BY <1>1, <1>2, <2>1 DEF Announce, StartTurn, Publishes, MayPublish, Steady
<1>3. CASE ServeTurn
  <2>1. {phase, "unavailable"} \subseteq Phases \ Published
    BY <1>1 DEF TypeOK, Phases, Published
  <2>2. QED
    BY <1>1, <1>3, <2>1 DEF ServeTurn, MayPublish, Steady
<1>4. CASE StartFails \/ StartCancelled \/ StartError \/ ServeCancelled \/ ServeError
  <2>1. pc \in Trying
    BY <1>4 DEF StartFails, StartCancelled, StartError, ServeCancelled, ServeError, Trying, Looping
  <2>2. Quit(TRUE) \/ Quit(FALSE)
    BY <1>4 DEF StartFails, StartCancelled, StartError, ServeCancelled, ServeError
  <2>3. QED
    BY <2>1, <2>2, Quitting
<1>5. CASE Preflight \/ Look \/ ProbeAgain \/ BecomeReady
  BY <1>5 DEF Preflight, Look, ProbeAgain, BecomeReady, Steady
<1>6. CASE StopHalogen \/ StopNothing \/ StopFails
  BY <1>6 DEF StopHalogen, StopNothing, StopFails, Steady
<1>7. CASE StopNative \/ Waited
  <2>1. job # "none"
    BY <1>7 DEF StopNative, Waited, SeatSound
  <2>2. QED
    BY <1>1, <1>7, <2>1 DEF StopNative, Waited, Close, CloseUnconfirmed, Kill, Become, Closing,
       Spared, Killed
<1>8. CASE CloseJob
  <2>1. job # "none"
    BY <1>8 DEF CloseJob, SeatSound
  <2>2. QED
    BY <1>1, <1>8, <2>1 DEF CloseJob, Close, Kill, Become, Leave, Closing, Leaving, Spared, Killed
<1>9. CASE Settle
  BY <1>1, <1>9 DEF Settle, MayPublish, Leave, Leaving, Spared
<1>10. QED
  BY <1>2, <1>3, <1>4, <1>5, <1>6, <1>7, <1>8, <1>9 DEF MainStep

\* And so is every step of its tasks and every failure.
LEMMA TaskKinds ==
    ASSUME TypeOK, SeatSound, TasksEnd \/ Faults
    PROVE  Steady \/ Closing \/ Leaving
<1> USE DEF taskVars, engineVars, ownVars, backendVars, operatorVars
<1>1. CASE TasksEnd \/ DeviceLost \/ GuardEnds("failed")
  BY <1>1 DEF TasksEnd, DeviceLost, GuardEnds, ServerEnds, Steady
<1>2. CASE GuardTrips
  <2>1. run \in Runs /\ job # "none"
    BY <1>2 DEF GuardTrips, TypeOK, SeatSound, Trying, Looping, Ending
  <2>2. QED
    BY <1>2, <2>1 DEF GuardTrips, Close, CloseUnconfirmed, Kill, Become, Closing, Spared, Killed
<1>3. CASE Crash
  <2>1. run \in Runs
    BY <1>3 DEF Crash, TypeOK
  <2>2. QED
    BY <1>3, <2>1 DEF Crash, Kill, Leave, Leaving, Spared, Killed
<1>4. QED
  BY <1>1, <1>2, <1>3 DEF Faults

StageMap == [s \in Services |-> Stage(s)]
LifeMap == [r \in Runs |-> Life(r)]

\* A job has had its process; the operator knows only runs that have begun.
LEMMA OrderSoundStep ==
    ASSUME IInv, OrderSound, Next
    PROVE  OrderSound'
<1> USE DEF IInv, OrderSound
<1>1. CASE Steady \/ Closing \/ Leaving
  BY <1>1 DEF Steady, Closing, Leaving, Spared, Killed, TypeOK, Services
<1>2. CASE Spawn
  BY <1>2 DEF Spawn, Become, ownVars, operatorVars, TypeOK, Services
<1>3. ASSUME NEW r \in Runs, Open(r) PROVE OrderSound'
  <2>1. run' = r /\ job' = job /\ run = None /\ opened' = opened \cup {r} /\ aim' = aim
    BY <1>3 DEF Open, engineVars, operatorVars
  <2>2. job = "none"
    BY <2>1 DEF SeatSound
  <2>3. QED
    BY <2>1, <2>2
<1>4. CASE Operator
  <2>1. /\ UNCHANGED <<run, job, child, opened>>
        /\ aim' \in {aim, None} \/ (aim' = current.run /\ current.run # None)
    BY <1>4 DEF Operator, ReadCurrent, WriteStop, Interrupt, Unlock, runVars, engineVars, ownVars,
       operatorVars
  <2>2. QED
    BY <2>1 DEF SeatSound
<1>5. ASSUME NEW s \in Services, ServiceStep(s) PROVE OrderSound'
  <2>1. UNCHANGED <<run, job, aim, opened>>
    BY <1>5 DEF ServiceStep, StartByHand, TakeLock, ShowUp, GetReady, EndService, ReleaseLock,
       WriteOutcome, ProcessEnds, serviceVars, runVars, engineVars, ownVars, operatorVars
  <2>2. PICK to \in Living \cup Ended : child' = [child EXCEPT ![s] = to]
    BY <1>5 DEF ServiceStep, StartByHand, TakeLock, ShowUp, GetReady, EndService, ReleaseLock,
       WriteOutcome, ProcessEnds, Become, Living, Ended
  <2>3. run # None => run \in Services /\ child'[run] \in {child[run], to}
    BY <2>2 DEF TypeOK, Services
  <2>4. to # "none"
    BY DEF Living, Ended
  <2>5. QED
    BY <2>1, <2>3, <2>4
<1>6. QED
  BY <1>1, <1>2, <1>3, <1>4, <1>5, MainKinds, TaskKinds DEF Next

LEMMA StageMoves ==
    ASSUME TypeOK, NEW s \in Services, NEW to, child' = [child EXCEPT ![s] = to]
    PROVE  /\ StageMap' = [StageMap EXCEPT ![s] = Stage(s)']
           /\ StageMap[s] = Stage(s) /\ child'[s] = to
<1>1. \A x \in Services : child'[x] = IF x = s THEN to ELSE child[x]
  BY DEF TypeOK
<1>2. \A x \in Services \ {s} : Stage(x)' = Stage(x)
  BY <1>1 DEF Stage
<1>3. QED
  BY <1>1, <1>2 DEF StageMap

\* However a process ends, it leaves the lock where it is.
LEMMA EndsInPlace ==
    ASSUME TypeOK, LockSound, NEW s \in Services, NEW to \in {"dying"} \cup Ended,
           child' = [child EXCEPT ![s] = to], lock' = lock
    PROVE  [Backend!Next]_<<lock, StageMap>>
<1>1. StageMap' = [StageMap EXCEPT ![s] = "over"] /\ StageMap[s] = Stage(s)
  BY StageMoves DEF Stage, Ended
<1>2. CASE Stage(s) = "before"
  BY <1>1, <1>2 DEF Backend!Next, Backend!GiveUp, Backend!To, StageMap
<1>3. CASE Stage(s) = "serving"
  <2>1. lock = s
    BY <1>3 DEF LockSound, Stage
  <2>2. QED
    BY <1>1, <1>3, <2>1 DEF Backend!Next, Backend!End, Backend!To, StageMap
<1>4. CASE Stage(s) = "over"
  BY <1>1, <1>4 DEF StageMap
<1>5. QED
  BY <1>2, <1>3, <1>4 DEF Stage

\* The steps of a service are those of BackendLock.
LEMMA ServiceLocks ==
    ASSUME TypeOK, LockSound, NEW s \in Services, ServiceStep(s)
    PROVE  [Backend!Next]_<<lock, StageMap>>
<1> USE DEF serviceVars, backendVars
<1>1. CASE StartByHand(s)
  <2>1. child' = [child EXCEPT ![s] = "booting"] /\ lock' = lock /\ Stage(s) = "before"
    BY <1>1 DEF StartByHand, Become, Stage
  <2>2. /\ StageMap' = [StageMap EXCEPT ![s] = Stage(s)'] /\ StageMap[s] = "before"
        /\ child'[s] = "booting"
    BY <2>1, StageMoves
  <2>3. QED
    BY <2>1, <2>2 DEF Stage, StageMap
<1>2. CASE TakeLock(s)
  <2>1. child' = [child EXCEPT ![s] = "locked"] /\ lock = None /\ lock' = s /\ Stage(s) = "before"
    BY <1>2 DEF TakeLock, Become, Stage
  <2>2. /\ StageMap' = [StageMap EXCEPT ![s] = Stage(s)'] /\ StageMap[s] = "before"
        /\ child'[s] = "locked"
    BY <2>1, StageMoves
  <2>3. QED
    BY <2>1, <2>2 DEF Stage, StageMap, Backend!Next, Backend!Take, Backend!To
<1>3. CASE ShowUp(s) \/ GetReady(s) \/ EndService(s)
  <2>1. PICK to \in {"starting", "ready", "stopping"} :
          child' = [child EXCEPT ![s] = to] /\ lock' = lock /\ Stage(s) = "serving"
    BY <1>3 DEF ShowUp, GetReady, EndService, Become, Stage
  <2>2. StageMap' = [StageMap EXCEPT ![s] = "serving"] /\ StageMap[s] = "serving"
    BY <2>1, StageMoves DEF Stage
  <2>3. QED
    BY <2>1, <2>2 DEF StageMap
<1>4. CASE ReleaseLock(s)
  <2>1. /\ child' = [child EXCEPT ![s] = "unlocked"] /\ lock' \in {lock, None}
        /\ Stage(s) = "serving" /\ lock = s
    BY <1>4 DEF ReleaseLock, Become, Stage, LockSound
  <2>2. /\ StageMap' = [StageMap EXCEPT ![s] = Stage(s)'] /\ StageMap[s] = "serving"
        /\ child'[s] = "unlocked"
    BY <2>1, StageMoves
  <2>3. QED
    BY <2>1, <2>2 DEF Stage, StageMap, Backend!Next, Backend!End, Backend!To
<1>5. CASE WriteOutcome(s) \/ ProcessEnds(s)
  <2>1. PICK to \in Ended : child' = [child EXCEPT ![s] = to] /\ lock' = lock
    BY <1>5 DEF WriteOutcome, ProcessEnds, Become, Ended
  <2>2. QED
    BY <2>1, EndsInPlace
<1>6. QED
  BY <1>1, <1>2, <1>3, <1>4, <1>5 DEF ServiceStep

\* The controller moves a service only by killing its own, the operator only by
\* unlocking after the end.
LEMMA BackendStep ==
    ASSUME IInv, [Next]_vars
    PROVE  [Backend!Next]_<<lock, StageMap>>
<1> USE DEF IInv
<1>1. CASE UNCHANGED <<child, lock>>
  BY <1>1 DEF StageMap, Stage
<1>2. CASE Closing \/ Leaving
  <2>1. CASE Spared
    BY <1>1, <1>2, <2>1 DEF Closing, Leaving, Spared
  <2>2. CASE Killed
    <3>1. run \in Services /\ lock' = lock
      BY <1>2 DEF Closing, Leaving, Services
    <3>2. PICK to \in {"dead", "dying"} : child' = [child EXCEPT ![run] = to]
      BY <2>2 DEF Killed
    <3>3. to \in {"dying"} \cup Ended
      BY DEF Ended
    <3>4. QED
      BY <3>1, <3>2, <3>3, EndsInPlace
  <2>3. QED
    BY <1>2, <2>1, <2>2 DEF Closing, Leaving
<1>3. CASE Spawn
  <2>1. PICK s \in Services : s = run
    BY <1>3, RunsAssumption DEF Spawn, TypeOK, SeatSound, Services
  <2>2. Stage(s) = "before" /\ lock' = lock /\ child' = [child EXCEPT ![s] = "booting"]
    BY <1>3, <2>1, RunsAssumption DEF Spawn, Become, SeatSound, Stage, backendVars
  <2>3. /\ StageMap' = [StageMap EXCEPT ![s] = Stage(s)'] /\ StageMap[s] = "before"
        /\ child'[s] = "booting"
    BY <2>2, StageMoves
  <2>4. QED
    BY <2>2, <2>3 DEF Stage, StageMap
<1>4. CASE Unlock
  <2>1. lock \in Services /\ Stage(lock) = "over" /\ lock' = None /\ child' = child
    BY <1>4 DEF Unlock, Exited, Ended, Stage, TypeOK
  <2>2. QED
    BY <2>1 DEF StageMap, Stage, Backend!Next, Backend!Clear
<1>5. CASE (\E r \in Runs : Open(r)) \/ ReadCurrent \/ WriteStop \/ Interrupt \/ Steady \/ UNCHANGED vars
  BY <1>1, <1>5 DEF Open, ReadCurrent, WriteStop, Interrupt, Steady, backendVars, vars
<1>6. QED
  BY <1>2, <1>3, <1>4, <1>5, MainKinds, TaskKinds, ServiceLocks DEF Next, Operator

LEMMA LifeMoves ==
    ASSUME TypeOK, NEW r \in Runs, NEW to, child' = [child EXCEPT ![r] = to]
    PROVE  /\ LifeMap' = [LifeMap EXCEPT ![r] = Life(r)']
           /\ LifeMap[r] = Life(r) /\ child'[r] = to
<1>1. \A x \in Runs : child'[x] = IF x = r THEN to ELSE child[x]
  BY DEF TypeOK, Services
<1>2. \A x \in Runs \ {r} : Life(x)' = Life(x)
  BY <1>1 DEF Life, Exited
<1>3. QED
  BY <1>1, <1>2 DEF LifeMap

\* A kill ends the life of the run, or leaves it in doubt.
LEMMA KilledDies ==
    ASSUME TypeOK, OrderSound, NEW r \in Runs, r = run, Killed
    PROVE  Record!Die(r) \/ LifeMap' = LifeMap
<1>1. Life(r) = "some"
  BY RunsAssumption DEF Killed, OrderSound, Life
<1>2. PICK to \in {"dead", "dying"} : child' = [child EXCEPT ![r] = to]
  BY DEF Killed
<1>3. /\ LifeMap' = [LifeMap EXCEPT ![r] = Life(r)'] /\ LifeMap[r] = Life(r)
      /\ child'[r] = to
  BY <1>2, LifeMoves
<1>4. Life(r)' = IF to = "dead" THEN "left" ELSE "some"
  BY <1>3 DEF Life, Exited, Ended
<1>5. QED
  BY <1>1, <1>3, <1>4 DEF Record!Die, LifeMap

\* What is shown of the run is a step of RunRecord, and so is its end.
LEMMA RecordStep ==
    ASSUME IInv, OrderSound, [Next]_vars
    PROVE  [Record!Next]_<<run, opened, LifeMap, requested, ShownEnd>>
<1> USE DEF IInv
<1>1. CASE UNCHANGED <<run, opened, child, requested, current>>
  BY <1>1 DEF LifeMap, Life, Exited, ShownEnd
<1>2. CASE Steady
  <2>1. CASE current' = current
    BY <1>1, <1>2, <2>1 DEF Steady
  <2>2. ASSUME NEW p \in Phases \ Published, run \in Runs, current' = [run |-> run, phase |-> p]
        PROVE  Record!Show
    <3>1. ShownEnd' = [run |-> run, end |-> "open"] /\ run # None
      BY <2>2, RunsAssumption DEF ShownEnd
    <3>2. QED
      BY <1>2, <3>1 DEF Steady, Record!Show, Life, Exited
  <2>3. QED
    BY <1>2, <2>1, <2>2 DEF Steady, Record!Next
<1>3. CASE Closing
  <2>1. UNCHANGED <<run, opened, requested, current, ShownEnd>> /\ run \in Runs
    BY <1>3 DEF Closing, ShownEnd
  <2>2. CASE Spared
    BY <1>1, <2>1, <2>2 DEF Spared
  <2>3. CASE Killed
    <3>1. PICK r \in Runs : r = run
      BY <2>1
    <3>2. Record!Die(r) \/ LifeMap' = LifeMap
      BY <2>3, <3>1, KilledDies
    <3>3. QED
      BY <2>1, <3>2 DEF Record!Next, LifeMap
  <2>4. QED
    BY <1>3, <2>2, <2>3 DEF Closing
<1>4. CASE Leaving
  <2>1. run \in Runs /\ run # None /\ run' = None /\ UNCHANGED <<opened, requested>>
    BY <1>4, RunsAssumption DEF Leaving
  <2>2. CASE current' = current /\ (Spared \/ Killed)
    <3>1. ShownEnd' = ShownEnd
      BY <2>2 DEF ShownEnd
    <3>2. PICK r \in Runs : r = run
      BY <2>1
    <3>3. Record!Die(r) \/ LifeMap' = LifeMap
      BY <2>2, <3>2, KilledDies DEF Spared, LifeMap, Life, Exited
    <3>4. QED
      BY <2>1, <3>1, <3>2, <3>3 DEF Record!Next, Record!Vanish, Record!Die, LifeMap
  <2>3. ASSUME NEW how \in {"failed", "stopped"}, pc = "settled", Spared,
               how = IF failed THEN "failed" ELSE "stopped",
               current' = [run |-> run, phase |-> how]
        PROVE  Record!End(how)
    <3>1. LifeMap' = LifeMap /\ LifeMap[run] # "some"
      BY <2>1, <2>3 DEF Spared, LifeMap, Life, Exited, SeatSound
    <3>2. how = "stopped" => run \in requested
      BY <2>3 DEF AskedSound
    <3>3. ShownEnd' = [run |-> run, end |-> how]
      BY <2>3 DEF ShownEnd, Published
    <3>4. QED
      BY <2>1, <3>1, <3>2, <3>3 DEF Record!End, LifeMap
  <2>4. QED
    BY <1>4, <2>2, <2>3 DEF Leaving, Record!Next, Record!Ends
<1>5. CASE Spawn
  <2>1. PICK r \in Runs : r = run /\ run # None
    BY <1>5, RunsAssumption DEF Spawn, TypeOK, SeatSound
  <2>2. /\ Life(r) = "none" /\ child' = [child EXCEPT ![r] = "booting"]
        /\ UNCHANGED <<run, opened, requested, current, ShownEnd>>
    BY <1>5, <2>1 DEF Spawn, Become, SeatSound, Life, ShownEnd, ownVars, operatorVars
  <2>3. /\ LifeMap' = [LifeMap EXCEPT ![r] = Life(r)'] /\ LifeMap[r] = "none"
        /\ child'[r] = "booting"
    BY <2>2, LifeMoves
  <2>4. Life(r)' = "some"
    BY <2>3 DEF Life, Exited, Ended
  <2>5. QED
    BY <2>1, <2>2, <2>3, <2>4 DEF Record!Next, Record!Launch, LifeMap
<1>6. ASSUME NEW r \in Runs, Open(r) PROVE Record!Open(r)
  BY <1>6 DEF Open, Record!Open, Life, Exited, ShownEnd, operatorVars
<1>7. CASE WriteStop \/ Interrupt
  <2>1. PICK r \in opened : requested' = requested \cup {r}
    BY <1>7 DEF WriteStop, Interrupt, OrderSound, SeatSound
  <2>2. r \in Runs /\ UNCHANGED <<run, opened, child, current>>
    BY <1>7 DEF WriteStop, Interrupt, runVars, ownVars, TypeOK
  <2>3. QED
    BY <2>1, <2>2 DEF Record!Next, Record!Ask, Life, Exited, ShownEnd
<1>8. ASSUME NEW s \in Services, ServiceStep(s)
      PROVE  [Record!Next]_<<run, opened, LifeMap, requested, ShownEnd>>
  <2>1. UNCHANGED <<run, opened, requested, current, ShownEnd>>
    BY <1>8 DEF ServiceStep, StartByHand, TakeLock, ShowUp, GetReady, EndService, ReleaseLock,
       WriteOutcome, ProcessEnds, serviceVars, runVars, ownVars, operatorVars, ShownEnd
  <2>2. PICK to \in Living \cup Ended : child' = [child EXCEPT ![s] = to]
    BY <1>8 DEF ServiceStep, StartByHand, TakeLock, ShowUp, GetReady, EndService, ReleaseLock,
       WriteOutcome, ProcessEnds, Become, Living, Ended
  <2>3. CASE s \notin Runs
    <3>1. \A r \in Runs : child'[r] = child[r]
      BY <2>2, <2>3 DEF TypeOK, Services
    <3>2. QED
      BY <2>1, <3>1 DEF LifeMap, Life, Exited
  <2>4. CASE s \in Runs
    <3>1. Life(s) = "some"
      BY <1>8, <2>4, RunsAssumption DEF ServiceStep, StartByHand, TakeLock, ShowUp, GetReady,
         EndService, ReleaseLock, WriteOutcome, ProcessEnds, Alive, Life, Exited, Living, Ended
    <3>2. Life(s)' \in {"some", "left"}
      BY <2>2, <2>4, LifeMoves DEF Life, Exited, Living, Ended
    <3>3. QED
      BY <2>1, <2>2, <2>4, <3>1, <3>2, LifeMoves DEF Record!Next, Record!Die, LifeMap
  <2>5. QED
    BY <2>3, <2>4
<1>9. CASE ReadCurrent \/ Unlock \/ UNCHANGED vars
  BY <1>1, <1>9 DEF ReadCurrent, Unlock, runVars, ownVars, operatorVars, vars
<1>10. QED
  BY <1>2, <1>3, <1>4, <1>5, <1>6, <1>7, <1>8, <1>9, MainKinds, TaskKinds
  DEF Next, Operator, Record!Next

-----------------------------------------------------------------------------
(* The theorems. *)

\* Nothing runs and nothing is written when the backend directory is fresh.
LEMMA InitSound ==
    Init => IInv /\ FileSound
<1> SUFFICES ASSUME Init PROVE IInv /\ FileSound
  OBVIOUS
<1> USE RunsAssumption DEF Init
<1>1. TypeOK
  BY DEF TypeOK, NoFile, File, ServiceFile, Phases
<1>2. SeatSound
  BY DEF SeatSound, Looping, Trying, Ending, Published, Services
<1>3. StopsSound
  BY DEF StopsSound, Services
<1>4. AskedSound
  BY DEF AskedSound, Trying, Looping
<1>5. LockSound
  BY DEF LockSound, NoFile
<1>6. FileSound
  BY DEF FileSound
<1>7. QED
  BY <1>1, <1>2, <1>3, <1>4, <1>5, <1>6 DEF IInv

\* A step of the controller, the operator or a service preserves the invariant.
LEMMA StepSound ==
    ASSUME IInv, [Next]_vars
    PROVE  IInv'
<1>1. CASE Next
  BY <1>1, TypeOKStep, SeatSoundStep, StopsSoundStep, AskedSoundStep, LockSoundStep DEF IInv
<1>2. CASE UNCHANGED vars
  <2>1. TypeOK' /\ SeatSound'
    BY <1>2 DEF IInv, TypeOK, SeatSound, vars, taskVars, engineVars, ownVars, backendVars,
           operatorVars
  <2>2. StopsSound' /\ AskedSound'
    BY <1>2 DEF IInv, StopsSound, Exited, AskedSound, Faulted, vars, taskVars, engineVars, ownVars,
           operatorVars
  <2>3. LockSound'
    BY <1>2 DEF IInv, LockSound, vars, engineVars, ownVars, backendVars
  <2>4. QED
    BY <2>1, <2>2, <2>3 DEF IInv
<1>3. QED
  BY <1>1, <1>2

\* The inductive invariant of the controller holds in every state.
THEOREM ControllerInvariance == Spec => []IInv
<1>1. Init => IInv
  BY InitSound
<1>2. IInv /\ [Next]_vars => IInv'
  BY StepSound
<1>3. QED
  BY <1>1, <1>2, PTL DEF Spec

\* Type correctness: the files and flags of run() and serve keep their types.
THEOREM ControllerTypes == Spec => []TypeOK
<1>1. IInv => TypeOK
  BY DEF IInv
<1>2. QED
  BY <1>1, ControllerInvariance, PTL

\* Engine.stop tells no service to stop that is alive and not the run's own child,
\* even if pids are reused and the file in the backend directory is another's.
THEOREM OthersSpared == Spec => []SparesOthers
<1>1. IInv => SparesOthers
  BY DEF IInv, StopsSound, SparesOthers, Exited, Alive, Ended, Living
<1>2. QED
  BY <1>1, ControllerInvariance, PTL

\* run() publishes stopped or failed only when nothing of its job is left, also
\* after a stop that raised: a close that raises in turn publishes nothing.
THEOREM EndsAreQuiet == Spec => []EndsQuiet
<1>1. IInv => EndsQuiet
  BY DEF IInv, SeatSound, EndsQuiet, Alive, Ended, Living
<1>2. QED
  BY <1>1, ControllerInvariance, PTL

\* Where no finished service writes over its successor's file, the recognised
\* service has proved its end when run() reaches its last write without error.
THEOREM FilesAreSound ==
    ASSUME LateWrites = FALSE PROVE Spec => [](IInv /\ FileSound)
<1>1. Init => IInv /\ FileSound
  BY InitSound
<1>2. ASSUME IInv, FileSound, [Next]_vars PROVE FileSound'
  <2>1. CASE Next
    BY <1>2, <2>1, FileSoundStep DEF IInv
  <2>2. CASE UNCHANGED vars
    BY <1>2, <2>2 DEF FileSound, vars, engineVars, backendVars
  <2>3. QED
    BY <1>2, <2>1, <2>2
<1>3. (IInv /\ FileSound) /\ [Next]_vars => (IInv /\ FileSound)'
  BY <1>2, StepSound
<1>4. QED
  BY <1>1, <1>3, PTL DEF Spec

\* run() publishes stopped only if this run was asked to stop, by its own
\* stop.json or Ctrl+C, and the service it recognised proved its end.
THEOREM StopsAreHonest ==
    ASSUME LateWrites = FALSE PROVE Spec => StoppedIsHonest
<1>1. ASSUME IInv, FileSound, Next, pc = "settled", current' = [run |-> run, phase |-> "stopped"]
      PROVE  run \in requested /\ (adopted # None => proven[adopted])
  <2>1. current.phase \in Published => current.run # run
    BY <1>1 DEF IInv, SeatSound
  <2>2. current' # current
    BY <1>1, <2>1 DEF Published
  <2>3. Settle
    BY <1>1, <2>2, OnlyEndsPublish DEF IInv
  <2>4. ~failed
    BY <1>1, <2>2, <2>3 DEF Settle, MayPublish
  <2>5. QED
    BY <1>1, <2>4 DEF IInv, AskedSound, FileSound
<1>2. ASSUME IInv, UNCHANGED vars, pc = "settled", current' = [run |-> run, phase |-> "stopped"]
      PROVE  FALSE
  BY <1>2 DEF IInv, SeatSound, Published, vars
<1>3. IInv /\ FileSound /\ [Next]_vars =>
        [pc = "settled" /\ current' = [run |-> run, phase |-> "stopped"] =>
            run \in requested /\ (adopted # None => proven[adopted])]_vars
  BY <1>1, <1>2
<1>4. QED
  BY <1>3, FilesAreSound, PTL DEF Spec, StoppedIsHonest

\* The controller, its engines and services started by hand implement BackendLock:
\* a service that the outer controller watches uses runner.lock as its own model does.
THEOREM BackendLockKept == Spec => ImplementsBackendLock
<1>1. Init => Backend!Init
  BY DEF Init, Backend!Init, Stage
<1>2. IInv /\ [Next]_vars => [Backend!Next]_<<lock, StageMap>>
  BY BackendStep
<1>3. QED
  BY <1>1, <1>2, ControllerInvariance, PTL
  DEF Spec, ImplementsBackendLock, Backend!Spec, StageMap

\* run(), its tasks, the job and the operator implement RunRecord: through crashes,
\* failing files and late orders an end is shown only when nothing of the run is
\* left, and stopped only if this run was asked to stop.
THEOREM RunRecordKept == Spec => ImplementsRunRecord
<1>1. Init => Record!Init /\ OrderSound
  BY DEF Init, Record!Init, Life, ShownEnd, Published, Services, OrderSound
<1>2. IInv /\ OrderSound /\ [Next]_vars => OrderSound'
  <2>1. ASSUME OrderSound, UNCHANGED vars PROVE OrderSound'
    BY <2>1 DEF OrderSound, vars, engineVars, ownVars, operatorVars
  <2>2. QED
    BY <2>1, OrderSoundStep
<1>3. IInv /\ OrderSound /\ [Next]_vars
        => [Record!Next]_<<run, opened, LifeMap, requested, ShownEnd>>
  BY RecordStep
<1>4. QED
  BY <1>1, <1>2, <1>3, ControllerInvariance, PTL
  DEF Spec, ImplementsRunRecord, Record!Spec, LifeMap

=============================================================================
