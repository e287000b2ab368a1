----------------------------- MODULE Controller -----------------------------
(***************************************************************************)
(* server/controller.py: successive runs of the controller, each with the  *)
(* engine it starts in a kill-on-close job, next to services that somebody *)
(* starts by hand in the same backend directory, and an operator.          *)
(*                                                                         *)
(* A run of the controller and the engine it starts have the same name     *)
(* here.  controller.lock admits one controller at a time: what a process  *)
(* keeps in memory is one set of variables, empty while there is none.     *)
(* main and the memory guard are tasks of one event loop, so a step ends   *)
(* where the code awaits.  The gateway appears only as the task that       *)
(* serves until stop is set; what happens in it is module Gateway, what    *)
(* happens between the lock and the end of a service HalogenService.       *)
(***************************************************************************)
CONSTANTS Runs,      \* runs of the controller, and the engines they start
          Native,    \* those whose profile starts a native engine
          Foreign,   \* Halogen services started by hand
          PidReuse,  \* may a process of the job get the pid of a dead service?
          LateWrites,\* may a service still write its end over its successor's file?
          None

ASSUME RunsAssumption ==
    /\ Native \subseteq Runs /\ Runs \cap Foreign = {} /\ None \notin Runs \cup Foreign
    /\ PidReuse \in BOOLEAN /\ LateWrites \in BOOLEAN

VARIABLES
    run,        \* the run of the live controller, or None
    pc,         \* where its run() is
    phase,      \* state['phase'], published in current.json
    failed,     \* error is set
    stop,       \* the event stop
    guard,      \* the task memory_guard
    server,     \* the task serve(gateway, port, stop)
    lost,       \* native_device_lost
    job,        \* the job object of the child
    previous, adopted,   \* Engine.previous_run and Engine.halogen_run
    opened,              \* run ids that were given out
    current, stopFile,   \* current.json and stop.json of the controller
    lock,       \* runner.lock of the backend
    service,    \* current-service.json of the backend
    told,       \* whose run_id was asked for when stop.json was written for a service
    child,      \* where the process of an engine or service is
    proven,     \* history: the service ended with cleanup and recovery proved
    aim,        \* the run the operator's stop command has read
    requested   \* history: runs that were asked to stop

taskVars == <<stop, guard, server>>
engineVars == <<job, previous, adopted>>
ownVars == <<run, opened>>
backendVars == <<lock, service, proven>>
operatorVars == <<stopFile, aim, requested>>
vars == <<pc, phase, failed, taskVars, lost, engineVars, ownVars, current, backendVars, told, child,
          operatorVars>>

Services == Runs \cup Foreign
Halogen == Runs \ Native
Looping == {"starting", "looking", "probing", "serving"}
Trying == {"opening", "launching", "spawning"} \cup Looping
Ending == {"winding", "waiting", "closing", "settled"}
Published == {"stopped", "failed"}
Phases == {"none", "starting", "ready", "unavailable", "stopping"} \cup Published
Living == {"booting", "locked", "starting", "ready", "stopping", "unlocked"}
Ended == {"exited", "dead"}
File == [run : Services \cup {None}, phase : Phases]
ServiceFile == [run : Services \cup {None}, phase : Phases, proven : BOOLEAN]
NoFile == [run |-> None, phase |-> "none", proven |-> FALSE]

TypeOK ==
    /\ run \in Runs \cup {None} /\ opened \subseteq Runs
    /\ pc \in {"none"} \cup Trying \cup Ending /\ phase \in Phases
    /\ failed \in BOOLEAN /\ stop \in BOOLEAN
    /\ guard \in {"none", "watching", "ok", "failed"}
    /\ server \in {"none", "serving", "closed", "failed"}
    /\ lost \in BOOLEAN /\ job \in {"none", "open", "closed"}
    /\ previous \in Services \cup {None} /\ adopted \in Services \cup {None}
    /\ current \in File /\ stopFile \in Runs \cup {None}
    /\ lock \in Services \cup {None} /\ service \in ServiceFile
    /\ told \in [Services -> Runs \cup {None}]
    /\ child \in [Services -> {"none", "dying"} \cup Living \cup Ended]
    /\ proven \in [Services -> BOOLEAN]
    /\ aim \in Runs \cup {None} /\ requested \subseteq Runs

Init ==
    /\ run = None /\ opened = {} /\ pc = "none" /\ phase = "none"
    /\ failed = FALSE /\ stop = FALSE /\ guard = "none" /\ server = "none" /\ lost = FALSE
    /\ job = "none" /\ previous = None /\ adopted = None
    /\ current = [run |-> None, phase |-> "none"] /\ stopFile = None
    /\ lock = None /\ service = NoFile
    /\ told = [s \in Services |-> None] /\ child = [s \in Services |-> "none"]
    /\ proven = [s \in Services |-> FALSE]
    /\ aim = None /\ requested = {}

Become(s, status) == child' = [child EXCEPT ![s] = status]
Alive(s) == child[s] \in Living
Exited(s) == child[s] \in Ended

\* atomic(LOCAL/'current.json', state); an OSError leaves the file as it was.
Publishes(p) == current' = [run |-> run, phase |-> p]
MayPublish(p) == current' \in {current, [run |-> run, phase |-> p]}

\* OwnedProcess.close: the job kills what is in it, and the exit is awaited for
\* five seconds.
Kill == child' = IF job = "none" \/ Exited(run) THEN child ELSE [child EXCEPT ![run] = "dead"]
Close == job' = "closed" /\ Kill
CloseUnconfirmed == ~Exited(run) /\ job' = "closed" /\ Become(run, "dying")

\* Mutant: a stop.json left from another run counts.
Cancelled_AnyRun == stop \/ stopFile # None
\* cancelled(): the event, or a stop.json that names this run.
Cancelled == stop \/ stopFile = run

\* The process of the controller is over, and all it kept in memory.
Leave ==
    /\ run' = None /\ pc' = "none" /\ phase' = "none" /\ failed' = FALSE /\ stop' = FALSE
    /\ guard' = "none" /\ server' = "none" /\ lost' = FALSE
    /\ job' = "none" /\ previous' = None /\ adopted' = None
    /\ UNCHANGED <<opened, backendVars, told, operatorVars>>

-----------------------------------------------------------------------------
(* run: start-up *)

\* main holds controller.lock for the whole run; a second controller fails
\* before it writes anything.
Open(r) ==
    /\ run = None /\ r \notin opened
    /\ run' = r /\ opened' = opened \cup {r} /\ pc' = "opening" /\ phase' = "starting"
    /\ UNCHANGED <<failed, taskVars, lost, engineVars, current, backendVars, told, child,
                   operatorVars>>
Announce ==
    /\ pc = "opening" /\ pc' = "launching" /\ Publishes(phase)
    /\ UNCHANGED <<phase, failed, taskVars, lost, engineVars, ownVars, backendVars, told, child,
                   operatorVars>>

\* Into the finally clause: publish stopping if possible, drain, set stop.
Quit(error) ==
    /\ pc' = "winding" /\ failed' = error /\ stop' = TRUE
    /\ phase' = "stopping" /\ MayPublish("stopping")
    /\ UNCHANGED <<guard, server, lost, engineVars, ownVars, backendVars, told, child, operatorVars>>

\* The ports are free, and Engine.start finds no lock and notes the last run.
Preflight ==
    /\ pc = "launching" /\ (run \in Halogen => lock = None)
    /\ pc' = "spawning"
    /\ previous' = IF run \in Halogen THEN service.run ELSE None
    /\ UNCHANGED <<phase, failed, taskVars, lost, job, adopted, ownVars, current, backendVars, told,
                   child, operatorVars>>

\* JobChild and the task memory_guard.
Spawn ==
    /\ pc = "spawning" /\ pc' = "starting"
    /\ job' = "open" /\ Become(run, "booting") /\ guard' = "watching"
    /\ UNCHANGED <<phase, failed, stop, server, lost, previous, adopted, ownVars, current,
                   backendVars, told, operatorVars>>

\* The state cannot be written, a port is occupied, ownership is unresolved, or
\* the process does not start.
StartFails == pc \in {"opening", "launching", "spawning"} /\ Quit(TRUE)

\* The checks that precede every wait for readiness, and the heartbeat.
StartTurn ==
    /\ pc = "starting" /\ guard # "failed" /\ ~Cancelled /\ ~Exited(run)
    /\ pc' = "looking" /\ MayPublish(phase)
    /\ UNCHANGED <<phase, failed, taskVars, lost, engineVars, ownVars, backendVars, told, child,
                   operatorVars>>
StartCancelled == pc = "starting" /\ guard # "failed" /\ Cancelled /\ Quit(FALSE)

\* The guard's error, an exited engine, the deadline, a file that cannot be
\* read or written, an answer nobody expected.
StartError ==
    /\ \/ pc = "starting" /\ (guard = "failed" \/ ~Cancelled)
       \/ pc \in {"looking", "probing"}
    /\ Quit(TRUE)

-----------------------------------------------------------------------------
(* Engine.state: which service is ours *)

\* Mutant: the file is believed without asking the job.
MayHold_Unchecked(s) == s # None
\* JobChild.contains for the pid in the file: certain for the live child of the
\* run, impossible for a live process outside the job; a pid of the dead may
\* still, or again, belong to a process of the job.
MayHold(s) == s = run \/ (PidReuse /\ Alive(run) /\ Exited(s))

\* halogen_run after a call of state().
Views ==
    LET s == service.run IN
    IF /\ adopted = None /\ job = "open"
       /\ service.phase \in {"starting", "ready"} /\ s # previous
    THEN {a \in {None, s} : IF a = s THEN MayHold(s) ELSE ~(s = run /\ Alive(s))}
    ELSE {adopted}
Shown(a) == a # None /\ service.run = a

\* A Halogen engine is probed only when its state is there.
Look ==
    /\ pc = "looking"
    /\ IF run \in Native
       THEN pc' = "probing" /\ UNCHANGED adopted
       ELSE \E a \in Views :
               adopted' = a /\ pc' = IF Shown(a) THEN "probing" ELSE "starting"
    /\ UNCHANGED <<phase, failed, taskVars, lost, job, previous, ownVars, current, backendVars, told,
                   child, operatorVars>>

ProbeAgain ==
    /\ pc = "probing" /\ pc' = "starting"
    /\ UNCHANGED <<phase, failed, taskVars, lost, engineVars, ownVars, current, backendVars, told,
                   child, operatorVars>>

BecomeReady ==
    /\ pc = "probing" /\ pc' = "serving" /\ phase' = "ready" /\ server' = "serving"
    /\ UNCHANGED <<failed, stop, guard, lost, engineVars, ownVars, current, backendVars, told, child,
                   operatorVars>>

-----------------------------------------------------------------------------
(* run: the main loop and the tasks beside it *)

\* publish_unavailability, the checks, and the heartbeat.
ServeTurn ==
    /\ pc = "serving" /\ ~Cancelled
    /\ guard # "failed" /\ server = "serving" /\ ~Exited(run)
    /\ phase' = (IF lost THEN "unavailable" ELSE phase) /\ MayPublish(phase')
    /\ UNCHANGED <<pc, failed, taskVars, lost, engineVars, ownVars, backendVars, told, child,
                   operatorVars>>
ServeCancelled == pc = "serving" /\ Cancelled /\ Quit(FALSE)
ServeError == pc = "serving" /\ ~Cancelled /\ Quit(TRUE)

\* The reader thread recognises the device loss in the engine's output.
DeviceLost ==
    /\ run \in Native /\ Alive(run) /\ ~lost /\ lost' = TRUE
    /\ UNCHANGED <<pc, phase, failed, taskVars, engineVars, ownVars, current, backendVars, told,
                   child, operatorVars>>

\* memory_guard: the reserve is crossed.  A native job is closed at once; if
\* its end is not confirmed the task ends before it sets stop.
GuardTrips ==
    /\ guard = "watching" /\ ~stop /\ guard' = "failed"
    /\ \/ stop' = TRUE /\ IF run \in Native THEN Close ELSE UNCHANGED <<job, child>>
       \/ run \in Native /\ CloseUnconfirmed /\ UNCHANGED stop
    /\ UNCHANGED <<pc, phase, failed, server, lost, previous, adopted, ownVars, current, backendVars,
                   told, operatorVars>>

\* The guard cannot read the telemetry, or finds stop set.
GuardEnds(how) ==
    /\ guard = "watching" /\ stop = (how = "ok") /\ guard' = how
    /\ UNCHANGED <<pc, phase, failed, stop, server, lost, engineVars, ownVars, current, backendVars,
                   told, child, operatorVars>>

\* serve ends with stop, or because the listener or the cleanup raises.
ServerEnds(how) ==
    /\ server = "serving" /\ (how = "closed" => stop) /\ server' = how
    /\ UNCHANGED <<pc, phase, failed, stop, guard, lost, engineVars, ownVars, current, backendVars,
                   told, child, operatorVars>>

-----------------------------------------------------------------------------
(* run: the finally clause *)

\* Guard and gateway have ended; their errors count.
Quiet == pc = "winding" /\ guard # "watching" /\ server # "serving"
Faulted == failed \/ guard = "failed" \/ server = "failed"

\* engine.stop up to the wait for its process.  A Halogen service that is ours
\* and has not ended is told to stop.
StopHalogen ==
    /\ Quiet /\ run \in Halogen /\ job # "none"
    /\ failed' = Faulted /\ pc' = "waiting"
    /\ \E a \in Views :
          /\ adopted' = a
          /\ told' = IF Shown(a) /\ service.phase \notin Published
                     THEN [told EXCEPT ![a] = run] ELSE told
    /\ UNCHANGED <<phase, taskVars, lost, job, previous, ownVars, current, backendVars, child,
                   operatorVars>>

\* A native engine that has not ended loses its job.
StopNative ==
    /\ Quiet /\ run \in Native /\ job # "none"
    /\ \/ Close /\ pc' = "settled" /\ failed' = Faulted
       \/ CloseUnconfirmed /\ pc' = "closing" /\ failed' = TRUE
    /\ UNCHANGED <<phase, taskVars, lost, previous, adopted, ownVars, current, backendVars, told,
                   operatorVars>>

\* engine.stop returns at once: there is no process.
StopNothing ==
    /\ Quiet /\ job = "none" /\ failed' = Faulted /\ pc' = "settled"
    /\ UNCHANGED <<phase, taskVars, lost, engineVars, ownVars, current, backendVars, told, child,
                   operatorVars>>

\* The process ended within 240 s: look at the outcome, close the job.
Waited ==
    /\ pc = "waiting" /\ Exited(run)
    /\ \E a \in Views :
          /\ adopted' = a
          /\ IF Shown(a) /\ ~service.proven
             THEN failed' = TRUE /\ pc' = "closing" /\ UNCHANGED <<job, child>>
             ELSE Close /\ pc' = "settled" /\ UNCHANGED failed
    /\ UNCHANGED <<phase, taskVars, lost, previous, ownVars, current, backendVars, told, operatorVars>>

\* Mutant: the wait for the process has no limit.
StopFails_NoLimit ==
    /\ Quiet /\ run \in Halogen /\ job # "none"
    /\ failed' = TRUE /\ pc' = "closing"
    /\ UNCHANGED <<phase, taskVars, lost, engineVars, ownVars, current, backendVars, told, child,
                   operatorVars>>
\* engine.stop raises: the process did not end in time, or a file could not be
\* read or written.
StopFails ==
    /\ \/ Quiet /\ run \in Halogen /\ job # "none"
       \/ pc = "waiting"
    /\ failed' = TRUE /\ pc' = "closing"
    /\ UNCHANGED <<phase, taskVars, lost, engineVars, ownVars, current, backendVars, told, child,
                   operatorVars>>

\* Mutant: a failed stop leaves the job open.
CloseJob_Open ==
    /\ pc = "closing" /\ pc' = "settled"
    /\ UNCHANGED <<phase, failed, taskVars, lost, engineVars, ownVars, current, backendVars, told,
                   child, operatorVars>>
\* The last resort; if even this raises, run() ends without a final state.
CloseJob ==
    /\ pc = "closing"
    /\ \/ /\ Close /\ pc' = "settled"
          /\ UNCHANGED <<phase, failed, taskVars, lost, previous, adopted, ownVars, current,
                         backendVars, told, operatorVars>>
       \/ ~Exited(run) /\ Become(run, "dying") /\ Leave /\ UNCHANGED current

Settle ==
    /\ pc = "settled"
    /\ MayPublish(IF failed THEN "failed" ELSE "stopped")
    /\ Leave /\ UNCHANGED child

\* The controller is killed: the job is closed with its handle.
Crash == run # None /\ Kill /\ Leave /\ UNCHANGED current

-----------------------------------------------------------------------------
(* control: the operator *)

runVars == <<pc, phase, failed, guard, server, lost, engineVars, ownVars, current, told>>
ReadCurrent ==
    /\ aim = None /\ current.run # None /\ current.phase \notin Published
    /\ aim' = current.run
    /\ UNCHANGED <<runVars, stop, backendVars, child, stopFile, requested>>
WriteStop ==
    /\ aim # None
    /\ stopFile' = aim /\ requested' = requested \cup {aim} /\ aim' = None
    /\ UNCHANGED <<runVars, stop, backendVars, child>>

\* Ctrl+C in the console of the controller.
Interrupt ==
    /\ run # None /\ stop' = TRUE /\ requested' = requested \cup {run}
    /\ UNCHANGED <<runVars, backendVars, child, stopFile, aim>>

\* A service that ended without proof keeps its lock until somebody has cleaned
\* up; he waits for the controller's end first.
Unlock ==
    /\ lock # None /\ Exited(lock) /\ run = None /\ lock' = None
    /\ UNCHANGED <<runVars, stop, service, proven, child, operatorVars>>

-----------------------------------------------------------------------------
(* serve of the Halogen service, as far as the backend directory shows it *)

serviceVars == <<runVars, stop, operatorVars>>
Writes(s, p, ok) == service' = [run |-> s, phase |-> p, proven |-> ok]

StartByHand(s) ==
    /\ s \in Foreign /\ child[s] = "none" /\ Become(s, "booting")
    /\ UNCHANGED <<serviceVars, backendVars>>

\* Mutant: an existing runner.lock is overwritten.
TakeLock_Shared(s) ==
    /\ s \notin Native /\ child[s] = "booting"
    /\ lock' = s /\ Become(s, "locked")
    /\ UNCHANGED <<serviceVars, service, proven>>
\* Preflight and checksums take minutes; then runner.lock is created, or not.
TakeLock(s) ==
    /\ s \notin Native /\ child[s] = "booting" /\ lock = None
    /\ lock' = s /\ Become(s, "locked")
    /\ UNCHANGED <<serviceVars, service, proven>>

ShowUp(s) ==
    /\ child[s] = "locked" /\ (LateWrites \/ \A x \in Services : child[x] # "unlocked")
    /\ Writes(s, "starting", FALSE) /\ Become(s, "starting")
    /\ UNCHANGED <<serviceVars, lock, proven>>
GetReady(s) ==
    /\ child[s] = "starting"
    /\ Writes(s, "ready", FALSE) /\ Become(s, "ready")
    /\ UNCHANGED <<serviceVars, lock, proven>>

\* It was told to, or for reasons of its own.  The write may fail.
EndService(s) ==
    /\ child[s] \in {"starting", "ready"} /\ Become(s, "stopping")
    /\ Writes(s, "stopping", FALSE) \/ UNCHANGED service
    /\ UNCHANGED <<serviceVars, lock, proven>>

\* The lock goes only after proved cleanup and recovery, and not even then if
\* the guard has failed.
ReleaseLock(s) ==
    /\ child[s] = "stopping" /\ Become(s, "unlocked")
    /\ \E ok \in BOOLEAN :
          /\ proven' = [proven EXCEPT ![s] = ok]
          /\ lock' \in IF ok THEN {lock, None} ELSE {lock}
    /\ UNCHANGED <<serviceVars, service>>

\* The last state is written after the lock is gone.
WriteOutcome(s) ==
    /\ child[s] = "unlocked" /\ Become(s, "exited")
    /\ (\E p \in Published : Writes(s, p, proven[s])) \/ UNCHANGED service
    /\ UNCHANGED <<serviceVars, lock, proven>>

\* The process fails before its try, is killed, or a native engine ends.
ProcessEnds(s) ==
    /\ Alive(s) \/ child[s] = "dying"
    /\ Become(s, "dead")
    /\ UNCHANGED <<serviceVars, backendVars>>

-----------------------------------------------------------------------------
MainStep ==
    \/ Announce \/ Preflight \/ Spawn \/ StartFails \/ StartTurn \/ StartCancelled \/ StartError
    \/ Look \/ ProbeAgain \/ BecomeReady
    \/ ServeTurn \/ ServeCancelled \/ ServeError
    \/ StopHalogen \/ StopNative \/ StopNothing \/ Waited \/ StopFails \/ CloseJob \/ Settle
TasksEnd == GuardEnds("ok") \/ \E how \in {"closed", "failed"} : ServerEnds(how)
Faults == DeviceLost \/ GuardTrips \/ GuardEnds("failed") \/ Crash
Operator == ReadCurrent \/ WriteStop \/ Interrupt \/ Unlock
ServiceStep(s) ==
    \/ StartByHand(s) \/ TakeLock(s) \/ ShowUp(s) \/ GetReady(s)
    \/ EndService(s) \/ ReleaseLock(s) \/ WriteOutcome(s) \/ ProcessEnds(s)

Next ==
    \/ \E r \in Runs : Open(r)
    \/ MainStep \/ TasksEnd \/ Faults \/ Operator
    \/ \E s \in Services : ServiceStep(s)

Spec == Init /\ [][Next]_vars

\* The event loop runs on, the guard wakes every half second, the gateway closes
\* within its own limits (ShutdownCompletes of Gateway), waits have deadlines.
FairSpec == Spec /\ WF_vars(MainStep) /\ WF_vars(GuardEnds("ok")) /\ WF_vars(ServerEnds("closed"))

-----------------------------------------------------------------------------
\* No run ever stops somebody else's service: whoever got a stop.json from a run
\* is the run's own child, or had died before.
SparesOthers ==
    \A s \in Services : told[s] # None /\ Alive(s) => told[s] = s

\* STOPPED may be relied on: once a run has published its end nothing is left of
\* what it started in its job.
EndsQuiet ==
    current.phase \in Published => ~Alive(current.run) /\ child[current.run] # "dying"

\* A run that ends without an error was asked to stop, itself and not one of its
\* predecessors, and the service it had recognised proved cleanup and recovery.
StoppedIsHonest ==
    [][pc = "settled" /\ current' = [run |-> run, phase |-> "stopped"] =>
          run \in requested /\ (adopted # None => proven[adopted])]_vars

\* The runs keep the promise of RunRecord through every failure of engine, guard,
\* gateway, files and job, crashes of the controller and orders that come late.
Life(r) == IF child[r] = "none" THEN "none" ELSE IF Exited(r) THEN "left" ELSE "some"
ShownEnd == [run |-> current.run, end |-> IF current.phase \in Published THEN current.phase ELSE "open"]
Record == INSTANCE RunRecord WITH
    life <- [r \in Runs |-> Life(r)], asked <- requested, shown <- ShownEnd
ImplementsRunRecord == Record!Spec

\* Whoever starts services and whoever kills them, all of them use the lock as
\* BackendLock says: what Controller assumes of a service is what HalogenService
\* does.
Stage(s) == IF child[s] \in {"none", "booting"} THEN "before"
            ELSE IF child[s] \in {"locked", "starting", "ready", "stopping"} THEN "serving" ELSE "over"
Backend == INSTANCE BackendLock WITH
    Nobody <- None, stage <- [s \in Services |-> Stage(s)]
ImplementsBackendLock == Backend!Spec

-----------------------------------------------------------------------------
\* What the invariants rest on.  What the controller holds while it is there,
\* and what is left of a run that is over.
SeatSound ==
    /\ run = None <=> pc = "none"
    /\ run = None => job = "none" /\ adopted = None /\ ~stop /\ guard = "none"
    /\ pc \in {"opening", "launching", "spawning"} => job = "none" /\ guard = "none"
    /\ run # None => run \in opened /\ phase \notin Published
    /\ run \in Native => adopted = None
    /\ job = "none" => adopted = None /\ (run # None => child[run] = "none")
    /\ pc \in Looping \cup {"waiting", "closing"} => job # "none"
    /\ pc \in Ending => stop
    /\ pc = "waiting" => run \in Halogen
    /\ pc = "settled" => child[run] \in {"none"} \cup Ended
    /\ \A r \in Runs : r # run => child[r] \in {"none", "dying"} \cup Ended
    /\ \A r \in Runs \ opened : child[r] = "none"
    /\ current.run # None => current.run \in opened
    /\ current.phase \in Published =>
          current.run \in Runs \ {run} /\ child[current.run] \in {"none"} \cup Ended

\* What is recognised or told to stop is one's own or dead for good.
StopsSound ==
    /\ adopted \in {None, run} \/ Exited(adopted)
    /\ \A s \in Services : told[s] \in {None, s} \/ Exited(s)

\* Who has set stop, and what was made of it.
AskedSound ==
    /\ stopFile # None => stopFile \in requested
    /\ pc \in Trying /\ stop => run \in requested \/ guard = "failed"
    /\ pc = "winding" => run \in requested \/ Faulted
    /\ pc = "closing" => failed
    /\ pc \in {"waiting", "settled"} => run \in requested \/ failed

\* The lock and the file of the backend: a service past the one and before the
\* end of the other holds the lock, and keeps it unless its end was proved.
LockSound ==
    /\ \A s \in Services : child[s] \in {"locked", "starting", "ready", "stopping"} => lock = s
    /\ \A s \in Services : child[s] = "unlocked" => lock = s \/ proven[s]
    /\ \A s \in Services : proven[s] => child[s] \in {"unlocked", "dying"} \cup Ended
    /\ service.run # None => child[service.run] \notin {"none", "booting", "locked"}
    /\ service.proven => service.run # None /\ proven[service.run]
    /\ run \in Halogen /\ (pc = "spawning" \/ job # "none")
          /\ service.run \notin {None, previous}
          => lock = service.run \/ proven[service.run]
    /\ adopted # None => lock = adopted \/ proven[adopted]

\* Without late writes the file names the recognised service to its proved end.
FileSound ==
    /\ adopted # None /\ ~proven[adopted] => service.run = adopted
    /\ \A s \in Services : child[s] = "unlocked" /\ lock \notin {None, s} =>
          service.run # lock /\ child[lock] \in {"locked", "dead", "dying"}
    /\ pc = "settled" /\ ~failed /\ adopted # None => proven[adopted]

\* What RunRecord needs besides: a job has had its process, and stop orders are
\* for runs that have begun.
OrderSound ==
    /\ run # None /\ job # "none" => child[run] # "none"
    /\ aim # None => aim \in opened

IInv == TypeOK /\ SeatSound /\ StopsSound /\ AskedSound /\ LockSound

\* A run that is asked to stop, loses its engine or its memory reserve ends,
\* although nothing is assumed of the engine and its service.
Doomed(r) == run = r /\ (Cancelled \/ guard = "failed" \/ (job # "none" /\ Exited(r)))
RunEnds == \A r \in Runs : Doomed(r) ~> run # r
=============================================================================
