--------------------------- MODULE HalogenService ---------------------------
(***************************************************************************)
(* The Halogen service of backends/halogen-wsl2-0.19.1: the controller     *)
(* (service.serve), the independent memory guard (service.guard) and, in   *)
(* the container, lease_supervisor.main with the engine it owns.           *)
(*                                                                         *)
(* They share no memory.  They talk through files of the run directory     *)
(* (controller.json, lease.json, quiesce-request.json, ...), runner.lock   *)
(* and docker, and any of them may die or fail at any step.  A lease is    *)
(* renewed by a higher sequence number; only whether the supervisor has    *)
(* seen the current one matters, so lease.json is abstracted to that.      *)
(*                                                                         *)
(* Time is counted in ticks.  A tick does not pass while the supervisor is *)
(* due to act: it polls every second.  Nothing else is assumed of speeds.  *)
(***************************************************************************)
EXTENDS Integers, FiniteSets

CONSTANTS Runs,       \* run_id of the services started, each used once
          LeaseAge,   \* LEASE_AGE = 45 s, in ticks
          LateStarts  \* a docker start that failed may still take effect later

ASSUME LeaseAgeAssumption == LeaseAge \in Nat \ {0}
ASSUME LateStartsAssumption == LateStarts \in BOOLEAN

NoRun == "none"
Never == -1
ASSUME RunsAssumption == NoRun \notin Runs

VARIABLES
    lock,       \* runner.lock: the run_id in it, or NoRun
    ctl,        \* where serve stands
    cid,        \* container id: "none" (no create yet), "lost", "known"
    published,  \* current-service.json says this run is ready
    cleanup, recovered,  \* the local variables of the finally clause
    guard,      \* the guard process
    failure,    \* guard-failure.json exists
    quiesce,    \* "none", "requested", "acked"
    exitRequest,\* guard-exit-request.json exists
    beat,       \* ticks since controller.json was written
    container,  \* container state; its main process is the lease supervisor
    pending,    \* a failed docker start that may still take effect
    lease,      \* lease.json, seen from the supervisor
    progress,   \* ticks since ProgressLease.last_progress, or Never
    waited,     \* ticks the supervisor has been waiting to launch
    silence     \* ticks since the guard wrote lease.json (history)

ctlVars == <<lock, ctl, cid, published, cleanup, recovered>>
guardVars == <<guard, failure, quiesce, exitRequest>>
boxVars == <<container, pending, lease, progress, waited>>
vars == <<ctlVars, guardVars, boxVars, beat, silence>>

\* serve inside its try, in the order of the code, and its finally clause.
Working == {"admitting", "spawning", "arming", "starting", "loading", "ready"}
Ending == {"stopping", "quiescing", "halting", "recovering", "finishing", "releasing"}
Live == Working \cup Ending
GuardAlive == {"watching", "beaten", "failing"}
Running == {"waiting", "engine"}
MaxSilence == 2 * LeaseAge

TypeOK ==
    /\ lock \in Runs \cup {NoRun}
    /\ ctl \in [Runs -> {"idle", "done", "crashed"} \cup Live]
    /\ cid \in [Runs -> {"none", "lost", "known"}]
    /\ published \in [Runs -> BOOLEAN]
    /\ cleanup \in [Runs -> BOOLEAN] /\ recovered \in [Runs -> BOOLEAN]
    /\ guard \in [Runs -> {"none", "exited", "failed", "dead"} \cup GuardAlive]
    /\ failure \in [Runs -> BOOLEAN]
    /\ quiesce \in [Runs -> {"none", "requested", "acked"}]
    /\ exitRequest \in [Runs -> BOOLEAN]
    /\ beat \in [Runs -> 0..(LeaseAge + 1)]
    /\ container \in [Runs -> {"absent", "created", "exited", "bad"} \cup Running]
    /\ pending \in [Runs -> BOOLEAN]
    /\ lease \in [Runs -> {"absent", "unseen", "seen"}]
    /\ progress \in [Runs -> {Never} \cup 0..LeaseAge]
    /\ waited \in [Runs -> 0..LeaseAge]
    /\ silence \in [Runs -> 0..MaxSilence]

All(x) == [r \in Runs |-> x]

Init ==
    /\ lock = NoRun /\ ctl = All("idle") /\ cid = All("none") /\ published = All(FALSE)
    /\ cleanup = All(FALSE) /\ recovered = All(FALSE)
    /\ guard = All("none") /\ failure = All(FALSE)
    /\ quiesce = All("none") /\ exitRequest = All(FALSE)
    /\ beat = All(0)
    /\ container = All("absent") /\ pending = All(FALSE)
    /\ lease = All("absent") /\ progress = All(Never)
    /\ waited = All(0) /\ silence = All(0)

Goto(r, label) == ctl' = [ctl EXCEPT ![r] = label]

-----------------------------------------------------------------------------
(* serve: start-up *)

\* open('x') creates runner.lock or raises before anything else is done.
Begin(r) ==
    /\ ctl[r] = "idle" /\ lock = NoRun
    /\ lock' = r /\ Goto(r, "admitting")
    /\ beat' = [beat EXCEPT ![r] = 0]
    /\ UNCHANGED <<cid, published, cleanup, recovered, guardVars, boxVars, silence>>

\* exclusive_host: docker ps lists no container.
ExclusiveHost == \A x \in Runs : container[x] \notin Running

\* docker create and the first inspection.  If one of them raises, the
\* container may exist although its id is not known.
Create(r) ==
    /\ ctl[r] = "admitting" /\ ExclusiveHost
    /\ \E made, ok \in BOOLEAN :
          /\ ok => made
          /\ container' = [container EXCEPT ![r] = IF made THEN "created" ELSE "absent"]
          /\ cid' = [cid EXCEPT ![r] = IF ok THEN "known" ELSE "lost"]
          /\ Goto(r, IF ok THEN "spawning" ELSE "stopping")
    /\ UNCHANGED <<lock, published, cleanup, recovered, guardVars, beat, silence,
                   pending, lease, progress, waited>>

SpawnGuard(r) ==
    /\ ctl[r] = "spawning" /\ Goto(r, "arming")
    /\ guard' = [guard EXCEPT ![r] = "watching"]
    /\ UNCHANGED <<lock, cid, published, cleanup, recovered, failure, quiesce, exitRequest,
                   boxVars, beat, silence>>

\* armed.json exists: the guard has written its first lease.
Armed(r) ==
    /\ ctl[r] = "arming" /\ lease[r] # "absent"
    /\ Goto(r, "starting")
    /\ UNCHANGED <<lock, cid, published, cleanup, recovered, guardVars, boxVars, beat, silence>>

\* The supervisor starts with a ProgressLease that has observed nothing.
Boot(r) ==
    /\ container' = [container EXCEPT ![r] = "waiting"]
    /\ lease' = [lease EXCEPT ![r] = IF @ = "absent" THEN "absent" ELSE "unseen"]
    /\ progress' = [progress EXCEPT ![r] = Never]
    /\ waited' = [waited EXCEPT ![r] = 0]

Start(r) ==
    /\ ctl[r] = "starting" /\ ExclusiveHost
    /\ \/ Boot(r) /\ Goto(r, "loading") /\ UNCHANGED pending
       \/ Boot(r) /\ Goto(r, "stopping") /\ UNCHANGED pending
       \/ /\ pending' = [pending EXCEPT ![r] = LateStarts]
          /\ Goto(r, "stopping")
          /\ UNCHANGED <<container, lease, progress, waited>>
    /\ UNCHANGED <<lock, cid, published, cleanup, recovered, guardVars, beat, silence>>

\* /health is ok and the smoke answers were right: the engine is up.
BecomeReady(r) ==
    /\ ctl[r] = "loading" /\ container[r] = "engine"
    /\ Goto(r, "ready")
    /\ published' = [published EXCEPT ![r] = TRUE]
    /\ UNCHANGED <<lock, cid, cleanup, recovered, guardVars, boxVars, beat, silence>>

\* Anything in the try raises (a refused admission, a timeout, a stop request,
\* the end of serve_seconds, a check that failed).
Abort(r) ==
    /\ ctl[r] \in Working
    /\ Goto(r, "stopping")
    /\ UNCHANGED <<lock, cid, published, cleanup, recovered, guardVars, boxVars, beat, silence>>

-----------------------------------------------------------------------------
(* serve: the finally clause *)

\* The stopping state is published, if it can be written.  Without an id the
\* container is looked up by name; that lookup raises if there is none.
BeginCleanup(r) ==
    /\ ctl[r] = "stopping"
    /\ published' \in {published, [published EXCEPT ![r] = FALSE]}
    /\ \/ /\ cid[r] = "none"
          /\ cleanup' = [cleanup EXCEPT ![r] = TRUE]
          /\ Goto(r, "recovering") /\ UNCHANGED cid
       \/ /\ cid[r] = "known" \/ (cid[r] = "lost" /\ container[r] # "absent")
          /\ cid' = [cid EXCEPT ![r] = "known"]
          /\ Goto(r, "quiescing") /\ UNCHANGED cleanup
       \/ /\ cid[r] = "lost"
          /\ Goto(r, "releasing") /\ UNCHANGED <<cid, cleanup>>
    /\ UNCHANGED <<lock, recovered, guardVars, boxVars, beat, silence>>

\* request_quiescence of a guard that still runs.
RequestQuiescence(r) ==
    /\ ctl[r] = "quiescing" /\ guard[r] \in GuardAlive /\ quiesce[r] = "none"
    /\ quiesce' = [quiesce EXCEPT ![r] = "requested"]
    /\ UNCHANGED <<ctlVars, guard, failure, exitRequest, boxVars, beat, silence>>

\* Mutant: only an acknowledgement ends the wait.
EndQuiescence_NeedsAck(r) ==
    /\ ctl[r] = "quiescing" /\ quiesce[r] = "acked"
    /\ Goto(r, "halting")
    /\ UNCHANGED <<lock, cid, published, cleanup, recovered, guardVars, boxVars, beat, silence>>

\* Acknowledged, or given up after 40 s, or there is no live guard.
EndQuiescence(r) ==
    /\ ctl[r] = "quiescing"
    /\ quiesce[r] # "none" \/ guard[r] \notin GuardAlive
    /\ Goto(r, "halting")
    /\ UNCHANGED <<lock, cid, published, cleanup, recovered, guardVars, boxVars, beat, silence>>

\* docker stop of a running container; it may fail and leave it running.
DockerStop(r, ok) ==
    \/ /\ container[r] \in Running
       /\ container' = [container EXCEPT ![r] = "exited"]
    \/ /\ container[r] \in Running /\ ~ok
       /\ UNCHANGED container
    \/ /\ container[r] \notin Running
       /\ ok => container[r] # "bad"
       /\ UNCHANGED container

\* Mutant: cleanup is recorded although the stop was not verified.
StopOwned_Unverified(r) ==
    /\ ctl[r] = "halting"
    /\ \E done, clean \in BOOLEAN :
          /\ DockerStop(r, done)
          /\ cleanup' = [cleanup EXCEPT ![r] = clean]
          /\ Goto(r, "recovering")
    /\ UNCHANGED <<lock, cid, published, recovered, guardVars, beat, silence,
                   pending, lease, progress, waited>>

\* stop_owned raises unless it has seen the container terminal; cleanup also
\* needs the keepalive to have closed cleanly.
StopOwned(r) ==
    /\ ctl[r] = "halting"
    /\ \E done, clean \in BOOLEAN :
          /\ DockerStop(r, done)
          /\ cleanup' = [cleanup EXCEPT ![r] = done /\ clean]
          /\ Goto(r, IF done THEN "recovering" ELSE "releasing")
    /\ UNCHANGED <<lock, cid, published, recovered, guardVars, beat, silence,
                   pending, lease, progress, waited>>

\* Five frames with the memory back, or 180 s are over.  finish_guard asks a
\* live guard to leave; a dead one is an error but needs nothing more.
Recover(r) ==
    /\ ctl[r] = "recovering"
    /\ \E back \in BOOLEAN :
          /\ recovered' = [recovered EXCEPT ![r] = back]
          /\ IF back /\ cleanup[r] /\ guard[r] \in GuardAlive
             THEN /\ exitRequest' = [exitRequest EXCEPT ![r] = TRUE]
                  /\ Goto(r, "finishing")
             ELSE Goto(r, "releasing") /\ UNCHANGED exitRequest
    /\ UNCHANGED <<lock, cid, published, cleanup, guard, failure, quiesce, boxVars, beat, silence>>

\* The guard has left, or 15 s are over.
EndFinish(r) ==
    /\ ctl[r] = "finishing" /\ Goto(r, "releasing")
    /\ UNCHANGED <<lock, cid, published, cleanup, recovered, guardVars, boxVars, beat, silence>>

\* The process ends and its local variables with it.
Exit(r, label) ==
    /\ Goto(r, label)
    /\ cid' = [cid EXCEPT ![r] = "none"]
    /\ cleanup' = [cleanup EXCEPT ![r] = FALSE]
    /\ recovered' = [recovered EXCEPT ![r] = FALSE]

\* Mutant: the lock is released whether or not the container was stopped.
MayUnlock_IgnoresCleanup(r) == recovered[r] /\ ~failure[r]

MayUnlock(r) == cleanup[r] /\ recovered[r] /\ (guard[r] = "none" \/ ~failure[r])

\* The inner finally clause: a guard that is still there although the
\* container is gone is terminated; then the lock, the heartbeat, the state.
\* The requests to a guard that is gone are dropped: nobody reads them again.
Release(r) ==
    /\ ctl[r] = "releasing" /\ Exit(r, "done")
    /\ guard' = [guard EXCEPT ![r] = IF @ \in GuardAlive /\ cleanup[r] THEN "dead" ELSE @]
    /\ lock' = IF MayUnlock(r) THEN NoRun ELSE lock
    /\ published' = [published EXCEPT ![r] = FALSE]
    /\ IF guard'[r] \in GuardAlive
       THEN UNCHANGED <<quiesce, exitRequest>>
       ELSE /\ quiesce' = [quiesce EXCEPT ![r] = "none"]
            /\ exitRequest' = [exitRequest EXCEPT ![r] = FALSE]
    /\ UNCHANGED <<failure, boxVars, beat, silence>>

\* The controller process dies, alone or with its guard: the outer controller
\* closes the job that holds both.
Crash(r) ==
    /\ ctl[r] \in Live /\ Exit(r, "crashed")
    /\ \/ UNCHANGED guard
       \/ /\ guard[r] \in GuardAlive
          /\ guard' = [guard EXCEPT ![r] = "dead"]
    /\ UNCHANGED <<lock, published, failure, quiesce, exitRequest, boxVars, beat, silence>>

-----------------------------------------------------------------------------
(* guard *)

\* Mutant: the guard renews the lease of a stale controller.
GuardBeat_IgnoresController(r) ==
    /\ guard[r] = "watching"
    /\ guard' = [guard EXCEPT ![r] = "beaten"]
    /\ lease' = [lease EXCEPT ![r] = "unseen"]
    /\ silence' = [silence EXCEPT ![r] = 0]
    /\ quiesce' = [quiesce EXCEPT ![r] = IF @ = "requested" THEN "acked" ELSE @]
    /\ UNCHANGED <<ctlVars, failure, exitRequest, beat, container, pending, progress, waited>>

\* One round of the loop up to the exit request: heartbeat, memory frame and
\* ownership are in order, so the lease is renewed.
GuardBeat(r) ==
    /\ guard[r] = "watching" /\ beat[r] <= LeaseAge
    /\ guard' = [guard EXCEPT ![r] = "beaten"]
    /\ lease' = [lease EXCEPT ![r] = "unseen"]
    /\ silence' = [silence EXCEPT ![r] = 0]
    /\ quiesce' = [quiesce EXCEPT ![r] = IF @ = "requested" THEN "acked" ELSE @]
    /\ UNCHANGED <<ctlVars, failure, exitRequest, beat, container, pending, progress, waited>>

\* Mutant: the guard leaves as soon as it has acknowledged quiescence.
GuardTurn_LeavesOnQuiescence(r) ==
    /\ guard[r] = "beaten"
    /\ guard' = [guard EXCEPT ![r] = IF quiesce[r] = "acked" THEN "exited" ELSE "watching"]
    /\ UNCHANGED <<ctlVars, failure, quiesce, exitRequest, boxVars, beat, silence>>

\* The rest of the round.  The guard leaves on request, after it has
\* acknowledged quiescence and has seen the container terminal.
GuardTurn(r) ==
    /\ guard[r] = "beaten"
    /\ exitRequest[r] => quiesce[r] = "acked" /\ container[r] \in {"created", "exited"}
    /\ guard' = [guard EXCEPT ![r] = IF exitRequest[r] THEN "exited" ELSE "watching"]
    /\ UNCHANGED <<ctlVars, failure, quiesce, exitRequest, boxVars, beat, silence>>

\* Any check of the round raises: a stale controller, the memory reserve,
\* ownership, an exit request that must not be followed.  The diagnosis may
\* itself be impossible to write.
GuardFails(r) ==
    /\ guard[r] \in {"watching", "beaten"}
    /\ guard' = [guard EXCEPT ![r] = "failing"]
    /\ failure' \in {failure, [failure EXCEPT ![r] = TRUE]}
    /\ UNCHANGED <<ctlVars, quiesce, exitRequest, boxVars, beat, silence>>

\* Mutant: after a failure the guard goes on guarding.
GuardStops_KeepsGuarding(r) ==
    /\ guard[r] = "failing"
    /\ guard' = [guard EXCEPT ![r] = "watching"]
    /\ \E done \in BOOLEAN : DockerStop(r, done)
    /\ UNCHANGED <<ctlVars, failure, quiesce, exitRequest, pending, lease, progress, waited,
                   beat, silence>>

\* ... and then stops the container itself, as far as docker answers.
GuardStops(r) ==
    /\ guard[r] = "failing"
    /\ guard' = [guard EXCEPT ![r] = "failed"]
    /\ \E done \in BOOLEAN : DockerStop(r, done)
    /\ UNCHANGED <<ctlVars, failure, quiesce, exitRequest, pending, lease, progress, waited,
                   beat, silence>>

GuardCrash(r) ==
    /\ guard[r] \in GuardAlive
    /\ guard' = [guard EXCEPT ![r] = "dead"]
    /\ UNCHANGED <<ctlVars, failure, quiesce, exitRequest, boxVars, beat, silence>>

-----------------------------------------------------------------------------
(* lease_supervisor.main in the container *)

\* The supervisor must act before time passes on.
Due(r) ==
    \/ container[r] = "engine" /\ progress[r] >= LeaseAge
    \/ container[r] = "waiting" /\ waited[r] >= LeaseAge

\* Mutant: the first lease that is read launches the engine.
Observe_LaunchesAtOnce(r) ==
    /\ container[r] \in Running /\ lease[r] = "unseen" /\ ~Due(r)
    /\ lease' = [lease EXCEPT ![r] = "seen"]
    /\ progress' = [progress EXCEPT ![r] = 0]
    /\ container' = [container EXCEPT ![r] = "engine"]
    /\ UNCHANGED <<ctlVars, guardVars, pending, waited, beat, silence>>

\* Mutant: a lease that is read again counts as a renewal.
Observe_UnchangedFileRenews(r) ==
    /\ container[r] \in Running /\ lease[r] # "absent" /\ ~Due(r)
    /\ lease' = [lease EXCEPT ![r] = "seen"]
    /\ progress' = [progress EXCEPT ![r] = 0]
    /\ container' = [container EXCEPT ![r] = IF progress[r] = Never THEN "waiting" ELSE "engine"]
    /\ UNCHANGED <<ctlVars, guardVars, pending, waited, beat, silence>>

\* The first sequence number only sets the base; the next higher one is the
\* renewal that launches the engine, and every later one extends its life.
Observe(r) ==
    /\ container[r] \in Running /\ lease[r] = "unseen" /\ ~Due(r)
    /\ lease' = [lease EXCEPT ![r] = "seen"]
    /\ progress' = [progress EXCEPT ![r] = 0]
    /\ container' = [container EXCEPT ![r] = IF progress[r] = Never THEN "waiting" ELSE "engine"]
    /\ UNCHANGED <<ctlVars, guardVars, pending, waited, beat, silence>>

\* No renewal before the deadline, or no progress for LEASE_AGE: the engine is
\* not launched, or is killed, and the container is terminal.
Expire(r) ==
    /\ Due(r)
    /\ container' = [container EXCEPT ![r] = "exited"]
    /\ UNCHANGED <<ctlVars, guardVars, pending, lease, progress, waited, beat, silence>>

\* The engine exits by itself; "bad" is a state validate_terminal refuses.
EngineExits(r) ==
    /\ container[r] = "engine"
    /\ \E how \in {"exited", "bad"} : container' = [container EXCEPT ![r] = how]
    /\ UNCHANGED <<ctlVars, guardVars, pending, lease, progress, waited, beat, silence>>

LateStart(r) ==
    /\ pending[r] /\ container[r] = "created"
    /\ pending' = [pending EXCEPT ![r] = FALSE]
    /\ Boot(r)
    /\ UNCHANGED <<ctlVars, guardVars, beat, silence>>

-----------------------------------------------------------------------------

Older(age, bound) == IF age < bound THEN age + 1 ELSE age

\* A guard reads the heartbeat of a controller that is gone.
Unbeaten(r) == ctl[r] \notin Live /\ guard[r] \in GuardAlive

\* The heartbeat thread of a live controller writes every 2 s, if it can; its
\* age matters while somebody is there to read it.
Tick ==
    /\ \A r \in Runs : ~Due(r)
    /\ \E stalled \in SUBSET {r \in Runs : ctl[r] \in Live} :
          beat' = [r \in Runs |->
                     IF Unbeaten(r) \/ r \in stalled THEN Older(beat[r], LeaseAge + 1) ELSE 0]
    /\ progress' = [r \in Runs |->
                      IF container[r] \notin Running \/ progress[r] = Never THEN Never
                      ELSE progress[r] + 1]
    /\ waited' = [r \in Runs |-> IF container[r] = "waiting" THEN waited[r] + 1 ELSE 0]
    /\ silence' = [r \in Runs |->
                      IF lease[r] = "absent" \/ container[r] \in {"exited", "bad"} THEN 0
                      ELSE Older(silence[r], MaxSilence)]
    /\ UNCHANGED <<ctlVars, guardVars, container, pending, lease>>

Serve(r) ==
    \/ Begin(r) \/ Create(r) \/ SpawnGuard(r) \/ Armed(r) \/ Start(r) \/ BecomeReady(r)
    \/ Abort(r)

CleanUp(r) ==
    \/ BeginCleanup(r) \/ RequestQuiescence(r) \/ EndQuiescence(r) \/ StopOwned(r)
    \/ Recover(r) \/ EndFinish(r) \/ Release(r)

Guard(r) == GuardBeat(r) \/ GuardTurn(r) \/ GuardFails(r) \/ GuardStops(r)

Supervise(r) == Observe(r) \/ Expire(r)

Next ==
    \/ \E r \in Runs : \/ Serve(r) \/ CleanUp(r) \/ Crash(r)
                       \/ Guard(r) \/ GuardCrash(r)
                       \/ Supervise(r) \/ EngineExits(r) \/ LateStart(r)
    \/ Tick

Spec == Init /\ [][Next]_vars

\* Every wait of the code has a deadline, except the serving loop; the loops of
\* guard and supervisor run as long as their process lives; time passes.
\* While the run is published as ready, the inspector reports a container that
\* does not run, or goes stale within 30 s: either way the guard fails.
Fairness ==
    /\ \A r \in Runs :
          /\ WF_vars(ctl[r] \in Working \ {"ready"} /\ Abort(r))
          /\ WF_vars(ctl[r] = "ready" /\ guard[r] \notin GuardAlive /\ Abort(r))
          /\ WF_vars(CleanUp(r))
          /\ WF_vars(Guard(r))
          /\ WF_vars(published[r] /\ container[r] \notin Running /\ GuardFails(r))
          /\ WF_vars(Supervise(r))
    /\ WF_vars(Tick)

FairSpec == Spec /\ Fairness

-----------------------------------------------------------------------------
(* Properties *)

\* runner.lock covers the container on every path through failures, crashes
\* and retries: while it runs, no other service can begin.
LockCoversContainer == \A r \in Runs : container[r] \in Running => lock = r

\* Never two engines on one machine, not even when a start that was given up
\* takes effect after its run has released the lock.
OneEngine == Cardinality({r \in Runs : container[r] = "engine"}) <= 1

\* "Unchanged files cannot extend life": an engine never outlives the last
\* renewal of its guard by two lease ages, whoever died or hangs: one to
\* notice the renewal, one to live on it.
EngineLeased == \A r \in Runs : container[r] = "engine" => silence[r] < MaxSilence

\* A guard that left of its own accord left no running container behind.
GuardLeavesLast == \A r \in Runs : guard[r] = "exited" => container[r] \notin Running

\* The lock is given back only with the container terminal, the memory back,
\* no guard left and no failure of the guard on record.
UnlockIsEarned ==
    [][\A r \in Runs :
          lock = r /\ lock' # r
             => /\ container[r] \notin Running /\ recovered[r]
                /\ guard'[r] \notin GuardAlive /\ ~failure'[r]]_vars

\* The code before the finally clause, and after its cleanup was proved.
Early == {"idle"} \cup Working
Finishing == {"recovering", "finishing", "releasing"}

\* Of one run: it serves under its lock, a container runs only under the lock
\* and, from then on, a known id; once cleanup is proved, the guard is asked to
\* leave or has left, nothing of the run is running any more.
RunSound(r) ==
    /\ ctl[r] \in Live => lock = r
    /\ container[r] \in Running => lock = r
    /\ ctl[r] \in Working \ {"admitting"} => cid[r] = "known"
    /\ ctl[r] \in {"idle"} \cup Live /\ cid[r] = "none" => container[r] \notin Running
    /\ ~pending[r]
    /\ cleanup[r] => ctl[r] \in Finishing /\ container[r] \notin Running
    /\ exitRequest[r] \/ guard[r] = "exited"
          => ctl[r] \notin Early /\ container[r] \notin Running
    /\ guard[r] = "none" => ~failure[r]

\* Every run is sound: the inductive strengthening of LockCoversContainer,
\* GuardLeavesLast and UnlockIsEarned, for starts that take effect at once or
\* never.
ServiceIInv == TypeOK /\ \A r \in Runs : RunSound(r)

\* The ages of the lease: a renewal not yet noticed is younger than the last
\* progress, and one that was noticed was younger than LeaseAge at that moment.
LeaseSound(r) ==
    /\ container[r] = "waiting" => progress[r] <= waited[r]
    /\ container[r] = "engine" => progress[r] # Never /\ lease[r] # "absent"
    /\ container[r] \in Running /\ progress[r] # Never /\ lease[r] = "unseen"
          => silence[r] <= progress[r]
    /\ container[r] = "engine" /\ lease[r] = "seen" => silence[r] < LeaseAge + progress[r]

\* The engine runs, or its supervisor launches it when it looks next.
Hot(r) ==
    \/ container[r] = "engine"
    \/ container[r] = "waiting" /\ progress[r] # Never /\ lease[r] = "unseen"

\* Of the host: who serves or guards holds the lock, so only the holder's
\* container heats up.  One that is still hot without the lock has kept the
\* holder from creating its own; a container started late stays cold.
HostSound(r) ==
    /\ ctl[r] \in Live \/ guard[r] \in GuardAlive => lock = r
    /\ ctl[r] = "idle" => container[r] = "absent" /\ ~pending[r]
    /\ ctl[r] \in {"idle", "admitting", "spawning"} => guard[r] = "none"
    /\ Hot(r) /\ lock \in Runs \ {r} => container[lock] = "absent" /\ ~pending[lock]
    /\ \A x \in Runs : Hot(r) /\ Hot(x) => r = x

\* The inductive strengthening of EngineLeased and OneEngine; late starts
\* included.
EngineIInv == TypeOK /\ \A r \in Runs : LeaseSound(r) /\ HostSound(r)

Keeping(r) == IF guard[r] = "none" THEN "new"
              ELSE IF guard[r] \in GuardAlive THEN "kept" ELSE "gone"
Engines == {r \in Runs : Hot(r)}
EngineAge == IF Engines = {} THEN 0 ELSE silence[CHOOSE r \in Runs : Hot(r)]

\* Controller, guard, supervisor and docker together keep the promise of
\* EngineLease: an engine at a time, on the lease of a living guard, and none
\* that outlives its guard by two lease ages; late starts included.
Promise == INSTANCE EngineLease WITH
    Patience <- MaxSilence, keeper <- [r \in Runs |-> Keeping(r)], hot <- Engines, age <- EngineAge
ImplementsEngineLease == Promise!Spec

\* serve uses the lock as BackendLock says, crashes and late starts included.
Stage(r) == IF ctl[r] = "idle" THEN "before" ELSE IF ctl[r] \in Live THEN "serving" ELSE "over"
Backend == INSTANCE BackendLock WITH
    Services <- Runs, Nobody <- NoRun, stage <- [r \in Runs |-> Stage(r)]
ImplementsBackendLock == Backend!Spec

\* A crashed controller leaves no engine running: the lease runs out.
OrphanStops == \A r \in Runs : ctl[r] = "crashed" ~> [](container[r] \notin Running)
\* The same of a guard that died or gave up.
GuardLossStops == \A r \in Runs : guard[r] \in {"dead", "failed"} ~> [](container[r] \notin Running)

\* A container that dies while the service is ready ends the service.
DeathNoticed == \A r \in Runs : ctl[r] = "ready" /\ container[r] \notin Running ~> ctl[r] # "ready"

\* The finally clause reaches its end.
CleanupEnds == \A r \in Runs : ctl[r] \in Ending ~> ctl[r] \in {"done", "crashed"}
=============================================================================
