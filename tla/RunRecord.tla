------------------------------ MODULE RunRecord ------------------------------
(***************************************************************************)
(* What the controller promises to whoever reads its current.json: there   *)
(* is one run at a time; its end is shown, if at all, when no process of   *)
(* it is left and none will come; and it is shown as stopped only if that  *)
(* very run was asked to stop.                                             *)
(***************************************************************************)
CONSTANTS Runs, None

VARIABLES run,      \* the run under way, or None
          opened,   \* runs that have begun
          life,     \* of the processes of a run: none yet, perhaps some, none left
          asked,    \* runs that were asked to stop
          shown     \* what is published: a run, and how it ended if it has

Ends == {"stopped", "failed"}

Init ==
    /\ run = None /\ opened = {} /\ asked = {}
    /\ life = [r \in Runs |-> "none"]
    /\ shown = [run |-> None, end |-> "open"]

Open(r) ==
    /\ run = None /\ r \notin opened
    /\ run' = r /\ opened' = opened \cup {r}
    /\ UNCHANGED <<life, asked, shown>>

Show ==
    /\ run # None /\ shown' = [run |-> run, end |-> "open"]
    /\ UNCHANGED <<run, opened, life, asked>>

Launch ==
    /\ run # None /\ life[run] = "none"
    /\ life' = [life EXCEPT ![run] = "some"]
    /\ UNCHANGED <<run, opened, asked, shown>>

\* The last process of a run, under way or not, ends.
Die(r) == life[r] = "some" /\ life' = [life EXCEPT ![r] = "left"]

Ask(r) ==
    /\ r \in opened /\ asked' = asked \cup {r}
    /\ UNCHANGED <<run, opened, life, shown>>

End(how) ==
    /\ run # None /\ life[run] # "some" /\ (how = "stopped" => run \in asked)
    /\ run' = None /\ shown' = [run |-> run, end |-> how]
    /\ UNCHANGED <<opened, life, asked>>

\* A run goes without a word, and perhaps takes its processes along.
Vanish ==
    /\ run # None /\ run' = None
    /\ Die(run) \/ UNCHANGED life
    /\ UNCHANGED <<opened, asked, shown>>

Next ==
    \/ Show \/ Launch \/ Vanish
    \/ \E r \in Runs : Open(r) \/ Ask(r) \/ (Die(r) /\ UNCHANGED <<run, opened, asked, shown>>)
    \/ \E how \in Ends : End(how)

Spec == Init /\ [][Next]_<<run, opened, life, asked, shown>>
=============================================================================
