----------------------------- MODULE BackendLock -----------------------------
(***************************************************************************)
(* What runner.lock promises to everybody who uses the directory of the    *)
(* backend: one service at a time gets past the lock, it alone gives the   *)
(* lock back, with its end, and a lock it has left behind is removed only  *)
(* after that end.                                                         *)
(***************************************************************************)
CONSTANTS Services, Nobody

VARIABLES lock,   \* the service named in runner.lock, or Nobody
          stage   \* of a service: before the lock, serving, over

Init == lock = Nobody /\ stage = [s \in Services |-> "before"]

To(s, label) == stage' = [stage EXCEPT ![s] = label]

Take(s) ==
    /\ stage[s] = "before" /\ lock = Nobody
    /\ lock' = s /\ To(s, "serving")

\* A service may fail before it has got the lock.
GiveUp(s) == stage[s] = "before" /\ To(s, "over") /\ UNCHANGED lock

End(s) ==
    /\ stage[s] = "serving" /\ lock = s /\ To(s, "over")
    /\ lock' \in {lock, Nobody}

\* Somebody else removes what a service has left behind.
Clear ==
    /\ lock \in Services /\ stage[lock] = "over" /\ lock' = Nobody
    /\ UNCHANGED stage

Next == Clear \/ \E s \in Services : Take(s) \/ GiveUp(s) \/ End(s)

Spec == Init /\ [][Next]_<<lock, stage>>
=============================================================================
