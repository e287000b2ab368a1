------------------------------ MODULE SlotLease ------------------------------
(***************************************************************************)
(* What the owner of the inference slots promises: work on a slot comes    *)
(* only from its holder, once per lease, and the slot is handed on only    *)
(* when the holder can have no work on it any more.                        *)
(***************************************************************************)
CONSTANTS Requests, Roles, Role, None

VARIABLES holder,   \* the request a role was last leased to
          work      \* of a request: not begun, possibly on the slot, over

Init == holder = [role \in Roles |-> None] /\ work = [r \in Requests |-> "none"]

Idle(role) == holder[role] # None => work[holder[role]] # "out"

Grant(r) ==
    /\ Idle(Role[r]) /\ work[r] = "none" /\ holder[Role[r]] # r
    /\ holder' = [holder EXCEPT ![Role[r]] = r]
    /\ UNCHANGED work

Begin(r) ==
    /\ holder[Role[r]] = r /\ work[r] = "none"
    /\ work' = [work EXCEPT ![r] = "out"]
    /\ UNCHANGED holder

End(r) ==
    /\ work[r] = "out"
    /\ work' = [work EXCEPT ![r] = "over"]
    /\ UNCHANGED holder

Next == \E r \in Requests : Grant(r) \/ Begin(r) \/ End(r)

Spec == Init /\ [][Next]_<<holder, work>>
=============================================================================
