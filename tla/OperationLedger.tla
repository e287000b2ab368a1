--------------------------- MODULE OperationLedger ---------------------------
(***************************************************************************)
(* What the journal promises about business writes, independently of       *)
(* tasks, scopes, questions and restarts: a write is claimed at most once, *)
(* only while no other claim is unresolved, and an unknown outcome ends by *)
(* evidence and never by a new claim.                                      *)
(***************************************************************************)
CONSTANT Writes

VARIABLE status

Init == status = [w \in Writes |-> "new"]

Set(W, to) == [w \in Writes |-> IF w \in W THEN to ELSE status[w]]

\* Single flight: unresolved claims exclude every other one.
Claim(w) ==
    /\ status[w] = "new"
    /\ \A x \in Writes : status[x] \notin {"claimed", "unknown"}
    /\ status' = Set({w}, "claimed")

Settle(w) ==
    /\ status[w] = "claimed"
    /\ status' = Set({w}, "settled")

Lose(w) ==
    /\ status[w] = "claimed"
    /\ status' = Set({w}, "unknown")

\* Writes that were never claimed may be given up for good.
Withdraw(W) ==
    /\ \A w \in W : status[w] = "new"
    /\ status' = Set(W, "withdrawn")

\* Evidence settles an unknown write and gives up what followed it.
Clear(w, W) ==
    /\ status[w] = "unknown" /\ \A x \in W : status[x] = "new"
    /\ status' = [x \in Writes |-> IF x = w THEN "settled"
                                   ELSE IF x \in W THEN "withdrawn" ELSE status[x]]

Next ==
    \/ \E w \in Writes : Claim(w) \/ Settle(w) \/ Lose(w)
    \/ \E W \in SUBSET Writes : Withdraw(W) \/ \E w \in Writes : Clear(w, W)

Spec == Init /\ [][Next]_status
=============================================================================
