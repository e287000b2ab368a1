----------------------------- MODULE EngineLease -----------------------------
(***************************************************************************)
(* What the Halogen service promises about the machine's memory: an engine *)
(* is launched only for a run whose keeper lives, never a second one, and  *)
(* it ends within Patience ticks of its keeper's last renewal.  A run that *)
(* has lost its keeper gets no other.                                      *)
(***************************************************************************)
EXTENDS Naturals

CONSTANTS Runs, Patience

VARIABLES keeper,   \* of a run: not yet appointed, kept, gone
          hot,      \* runs whose engine is up or about to be launched
          age       \* ticks since the last renewal of the hot one

Init == keeper = [r \in Runs |-> "new"] /\ hot = {} /\ age = 0

Appoint(r) ==
    /\ keeper[r] = "new" /\ \A x \in Runs : keeper[x] # "kept"
    /\ keeper' = [keeper EXCEPT ![r] = "kept"]
    /\ UNCHANGED <<hot, age>>

\* A renewal launches the engine or prolongs its life.
Renew(r) ==
    /\ keeper[r] = "kept" /\ hot \subseteq {r}
    /\ hot' = {r} /\ age' = 0
    /\ UNCHANGED keeper

Stop == hot # {} /\ hot' = {} /\ age' = 0

\* The engine ends, for whatever reason.
Cool == Stop /\ UNCHANGED keeper

\* A keeper leaves or dies; its last act may be to stop the engine.
Resign(r) ==
    /\ keeper[r] = "kept"
    /\ keeper' = [keeper EXCEPT ![r] = "gone"]
    /\ Stop \/ UNCHANGED <<hot, age>>

Tick ==
    /\ hot # {} /\ age + 1 < Patience
    /\ age' = age + 1
    /\ UNCHANGED <<keeper, hot>>

Next == Cool \/ Tick \/ \E r \in Runs : Appoint(r) \/ Renew(r) \/ Resign(r)

Spec == Init /\ [][Next]_<<keeper, hot, age>>
=============================================================================
