--------------------------- MODULE AdmissionQueue ---------------------------
(***************************************************************************)
(* What the gateway promises about admission, independently of futures,    *)
(* timers and task scheduling: a pool of Concurrency slots with a bounded  *)
(* FIFO queue in front of it.  A returned slot goes to the oldest queued   *)
(* request in the same step; a closed pool only takes slots back.          *)
(***************************************************************************)
EXTENDS Naturals, Sequences, FiniteSets, SequencesExt

CONSTANTS Requests,     \* identities of concurrently handled requests
          Concurrency,  \* number of slots
          QueueLimit    \* capacity of the queue

VARIABLES owners,       \* requests a slot is reserved for
          queue,        \* requests waiting for a slot, oldest first
          open          \* FALSE once the pool only takes slots back

vars == <<owners, queue, open>>

Init ==
    /\ owners = {}
    /\ queue = <<>>
    /\ open = TRUE

SlotFree == Cardinality(owners) < Concurrency

\* A newcomer is served at once only when nobody is waiting.
Admit(r) ==
    /\ open /\ SlotFree /\ queue = <<>>
    /\ r \notin owners
    /\ owners' = owners \cup {r}
    /\ UNCHANGED <<queue, open>>

Enqueue(r) ==
    /\ open /\ ~(SlotFree /\ queue = <<>>)
    /\ r \notin owners /\ ~Contains(queue, r)
    /\ Len(queue) < QueueLimit
    /\ queue' = Append(queue, r)
    /\ UNCHANGED <<owners, open>>

Withdraw(r) ==
    /\ \E i \in 1..Len(queue) : queue[i] = r /\ queue' = RemoveAt(queue, i)
    /\ UNCHANGED <<owners, open>>

Return(r) ==
    /\ r \in owners
    /\ IF open /\ queue # <<>>
       THEN /\ owners' = (owners \ {r}) \cup {Head(queue)}
            /\ queue' = Tail(queue)
       ELSE /\ owners' = owners \ {r}
            /\ UNCHANGED queue
    /\ UNCHANGED open

Close ==
    /\ open' = FALSE
    /\ queue' = <<>>
    /\ UNCHANGED owners

Next ==
    \/ \E r \in Requests : Admit(r) \/ Enqueue(r) \/ Withdraw(r) \/ Return(r)
    \/ Close

Spec == Init /\ [][Next]_vars
=============================================================================
