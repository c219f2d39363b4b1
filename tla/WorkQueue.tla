------------------------------ MODULE WorkQueue ------------------------------
(***************************************************************************)
(* What the job queue promises, without rows, statements, locks or time: a *)
(* job is queued, given to an owner while its kind has a free slot, and    *)
(* ended only by the owner it was last given to.  An owner may vanish; its *)
(* job goes back to the queue and whatever that owner still does is void.  *)
(***************************************************************************)
EXTENDS Integers, FiniteSets

CONSTANTS Jobs, Workers, Kinds, KindOf, Cap, Nobody

VARIABLES
    status,   \* none, pending, running, done or failed
    owner     \* the worker whose result will count

vars == <<status, owner>>

Slots(k) == {j \in Jobs : status[j] = "running" /\ KindOf[j] = k}

Init ==
    /\ status = [j \in Jobs |-> "none"]
    /\ owner = [j \in Jobs |-> Nobody]

Submit(j) ==
    /\ status[j] = "none"
    /\ status' = [status EXCEPT ![j] = "pending"]
    /\ UNCHANGED owner

\* The owner is Nobody when the worker never learns that it got the job.
Give(j) ==
    /\ status[j] = "pending"
    /\ Cap[KindOf[j]] > 0 => Cardinality(Slots(KindOf[j])) < Cap[KindOf[j]]
    /\ status' = [status EXCEPT ![j] = "running"]
    /\ \E w \in Workers \cup {Nobody} : owner' = [owner EXCEPT ![j] = w]

End(j) ==
    /\ status[j] = "running"
    /\ owner[j] # Nobody
    /\ \E s \in {"done", "failed"} : status' = [status EXCEPT ![j] = s]
    /\ owner' = [owner EXCEPT ![j] = Nobody]

\* A retry after an error, a release at shutdown, a takeover of dead nodes' jobs.
Requeue(S) ==
    /\ \A j \in S : status[j] = "running"
    /\ status' = [j \in Jobs |-> IF j \in S THEN "pending" ELSE status[j]]
    /\ owner' = [j \in Jobs |-> IF j \in S THEN Nobody ELSE owner[j]]

Vanish(S) ==
    /\ \A j \in S : owner[j] # Nobody
    /\ owner' = [j \in Jobs |-> IF j \in S THEN Nobody ELSE owner[j]]
    /\ UNCHANGED status

Readmit(j) ==
    /\ status[j] = "failed"
    /\ status' = [status EXCEPT ![j] = "pending"]
    /\ UNCHANGED owner

Next ==
    \/ \E j \in Jobs : Submit(j) \/ Give(j) \/ End(j) \/ Readmit(j)
    \/ \E S \in SUBSET Jobs : Requeue(S) \/ Vanish(S)

Spec == Init /\ [][Next]_vars
=============================================================================
