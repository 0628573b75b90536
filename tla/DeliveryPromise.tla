-------------------------- MODULE DeliveryPromise --------------------------
(***************************************************************************)
(* What the transactional outbox promises the rest of Filament Manager,    *)
(* without workers, leases, retries or clocks.  A canonical transaction    *)
(* leaves the system owing some external work; owed work is delivered only *)
(* after its external effect happened; it may be abandoned, and what is    *)
(* abandoned stays on the books until somebody asks for it again or a      *)
(* delivered request makes it redundant.                                   *)
(***************************************************************************)
CONSTANTS Job,      \* every request that can ever be queued
          Redundant   \* the pairs <<j, k>> where delivering j makes k redundant

VARIABLES promise,  \* what became of each request
          effect    \* the requests whose external effect happened, even twice

vars == <<promise, effect>>

Outcome == {"none", "owed", "delivered", "abandoned", "obsolete"}

PromiseTypeOK ==
    /\ promise \in [Job -> Outcome]
    /\ effect \in SUBSET Job

Init ==
    /\ promise = [j \in Job |-> "none"]
    /\ effect = {}

\* One canonical transaction owes all its projections together.
Owe ==
    /\ promise' \in [Job -> Outcome]
    /\ \A j \in Job : promise'[j] # promise[j] =>
          promise[j] = "none" /\ promise'[j] = "owed"
    /\ UNCHANGED effect

\* The remote system is touched, on time, again, or late by a slow worker.
Affect(j) ==
    /\ promise[j] # "none"
    /\ effect' = effect \cup {j}
    /\ UNCHANGED promise

\* Delivery of j settles it and may retire abandoned work it makes redundant.
Deliver(j) ==
    /\ promise[j] = "owed"
    /\ j \in effect
    /\ promise' \in [Job -> Outcome]
    /\ promise'[j] = "delivered"
    /\ \A k \in Job \ {j} : promise'[k] # promise[k] =>
          promise[k] = "abandoned" /\ promise'[k] = "obsolete" /\ <<j, k>> \in Redundant
    /\ UNCHANGED effect

Abandon(j) ==
    /\ promise[j] = "owed"
    /\ promise' = [promise EXCEPT ![j] = "abandoned"]
    /\ UNCHANGED effect

Revive(j) ==
    /\ promise[j] = "abandoned"
    /\ promise' = [promise EXCEPT ![j] = "owed"]
    /\ UNCHANGED effect

Next ==
    \/ Owe
    \/ \E j \in Job : Affect(j) \/ Deliver(j) \/ Abandon(j) \/ Revive(j)

Spec == Init /\ [][Next]_vars
=============================================================================
