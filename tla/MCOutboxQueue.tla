--------------------------- MODULE MCOutboxQueue ---------------------------
(***************************************************************************)
(* A small outbox: two dispatchers, two schedulers in two worker           *)
(* processes, one spool whose edits enqueue an upsert and sometimes a      *)
(* weight adjustment, and full convergence as the recurring operation.     *)
(***************************************************************************)
EXTENDS OutboxQueue, TLC

CONSTANTS w1, w2, s1, s2, spool

MCWorker == {w1, w2}
MCScheduler == {s1, s2}
NoScheduler == {}
MCObject == {spool}
MCUpsertType == {"spool.upsert"}
MCDebtType == {"spool.adjust_weight"}
MCRecurringType == {"reconcile.full"}
MCFullType == "reconcile.full"
\* A finished print enqueues an adjustment alone, a metadata edit an upsert.
MCRequest == {{"spool.upsert"}, {"spool.adjust_weight"}}

\* Sound for the safety run only: no property of it tells dispatchers apart.
DispatchersAlike == Permutations(MCWorker)
=============================================================================
