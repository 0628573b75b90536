------------------------ MODULE MCSpoolmanProjection ------------------------
(***************************************************************************)
(* One product of one vendor, edited up to MaxVersion times, projected by  *)
(* two dispatchers, with MaxManual runs of full convergence.               *)
(***************************************************************************)
EXTENDS SpoolmanProjection, TLC

CONSTANTS w1, w2, vendor, product

MCWorker == {w1, w2}
OneWorker == {w1}
MCScheduler == {}
MCObject == {product}
MCVendor == {vendor}
MCVendorOf == [o \in MCObject |-> vendor]
MCIdOrder == <<product>>
MCVendorOrder == <<vendor>>
MCUpsertType == {"filament.upsert"}
MCDebtType == {}
MCRecurringType == {"reconcile.full"}
MCFullType == "reconcile.full"
MCRequest == {{"filament.upsert"}}

DispatchersAlike == Permutations(MCWorker)
=============================================================================
