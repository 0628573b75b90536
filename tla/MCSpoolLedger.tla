--------------------------- MODULE MCSpoolLedger ---------------------------
(***************************************************************************)
(* Two dispatchers and a spool of a few grams.                             *)
(***************************************************************************)
EXTENDS SpoolLedger, TLC

CONSTANTS w1, w2

MCWorker == {w1, w2}
=============================================================================
