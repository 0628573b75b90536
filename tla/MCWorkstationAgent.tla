------------------------- MODULE MCWorkstationAgent -------------------------
(***************************************************************************)
(* One workstation with one Cura, two libraries and two nozzles.           *)
(***************************************************************************)
EXTENDS WorkstationAgent, TLC

CONSTANTS A, B, narrow, wide, cura5

MCLibrary == {A, B}
MCDiameter == {narrow, wide}
MCInstallation == {cura5}
=============================================================================
