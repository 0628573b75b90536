----------------------------- MODULE MCPrinters -----------------------------
(***************************************************************************)
(* The five printer modules side by side.  Each runs alone, as the part    *)
(* that the first state picks: they share no variable, so that exploring   *)
(* them together would only multiply what each can do.                     *)
(*   spools      two printers, two spools, one of them loaded              *)
(*   plates      two sides                                                 *)
(*   nozzles     one printer and two nozzles, one of them fitted at first  *)
(*   start       two contents of a file, of which one passes; two rolls,   *)
(*               of which one matches and holds enough of it; two sides    *)
(*   connections two endpoints, at most two printers, one command          *)
(***************************************************************************)
EXTENDS PhysicalSpool, BuildPlates, PrintStart, Nozzles, PrinterConnections, TLC

CONSTANTS p1, p2, s1, s2, left, right, x, y, r1, r2, a1, a2

MCBindings == <<p1, p2>>
MCSpool == {s1, s2}
MCPlaced == (p1 :> NoSpool) @@ (p2 :> s1)
MCHotend == {p1}
MCFitted == p1 :> 1
MCSide == {left, right}
MCSlice == {x, y}
MCPassing == {x}
MCRoll == {r1, r2}
MCEnough == {<<x, r1>>}
MCMatching == {r1}
MCSurface == {left, right}
MCCompatible == {<<r1, left>>}
MCAddress == {a1, a2}

VARIABLE part

printersVars == <<part, spoolVars, plateVars, startVars, nozzleVars, connectionVars>>

PrintersInit ==
    /\ part \in {"spools", "plates", "start", "nozzles", "connections"}
    /\ SpoolInit /\ PlatesInit /\ StartInit /\ NozzlesInit /\ ConnectionsInit
    /\ part # "start" => slice = x /\ mounted = r1 /\ side = left /\ known = left

PrintersNext ==
    \/ /\ part = "spools" /\ SpoolNext
       /\ UNCHANGED <<part, plateVars, startVars, nozzleVars, connectionVars>>
    \/ /\ part = "plates" /\ PlatesNext
       /\ UNCHANGED <<part, spoolVars, startVars, nozzleVars, connectionVars>>
    \/ /\ part = "start" /\ StartNext
       /\ UNCHANGED <<part, spoolVars, plateVars, nozzleVars, connectionVars>>
    \/ /\ part = "nozzles" /\ NozzlesNext
       /\ UNCHANGED <<part, spoolVars, plateVars, startVars, connectionVars>>
    \/ /\ part = "connections" /\ ConnectionsNext
       /\ UNCHANGED <<part, spoolVars, plateVars, startVars, nozzleVars>>

InSpools(A) ==
    part = "spools" /\ A /\ UNCHANGED <<part, plateVars, startVars, nozzleVars, connectionVars>>
InPlates(A) ==
    part = "plates" /\ A /\ UNCHANGED <<part, spoolVars, startVars, nozzleVars, connectionVars>>
InStart(A) ==
    part = "start" /\ A /\ UNCHANGED <<part, spoolVars, plateVars, nozzleVars, connectionVars>>

\* The fairness of SpoolSpec, PlatesSpec and StartSpec: the part never changes, so that one
\* condition over the three is one of each.
PrintersFairness ==
    /\ WF_printersVars(InSpools(Poll) \/ InPlates(PlatePoll) \/ InStart(LookStep))
    /\ WF_printersVars(InSpools(MachineEnds(p1)) \/ InPlates(KlipperEnds))
    /\ WF_printersVars(InSpools(MachineEnds(p2)) \/ InPlates(ServerAnswers))

PrintersSpec == PrintersInit /\ [][PrintersNext]_printersVars /\ PrintersFairness

\* What each part's variables may hold.
PrintersTypeOK == SpoolTypeOK /\ PlatesTypeOK /\ StartTypeOK /\ NozzlesTypeOK /\ ConnectionsTypeOK

\* What must come about: Moonraker tracks the spool that the macro recorded and the records
\* of the spools say where they are (_reconcile_moonraker_state); Klipper, the canonical
\* state and the choice in the application name one side (synchronize_build_plates).
PrintersSettle ==
    <>[](/\ part = "spools" => SpoolsSettled
         /\ part = "plates" => PlatesSettled)
=============================================================================
