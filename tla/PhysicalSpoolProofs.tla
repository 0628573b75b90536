------------------------- MODULE PhysicalSpoolProofs -------------------------
(***************************************************************************)
(* Proofs about PhysicalSpool, for every number of printers, spools,       *)
(* operations and faults.                                                  *)
(***************************************************************************)
EXTENDS PhysicalSpool, FiniteSetTheorems, TLAPS

\* What a poll has read is in order: the steps after the reads have an active id,
\* and those that use the macro's report have that.
Report == [loaded : SomeSpool, initialized : BOOLEAN, restored : BOOLEAN, selecting : BOOLEAN]
Visit == [at : DOMAIN Bindings, step : Steps, active : SomeSpool \cup {Unread, Failed},
          macro : Report \cup {Unread, Failed}]
VisitOK ==
    /\ visit \in Visit
    /\ visit.step # "read" => visit.active \in SomeSpool
    /\ visit.step \in {"repair", "publish"} => MacroRead(visit)

\* The inductive invariant of the types: the properties' types, and the poll's readings.
SpoolInv ==
    /\ macro \in [Printer -> MacroState] /\ active \in [Printer -> SomeSpool]
    /\ printing \subseteq Printer /\ home \in [Spool -> Printer \cup {NoPrinter}]
    /\ archived \subseteq spent /\ spent \subseteq Spool
    /\ requests \subseteq Request
    /\ VisitOK

LEMMA PlaceFacts ==
    /\ NoSpool \notin Spool /\ NoPrinter \notin Printer /\ Placed \in [Printer -> SomeSpool]
    /\ \A i \in DOMAIN Bindings : Bindings[i] \in Printer
    /\ Fresh(1) \in Visit
<1>1. 1 \in DOMAIN Bindings
  BY PhysicalAssumption
<1>2. Fresh(1) \in Visit
  BY <1>1 DEF Fresh, Visit, Steps
<1> QED
  BY <1>2, PhysicalAssumption DEF Printer

LEMMA NextPrinterType ==
  ASSUME VisitOK
  PROVE  NextPrinter \in Visit /\ NextPrinter.step = "read"
<1>1. visit.at \in 1..Len(Bindings) /\ Len(Bindings) \in Nat \ {0}
  BY PhysicalAssumption DEF VisitOK, Visit
<1>2. (visit.at % Len(Bindings)) + 1 \in 1..Len(Bindings)
  BY <1>1
<1>3. \A i \in 1..Len(Bindings) : Fresh(i) \in Visit /\ Fresh(i).step = "read"
  BY PhysicalAssumption DEF Fresh, Visit, Steps
<1> QED
  BY <1>2, <1>3 DEF NextPrinter

LEMMA VisitedIsPrinter ==
  ASSUME VisitOK
  PROVE  Visited \in Printer
  BY PlaceFacts DEF VisitOK, Visit, Visited

\* Moves within the macro keep it well formed, whatever spool is named.
LEMMA MacroMoves ==
  ASSUME NEW m \in MacroState, NEW s \in SomeSpool
  PROVE  /\ BeginChange(m, s) \in MacroState /\ ChooseLoad(m, s) \in MacroState
         /\ ChooseManual(m, s) \in MacroState /\ SpoolmanTarget(m, s) \in MacroState
         /\ Cleared(m) \in MacroState
<1> USE DEF MacroState, Phases, SomeSpool
<1>1. \A t \in SomeSpool : /\ BeginChange(m, t) \in MacroState /\ ChooseLoad(m, t) \in MacroState
                           /\ ChooseManual(m, t) \in MacroState
  BY DEF BeginChange, ChooseLoad, ChooseManual
<1>2. \A t \in SomeSpool : SpoolmanTarget(m, t) \in MacroState
  <2> SUFFICES ASSUME NEW t \in SomeSpool PROVE SpoolmanTarget(m, t) \in MacroState
    OBVIOUS
  <2>1. [m EXCEPT !.target = t, !.phase = "spoolman_select"] \in MacroState
    OBVIOUS
  <2>2. SpoolmanTarget(m, t) \in {ChooseManual(m, t), ChooseLoad(m, t), m,
                                  [m EXCEPT !.target = t, !.phase = "spoolman_select"]}
    BY DEF SpoolmanTarget
  <2> HIDE DEF MacroState
  <2> QED
    BY <1>1, <2>1, <2>2
<1>3. Cleared(m) \in MacroState
  BY DEF Cleared
<1> QED
  BY <1>1, <1>2, <1>3

\* What a step at a printer leaves to the server.
LEMMA MacroStepType ==
  ASSUME SpoolInv, NEW p \in Printer, NEW m \in MacroState, MacroStep(p, m)
  PROVE  SpoolInv'
<1>1. macro' \in [Printer -> MacroState]
  BY DEF SpoolInv, MacroStep
<1> QED
  BY <1>1 DEF SpoolInv, MacroStep, Server, VisitOK, MacroRead

LEMMA PeopleType ==
  ASSUME SpoolInv, NEW p \in Printer, SpoolPeople(p) \/ Machine(p) \/ HeaterTimeout(p)
  PROVE  SpoolInv'
<1> DEFINE m == macro[p]
<1>0. m \in MacroState
  BY DEF SpoolInv
<1>1. /\ m.loaded \in SomeSpool /\ m.target \in SomeSpool /\ m.after \in Phases
      /\ m.catalog \in SUBSET Spool
      /\ NoSpool \in SomeSpool
  BY <1>0 DEF MacroState, SomeSpool
<1>2. ASSUME NEW n \in MacroState, MacroStep(p, n) PROVE SpoolInv'
  BY <1>2, MacroStepType
<1>3. ASSUME NEW s \in SomeSpool, NEW phase \in Phases, RecordLoaded(p, s, phase),
             UNCHANGED <<printing, operations, faults, Server>>
      PROVE  SpoolInv'
  <2> DEFINE n == [m EXCEPT !.loaded = s, !.initialized = TRUE, !.phase = phase]
  <2>1. n \in MacroState
    BY <1>0, <1>3 DEF MacroState
  <2>2. macro' = [macro EXCEPT ![p] = n] /\ active' = [active EXCEPT ![p] = s]
    BY <1>3 DEF RecordLoaded, SpoolInv, MacroState
  <2> HIDE DEF n
  <2>3. macro' \in [Printer -> MacroState] /\ active' \in [Printer -> SomeSpool]
    BY <1>3, <2>1, <2>2 DEF SpoolInv
  <2> QED
    BY <1>3, <2>3 DEF SpoolInv, Server, VisitOK, MacroRead
<1>4. CASE OpenSelector(p) \/ FilamentChange(p) \/ UnloadFilament(p)
  <2>1. /\ [m EXCEPT !.phase = "load_select"] \in MacroState
        /\ [m EXCEPT !.target = NoSpool, !.after = "manual_select",
                     !.phase = IF m.loaded = NoSpool THEN "manual_select" ELSE "unloading"] \in MacroState
        /\ [m EXCEPT !.phase = "unloading", !.after = "idle"] \in MacroState
    BY <1>0, <1>1 DEF MacroState, Phases
  <2> QED
    BY <1>2, <1>4, <2>1 DEF OpenSelector, FilamentChange, UnloadFilament
<1>5. CASE \E s \in Spool : Choose(p, s)
  <2>1. PICK s \in Spool : Choose(p, s)
    BY <1>5
  <2>2. ChooseLoad(m, s) \in MacroState /\ ChooseManual(m, s) \in MacroState
    BY <1>0, MacroMoves DEF SomeSpool
  <2> QED
    BY <1>2, <2>1, <2>2 DEF Choose
<1>6. CASE ChangeToSpoolmanTarget(p)
  BY <1>0, <1>1, <1>2, <1>6, MacroMoves DEF ChangeToSpoolmanTarget
<1>7. CASE AdoptSpoolmanTarget(p) \/ UnloadEnds(p) \/ LoadEnds(p)
  <2>1. "idle" \in Phases /\ "ready" \in Phases
    BY DEF Phases
  <2> QED
    BY <1>1, <1>3, <1>7, <2>1 DEF AdoptSpoolmanTarget, UnloadEnds, LoadEnds
<1>8. CASE CancelSpoolmanTarget(p)
  <2>1. macro' \in [Printer -> MacroState] /\ active' \in [Printer -> SomeSpool]
    BY <1>0, <1>1, <1>8, MacroMoves DEF CancelSpoolmanTarget, SpoolInv
  <2> QED
    BY <1>8, <2>1 DEF CancelSpoolmanTarget, SpoolInv, Server, VisitOK, MacroRead
<1>9. CASE ConfirmInsertion(p) \/ FinishChange(p) \/ HeaterTimeout(p) \/ RestoreState(p)
  <2>1. /\ \A phase \in Phases : [m EXCEPT !.phase = phase] \in MacroState
        /\ [m EXCEPT !.restored = TRUE] \in MacroState
    BY <1>0 DEF MacroState
  <2>2. {"loading", "idle", "error"} \subseteq Phases
    BY DEF Phases
  <2> QED
    BY <1>2, <1>9, <2>1, <2>2 DEF ConfirmInsertion, FinishChange, HeaterTimeout, RestoreState
<1>10. CASE Abort(p)
  <2>1. macro' \in [Printer -> MacroState]
    BY <1>0, <1>1, <1>10, MacroMoves DEF Abort, SpoolInv
  <2> QED
    BY <1>10, <2>1 DEF Abort, SpoolInv, Server, VisitOK, MacroRead
<1>11. CASE PrintStarts(p) \/ PrintEnds(p)
  BY <1>11 DEF PrintStarts, PrintEnds, SpoolInv, Server, VisitOK, MacroRead
<1>12. CASE Empties(p)
  BY <1>12 DEF Empties, SpoolInv, VisitOK, MacroRead
<1>13. CASE RequestUnload(p) \/ \E s \in Spool : RequestLoad(s, p)
  <2>1. \A s \in SomeSpool : [spool |-> s, printer |-> p] \in Request
    BY DEF Request
  <2>2. \E r \in Request : Ask(r)
    BY <1>1, <1>13, <2>1 DEF RequestUnload, RequestLoad, SomeSpool
  <2> QED
    BY <2>2 DEF Ask, SpoolInv, VisitOK, MacroRead
<1>14. CASE \E s \in SomeSpool : SelectInSpoolman(p, s)
  BY <1>14 DEF SelectInSpoolman, SpoolInv, Server, VisitOK, MacroRead
<1> QED
  BY <1>4, <1>5, <1>6, <1>7, <1>8, <1>9, <1>10, <1>11, <1>12, <1>13, <1>14
     DEF SpoolPeople, Machine

LEMMA RestartType ==
  ASSUME SpoolInv, NEW p \in Printer, KlipperRestarts(p)
  PROVE  SpoolInv'
<1> DEFINE m == macro[p]
<1>0. m \in MacroState /\ m.target \in SomeSpool /\ NoSpool \in SomeSpool
  BY DEF SpoolInv, MacroState, SomeSpool
<1>1. [Cleared(m) EXCEPT !.restored = FALSE] \in MacroState
  <2>1. Cleared(m) \in MacroState
    BY <1>0, MacroMoves
  <2> QED
    BY <2>1 DEF MacroState
<1>2. macro' \in [Printer -> MacroState]
  BY <1>1 DEF KlipperRestarts, SpoolInv
<1>3. active' \in [Printer -> SomeSpool]
  <2>1. active' = active \/ active' = [active EXCEPT ![p] = m.target]
        \/ active' = [active EXCEPT ![p] = NoSpool]
    BY DEF KlipperRestarts
  <2> QED
    BY <1>0, <2>1 DEF SpoolInv
<1> QED
  BY <1>2, <1>3 DEF KlipperRestarts, SpoolInv, Server, VisitOK, MacroRead

LEMMA RequestType ==
  ASSUME SpoolInv, NEW r \in requests, DeliverRequest(r) \/ RequestDies(r)
  PROVE  SpoolInv'
<1>1. r.printer \in Printer /\ r.spool \in SomeSpool /\ macro[r.printer] \in MacroState
  BY DEF SpoolInv, Request
<1>2. Asked(macro[r.printer], r) \in MacroState
  <2>1. [macro[r.printer] EXCEPT !.phase = "unloading", !.after = "idle"] \in MacroState
    BY <1>1 DEF MacroState, Phases
  <2> QED
    BY <1>1, <2>1, MacroMoves DEF Asked
<1>3. CASE DeliverRequest(r)
  <2>1. macro' \in [Printer -> MacroState]
    BY <1>2, <1>3 DEF DeliverRequest, SpoolInv
  <2> QED
    BY <1>3, <2>1 DEF DeliverRequest, SpoolInv, VisitOK, MacroRead
<1>4. CASE RequestDies(r)
  BY <1>4 DEF RequestDies, SpoolInv, VisitOK, MacroRead
<1> QED
  BY <1>3, <1>4

\* What becomes canonical is a spool, or none.
LEMMA EffectiveType ==
  ASSUME VisitOK, visit.step # "read"
  PROVE  Effective \in SomeSpool
<1>1. MacroRead(visit) => visit.macro.loaded \in SomeSpool
  BY DEF VisitOK, Visit, MacroRead, Report
<1> QED
  BY <1>1 DEF VisitOK, Effective, Drifted

LEMMA PollType ==
  ASSUME SpoolInv, Poll
  PROVE  SpoolInv'
<1>0. VisitOK /\ Visited \in Printer /\ NextPrinter \in Visit /\ NextPrinter.step = "read"
  BY NextPrinterType, VisitedIsPrinter DEF SpoolInv
<1>1. ASSUME visit' = NextPrinter \/ visit' = Fresh(1) PROVE VisitOK'
  <2>1. visit' \in Visit /\ visit'.step = "read"
    BY <1>0, <1>1, PlaceFacts DEF Fresh
  <2> QED
    BY <2>1 DEF VisitOK
<1>2. CASE DeferPrinter
  BY <1>1, <1>2 DEF DeferPrinter, PollStep, SpoolInv
<1>3. CASE \E noActive, noMacro \in BOOLEAN : ReadPrinter(noActive, noMacro)
  <2>1. PICK noActive, noMacro \in BOOLEAN : ReadPrinter(noActive, noMacro)
    BY <1>3
  <2> DEFINE v == [visit EXCEPT
                     !.active = IF noActive THEN Failed ELSE active[Visited],
                     !.macro = IF noMacro THEN Failed ELSE Reported(macro[Visited])]
  <2>2. v \in Visit
    <3>1. Reported(macro[Visited]) \in Report
      BY <1>0 DEF SpoolInv, MacroState, Reported, Report
    <3> QED
      BY <1>0, <3>1 DEF SpoolInv, VisitOK, Visit
  <2>3. visit' = AfterReads(v)
    BY <2>1 DEF ReadPrinter, PollStep
  <2> HIDE DEF v
  <2>4. CASE v.active = Failed \/ Restoring(v)
    BY <1>1, <2>1, <2>3, <2>4 DEF AfterReads, ReadPrinter, PollStep, SpoolInv
  <2>5. CASE ~(v.active = Failed \/ Restoring(v))
    <3>1. v.active \in SomeSpool
      <4>1. v.active = Failed \/ v.active = active[Visited]
        BY <1>0 DEF v, VisitOK, Visit
      <4> QED
        BY <1>0, <2>5, <4>1 DEF SpoolInv
    <3>2. visit' = [v EXCEPT !.step = IF Drifted(v) THEN "repair" ELSE "own"]
      BY <2>3, <2>5 DEF AfterReads
    <3>3. visit' \in Visit /\ visit'.active = v.active /\ visit'.macro = v.macro
          /\ visit'.step \in {"repair", "own"} /\ (visit'.step = "repair" => Drifted(v))
      BY <2>2, <3>2 DEF Visit, Steps
    <3>4. VisitOK'
      BY <3>1, <3>3 DEF VisitOK, Drifted, MacroRead
    <3> QED
      BY <2>1, <3>4 DEF ReadPrinter, PollStep, SpoolInv
  <2> QED
    BY <2>4, <2>5
<1>4. CASE \E failing \in BOOLEAN : RepairActive(failing)
  <2>1. PICK failing \in BOOLEAN : RepairActive(failing)
    BY <1>4
  <2>2. visit.step = "repair" /\ visit.active \in SomeSpool /\ visit.macro.loaded \in SomeSpool
    BY <1>0, <2>1 DEF RepairActive, VisitOK, Visit, MacroRead, Report
  <2>3. Prompted(macro[Visited]) \in MacroState
    BY <1>0, <2>2, MacroMoves DEF Prompted, SpoolInv
  <2>4. macro' \in [Printer -> MacroState] /\ active' \in [Printer -> SomeSpool]
    BY <1>0, <2>1, <2>2, <2>3 DEF RepairActive, SpoolInv
  <2>5. visit' = [visit EXCEPT !.step = "own"]
    BY <2>1 DEF RepairActive, PollStep
  <2>6. VisitOK'
    BY <1>0, <2>2, <2>5 DEF VisitOK, Visit, Steps
  <2> QED
    BY <2>1, <2>4, <2>6 DEF RepairActive, PollStep, SpoolInv
<1>5. CASE OwnSpool
  <2>1. visit.step = "own" /\ Effective \in SomeSpool
    BY <1>0, <1>5, EffectiveType DEF OwnSpool
  <2>2. home' \in [Spool -> Printer \cup {NoPrinter}] /\ archived' \subseteq spent
    BY <1>0, <1>5 DEF OwnSpool, HomesWith, SpoolInv
  <2>3. VisitOK'
    <3>1. CASE visit' = [visit EXCEPT !.step = "publish"] /\ MacroRead(visit)
      BY <1>0, <2>1, <3>1 DEF VisitOK, Visit, Steps, MacroRead
    <3> QED
      BY <1>1, <1>5, <3>1 DEF OwnSpool, PollStep
  <2> QED
    BY <1>5, <2>2, <2>3 DEF OwnSpool, PollStep, SpoolInv
<1>6. CASE \E failing \in BOOLEAN : PublishCatalog(failing)
  <2>1. PICK failing \in BOOLEAN : PublishCatalog(failing)
    BY <1>6
  <2>2. Effective \in SomeSpool
    BY <1>0, <2>1, EffectiveType DEF PublishCatalog
  <2> DEFINE m == macro[Visited]
             published == [m EXCEPT !.catalog = Eligible(Visited)]
  <2>3. published \in MacroState /\ m \in MacroState
    BY <1>0 DEF SpoolInv, MacroState, Eligible
  <2>4. [published EXCEPT !.loaded = Effective, !.initialized = TRUE] \in MacroState
    BY <2>2, <2>3 DEF MacroState
  <2>5. macro' \in [Printer -> MacroState] /\ active' \in [Printer -> SomeSpool]
    BY <1>0, <2>1, <2>2, <2>3, <2>4 DEF PublishCatalog, SpoolInv
  <2> QED
    BY <1>1, <2>1, <2>5 DEF PublishCatalog, PollStep, SpoolInv
<1> QED
  BY <1>2, <1>3, <1>4, <1>5, <1>6 DEF Poll

LEMMA SpoolInvInit == SpoolInit => SpoolInv
<1> SUFFICES ASSUME SpoolInit PROVE SpoolInv
  OBVIOUS
<1>1. macro \in [Printer -> MacroState]
  BY PlaceFacts DEF SpoolInit, MacroState, Phases, SomeSpool
<1>2. home \in [Spool -> Printer \cup {NoPrinter}]
  BY DEF SpoolInit
<1>3. VisitOK
  BY PlaceFacts DEF SpoolInit, VisitOK, Fresh
<1> QED
  BY <1>1, <1>2, <1>3, PlaceFacts DEF SpoolInit, SpoolInv

LEMMA SpoolInvStep == SpoolInv /\ [SpoolNext]_spoolVars => SpoolInv'
<1> SUFFICES ASSUME SpoolInv, [SpoolNext]_spoolVars PROVE SpoolInv'
  OBVIOUS
<1>1. CASE UNCHANGED spoolVars
  BY <1>1 DEF spoolVars, SpoolInv, VisitOK, MacroRead
<1> QED
  BY <1>1, PeopleType, RestartType, RequestType, PollType DEF SpoolNext

LEMMA SpoolInvHolds == SpoolSpec => []SpoolInv
  BY SpoolInvInit, SpoolInvStep, PTL DEF SpoolSpec

\* Macros, tracked ids, homes, queued requests and the poll's readings keep their
\* types, whatever people, faults and polls do.
THEOREM SpoolTypes == SpoolSpec => []SpoolTypeOK
<1>1. SpoolInv => SpoolTypeOK
  BY DEF SpoolInv, SpoolTypeOK, VisitOK, Visit, MacroRead, Report
<1> QED
  BY <1>1, SpoolInvHolds, PTL

-----------------------------------------------------------------------------
(* One spool on a hotend.                                                  *)

\* PrinterHoldsOne without counting: two spools never have the same printer on record.
HomesApart == \A s, t \in Spool : home[s] = home[t] /\ home[s] \in Printer => s = t

\* Placing a spool takes the one before it off: two never share a printer.
LEMMA HomesStep == SpoolInv /\ HomesApart /\ [SpoolNext]_spoolVars => HomesApart'
<1> SUFFICES ASSUME SpoolInv, HomesApart, [SpoolNext]_spoolVars PROVE HomesApart'
  OBVIOUS
<1>1. CASE UNCHANGED home
  BY <1>1 DEF HomesApart
<1>2. ASSUME NEW e, NEW p \in Printer, home' = HomesWith(e, p) PROVE HomesApart'
  <2> SUFFICES ASSUME NEW s \in Spool, NEW t \in Spool, home'[s] = home'[t], home'[s] \in Printer
               PROVE  s = t
    BY DEF HomesApart
  <2>1. \A x \in Spool : home'[x] = IF x = e THEN p ELSE IF home[x] = p THEN NoPrinter ELSE home[x]
    BY <1>2 DEF HomesWith
  <2>2. \A x \in Spool : home'[x] \in Printer => \/ x = e
                                                 \/ home'[x] = home[x] /\ home[x] # p
    BY <2>1, PlaceFacts
  <2> QED
    BY <2>1, <2>2 DEF HomesApart
<1>3. CASE OwnSpool
  BY <1>1, <1>2, <1>3, VisitedIsPrinter DEF OwnSpool, SpoolInv
<1>4. ASSUME NEW p \in Printer,
             SpoolPeople(p) \/ Machine(p) \/ HeaterTimeout(p) \/ KlipperRestarts(p)
      PROVE  UNCHANGED home
  <2>1. CASE OpenSelector(p) \/ FilamentChange(p) \/ UnloadFilament(p)
             \/ ChangeToSpoolmanTarget(p) \/ AdoptSpoolmanTarget(p) \/ CancelSpoolmanTarget(p)
    BY <2>1 DEF OpenSelector, FilamentChange, UnloadFilament, ChangeToSpoolmanTarget,
                AdoptSpoolmanTarget, CancelSpoolmanTarget, MacroStep, Server
  <2>2. CASE ConfirmInsertion(p) \/ FinishChange(p) \/ Abort(p) \/ PrintStarts(p) \/ Empties(p)
             \/ RequestUnload(p)
    BY <2>2 DEF ConfirmInsertion, FinishChange, Abort, PrintStarts, Empties, RequestUnload, Ask,
                MacroStep, Server
  <2>3. CASE (\E s \in Spool : Choose(p, s) \/ RequestLoad(s, p))
             \/ \E s \in SomeSpool : SelectInSpoolman(p, s)
    BY <2>3 DEF Choose, RequestLoad, Ask, SelectInSpoolman, MacroStep, Server
  <2>4. CASE Machine(p) \/ HeaterTimeout(p) \/ KlipperRestarts(p)
    BY <2>4 DEF Machine, UnloadEnds, LoadEnds, RestoreState, PrintEnds, HeaterTimeout,
                KlipperRestarts, MacroStep, Server
  <2> QED
    BY <1>4, <2>1, <2>2, <2>3, <2>4 DEF SpoolPeople
<1>5. ASSUME NEW r \in requests, DeliverRequest(r) \/ RequestDies(r) PROVE UNCHANGED home
  BY <1>5 DEF DeliverRequest, RequestDies
<1>6. CASE Poll
  <2>1. ASSUME ~OwnSpool PROVE UNCHANGED home
    BY <1>6, <2>1 DEF Poll, DeferPrinter, ReadPrinter, RepairActive, PublishCatalog
  <2> QED
    BY <1>1, <1>3, <2>1
<1>7. CASE UNCHANGED spoolVars
  BY <1>1, <1>7 DEF spoolVars
<1> QED
  BY <1>1, <1>4, <1>5, <1>6, <1>7 DEF SpoolNext

LEMMA HomesInit == SpoolInit => HomesApart
<1> SUFFICES ASSUME SpoolInit, NEW s \in Spool, NEW t \in Spool,
                    home[s] = home[t], home[s] \in Printer
             PROVE  s = t
  BY DEF HomesApart
<1>1. \A x \in Spool : home[x] \in Printer => Placed[home[x]] = x
  BY PlaceFacts DEF SpoolInit
<1> QED
  BY <1>1

\* The database never shows two spools on one hotend: synchronize_active_spool
\* moves the one before off the printer in the same transaction.
THEOREM HotendsHoldOne == SpoolSpec => []PrinterHoldsOne
<1>1. ASSUME HomesApart, NEW p \in Printer
      PROVE  Cardinality({s \in Spool : home[s] = p}) <= 1
  <2> DEFINE S == {s \in Spool : home[s] = p}
  <2>1. S = {} \/ \E s \in S : S = {s}
    BY <1>1 DEF HomesApart
  <2> HIDE DEF S
  <2>2. Cardinality({}) = 0 /\ \A s \in S : Cardinality({s}) = 1
    BY FS_EmptySet, FS_Singleton
  <2>3. Cardinality(S) = 0 \/ Cardinality(S) = 1
    BY <2>1, <2>2
  <2>4. Cardinality(S) <= 1
    BY <2>3
  <2> QED
    BY <2>4 DEF S
<1>2. HomesApart => PrinterHoldsOne
  BY <1>1 DEF PrinterHoldsOne
<1> QED
  BY <1>2, HomesInit, HomesStep, SpoolInvHolds, PTL DEF SpoolSpec

-----------------------------------------------------------------------------
(* The spool the operator was asked to insert.                             *)

\* m awaits an insertion or loads, and n is m afterwards: the target is kept, or the
\* workflow has left those phases.
Underway(m) == m.phase \in {"inserting", "loading"}
Keeps(m, n) ==
    Underway(m) /\ n.phase \in {"inserting", "loading", "ready"} => n.target = m.target

\* Every step at a printer either keeps the target of a load in progress or is not one
\* that such a printer takes.
LEMMA PeopleKeep ==
  ASSUME SpoolInv, NEW p \in Printer,
         SpoolPeople(p) \/ Machine(p) \/ HeaterTimeout(p) \/ KlipperRestarts(p)
  PROVE  \A q \in Printer : Keeps(macro[q], macro'[q])
<1> DEFINE m == macro[p]
<1>0. m \in MacroState /\ macro \in [Printer -> MacroState]
  BY DEF SpoolInv
<1>1. ASSUME NEW n, macro' = [macro EXCEPT ![p] = n], Keeps(m, n)
      PROVE  \A q \in Printer : Keeps(macro[q], macro'[q])
  BY <1>0, <1>1 DEF Keeps
<1>2. CASE UNCHANGED macro
  BY <1>2 DEF Keeps
<1>3. CASE OpenSelector(p) \/ FilamentChange(p) \/ UnloadFilament(p)
           \/ (\E s \in Spool : Choose(p, s))
           \/ ChangeToSpoolmanTarget(p) \/ AdoptSpoolmanTarget(p) \/ CancelSpoolmanTarget(p)
           \/ UnloadEnds(p) \/ FinishChange(p)
  <2>1. ~Underway(m)
    BY <1>3 DEF OpenSelector, FilamentChange, UnloadFilament, Choose, ChangeToSpoolmanTarget,
                AdoptSpoolmanTarget, CancelSpoolmanTarget, UnloadEnds, FinishChange, Underway
  <2>2. \A q \in Printer \ {p} : macro'[q] = macro[q]
    BY <1>0, <1>3 DEF OpenSelector, FilamentChange, UnloadFilament, Choose,
                ChangeToSpoolmanTarget, AdoptSpoolmanTarget, CancelSpoolmanTarget, UnloadEnds,
                FinishChange, MacroStep, RecordLoaded
  <2> QED
    BY <2>1, <2>2 DEF Keeps
<1>4. CASE ConfirmInsertion(p) \/ RestoreState(p)
  <2>1. Keeps(m, [m EXCEPT !.phase = "loading"]) /\ Keeps(m, [m EXCEPT !.restored = TRUE])
    BY <1>0 DEF Keeps, MacroState
  <2> QED
    BY <1>1, <1>4, <2>1 DEF ConfirmInsertion, RestoreState, MacroStep
<1>5. CASE LoadEnds(p)
  <2>1. \A q \in Printer : macro'[q].target = macro[q].target
    BY <1>0, <1>5 DEF LoadEnds, RecordLoaded, MacroState
  <2> QED
    BY <2>1 DEF Keeps
<1>6. CASE HeaterTimeout(p)
  <2>1. Keeps(m, [m EXCEPT !.phase = "error"])
    BY <1>0 DEF Keeps, MacroState
  <2> QED
    BY <1>1, <1>6, <2>1 DEF HeaterTimeout, MacroStep
<1>7. CASE Abort(p) \/ KlipperRestarts(p)
  <2>1. Cleared(m).phase = "idle" /\ [Cleared(m) EXCEPT !.restored = FALSE].phase = "idle"
    BY <1>0 DEF Cleared, MacroState
  <2>2. Keeps(m, Cleared(m)) /\ Keeps(m, [Cleared(m) EXCEPT !.restored = FALSE])
    BY <2>1 DEF Keeps
  <2> QED
    BY <1>1, <1>7, <2>2 DEF Abort, KlipperRestarts
<1>8. CASE PrintStarts(p) \/ PrintEnds(p) \/ Empties(p) \/ RequestUnload(p)
           \/ (\E s \in Spool : RequestLoad(s, p)) \/ \E s \in SomeSpool : SelectInSpoolman(p, s)
  BY <1>2, <1>8 DEF PrintStarts, PrintEnds, Empties, RequestUnload, RequestLoad, Ask,
                    SelectInSpoolman
<1> QED
  BY <1>3, <1>4, <1>5, <1>6, <1>7, <1>8 DEF SpoolPeople, Machine

\* A late request finds the macro busy and leaves it.
LEMMA RequestKeeps ==
  ASSUME SpoolInv, NEW r \in requests, DeliverRequest(r) \/ RequestDies(r)
  PROVE  \A q \in Printer : Keeps(macro[q], macro'[q])
<1>1. CASE DeliverRequest(r)
  <2>1. ~Underway(macro[r.printer])
    BY <1>1 DEF DeliverRequest, Accepts, Underway
  <2>2. \A q \in Printer \ {r.printer} : macro'[q] = macro[q]
    BY <1>1 DEF DeliverRequest, SpoolInv
  <2> QED
    BY <2>1, <2>2 DEF Keeps
<1>2. CASE RequestDies(r)
  BY <1>2 DEF RequestDies, Keeps
<1> QED
  BY <1>1, <1>2

\* A poll whose readings are old prompts a macro that refuses, and publishes around it.
LEMMA PollKeeps ==
  ASSUME SpoolInv, Poll
  PROVE  \A q \in Printer : Keeps(macro[q], macro'[q])
<1> DEFINE m == macro[Visited]
<1>0. Visited \in Printer /\ m \in MacroState /\ macro \in [Printer -> MacroState]
  BY VisitedIsPrinter DEF SpoolInv
<1>1. ASSUME NEW n, macro' = [macro EXCEPT ![Visited] = n], Keeps(m, n)
      PROVE  \A q \in Printer : Keeps(macro[q], macro'[q])
  BY <1>0, <1>1 DEF Keeps
<1>2. CASE UNCHANGED macro
  BY <1>2 DEF Keeps
<1>3. CASE \E failing \in BOOLEAN : RepairActive(failing)
  <2>1. Underway(m) => Prompted(m) = m
    BY DEF Underway, Prompted, SpoolmanTarget
  <2>2. Keeps(m, Prompted(m))
    BY <2>1 DEF Keeps
  <2> QED
    BY <1>1, <1>3, <2>2 DEF RepairActive
<1>4. CASE \E failing \in BOOLEAN : PublishCatalog(failing)
  <2> DEFINE published == [m EXCEPT !.catalog = Eligible(Visited)]
             seeded == [published EXCEPT !.loaded = Effective, !.initialized = TRUE]
  <2>1. published.target = m.target /\ seeded.target = m.target
    BY <1>0 DEF MacroState
  <2>2. Keeps(m, published) /\ Keeps(m, seeded)
    BY <2>1 DEF Keeps
  <2>3. UNCHANGED macro \/ macro' = [macro EXCEPT ![Visited] = published]
        \/ macro' = [macro EXCEPT ![Visited] = seeded]
    BY <1>4 DEF PublishCatalog
  <2> HIDE DEF published, seeded
  <2> QED
    BY <1>1, <1>2, <2>2, <2>3
<1>5. CASE DeferPrinter \/ OwnSpool \/ \E noActive, noMacro \in BOOLEAN : ReadPrinter(noActive, noMacro)
  BY <1>2, <1>5 DEF DeferPrinter, OwnSpool, ReadPrinter
<1> QED
  BY <1>3, <1>4, <1>5 DEF Poll

\* From the insertion prompt to the end of the load nothing exchanges the spool the
\* operator was asked to insert: neither a queued request whose turn comes late nor a
\* poll acting on an old report of the macro.
THEOREM PromptedSpoolStands == SpoolSpec => TargetStands
<1>1. SpoolInv /\ [SpoolNext]_spoolVars => \A q \in Printer : Keeps(macro[q], macro'[q])
  <2> SUFFICES ASSUME SpoolInv, [SpoolNext]_spoolVars
               PROVE  \A q \in Printer : Keeps(macro[q], macro'[q])
    OBVIOUS
  <2>1. CASE UNCHANGED spoolVars
    BY <2>1 DEF spoolVars, Keeps
  <2> QED
    BY <2>1, PeopleKeep, RequestKeeps, PollKeeps DEF SpoolNext
<1>2. SpoolInv /\ [SpoolNext]_spoolVars =>
        [\A p \in Printer :
           /\ macro[p].phase \in {"inserting", "loading"}
           /\ macro'[p].phase \in {"inserting", "loading", "ready"}
           => macro'[p].target = macro[p].target]_spoolVars
  BY <1>1 DEF Keeps, Underway
<1> QED
  BY <1>2, SpoolInvHolds, PTL DEF SpoolSpec, TargetStands

=============================================================================
