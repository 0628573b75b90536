---------------------------- MODULE PhysicalSpool ----------------------------
(***************************************************************************)
(* Which spool is physically on which printer.  Klipper's macro records    *)
(* the last completed unload or load; Moonraker tracks an active Spoolman  *)
(* id anybody may change; the database holds the canonical place of every  *)
(* spool.  People load and unload through the macros or ask the            *)
(* application, whose queued request runs later, and one recurring job     *)
(* polls the printers in order and makes the three agree.                  *)
(***************************************************************************)
EXTENDS Integers, Sequences, FiniteSets

CONSTANTS Bindings,      \* the printers, in the order the poll visits them
          Spool,
          Placed,        \* the spool each printer starts with
          NoSpool, NoPrinter, Unread, Failed,
          MaxOperations, \* bound on what people start
          MaxFaults      \* bound on failed calls and Klipper restarts

Printer == {Bindings[i] : i \in DOMAIN Bindings}
SomeSpool == Spool \cup {NoSpool}

ASSUME PhysicalAssumption ==
    /\ Len(Bindings) \in Nat \ {0} /\ DOMAIN Bindings = 1..Len(Bindings)
    /\ NoSpool \notin Spool /\ NoPrinter \notin Printer
    /\ {Unread, Failed} \cap (Spool \cup {NoSpool}) = {}
    /\ Placed \in [Printer -> SomeSpool]
    /\ {MaxOperations, MaxFaults} \subseteq Nat

VARIABLES
    macro,      \* FILAMENT_MANAGER_SPOOL_STATE of each printer
    active,     \* the Spoolman id Moonraker tracks
    printing,   \* printers with a print in motion
    home,       \* Spool.active_printer_id
    spent,      \* spools without mass
    archived,
    requests,   \* spool_change and spool_unload jobs not done yet
    visit,      \* where moonraker.state.reconcile is, and what it has read
    operations, faults

spoolVars == <<macro, active, printing, home, spent, archived, requests, visit,
               operations, faults>>

\* after: the phase that follows the unload in progress.
Phases == {"idle", "load_select", "manual_select", "spoolman_select", "unloading",
           "inserting", "loading", "ready", "error"}
MacroState == [loaded : SomeSpool, phase : Phases, target : SomeSpool, after : Phases,
               catalog : SUBSET Spool, initialized : BOOLEAN, restored : BOOLEAN]
Request == [spool : SomeSpool, printer : Printer]   \* NoSpool asks for an unload
Steps == {"read", "repair", "own", "publish"}

Visited == Bindings[visit.at]
Fresh(i) == [at |-> i, step |-> "read", active |-> Unread, macro |-> Unread]
NextPrinter == Fresh((visit.at % Len(Bindings)) + 1)

\* A printer without a spool starts with macros just installed, the others in agreement.
SpoolInit ==
    /\ macro = [p \in Printer |->
                  [loaded |-> Placed[p], phase |-> "idle", target |-> NoSpool, after |-> "idle",
                   catalog |-> {}, initialized |-> Placed[p] # NoSpool, restored |-> TRUE]]
    /\ active = Placed /\ printing = {}
    /\ home = [s \in Spool |-> IF \E p \in Printer : Placed[p] = s
                               THEN CHOOSE p \in Printer : Placed[p] = s ELSE NoPrinter]
    /\ spent = {} /\ archived = {} /\ requests = {} /\ visit = Fresh(1)
    /\ operations = 0 /\ faults = 0

-----------------------------------------------------------------------------
(* The printer's macros.                                                   *)

Initialized(p) == macro[p].restored /\ macro[p].initialized

\* _FILAMENT_MANAGER_BEGIN_CHANGE: unload what is loaded, then ask for the insertion.
BeginChange(m, s) ==
    [m EXCEPT !.target = s, !.after = "inserting",
              !.phase = IF m.loaded = NoSpool THEN "inserting" ELSE "unloading"]

\* A choice from the catalog, in either selector.
ChooseLoad(m, s) ==
    IF s = m.loaded THEN [m EXCEPT !.phase = "idle"] ELSE BeginChange(m, s)
ChooseManual(m, s) == [m EXCEPT !.target = s, !.phase = "inserting"]

\* FILAMENT_MANAGER_SPOOLMAN_TARGET, which refuses in any other phase.
SpoolmanTarget(m, s) ==
    CASE m.phase = "manual_select" /\ s \in m.catalog -> ChooseManual(m, s)
      [] m.phase = "load_select" /\ s \in m.catalog   -> ChooseLoad(m, s)
      [] m.phase = "idle" /\ s # m.loaded ->
           [m EXCEPT !.target = s, !.phase = "spoolman_select"]
      [] OTHER -> m

\* _FILAMENT_MANAGER_RECORD_LOADED, the commit point of physical state.
RecordLoaded(p, s, phase) ==
    /\ active' = [active EXCEPT ![p] = s]
    /\ macro' = [macro EXCEPT ![p].loaded = s, ![p].initialized = TRUE, ![p].phase = phase]

Cleared(m) == [m EXCEPT !.phase = "idle", !.target = NoSpool]

Server == <<home, spent, archived, requests, visit>>
Operates == operations < MaxOperations /\ operations' = operations + 1
MacroStep(p, m) ==
    /\ macro' = [macro EXCEPT ![p] = m]
    /\ UNCHANGED <<active, printing, faults, Server>>

\* LOAD_FILAMENT without an id.
OpenSelector(p) ==
    /\ Operates /\ Initialized(p) /\ macro[p].phase = "idle" /\ p \notin printing
    /\ MacroStep(p, [macro[p] EXCEPT !.phase = "load_select"])

\* M600, also during a print.
FilamentChange(p) ==
    /\ Operates /\ Initialized(p) /\ macro[p].phase = "idle"
    /\ MacroStep(p, [macro[p] EXCEPT !.target = NoSpool, !.after = "manual_select",
          !.phase = IF macro[p].loaded = NoSpool THEN "manual_select" ELSE "unloading"])

\* UNLOAD_FILAMENT.
UnloadFilament(p) ==
    /\ Operates /\ macro[p].loaded # NoSpool /\ macro[p].phase = "idle" /\ p \notin printing
    /\ macro[p].restored
    /\ MacroStep(p, [macro[p] EXCEPT !.phase = "unloading", !.after = "idle"])

Choose(p, s) ==
    /\ s \in macro[p].catalog
    /\ \/ macro[p].phase = "load_select" /\ MacroStep(p, ChooseLoad(macro[p], s))
       \/ macro[p].phase = "manual_select" /\ MacroStep(p, ChooseManual(macro[p], s))
    /\ UNCHANGED operations

\* The three buttons under a Spoolman selection.
ChangeToSpoolmanTarget(p) ==
    /\ macro[p].phase = "spoolman_select"
    /\ MacroStep(p, BeginChange(macro[p], macro[p].target))
    /\ UNCHANGED operations

AdoptSpoolmanTarget(p) ==
    /\ macro[p].phase = "spoolman_select" /\ macro[p].loaded = NoSpool
    /\ RecordLoaded(p, macro[p].target, "idle")
    /\ UNCHANGED <<printing, operations, faults, Server>>

CancelSpoolmanTarget(p) ==
    /\ macro[p].phase = "spoolman_select"
    /\ active' = [active EXCEPT ![p] = macro[p].loaded]
    /\ macro' = [macro EXCEPT ![p] = Cleared(@)]
    /\ UNCHANGED <<printing, operations, faults, Server>>

UnloadEnds(p) ==
    /\ macro[p].phase = "unloading"
    /\ RecordLoaded(p, NoSpool, macro[p].after)
    /\ UNCHANGED <<printing, operations, faults, Server>>

ConfirmInsertion(p) ==
    /\ macro[p].phase = "inserting"
    /\ MacroStep(p, [macro[p] EXCEPT !.phase = "loading"])
    /\ UNCHANGED operations

LoadEnds(p) ==
    /\ macro[p].phase = "loading"
    /\ RecordLoaded(p, macro[p].target, "ready")
    /\ UNCHANGED <<printing, operations, faults, Server>>

FinishChange(p) ==
    /\ macro[p].phase = "ready"
    /\ MacroStep(p, [macro[p] EXCEPT !.phase = "idle"])
    /\ UNCHANGED operations

HeaterTimeout(p) ==
    /\ macro[p].phase = "inserting"
    /\ MacroStep(p, [macro[p] EXCEPT !.phase = "error"])
    /\ UNCHANGED operations

\* FILAMENT_MANAGER_ABORT; a macro in motion finishes first.
Abort(p) ==
    /\ macro[p].phase \notin {"idle", "unloading", "loading"}
    /\ macro' = [macro EXCEPT ![p] = Cleared(@)]
    /\ printing' = printing \ {p}
    /\ UNCHANGED <<active, operations, faults, Server>>

PrintStarts(p) ==
    /\ Operates /\ Initialized(p)
    /\ macro[p].phase = "idle" /\ macro[p].loaded # NoSpool /\ p \notin printing
    /\ printing' = printing \cup {p}
    /\ UNCHANGED <<macro, active, faults, Server>>

PrintEnds(p) ==
    /\ p \in printing /\ macro[p].phase = "idle"
    /\ printing' = printing \ {p}
    /\ UNCHANGED <<macro, active, operations, faults, Server>>

\* Klipper restarts: the saved variables come back half a second later.  Inside the
\* commit point Moonraker may already have been told of the new spool.
KlipperRestarts(p) ==
    /\ faults < MaxFaults /\ faults' = faults + 1
    /\ macro' = [macro EXCEPT ![p] = [Cleared(@) EXCEPT !.restored = FALSE]]
    /\ active' \in {active} \cup
         (CASE macro[p].phase = "loading"   -> {[active EXCEPT ![p] = macro[p].target]}
            [] macro[p].phase = "unloading" -> {[active EXCEPT ![p] = NoSpool]}
            [] OTHER -> {})
    /\ printing' = printing \ {p}
    /\ UNCHANGED <<operations, Server>>

RestoreState(p) ==
    /\ ~macro[p].restored
    /\ MacroStep(p, [macro[p] EXCEPT !.restored = TRUE])
    /\ UNCHANGED operations

\* Somebody picks a spool, or clears it, in Spoolman's or Fluidd's own panel.
SelectInSpoolman(p, s) ==
    /\ Operates /\ active[p] # s
    /\ active' = [active EXCEPT ![p] = s]
    /\ UNCHANGED <<macro, printing, faults, Server>>

Empties(p) ==
    /\ p \in printing /\ macro[p].loaded \in Spool \ spent
    /\ spent' = spent \cup {macro[p].loaded}
    /\ UNCHANGED <<macro, active, printing, operations, faults, home, archived,
                   requests, visit>>

-----------------------------------------------------------------------------
(* Requests through the application.                                       *)

\* spool_change_target: not on another printer, available and not empty.
Loadable(s, p) == home[s] \in {NoPrinter, p} /\ s \notin archived \cup spent

Ask(r) ==
    /\ Operates /\ r.printer \notin printing
    /\ requests' = requests \cup {r}
    /\ UNCHANGED <<macro, active, printing, faults, home, spent, archived, visit>>

RequestLoad(s, p) == Loadable(s, p) /\ Ask([spool |-> s, printer |-> p])
RequestUnload(p) == (\E s \in Spool : home[s] = p) /\ Ask([spool |-> NoSpool, printer |-> p])

\* Mutated form: the macro takes a request in the middle of a workflow.
AcceptsInWorkflow(r) ==
    /\ Initialized(r.printer) /\ macro[r.printer].phase # "unloading"
    /\ r.spool # NoSpool /\ Loadable(r.spool, r.printer)

Accepts(r) ==
    LET m == macro[r.printer] IN
    /\ r.printer \notin printing /\ Initialized(r.printer) /\ m.phase = "idle"
    /\ IF r.spool = NoSpool THEN m.loaded # NoSpool ELSE Loadable(r.spool, r.printer)

Asked(m, r) ==
    IF r.spool = NoSpool THEN [m EXCEPT !.phase = "unloading", !.after = "idle"]
    ELSE IF r.spool = m.loaded THEN m ELSE BeginChange(m, r.spool)

\* The job's turn, perhaps long after the click.
DeliverRequest(r) ==
    /\ r \in requests /\ Accepts(r)
    /\ requests' = requests \ {r}
    /\ macro' = [macro EXCEPT ![r.printer] = Asked(@, r)]
    /\ UNCHANGED <<active, printing, operations, faults, home, spent, archived, visit>>

\* A refused request is retried until its attempts are used up.
RequestDies(r) ==
    /\ r \in requests /\ ~Accepts(r)
    /\ requests' = requests \ {r}
    /\ UNCHANGED <<macro, active, printing, operations, faults, home, spent,
                   archived, visit>>

-----------------------------------------------------------------------------
(* The poll.                                                               *)

PollStep(next) ==
    /\ visit' = next
    /\ UNCHANGED <<printing, spent, requests, operations>>

\* A canonical print in motion: the printer is left alone until a later pass.
DeferPrinter ==
    /\ visit.step = "read" /\ Visited \in printing /\ PollStep(NextPrinter)
    /\ UNCHANGED <<macro, active, home, archived, faults>>

Fails(failing) == IF failing THEN faults < MaxFaults /\ faults' = faults + 1
                             ELSE UNCHANGED faults

\* What the poll uses of FILAMENT_MANAGER_SPOOL_STATE.
Reported(m) == [loaded |-> m.loaded, initialized |-> m.initialized, restored |-> m.restored,
                selecting |-> m.phase \in {"idle", "load_select", "manual_select"}]

MacroRead(v) == v.macro \notin {Unread, Failed}
Drifted(v) == MacroRead(v) /\ v.macro.initialized /\ v.macro.loaded # v.active
Restoring(v) == MacroRead(v) /\ ~v.macro.restored

\* Nothing is done without the active id or while the macro restores.
AfterReads(v) ==
    IF v.active = Failed \/ Restoring(v) THEN NextPrinter
    ELSE [v EXCEPT !.step = IF Drifted(v) THEN "repair" ELSE "own"]

\* The concurrent reads, taken at one moment; either may fail.  (The third is the mesh,
\* see BuildPlates.)
ReadPrinter(noActive, noMacro) ==
    /\ visit.step = "read" /\ Visited \notin printing
    /\ Fails(noActive \/ noMacro)
    /\ PollStep(AfterReads([visit EXCEPT
         !.active = IF noActive THEN Failed ELSE active[Visited],
         !.macro = IF noMacro THEN Failed ELSE Reported(macro[Visited])]))
    /\ UNCHANGED <<macro, active, home, archived>>

\* What becomes canonical: the macro's record, or Moonraker's id where there is none.
Effective == IF Drifted(visit) THEN visit.macro.loaded ELSE visit.active

\* request_spoolman_target: a direct selection becomes a guarded target, or is turned
\* down in silence.
Prompted(m) ==
    IF /\ visit.active # NoSpool /\ visit.macro.selecting
       /\ Loadable(visit.active, Visited)
    THEN SpoolmanTarget(m, visit.active) ELSE m

\* Mutated form: the id Moonraker tracks is left as it was selected.
PromptsOnly(failing) ==
    /\ visit.step = "repair" /\ Fails(failing)
    /\ macro' = [macro EXCEPT ![Visited] = Prompted(@)]
    /\ PollStep([visit EXCEPT !.step = "own"])
    /\ UNCHANGED <<active, home, archived>>

\* The prompt, then set_active_spool with what the macro reported.
RepairActive(failing) ==
    /\ visit.step = "repair" /\ Fails(failing)
    /\ macro' = [macro EXCEPT ![Visited] = Prompted(@)]
    /\ active' = IF failing THEN active ELSE [active EXCEPT ![Visited] = visit.macro.loaded]
    /\ PollStep([visit EXCEPT !.step = "own"])
    /\ UNCHANGED <<home, archived>>

Elsewhere(s, p) == s # NoSpool /\ home[s] \notin {NoPrinter, p}

\* Mutated form: the spool loaded before keeps its place.
HomesKept(s, p) == [x \in Spool |-> IF x = s THEN p ELSE home[x]]

HomesWith(s, p) ==
    [x \in Spool |-> IF x = s THEN p ELSE IF home[x] = p THEN NoPrinter ELSE home[x]]

\* synchronize_active_spool.  A spool on another printer raises, which ends the whole job.
OwnSpool ==
    /\ visit.step = "own"
    /\ IF Elsewhere(Effective, Visited)
       THEN PollStep(Fresh(1)) /\ UNCHANGED <<home, archived>>
       ELSE /\ home' = HomesWith(Effective, Visited)
            /\ archived' = archived \cup {x \in spent : home[x] = Visited /\ x # Effective}
            /\ PollStep(IF MacroRead(visit) THEN [visit EXCEPT !.step = "publish"]
                        ELSE NextPrinter)
    /\ UNCHANGED <<macro, active, faults>>

Eligible(p) == {s \in Spool : Loadable(s, p)}

\* The catalog, then the first physical state; a failure here is only a status.
PublishCatalog(failing) ==
    /\ visit.step = "publish" /\ Fails(failing)
    /\ IF failing THEN UNCHANGED <<macro, active>>
       ELSE LET seeds == ~visit.macro.initialized /\ ~macro[Visited].initialized
                published == [macro[Visited] EXCEPT !.catalog = Eligible(Visited)]
            IN IF seeds
               THEN /\ macro' = [macro EXCEPT ![Visited] =
                                   [published EXCEPT !.loaded = Effective, !.initialized = TRUE]]
                    /\ active' = [active EXCEPT ![Visited] = Effective]
               ELSE /\ macro' = [macro EXCEPT ![Visited] = published]
                    /\ UNCHANGED <<active>>
    /\ PollStep(NextPrinter)
    /\ UNCHANGED <<home, archived>>

-----------------------------------------------------------------------------
Machine(p) == UnloadEnds(p) \/ LoadEnds(p) \/ RestoreState(p) \/ PrintEnds(p)

SpoolPeople(p) ==
    \/ OpenSelector(p) \/ FilamentChange(p) \/ UnloadFilament(p)
    \/ ChangeToSpoolmanTarget(p) \/ AdoptSpoolmanTarget(p) \/ CancelSpoolmanTarget(p)
    \/ ConfirmInsertion(p) \/ FinishChange(p) \/ Abort(p)
    \/ PrintStarts(p) \/ Empties(p) \/ RequestUnload(p)
    \/ \E s \in Spool : Choose(p, s) \/ RequestLoad(s, p)
    \/ \E s \in SomeSpool : SelectInSpoolman(p, s)

Poll ==
    \/ DeferPrinter \/ OwnSpool
    \/ \E noActive, noMacro \in BOOLEAN : ReadPrinter(noActive, noMacro)
    \/ \E failing \in BOOLEAN : RepairActive(failing) \/ PublishCatalog(failing)

SpoolNext ==
    \/ \E p \in Printer : SpoolPeople(p) \/ Machine(p) \/ HeaterTimeout(p) \/ KlipperRestarts(p)
    \/ \E r \in requests : DeliverRequest(r) \/ RequestDies(r)
    \/ Poll

\* What a printer has begun ends: motions, restores and prints.
MachineEnds(p) == UnloadEnds(p) \/ LoadEnds(p) \/ RestoreState(p) \/ PrintEnds(p)

\* And the scheduler keeps queueing the poll.  Nobody has to finish a workflow he started.
SpoolFairness == WF_spoolVars(Poll) /\ \A p \in Printer : WF_spoolVars(MachineEnds(p))

SpoolSpec == SpoolInit /\ [][SpoolNext]_spoolVars /\ SpoolFairness

-----------------------------------------------------------------------------
(* What is claimed.                                                        *)

SpoolTypeOK ==
    /\ macro \in [Printer -> MacroState] /\ active \in [Printer -> SomeSpool]
    /\ printing \subseteq Printer /\ home \in [Spool -> Printer \cup {NoPrinter}]
    /\ archived \subseteq spent /\ spent \subseteq Spool
    /\ requests \subseteq Request
    /\ visit.at \in DOMAIN Bindings /\ visit.step \in Steps
    /\ visit.active \in SomeSpool \cup {Unread, Failed}
    /\ MacroRead(visit) => visit.macro.loaded \in SomeSpool

\* Whatever the order of loads, unloads, direct selections, lost calls and polls, the
\* database never shows two spools on one hotend: usage would be charged to both.
PrinterHoldsOne == \A p \in Printer : Cardinality({s \in Spool : home[s] = p}) <= 1

\* From the insertion prompt to the end of the load the spool being loaded stays the one
\* the operator was asked to insert: no late request and no poll exchanges it.
TargetStands ==
    [][\A p \in Printer :
         /\ macro[p].phase \in {"inserting", "loading"}
         /\ macro'[p].phase \in {"inserting", "loading", "ready"}
         => macro'[p].target = macro[p].target]_spoolVars

Agrees(p) ==
    /\ active[p] = macro[p].loaded
    /\ {s \in Spool : home[s] = p} = {macro[p].loaded} \ {NoSpool}

\* The macro's record, or before the first one Moonraker's id, has another place on record.
Blocks(p) == Elsewhere(IF macro[p].initialized THEN macro[p].loaded ELSE active[p], p)

\* Once people stop, the canonical place of the spools and the id Moonraker tracks come
\* to agree with what the macro recorded, for every printer that is not printing; except
\* for the printers polled after one that claims a spool recorded elsewhere, where each
\* pass ends in an error.
SpoolsSettled ==
    \A i \in DOMAIN Bindings :
       (\A j \in 1..i : ~Blocks(Bindings[j])) => Bindings[i] \in printing \/ Agrees(Bindings[i])
=============================================================================
