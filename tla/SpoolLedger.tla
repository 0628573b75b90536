---------------------------- MODULE SpoolLedger ----------------------------
(***************************************************************************)
(* The remaining mass of one spool, kept in two places: the canonical      *)
(* balance in PostgreSQL, moved by weighings, edits, finished prints and   *)
(* imports, and Spoolman's remaining_weight, moved by the printer as it    *)
(* extrudes and by the worker.  The worker imports what the printer took   *)
(* (spoolman.reconcile.full) and writes back what people and finished      *)
(* prints said (spoolman.spool.adjust_weight).                             *)
(***************************************************************************)
EXTENDS Integers, SequencesExt

CONSTANTS Worker,         \* dispatcher loops
          Capacity,       \* nominal_net_mass_g, also the initial balance
          Tare,           \* empty-spool weights somebody may enter
          FirstTare,      \* the one the spool was created with
          MaxStatements,  \* bound on weighings and edits
          MaxPrints,      \* bound on prints
          MaxSpent,       \* bound on grams extruded in all
          MaxChanges,     \* bound on loads while somebody holds a copy of the row
          NoReading,      \* no accepted SpoolMeasurement
          NoRecord,       \* Spoolman does not have the spool yet
          Keep,           \* an edit without remaining_mass_g
          Nothing         \* an idle dispatcher, or no observer pass under way

Mass == 0..Capacity

ASSUME LedgerAssumption ==
    /\ Capacity \in Nat \ {0}
    /\ Tare \subseteq Nat \ {0} /\ FirstTare \in Tare
    /\ {MaxStatements, MaxPrints, MaxSpent, MaxChanges} \subseteq Nat
    /\ NoReading \notin Int /\ NoRecord \notin Int /\ Keep \notin Int

VARIABLES
    expected, effective,  \* remaining_mass_expected_g, remaining_mass_effective_g
    reading, tare,        \* latest accepted gross_mass_g, tare_mass_g
    adjusted,             \* sum of the usage events since, tare corrections apart
    usageKeys,            \* <<before, after>> in the keys of imported events
    loaded, archived,     \* active_printer_id is set, archived
    linked,               \* spoolman_id is set
    remote,               \* Spoolman's remaining_weight
    version,              \* record_version: see Versions
    corrections,          \* adjust_weight jobs in the order of created_at
    latest, top,          \* the one with the highest aggregate_version, and that version
    task,                 \* what each dispatcher is in the middle of
    print,                \* the current PrintJob and its segment of this spool
    observer,             \* what a print observer pass read of the spool
    spent,                \* history: grams extruded
    late, blurred,        \* history: see Capture; see UpdateSpool, ApplyTerminal
    statements, prints    \* counts, for their bounds

balance == <<expected, effective>>
basis == <<reading, tare, adjusted>>
shelf == <<loaded, archived, version, latest, top>>
remoteVars == <<linked, remote>>
past == <<spent, late, blurred>>
counts == <<statements, prints>>
vars == <<balance, basis, usageKeys, shelf, remoteVars, corrections, task, print,
          observer, past, counts>>

\* What a dispatcher has read and not yet written back.
Task == [job : {"create"}, mass : Mass, version : Nat]
        \cup [job : {"adjust"}, for : Nat, mass : Mass]
        \cup [job : {"reconcile"}, mass : Mass \cup {NoRecord}]

\* The stage of the print, and its segment once it is captured.
PrintState == [stage : {"none", "running", "ended"}, captured : BOOLEAN,
               start : Mass, used : Nat, shift : Int]

\* The spool as a pass of the print observer loaded it.
LoadedSpool == [expected : Mass, effective : Mass, loaded : BOOLEAN, archived : BOOLEAN,
                version : Nat, weighed : BOOLEAN]

NoPrint == [stage |-> "none", captured |-> FALSE, start |-> 0, used |-> 0, shift |-> 0]

OrderOK == version \in Nat /\ top \in Nat /\ latest \in 0..Len(corrections)

TypeOK ==
    /\ expected \in Mass /\ effective \in Mass
    /\ reading \in Nat \cup {NoReading} /\ tare \in Tare /\ adjusted \in Int
    /\ usageKeys \subseteq Mass \X Mass
    /\ {loaded, archived, linked, late, blurred} \subseteq BOOLEAN
    /\ remote \in Mass \cup {NoRecord}
    /\ corrections \in Seq({"open", "dead", "done"})
    /\ OrderOK
    /\ task \in [Worker -> Task \cup {Nothing}]
    /\ print \in PrintState
    /\ observer \in LoadedSpool \cup {Nothing}
    /\ spent \in 0..MaxSpent
    /\ statements \in 0..MaxStatements /\ prints \in 0..MaxPrints

ASSUME NothingAssumption == Nothing \notin Task \cup LoadedSpool

\* A new spool, weighed full or entered without a weighing.
Init ==
    /\ expected = Capacity /\ effective = Capacity
    /\ tare = FirstTare
    /\ reading \in {NoReading, Capacity + tare}
    /\ adjusted = 0
    /\ usageKeys = {}
    /\ loaded = FALSE /\ archived = FALSE
    /\ linked = FALSE /\ remote = NoRecord
    /\ version = 0 /\ corrections = <<>> /\ latest = 0 /\ top = 0
    /\ task = [w \in Worker |-> Nothing]
    /\ print = NoPrint
    /\ observer = Nothing
    /\ spent = 0
    /\ late = FALSE /\ blurred = FALSE
    /\ statements = 0 /\ prints = 0

Least(a, b) == IF a < b THEN a ELSE b

\* Mutated form: a balance may go below zero.
MayGoNegative(n) == n

\* max(Decimal(0), n), and Spoolman's own floor.
NonNegative(n) == IF n < 0 THEN 0 ELSE n

\* archive_empty_spool, called with the row's new balance.
ArchiveEmpty(was, left, on) == archived' = (was \/ (left = 0 /\ ~on))

\* Archiving is one more change of the row.
Archived(v, was, left, on) == IF left = 0 /\ ~on /\ ~was THEN v + 1 ELSE v

\* Somebody holds a copy of the row that it may write back, version and all.
Held == observer' # Nothing \/ \E w \in Worker : task'[w] # Nothing /\ task'[w].job = "create"

\* The row is left at version v, the highest correction at h.  Only what lies between
\* versions matters, so they are counted from the row's own while nobody holds a copy.
Versions(v, h) ==
    /\ version' = IF Held THEN v ELSE 0
    /\ top' = IF Held THEN h ELSE NonNegative(h - v)

\* A change that queues no correction.
Changed(v) == Versions(v, top) /\ UNCHANGED latest

\* add_outbox_job: the order of _reconcile_spoolman's select is aggregate_version, then
\* created_at, so that the new correction is the latest unless one has a higher version.
Correct(v) ==
    /\ corrections' = Append(corrections, "open")
    /\ latest' = IF v < top THEN latest ELSE Len(corrections) + 1
    /\ Versions(v, IF v < top THEN top ELSE v)

\* Usage events before the latest accepted weighing no longer matter.
Record(delta) == adjusted' = IF reading = NoReading THEN 0 ELSE adjusted + delta

Restate == statements < MaxStatements /\ statements' = statements + 1

-----------------------------------------------------------------------------
(* Operators: record_measurement and update_spool, under the row lock.     *)

\* A gross weighing becomes the new balance and the new basis.
Weigh(gross) ==
    LET net == gross - tare IN
    /\ Restate
    /\ net \in Mass
    /\ reading' = gross /\ adjusted' = 0
    /\ expected' = net /\ effective' = net
    /\ ArchiveEmpty(archived, net, loaded)
    /\ observer' = IF observer = Nothing THEN Nothing ELSE [observer EXCEPT !.weighed = TRUE]
    /\ UNCHANGED task
    /\ Correct(Archived(version + 1, archived, net, loaded))
    /\ blurred' = FALSE
    /\ UNCHANGED <<tare, usageKeys, loaded, remoteVars, print, spent, late, prints>>

\* SpoolMassBasis.remaining, or the balance as it is without a basis.
Recalculated(t) ==
    IF reading = NoReading THEN effective ELSE NonNegative(reading - t + adjusted)

\* Mutated form: the recalculation for a new tare is recorded as consumption.
CountsTareToo(base, left) == left - effective

\* The operator_correction event; a tare_correction event is not in the basis.
Counted(base, left) == left - base

\* Any edit: a tare, a remaining mass, metadata only, or a restored spool.
UpdateSpool(t, v, shelve) ==
    LET base == Recalculated(t)
        left == IF v = Keep THEN base ELSE v IN
    /\ Restate
    /\ reading # NoReading => t <= reading
    /\ left <= Capacity
    /\ tare' = t
    /\ expected' = IF reading = NoReading /\ left = base THEN expected ELSE left
    /\ effective' = left
    /\ Record(Counted(base, left))
    /\ ArchiveEmpty(shelve, left, loaded)
    /\ print' = [print EXCEPT !.shift = IF print.captured THEN @ + base - effective ELSE 0]
    /\ UNCHANGED <<task, observer>>
    /\ LET after == Archived(version + 1, shelve, left, loaded) IN
          IF linked /\ (left # base \/ base # effective)
          THEN Correct(after) ELSE Changed(after) /\ UNCHANGED corrections
    /\ blurred' = (blurred \/ (reading # NoReading /\ reading - t + adjusted < 0))
    /\ UNCHANGED <<reading, usageKeys, loaded, remoteVars, spent, late, prints>>

-----------------------------------------------------------------------------
(* Printers: what is loaded, what Moonraker takes off Spoolman's balance,  *)
(* and what the print observer makes of it.                                *)

\* synchronize_active_spool follows a physical load or unload.
Load ==
    /\ linked /\ ~loaded /\ version < MaxChanges
    /\ loaded' = TRUE
    /\ UNCHANGED <<balance, basis, usageKeys, archived, remoteVars, corrections, task,
                   print, observer, past, counts>>
    /\ Changed(version + 1)

Unload ==
    /\ loaded /\ print.stage # "running"
    /\ loaded' = FALSE
    /\ ArchiveEmpty(archived, effective, FALSE)
    /\ UNCHANGED <<balance, basis, usageKeys, remoteVars, corrections, task,
                   print, observer, past, counts>>
    /\ Changed(Archived(version + 1, archived, effective, FALSE))

StartPrint ==
    /\ loaded /\ print.stage = "none" /\ prints < MaxPrints
    /\ print' = [NoPrint EXCEPT !.stage = "running"]
    /\ prints' = prints + 1
    /\ UNCHANGED <<balance, basis, usageKeys, shelf, remoteVars, corrections, task,
                   observer, past, statements>>

\* Moonraker counts the gram and takes it off Spoolman's record.
Extrude ==
    /\ print.stage = "running" /\ spent < MaxSpent
    /\ print' = [print EXCEPT !.used = @ + 1]
    /\ spent' = spent + 1
    /\ remote' = NonNegative(remote - 1)
    /\ UNCHANGED <<balance, basis, usageKeys, shelf, linked, corrections, task,
                   observer, late, blurred, counts>>

EndPrint ==
    /\ print.stage = "running"
    /\ print' = [print EXCEPT !.stage = "ended"]
    /\ UNCHANGED <<balance, basis, usageKeys, shelf, remoteVars, corrections, task,
                   observer, past, counts>>

\* The first observer pass that sees the print stores today's balance as the
\* segment's starting mass, however much the print has already used.
Capture ==
    /\ loaded /\ print.stage # "none" /\ ~print.captured
    /\ print' = [print EXCEPT !.captured = TRUE, !.start = effective, !.shift = 0]
    /\ late' = (late \/ print.used > 0)
    /\ UNCHANGED <<balance, basis, usageKeys, shelf, remoteVars, corrections, task,
                   observer, spent, blurred, counts>>

\* A print nobody saw before its file was unloaded becomes a legacy import.
NeverCaptured ==
    /\ print.stage = "ended" /\ ~print.captured
    /\ print' = NoPrint
    /\ UNCHANGED <<balance, basis, usageKeys, shelf, remoteVars, corrections, task,
                   observer, past, counts>>

\* The pass that sees the end first loads the spool, without locking it.
Observe ==
    /\ print.stage = "ended" /\ print.captured /\ observer = Nothing
    /\ observer' = [expected |-> expected, effective |-> effective, loaded |-> loaded,
                    archived |-> archived, version |-> version, weighed |-> FALSE]
    /\ UNCHANGED <<balance, basis, usageKeys, shelf, remoteVars, corrections, task,
                   print, past, counts>>

ObserveFails ==
    /\ observer # Nothing
    /\ observer' = Nothing
    /\ UNCHANGED <<balance, basis, usageKeys, loaded, archived, remoteVars, corrections, task,
                   print, past, counts>>
    /\ Changed(version)

\* Mutated form: the print's use comes off whatever the balance is now.
SubtractsAgain(before, target) == NonNegative(before - print.used)

\* The lower trusted value wins.
Corrected(before, target) == Least(before, target)

\* Mutated form: only one of the two balances is corrected.
KeepsExpected(target) == expected

\* The stale object is written back only where its value changed.
CorrectedExpected(target) ==
    IF Corrected(observer.expected, target) = observer.expected THEN expected
    ELSE Corrected(observer.expected, target)

\* _apply_terminal_spool_usage: the locking select returns the object that the
\* pass loaded before (no populate_existing), so the arithmetic is on what the
\* pass read then, the version's too; the event's created_at may precede a weighing's.
ApplyTerminal ==
    LET target == NonNegative(print.start + print.shift - print.used)
        left == Corrected(observer.effective, target) IN
    /\ observer # Nothing
    /\ print' = NoPrint
    /\ observer' = Nothing
    /\ UNCHANGED <<usageKeys, remoteVars, task, counts>>
    /\ IF print.used = 0
       THEN /\ UNCHANGED <<balance, basis, loaded, archived, corrections, past>>
            /\ Changed(version)
       ELSE /\ expected' = CorrectedExpected(target)
            /\ effective' = IF left = observer.effective THEN effective ELSE left
            /\ \/ Record(left - observer.effective)
               \/ observer.weighed /\ UNCHANGED adjusted
            /\ archived' = (archived \/ (left = 0 /\ ~observer.loaded /\ ~observer.archived))
            /\ Correct(Archived(observer.version + 1, observer.archived, left, observer.loaded))
            /\ blurred' = (blurred \/ observer.weighed \/ observer.effective # effective)
            /\ UNCHANGED <<reading, tare, loaded, spent, late>>

-----------------------------------------------------------------------------
(* The worker's Spoolman jobs.                                             *)

Idle(w) == task[w] = Nothing
Finish(w) == task' = [task EXCEPT ![w] = Nothing]

\* _project_spool read the canonical row of a spool without spoolman_id; both
\* the spool's own upsert and full convergence come here.
BeginCreate(w) ==
    /\ Idle(w) /\ ~linked
    /\ task' = [task EXCEPT ![w] = [job |-> "create", mass |-> effective,
                                          version |-> version]]
    /\ UNCHANGED <<balance, basis, usageKeys, shelf, remoteVars, corrections,
                   print, observer, past, counts>>

\* Under the projection's lock: create with the mass read before, or adopt the
\* record of an earlier attempt without touching its mass; then commit, with the version
\* that follows the one read before, or not.
FinishCreate(w) ==
    /\ ~Idle(w) /\ task[w].job = "create"
    /\ remote' = IF remote = NoRecord THEN task[w].mass ELSE remote
    /\ Finish(w)
    /\ UNCHANGED <<balance, basis, usageKeys, loaded, archived, corrections, print, observer,
                   past, counts>>
    /\ \/ linked' = TRUE /\ Changed(task[w].version + 1)
       \/ UNCHANGED linked /\ Changed(version)

\* adjust_weight reads the row without locking it.
BeginAdjust(w) ==
    /\ Idle(w) /\ linked
    /\ \E i \in DOMAIN corrections :
          /\ corrections[i] = "open"
          /\ \A v \in Worker : ~Idle(v) /\ task[v].job = "adjust" => task[v].for # i
          /\ task' = [task EXCEPT ![w] = [job |-> "adjust", for |-> i, mass |-> effective]]
    /\ UNCHANGED <<balance, basis, usageKeys, shelf, remoteVars, corrections,
                   print, observer, past, counts>>

\* Without a spoolman_id the job succeeds by doing nothing.
AdjustNothing ==
    /\ ~linked
    /\ \E i \in DOMAIN corrections :
          corrections[i] = "open" /\ corrections' = [corrections EXCEPT ![i] = "done"]
    /\ UNCHANGED <<balance, basis, usageKeys, shelf, remoteVars, task,
                   print, observer, past, counts>>

\* Spoolman takes the mass; the job is settled, or it fails after all.
FinishAdjust(w) ==
    /\ ~Idle(w) /\ task[w].job = "adjust"
    /\ remote' = task[w].mass
    /\ \E s \in {"done", "dead"} : corrections' = [corrections EXCEPT ![task[w].for] = s]
    /\ Finish(w)
    /\ UNCHANGED <<balance, basis, usageKeys, shelf, linked, print, observer, past, counts>>

\* Spoolman does not answer until the attempts run out.
AdjustFails(w) ==
    /\ ~Idle(w) /\ task[w].job = "adjust"
    /\ corrections' = [corrections EXCEPT ![task[w].for] = "dead"]
    /\ Finish(w)
    /\ UNCHANGED <<balance, basis, usageKeys, shelf, remoteVars, print, observer, past, counts>>

\* _reconcile_spoolman lists every remote spool before it locks any row.
BeginReconcile(w) ==
    /\ Idle(w)
    /\ task' = [task EXCEPT ![w] = [job |-> "reconcile", mass |-> remote]]
    /\ UNCHANGED <<balance, basis, usageKeys, shelf, remoteVars, corrections,
                   print, observer, past, counts>>

\* The latest correction has not reached Spoolman.
CorrectionPending == latest # 0 /\ corrections[latest] # "done"

\* The listed mass is lower than the balance, and nothing explains it.
Imports(w) ==
    /\ task[w].mass # NoRecord
    /\ task[w].mass < expected
    /\ ~CorrectionPending

UsageKey(w) == <<expected, task[w].mass>>

\* The drop becomes a usage event ...
ImportUsage(w) ==
    LET delta == task[w].mass - expected
        left == NonNegative(effective + delta) IN
    /\ ~Idle(w) /\ task[w].job = "reconcile"
    /\ Imports(w) /\ UsageKey(w) \notin usageKeys
    /\ usageKeys' = usageKeys \cup {UsageKey(w)}
    /\ expected' = task[w].mass /\ effective' = left
    /\ Record(delta)
    /\ ArchiveEmpty(archived, left, loaded)
    /\ Finish(w)
    /\ UNCHANGED <<reading, tare, loaded, remoteVars, corrections, print, observer,
                   spent, late, blurred, counts>>
    /\ Changed(Archived(version + 1, archived, left, loaded))

\* ... unless an event with the same before and after exists: the unique key
\* fails the whole job.
ImportClashes(w) ==
    /\ ~Idle(w) /\ task[w].job = "reconcile"
    /\ Imports(w) /\ UsageKey(w) \in usageKeys
    /\ Finish(w)
    /\ UNCHANGED <<balance, basis, usageKeys, shelf, remoteVars, corrections,
                   print, observer, past, counts>>

\* Mutated form: only spools in the listing are looked at again.
ArchivesOnlyNow == UNCHANGED shelf

\* archive_existing_empty_spools sweeps up what earlier passes missed.
ArchiveExisting ==
    /\ ArchiveEmpty(archived, effective, loaded)
    /\ Changed(Archived(version, archived, effective, loaded))

ImportNothing(w) ==
    /\ ~Idle(w) /\ task[w].job = "reconcile"
    /\ ~Imports(w)
    /\ Finish(w)
    /\ UNCHANGED <<balance, basis, usageKeys, loaded, remoteVars, corrections,
                   print, observer, past, counts>>
    /\ ArchiveExisting

\* An administrator queues an exhausted correction again.
RetryCorrection ==
    /\ \E i \in DOMAIN corrections :
          corrections[i] = "dead" /\ corrections' = [corrections EXCEPT ![i] = "open"]
    /\ UNCHANGED <<balance, basis, usageKeys, shelf, remoteVars, task,
                   print, observer, past, counts>>

-----------------------------------------------------------------------------
Next ==
    \/ \E gross \in Mass \cup {Capacity + t : t \in Tare} : Weigh(gross)
    \/ \E t \in Tare, v \in Mass \cup {Keep}, shelve \in {archived, FALSE} :
          UpdateSpool(t, v, shelve)
    \/ Load \/ Unload \/ StartPrint \/ Extrude \/ EndPrint
    \/ Capture \/ NeverCaptured \/ Observe \/ ObserveFails \/ ApplyTerminal
    \/ \E w \in Worker : \/ BeginCreate(w) \/ FinishCreate(w)
                         \/ BeginAdjust(w) \/ FinishAdjust(w) \/ AdjustFails(w)
                         \/ BeginReconcile(w)
                         \/ ImportUsage(w) \/ ImportClashes(w) \/ ImportNothing(w)
    \/ AdjustNothing \/ RetryCorrection

Safety == Init /\ [][Next]_vars

\* Full convergence is queued every minute and claimed oldest first, so it
\* gets its turn; what a dispatcher began it finishes.
Fairness ==
    /\ SF_vars(\E w \in Worker : BeginReconcile(w))
    /\ \A w \in Worker : /\ WF_vars(ImportUsage(w) \/ ImportClashes(w) \/ ImportNothing(w))
                         /\ WF_vars(FinishCreate(w))
                         /\ WF_vars(FinishAdjust(w) \/ AdjustFails(w))

Spec == Safety /\ Fairness

-----------------------------------------------------------------------------
(* Properties.                                                             *)

\* The two canonical balances never drift apart, whichever of the five writers
\* (weighing, edit, import, finished print, creation) moves them.
BalancesAgree == expected = effective

\* The balance can be explained from the evidence: it is the latest scale
\* reading less the tare plus the events since, so that an edit which changes
\* nothing recalculates nothing.  Two things blur the evidence until the next
\* weighing: a tare so high that the sum goes negative, and a finished print
\* applied to a row that changed after the pass had read it.
BasisExplainsBalance ==
    reading # NoReading /\ ~blurred => effective = NonNegative(reading - tare + adjusted)

\* Filament is taken off the balance once, though the printer reports it twice,
\* through Spoolman as it goes and in its job total at the end: while nobody
\* restated the balance, and every print was captured before its first gram,
\* the balance is never below what is left.
UsageCountedOnce == statements = 0 /\ ~late => effective >= Capacity - spent

\* An empty spool that was taken off its printer ends up archived, whatever
\* stale read made the handler that emptied it believe it was still loaded.
EmptySpoolShelved ==
    (effective = 0 /\ ~loaded) ~> (archived \/ effective > 0 \/ loaded)

\* The grams accepted as printer usage so far; keys are never reused.
\* dispatcher.py, in _reconcile_spoolman: until a correction reaches Spoolman,
\* its old lower balance is not evidence of new consumption.
Imported == MapThenSumSet(LAMBDA k : k[1] - k[2], usageKeys)
NoPhantomUsage == Imported <= spent

\* print_history.py, _apply_terminal_spool_usage: actual terminal-job use is
\* applied once without double-counting prior Spoolman use.
NoDoubleCount == statements = 0 => effective >= Capacity - spent
=============================================================================
