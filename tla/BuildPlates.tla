----------------------------- MODULE BuildPlates -----------------------------
(***************************************************************************)
(* Which side of which build plate is in use on one printer.  The database *)
(* owns the selection; Klipper's macros persist the side they last loaded, *)
(* where that choice came from, and how often each side was calibrated.    *)
(* The poll (and an administrator's Synchronize button) reads the printer, *)
(* later commits what it read, and may then restore the canonical side.    *)
(* The poll compares with the row as its session loaded it at the start.   *)
(***************************************************************************)
EXTENDS Integers, Sequences, FiniteSets

CONSTANTS Side, NoSide, Nobody,
          MaxPlateOps,   \* bound on choices, calibrations, restarts and prints
          MaxPlateJobs   \* bound on select and clear jobs

ASSUME PlatesAssumption ==
    NoSide \notin Side /\ Nobody \notin Side /\ {MaxPlateOps, MaxPlateJobs} \subseteq Nat

VARIABLES
    klipper,      \* bed_mesh, print_stats and FILAMENT_MANAGER_PLATE_STATE
    plate,        \* the printer row: side, initialized, sequence
    sides,        \* surfaces: known, available, counted calibrations, logged events
    plateJobs,    \* moonraker.build_plate.select and .clear, oldest first
    clearing,     \* the clear job between Klipper's answer and its commit, 0 for none
    loaded,       \* the printer row that the poll's session holds
    inFlight,     \* what the poll and the button have read and not committed yet
    restoring,    \* the side the poll is about to restore
    plateOps

plateVars == <<klipper, plate, sides, plateJobs, clearing, loaded, inFlight, restoring,
               plateOps>>

SomeSide == Side \cup {NoSide}
Readers == {"poll", "button"}
Klipper == [mesh : SomeSide, selected : SomeSide, origin : {"restore", "manual", "app"},
            sequence : Nat, calibrating : SomeSide, receipts : [Side -> Nat],
            timed : SUBSET Side, clock : BOOLEAN, busy : BOOLEAN, profiles : SUBSET Side]

PlatesInit ==
    /\ klipper = [mesh |-> NoSide, selected |-> NoSide, origin |-> "restore", sequence |-> 0,
                  calibrating |-> NoSide, receipts |-> [s \in Side |-> 0], timed |-> {},
                  clock |-> FALSE, busy |-> FALSE, profiles |-> Side]
    /\ plate = [side |-> NoSide, initialized |-> FALSE, sequence |-> 0]
    /\ sides = [known |-> {}, available |-> {}, counted |-> [s \in Side |-> 0],
                logged |-> [s \in Side |-> 0]]
    /\ plateJobs = <<>> /\ clearing = 0
    /\ inFlight = [r \in Readers |-> Nobody] /\ restoring = Nobody /\ loaded = Nobody
    /\ plateOps = 0

-----------------------------------------------------------------------------
(* The printer's macros.                                                   *)

Free(k) == ~k.busy /\ k.calibrating = NoSide

\* SELECT_BUILD_PLATE and APPLY_BUILD_PLATE with SOURCE=app, and CLEAR for NoSide.
Applied(k, s) == [k EXCEPT !.mesh = s, !.selected = s, !.origin = "app"]
Applicable(k, s) == Free(k) /\ s \in k.profiles \cup {NoSide}

PlateOp == plateOps < MaxPlateOps /\ plateOps' = plateOps + 1
Database == <<plate, sides, plateJobs, clearing, loaded, inFlight, restoring>>
KlipperStep(k) == klipper' = k /\ UNCHANGED Database

\* SELECT_BUILD_PLATE at the printer, or BED_MESH_PROFILE LOAD.
SelectByHand(s) ==
    /\ PlateOp /\ Free(klipper) /\ s \in klipper.profiles
    /\ KlipperStep([klipper EXCEPT !.mesh = s, !.selected = s, !.origin = "manual",
                                   !.sequence = @ + 1])

\* The parameterless form: the saved side, or no mesh when its profile is gone.
SelectAutomatically ==
    /\ Free(klipper) /\ klipper.mesh # klipper.selected
    /\ KlipperStep([klipper EXCEPT !.mesh =
                      IF klipper.selected \notin klipper.profiles
                      THEN NoSide ELSE klipper.selected])
    /\ UNCHANGED plateOps

Calibrate(s) ==
    /\ PlateOp /\ Free(klipper)
    /\ KlipperStep([klipper EXCEPT !.calibrating = s, !.mesh = NoSide])

\* _FILAMENT_MANAGER_CAPTURE_MESH_RESULT: a receipt, with a time if the clock is anchored.
CalibrationEnds(success) ==
    LET s == klipper.calibrating IN
    /\ s # NoSide
    /\ KlipperStep(IF ~success THEN [klipper EXCEPT !.calibrating = NoSide]
         ELSE [klipper EXCEPT !.calibrating = NoSide, !.mesh = s, !.receipts[s] = @ + 1,
                 !.profiles = @ \cup {s},
                 !.timed = IF klipper.clock THEN @ \cup {s} ELSE @ \ {s}])
    /\ UNCHANGED plateOps

RemoveMesh(s) ==
    /\ PlateOp /\ Free(klipper) /\ s \in klipper.profiles
    /\ KlipperStep([klipper EXCEPT !.profiles = @ \ {s}, !.mesh = IF @ = s THEN NoSide ELSE @])

\* The loaded mesh and the clock are lost; what was saved comes back.
PlateRestart ==
    /\ PlateOp
    /\ KlipperStep([klipper EXCEPT !.mesh = NoSide, !.calibrating = NoSide, !.clock = FALSE,
                                   !.busy = FALSE])

PlatePrint(starts) ==
    /\ IF starts THEN PlateOp /\ Free(klipper) ELSE klipper.busy /\ UNCHANGED plateOps
    /\ KlipperStep([klipper EXCEPT !.busy = starts])

-----------------------------------------------------------------------------
(* The application's routes and their jobs.                                *)

Open(job) == job.status # "DONE"
SelectionPending == \E i \in DOMAIN plateJobs : Open(plateJobs[i])
QueuePlateJob(kind, s) ==
    /\ Len(plateJobs) < MaxPlateJobs
    /\ plateJobs' = Append(plateJobs, [kind |-> kind, side |-> s, status |-> "PENDING"])

\* select_build_plate: canonical at once, loaded later.
SelectInApp(s) ==
    /\ PlateOp /\ clearing = 0
    /\ s \in sides.known /\ s \in klipper.profiles /\ Free(klipper)
    /\ QueuePlateJob("select", s)
    /\ plate' = [plate EXCEPT !.side = s, !.initialized = TRUE]
    /\ sides' = [sides EXCEPT !.available = @ \cup {s}]
    /\ UNCHANGED <<klipper, clearing, loaded, inFlight, restoring>>

\* clear_active_build_plate: canonical only when Klipper confirms.
ClearInApp ==
    /\ PlateOp /\ plate.side # NoSide /\ Free(klipper)
    /\ QueuePlateJob("clear", plate.side)
    /\ UNCHANGED <<klipper, plate, sides, clearing, loaded, inFlight, restoring>>

\* A newer request supersedes; so does another canonical side.
StillWanted(i) == i = Len(plateJobs) /\ plateJobs[i].side = plate.side

Finish(i) == plateJobs' = [plateJobs EXCEPT ![i].status = "DONE"]

RunPlateJob(i) ==
    /\ clearing = 0 /\ Open(plateJobs[i])
    /\ IF ~StillWanted(i)
       THEN Finish(i) /\ UNCHANGED <<klipper, clearing>>
       ELSE IF plateJobs[i].kind = "select"
       THEN /\ Applicable(klipper, plateJobs[i].side)
            /\ klipper' = Applied(klipper, plateJobs[i].side)
            /\ Finish(i) /\ UNCHANGED clearing
       ELSE /\ Free(klipper)
            /\ klipper' = Applied(klipper, NoSide)
            /\ clearing' = i /\ UNCHANGED plateJobs
    /\ UNCHANGED <<plate, sides, loaded, inFlight, restoring, plateOps>>

\* Klipper refuses: retried later, or dead after the last attempt.
PlateJobDies(i) ==
    /\ clearing = 0 /\ Open(plateJobs[i]) /\ StillWanted(i)
    /\ ~Applicable(klipper, IF plateJobs[i].kind = "clear" THEN NoSide ELSE plateJobs[i].side)
    /\ Finish(i)
    /\ UNCHANGED <<klipper, plate, sides, clearing, loaded, inFlight, restoring, plateOps>>

\* The clear job reads the printer again, still holding the printer row's lock.
ConfirmClear ==
    /\ clearing # 0 /\ clearing' = 0
    /\ IF klipper.mesh = NoSide /\ klipper.selected = NoSide
       THEN /\ Finish(clearing)
            /\ plate' = [plate EXCEPT !.side = NoSide, !.initialized = TRUE]
       ELSE UNCHANGED <<plate, plateJobs>>
    /\ UNCHANGED <<klipper, sides, loaded, inFlight, restoring, plateOps>>

-----------------------------------------------------------------------------
(* Synchronization.                                                        *)

\* _configured_printer_bindings, of a poll that begins; one that found a print is dropped.
LoadPrinter ==
    /\ inFlight["poll"] = Nobody /\ restoring = Nobody
    /\ loaded # plate /\ loaded' = plate
    /\ UNCHANGED <<klipper, plate, sides, plateJobs, clearing, inFlight, restoring, plateOps>>

\* bed_mesh_state.  The poll reads nothing while a print is active.
ReadPlates(r) ==
    /\ inFlight[r] = Nobody /\ (r = "poll" => loaded # Nobody)
    /\ ~klipper.busy
    /\ r = "button" => plateOps < MaxPlateOps /\ klipper.calibrating = NoSide
    /\ inFlight' = [inFlight EXCEPT ![r] = klipper]
    /\ plateOps' = IF r = "button" THEN plateOps + 1 ELSE plateOps
    /\ UNCHANGED <<klipper, plate, sides, plateJobs, clearing, loaded, restoring>>

\* A new manual receipt, or the first adoption; never while a request is waiting.
Takes(k, row) ==
    /\ ~SelectionPending /\ k.calibrating = NoSide /\ k.selected \in k.profiles
    /\ \/ k.origin = "manual" /\ k.sequence > row.sequence
       \/ ~row.initialized

Larger(a, b) == IF a > b THEN a ELSE b
PlateAfter(k, row) ==
    [side |-> IF Takes(k, row) THEN k.selected ELSE row.side,
     initialized |-> row.initialized \/ Takes(k, row),
     sequence |-> IF SelectionPending THEN row.sequence ELSE Larger(row.sequence, k.sequence)]

\* The commit writes the columns that differ from what was loaded.
Written(row, after) ==
    [side |-> IF after.side = row.side THEN plate.side ELSE after.side,
     initialized |-> plate.initialized \/ after.initialized,
     sequence |-> IF after.sequence = row.sequence THEN plate.sequence ELSE after.sequence]

\* Mutated form: a receipt is taken whatever was counted before.
AnyReceipt(k, s) == s \in k.profiles \cup sides.known /\ k.receipts[s] > 0

NewReceipt(k, s) == s \in k.profiles \cup sides.known /\ k.receipts[s] > sides.counted[s]

SidesAfter(k) ==
    [known |-> sides.known \cup k.profiles, available |-> k.profiles,
     counted |-> [s \in Side |-> IF NewReceipt(k, s) THEN k.receipts[s] ELSE sides.counted[s]],
     logged |-> [s \in Side |-> IF NewReceipt(k, s) /\ s \in k.timed
                                THEN sides.logged[s] + 1 ELSE sides.logged[s]]]

\* Mutated form: only the loaded mesh is compared with the canonical side.
MeshDiffers(k, p) == k.mesh # p.side

Differs(k, p) == k.mesh # p.side \/ k.selected # p.side

RestoreRequired(k, p) ==
    /\ p.initialized /\ Free(k) /\ ~SelectionPending
    /\ p.side \in k.profiles \cup {NoSide}
    /\ Differs(k, p)

\* synchronize_build_plates, then the poll's own next calls.  The button's session is new;
\* the lock that the poll takes does not refresh the row it has loaded.
SynchronizePlates(r) ==
    LET k == inFlight[r]
        row == IF r = "poll" THEN loaded ELSE plate
        p == PlateAfter(k, row) IN
    /\ k # Nobody /\ clearing = 0
    /\ plate' = Written(row, p) /\ sides' = SidesAfter(k)
    /\ inFlight' = [inFlight EXCEPT ![r] = Nobody]
    /\ loaded' = IF r = "poll" THEN Nobody ELSE loaded
    /\ IF r = "poll" /\ ~k.busy
       THEN /\ klipper' = [klipper EXCEPT !.clock = @ \/ ~k.clock]
            /\ restoring' = IF RestoreRequired(k, p) THEN p.side ELSE Nobody
       ELSE UNCHANGED <<klipper, restoring>>
    /\ UNCHANGED <<plateJobs, clearing, plateOps>>

\* FILAMENT_MANAGER_APPLY_BUILD_PLATE, refused when the printer has become busy.
RestorePlate ==
    /\ restoring # Nobody /\ restoring' = Nobody
    /\ klipper' = IF Applicable(klipper, restoring) THEN Applied(klipper, restoring) ELSE klipper
    /\ UNCHANGED <<plate, sides, plateJobs, clearing, loaded, inFlight, plateOps>>

-----------------------------------------------------------------------------
PlatePoll == LoadPrinter \/ ReadPlates("poll") \/ SynchronizePlates("poll") \/ RestorePlate

PlatesNext ==
    \/ \E s \in Side : SelectByHand(s) \/ Calibrate(s) \/ RemoveMesh(s) \/ SelectInApp(s)
    \/ SelectAutomatically \/ PlateRestart \/ ClearInApp
    \/ \E b \in BOOLEAN : CalibrationEnds(b) \/ PlatePrint(b)
    \/ \E i \in DOMAIN plateJobs : RunPlateJob(i) \/ PlateJobDies(i)
    \/ ConfirmClear
    \/ PlatePoll \/ ReadPlates("button") \/ SynchronizePlates("button")

\* Prints and probing end; dispatchers keep running jobs, and a request that began ends.
KlipperEnds == (\E b \in BOOLEAN : CalibrationEnds(b)) \/ PlatePrint(FALSE)
ServerAnswers ==
    \/ ConfirmClear \/ SynchronizePlates("button")
    \/ \E i \in DOMAIN plateJobs : RunPlateJob(i) \/ PlateJobDies(i)

\* And the scheduler keeps polling.
PlatesFairness == WF_plateVars(PlatePoll) /\ WF_plateVars(KlipperEnds) /\ WF_plateVars(ServerAnswers)

PlatesSpec == PlatesInit /\ [][PlatesNext]_plateVars /\ PlatesFairness

-----------------------------------------------------------------------------
(* What is claimed.                                                        *)

PlatesTypeOK ==
    /\ klipper \in Klipper
    /\ plate \in [side : SomeSide, initialized : BOOLEAN, sequence : Nat]
    /\ sides.available \subseteq sides.known /\ sides.known \subseteq Side
    /\ sides.counted \in [Side -> Nat] /\ sides.logged \in [Side -> Nat]
    /\ \A i \in DOMAIN plateJobs : plateJobs[i].status \in {"PENDING", "DONE"}
    /\ clearing \in 0..Len(plateJobs)
    /\ loaded \in [side : SomeSide, initialized : BOOLEAN, sequence : Nat] \cup {Nobody}
    /\ inFlight \in [Readers -> Klipper \cup {Nobody}]
    /\ restoring \in SomeSide \cup {Nobody}

\* A calibration enters a side's maintenance log at most once, however the poll and the
\* Synchronize button overlap and in whatever order they commit what they read.
CalibrationsLoggedOnce == \A s \in Side : sides.logged[s] <= klipper.receipts[s]

\* Once people stop, Klipper's loaded mesh and saved selection agree with the canonical
\* side, provided its mesh still exists; restarts, calibrations and lost requests included.
PlatesSettled ==
    plate.initialized /\ plate.side \in klipper.profiles \cup {NoSide}
    => klipper.mesh = plate.side /\ klipper.selected = plate.side
=============================================================================
