----------------------------- MODULE PrintStart -----------------------------
(***************************************************************************)
(* The managed start of a print on one printer: the Klipper macros hold    *)
(* the file while the worker, which polls, inspects it and compares it     *)
(* with the spool and plate.  The worker acts on what it read when its     *)
(* poll began, and a poll may fail anywhere; people cancel, send the file  *)
(* again and change the spool meanwhile.  All files have one name.         *)
(***************************************************************************)
EXTENDS Integers

CONSTANTS Slice,      \* contents sent under the name
          Passing,    \* those whose inspection passes
          Roll,       \* spools
          Enough,     \* pairs of a slice and a roll that holds enough
          Matching,   \* rolls of the material that the slices ask for
          Surface,    \* plate sides
          Compatible, \* pairs of a roll and a side with any stars
          MaxStarts,  \* bound on starts
          MaxLosses,  \* bound on polls that fail
          NoJob

ASSUME StartAssumption ==
    /\ Passing \subseteq Slice /\ Matching \subseteq Roll /\ Enough \subseteq Slice \X Roll
    /\ Compatible \subseteq Roll \X Surface /\ {MaxStarts, MaxLosses} \subseteq Nat

VARIABLES
    slice,    \* what is stored under the name
    job3d,    \* print_stats
    hold,     \* FILAMENT_MANAGER_SPOOL_STATE: the start's part of it
    mounted,  \* loaded_spool_id
    side,     \* filament_manager_active_plate
    known,    \* Printer.active_plate_surface_id
    row,      \* the newest live print_jobs row of the name
    look,     \* the poll under way: what it read, and the row it works on
    losses

startVars == <<slice, job3d, hold, mounted, side, known, row, look, losses>>
physical == <<mounted, side, known>>

NoHold == [phase |-> "idle", pending |-> FALSE, checked |-> FALSE, sequence |-> 0, overridden |-> FALSE]
NoLook == [at |-> "waiting"]

StartInit ==
    /\ slice \in Slice /\ job3d = "standby" /\ hold = NoHold
    /\ mounted \in Roll /\ side \in Surface /\ known \in Surface
    /\ row = NoJob /\ look = NoLook /\ losses = 0

-----------------------------------------------------------------------------
(* The macros.                                                             *)

\* _FILAMENT_MANAGER_CONTINUE_START: weigh first, then the printer's own START_PRINT.
Continued(h) ==
    IF h.checked THEN [h EXCEPT !.phase = "idle", !.pending = FALSE]
    ELSE [h EXCEPT !.phase = "checking_weight"]

\* _FILAMENT_MANAGER_CHECK_PRINT_SPOOL
SpoolChecked(h) ==
    IF mounted \in Matching THEN Continued(h) ELSE [h EXCEPT !.phase = "selecting"]

\* The file is held by M25 until the start is no longer pending.
Held(h) == hold' = h /\ job3d' = IF h.pending THEN "held" ELSE "printing"

StartPrint ==
    /\ job3d \in {"standby", "cancelled", "complete"} /\ hold.phase = "idle"
    /\ hold.sequence < MaxStarts
    /\ Held([phase |-> "inspecting", pending |-> TRUE, checked |-> FALSE,
             sequence |-> hold.sequence + 1, overridden |-> FALSE])
    /\ UNCHANGED <<slice, physical, row, look, losses>>

SelectPrintSpool(r) ==
    /\ hold.phase = "selecting" /\ r \in Matching
    /\ hold' = [hold EXCEPT !.phase = "changing"]
    /\ UNCHANGED <<slice, job3d, physical, row, look, losses>>

\* Unloading, inserting and loading, up to the prompt's Start Print.
SpoolIsChanged ==
    /\ hold.phase = "changing" /\ mounted' \in Matching
    /\ Held(Continued(hold))
    /\ UNCHANGED <<slice, side, known, row, look, losses>>

OverrideWeight ==
    /\ hold.phase = "insufficient_filament"
    /\ Held(Continued([hold EXCEPT !.checked = TRUE, !.overridden = TRUE]))
    /\ UNCHANGED <<slice, physical, row, look, losses>>

\* Mutated form: the start stays pending.
OnlyIdle(h) == [h EXCEPT !.phase = "idle"]

Dropped(h) == [h EXCEPT !.phase = "idle", !.pending = FALSE]

\* ABORT or CANCEL_PRINT, in any phase.
CancelPrint ==
    /\ job3d \in {"held", "printing"} /\ job3d' = "cancelled" /\ hold' = Dropped(hold)
    /\ UNCHANGED <<slice, physical, row, look, losses>>

PrintIsDone ==
    /\ job3d = "printing" /\ job3d' = "complete"
    /\ UNCHANGED <<slice, hold, physical, row, look, losses>>

\* Moonraker stores no file over one that is being printed.
SendFile(s) ==
    /\ job3d \notin {"held", "printing"} /\ slice' = s /\ slice' # slice
    /\ UNCHANGED <<job3d, hold, physical, row, look, losses>>

\* Between prints.
ChangePhysically(r, p) ==
    /\ job3d \notin {"held", "printing"} /\ <<mounted, side>> # <<r, p>>
    /\ mounted' = r /\ side' = p
    /\ UNCHANGED <<slice, job3d, hold, known, row, look, losses>>

\* The plates' own reconciliation, between prints.
PlateIsReported ==
    /\ job3d \notin {"held", "printing"} /\ known # side /\ known' = side
    /\ UNCHANGED <<slice, job3d, hold, mounted, side, row, look, losses>>

-----------------------------------------------------------------------------
(* The worker.                                                             *)

\* live_print_context: one query.
PollBegins ==
    /\ look = NoLook /\ job3d # "standby"
    /\ look' = [at |-> "read", state |-> job3d, hold |-> hold, roll |-> mounted, captured |-> FALSE]
    /\ UNCHANGED <<slice, job3d, hold, physical, row, losses>>

Terminal == {"cancelled", "complete"}

InProgress == row # NoJob /\ row.status = "in_progress"

\* An earlier run's row is told by its beginning, if that was half a minute earlier.
SurelyContinues == InProgress /\ (look.state \in Terminal \/ row.sequence = look.hold.sequence)

Ended == row # NoJob /\ row.status = look.state

\* The policy decides on mismatches; what cannot be inspected is blocked.
Inspected(readable) ==
    [sequence |-> look.hold.sequence, content |-> slice, passed |-> readable /\ slice \in Passing,
     status |-> "in_progress", weighed |-> 0, override |-> FALSE]

PollCaptures(readable) ==
    /\ look.at = "read" /\ ~Ended /\ ~SurelyContinues
    /\ row' = Inspected(readable) /\ look' = [look EXCEPT !.at = "answer", !.captured = TRUE]
    /\ UNCHANGED <<slice, job3d, hold, physical, losses>>

PollAdvances ==
    /\ look.at = "read" /\ InProgress
    /\ row' = IF look.state \in Terminal THEN [row EXCEPT !.status = look.state] ELSE row
    /\ look' = [look EXCEPT !.at = "answer"]
    /\ UNCHANGED <<slice, job3d, hold, physical, losses>>

PollSkips ==
    /\ look.at = "read" /\ look.state \in Terminal /\ Ended
    /\ look' = NoLook
    /\ UNCHANGED <<slice, job3d, hold, physical, row, losses>>

\* FILAMENT_MANAGER_GCODE_INSPECTION names no file and no start.
InspectionAnswered(passed) ==
    IF passed THEN SpoolChecked(hold) ELSE [hold EXCEPT !.phase = "error"]

\* Mutated form: the answer is sent once, by the poll that captured the print.
AcknowledgesOnce == look.hold.phase = "inspecting" /\ look.captured

\* _acknowledge_blocking_gate: every poll that read an open gate, not only the capturing one.
AcknowledgesGate == look.hold.phase = "inspecting"

Acknowledge ==
    /\ look.at = "answer" /\ AcknowledgesGate
    /\ IF hold.phase = "inspecting" THEN Held(InspectionAnswered(row.passed))
       ELSE UNCHANGED <<hold, job3d>>
    /\ look' = NoLook
    /\ UNCHANGED <<slice, physical, row, losses>>

\* FILAMENT_MANAGER_FILAMENT_CHECK
FilamentAnswered ==
    IF side # known \/ <<mounted, known>> \notin Compatible THEN [hold EXCEPT !.phase = "error"]
    ELSE IF <<row.content, mounted>> \in Enough THEN Continued([hold EXCEPT !.checked = TRUE])
    ELSE [hold EXCEPT !.phase = "insufficient_filament"]

Weighed == [row EXCEPT !.weighed = look.hold.sequence, !.override = FALSE]

\* The exact paused start is answered, and what was compared is stored before.
CheckFilament ==
    /\ look.at = "answer" /\ look.hold.phase = "checking_weight"
    /\ row' = Weighed
    /\ IF /\ hold.phase = "checking_weight"
          /\ look.roll = mounted /\ look.hold.sequence = hold.sequence
       THEN Held(FilamentAnswered) ELSE UNCHANGED <<hold, job3d>>
    /\ look' = NoLook
    /\ UNCHANGED <<slice, physical, losses>>

RecordOverride ==
    /\ look.at = "answer" /\ ~AcknowledgesGate /\ look.hold.phase # "checking_weight"
    /\ row' = IF look.hold.overridden /\ row.weighed = look.hold.sequence
              THEN [row EXCEPT !.override = TRUE] ELSE row
    /\ look' = NoLook
    /\ UNCHANGED <<slice, job3d, hold, physical, losses>>

\* A request fails or the worker stops; what was committed before it stays.
PollFails ==
    /\ look # NoLook /\ losses < MaxLosses /\ losses' = losses + 1
    /\ look' = NoLook
    /\ row' = row \/ (look.at = "answer" /\ look.hold.phase = "checking_weight" /\ row' = Weighed)
    /\ UNCHANGED <<slice, job3d, hold, physical>>

-----------------------------------------------------------------------------
LookStep == PollBegins \/ PollAdvances \/ PollSkips \/ Acknowledge \/ CheckFilament \/ RecordOverride
            \/ \E readable \in BOOLEAN : PollCaptures(readable)

StartNext ==
    \/ StartPrint \/ SpoolIsChanged \/ OverrideWeight \/ CancelPrint \/ PrintIsDone
    \/ PlateIsReported \/ LookStep \/ PollFails
    \/ \E r \in Roll : SelectPrintSpool(r) \/ \E p \in Surface : ChangePhysically(r, p)
    \/ \E s \in Slice : SendFile(s)

\* The worker polls again and again.
StartSpec == StartInit /\ [][StartNext]_startVars /\ WF_startVars(LookStep)

-----------------------------------------------------------------------------
(* What is claimed.                                                        *)

StartTypeOK ==
    /\ slice \in Slice /\ mounted \in Roll /\ {side, known} \subseteq Surface
    /\ job3d \in {"standby", "held", "printing", "cancelled", "complete"}
    /\ hold.pending = (job3d = "held")
    /\ hold.phase \in {"idle", "inspecting", "selecting", "changing", "checking_weight",
                       "insufficient_filament", "error"}

\* A start that waits for the worker, and for nobody else, does not wait forever, whichever
\* answer was lost or came too late for it (_acknowledge_blocking_gate, the filament check
\* of synchronize_live_print).
HoldsAreAnswered == []<>(hold.phase \notin {"inspecting", "checking_weight"})
=============================================================================
