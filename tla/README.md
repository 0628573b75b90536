# Filament Manager: formal models

TLA+ models of the parts of Filament Manager where a test suite reaches least:
state that several processes, people and machines write, each at its own time.
That is the outbox and its workers, what they project to Spoolman, the mass and
the place of a spool, the printer's plates, nozzles and held print starts, the
Cura workstations, material settings and calibrations, backups, the Google
workbook and the operators' alerts. TLC checks the models on small instances;
TLAPS proves every invariant and every action property that a passing run checks, for
every number of workers, objects, spools, printers, files, people and grams and for
every bound; the liveness properties stay with TLC (section 5). Paths below
are relative to the repository, Python files to `src/filament_manager/` unless
they say otherwise.

    tlc -workers 2 -config queue_leases.cfg MCOutboxQueue.tla
    tlc -workers 2 -config printers.cfg MCPrinters.tla
    tlc -workers 2 -config workshop.cfg MCWorkshop.tla
    tlapm OutboxQueueProofs.tla          # and likewise SpoolLedgerProofs,
    tlapm WorkshopProofs.tla             # SpoolmanProjectionProofs, PhysicalSpoolProofs, PrinterProofs

## 1. The system

Filament Manager keeps the canonical inventory of a 3D printing workshop in
PostgreSQL. A web process serves the API; one or more worker processes each run
a scheduler loop (which also runs due backups) and several dispatcher loops over
the `outbox_jobs` table. Spoolman (spool tracking), Moonraker and
Klipper (the printer), Google Sheets and the Cura workstations are outside: the
worker calls the first three, a Cura workstation runs an agent that polls the
API. Nothing but PostgreSQL rows, row locks and advisory locks coordinates the
processes; there is no shared memory between them.

### Inventory

| Component | State | Operations | What is hard | What makes it correct |
|---|---|---|---|---|
| Outbox, dispatchers, scheduler (`services/events.py`, `workers/`) | one row per request: status, attempts, next_attempt_at, locked_by, locked_at | add_outbox_job, schedule_periodic_jobs, claim_jobs, dispatch_job, complete_job, fail_job, retry_job | lapsed leases, crashes between effect and commit, several schedulers, supersession of failures | nothing queued is lost; nothing is delivered without its effect; only a lease's holder settles a row; failures are bounded; write-offs are covered |
| Spoolman projection and convergence (`workers/dispatcher.py` 192-580) | ProjectionState, remote records, advisory locks | _project_vendor, _project_filament, _project_spool, _converge_spoolman, deletes | rows read before the lock; session without autoflush; remote writes outlive a rollback; users delete records | one remote record per object; the acknowledged version tells the truth; no lock cycles |
| Mass ledger and usage import (`api/routes/inventory.py`, `services/spool_mass.py`, `services/spool_lifecycle.py`, `workers/dispatcher.py` 582-729) | two balances, measurements, usage events, Spoolman's remaining_weight, adjust_weight jobs | record_measurement, update_spool, create_spool, _reconcile_spoolman, archive_empty_spool | usage reported twice on two paths; imports against corrections in flight; edits against stale listings | a gram is taken off once; a person's word is not undone; empty spools are archived |
| Print capture and start (`services/print_history.py`, the Klipper macros) | PrintJob, PrintMaterialSegment, the macros' hold | capture, inspection gate, filament check, terminal outcome, history import | late first sight, restarts, answers of a poll that read earlier, stale ORM objects | terminal use applied once; a start does not wait for ever |
| Active spool and physical boundary (`services/moonraker_sync.py`, `services/spool_preflight.py`, `workers/dispatcher.py` 732-1010, the macros) | macro record, active_printer_id, Moonraker's active id, manual target | macros' load, unload, change; queued requests; the poll's drift repair and ownership | three copies of "what is loaded" that disagree; late requests; restarts of Klipper | one spool in one place; a target that the operator was asked to insert stands; the copies come to agree |
| Build plates (`services/build_plate_sync.py`, `api/routes/plates.py`, the macros) | sides, availability, active side, calibration receipts, Klipper's mesh and selection | discovery, selecting at the printer and in the application, clearing, calibrating | late command results; two readers; Klipper restarts | printer and database come to name the same side; a calibration is logged once |
| Cura on the server (`services/cura_library.py`, `services/cura_nozzles.py`, `api/routes/workstations.py`) | deployments, restores, leases, recovery points | queue_cura_library, heartbeat, claim, complete, restore, takeover, recovery uploads and deletions | lapsed claims, content seen before, drift, resets of Cura, overlapping deletions | the desired library and nozzle end up installed; a good recovery point survives |
| Workstation agent (`workstation-agent/`) | local files, claim in hand, backup archives | run_once, apply_rendered, nozzle update, capture, restore | Cura starts meanwhile; a stop between two files | work converges; a rollback is exact |
| Database backups (`services/database_backups.py`, `cli.py`) | archives, policy, the restore request | create, prune, due, import, prepare, restore | prints, overlapping backups, interrupted restore | what a restore replaces is kept; the request outlives a dead command |
| Material settings and calibrations (`api/routes/profiles.py`, `calibrations.py`, `services/material_settings.py`, `material_types.py`, `services/seed.py`) | types, templates, revisions, snapshots, sessions and steps | save, rebase, revise, apply, rename, delete, seed | a save that read before a rebase; seeding after a rename; results entered out of order | choices cover what is used; a rebase is not undone; only what was reviewed reaches a template, with the exception of section 6 |
| Nozzles and printer connections (`api/routes/nozzles.py`, `printer_connections.py`, `services/printer_connections.py`) | nozzles, the active one of a printer, endpoints | create, update, install, remove, seed; add, adopt, edit, disable | row locks taken one by one; seeding without locks; commands queued for an old endpoint | status and place agree; a command reaches the printer it was meant for |
| Notifications (`services/notifications.py`) | conditions, read state | evaluate, mark read | recurrence; categories read at different moments | alerts agree with the plant; a new occurrence is unread |
| Google publication (`services/google_publication.py`, `google_connection.py`, `clients/google_workbook.py`) | connection, grant, fingerprint, workbook | connect, exchange, disconnect, setup, sync, publish | an exchange overtaken; outcomes unknown | only a current consent is stored; a forced synchronization repairs |
| Inventory catalogue | canonical rows and record_version | CRUD under row locks | versions bumped by several helpers | one transaction with its outbox rows |
| Authentication, workbook import, diagnostics, telemetry, migrations, web frontend | accounts, or derived | login, import, report | little beyond the outbox that runs them | outside this project, see section 7 |

`PROJECT.json` lists the same components with what is modelled of each, and
under "hazards" the places in the code where the hard behaviours bite.

### How the parts interact

* A canonical transaction writes rows, bumps `record_version` and adds outbox
  rows keyed by (job_type, idempotency_key) in one commit.
* The scheduler adds recurring rows under `pg_try_advisory_xact_lock`.
* A dispatcher claims one row (`FOR UPDATE SKIP LOCKED`, oldest first), commits
  the claim, runs `dispatch_job` in a second session, and commits the session
  together with `complete_job`; on an exception it rolls back and `fail_job`
  runs in a third session.
* Moonraker lowers Spoolman's `remaining_weight` as a print extrudes; the worker
  reads it back every minute and imports the drop as usage.
* The print observer (`synchronize_live_print`, inside a recurring job) captures a spool's canonical balance when it first sees a
  print and subtracts the job's total use when it sees the end.

## 2. The modules

| Module | Models | Extends |
|---|---|---|
| `DeliveryPromise` | what the outbox promises its callers, without workers or clocks | - |
| `OutboxQueue` | `outbox_jobs` and everything that moves its rows | - |
| `OutboxQueueProofs` | theorems about `OutboxQueue` | `OutboxQueue` |
| `SpoolmanProjection` | the vendor and product handlers, composed with the queue | `OutboxQueue` |
| `SpoolmanProjectionProofs` | theorems about the handlers | `SpoolmanProjection`, `OutboxQueueProofs` |
| `SpoolLedger` | one spool's mass in PostgreSQL and in Spoolman | - |
| `SpoolLedgerProofs` | theorems about `SpoolLedger` | `SpoolLedger` |
| `PhysicalSpool` | which spool is where: macros, Moonraker, canonical place | - |
| `PhysicalSpoolProofs` | theorems about `PhysicalSpool` | `PhysicalSpool` |
| `BuildPlates` | which side is in use, and its calibrations | - |
| `PrintStart` | the held start of a print and the poll that answers it | - |
| `Nozzles` | operators' transactions and the seeding of nozzles | - |
| `PrinterConnections` | endpoints and the physical commands sent to them | - |
| `CuraDeployments` | the server's half of Cura synchronization | - |
| `WorkstationAgent` | the agent's half, composed with the server's | `CuraDeployments` |
| `CuraRecovery` | recovery points on both sides | - |
| `MaterialSettings` | types, templates, profiles | - |
| `Calibrations` | one calibration session | - |
| `DatabaseBackups` | archives and the offline restore | - |
| `GooglePublication` | the connection and the published workbook | - |
| `OperatorAlerts` | notifications and who has read them | - |
| `MC...` | the small instances TLC checks | the modules named |
| `PrinterProofs` | theorems about the other printer modules, and about the five side by side | `MCPrinters`, `PhysicalSpoolProofs` |
| `WorkshopProofs` | theorems about the Cura, settings, backup, Google and alert modules | `MCWorkshop` |

Definitions whose comment starts with "Mutated form" are not used by any
specification. Each is a plausible bug in the definition after it; substituting
it must break the property that `PROJECT.json` pairs it with.

### DeliveryPromise

Two variables: the outcome of each request (none, owed, delivered, abandoned,
obsolete) and the set of requests whose remote effect happened. A canonical
transaction owes several requests at once; delivery needs the effect first; only
abandoned work becomes obsolete, and only when something delivered in that same
step makes it redundant. `Redundant` is a parameter: `OutboxQueue` instantiates
it with `Covers`, the relation 06_SYNC_ENGINE.md describes in words.

### OutboxQueue

A row is the record <<type, agg, ver>>, which stands for the unique
(job_type, idempotency_key): keys in the code are built from exactly these.
`status` has the values of JobStatus the code writes (no code path writes FAILED
on an outbox row) and "absent" before the row exists. Times are abstracted to
what decisions need: `due` is next_attempt_at <= now, `lapsed` is locked_at older
than the lock timeout, `born` orders created_at, `bucket` is now // interval.

| Action | Code |
|---|---|
| Edit, RequestRun | add_outbox_job within a canonical transaction; _queue_system_job |
| SchedulePlan, ScheduleCommit, ScheduleAbort | schedule_periodic_jobs: the advisory lock and the reads; the commit; death between them |
| Claim | claim_jobs with limit 1, as the loop calls it |
| Dispatch | dispatch_job returned: the remote effect exists, the row is untouched |
| Complete, CompleteTooLate | complete_job as owner and as former owner |
| Fail, FailTooLate | fail_job as owner and as former owner |
| Crash | the process dies; the uuid4 in its worker id makes its locks nobody's (`Gone`) |
| Retry | retry_job, which does not reset attempts |
| BecomeDue, LapseAbandoned, LapseSlow, Tick | time passing |

Leases are never renewed in the code, hence `LapseSlow`: a handler may outlive
its lease, another dispatcher claims the row, and both run. The handler that
lost the row still commits what its session holds (`CompleteTooLate`).

### SpoolmanProjection

Adds to the queue what a handler does between claim and settlement: the session
of each dispatcher (`tx`), the per-object transaction locks (`lock`), the
committed `ProjectionState` (`pointer`, `ack`), and Spoolman (`live`, `used`,
`content`). `Commit` happens in the step of `Complete`, because the code commits
the handler's session together with the row; `Rollback` in that of `Fail` and
`Crash`. Remote writes are immediate and survive both.

Taking an advisory lock and the calls to Spoolman made under it are one step.
Nothing else that this module models can come between them except a user of
Spoolman, whose delete is then seen before or after. Left out: discovery of an
unmanaged vendor by its name, the spool pass, delete jobs, the managed extra
fields, fingerprints. Vendors carry version 0: only products have edits.

### SpoolLedger

One spool of `Capacity` grams. `expected`/`effective` are the two canonical
balances, `reading`/`tare`/`adjusted` the mass basis (latest accepted weighing
and the events since), `remote` is Spoolman's remaining_weight, `corrections`
the adjust_weight jobs in the order of created_at, `task` what each dispatcher has
read and not yet written, `print` the current job and its segment, `observer` the ORM object
an observer pass loaded before it took the row lock.

| Action | Code |
|---|---|
| Weigh, UpdateSpool | record_measurement, update_spool, under the row lock |
| Load, Unload | the outcome of synchronize_active_spool for this spool |
| StartPrint, Extrude, EndPrint | the printer, Moonraker and Spoolman (external) |
| Capture, Observe, ObserveFails, ApplyTerminal, NeverCaptured | synchronize_live_print, _apply_terminal_spool_usage, history import |
| BeginCreate, FinishCreate | _project_spool for a spool without spoolman_id, read first and written later |
| BeginAdjust, FinishAdjust, AdjustFails, AdjustNothing | the adjust_weight job |
| BeginReconcile, ImportUsage, ImportClashes, ImportNothing | the listing, then _reconcile_spoolman under the row lock |
| RetryCorrection | an administrator's retry of an exhausted job |

`ApplyTerminal` computes with the values the pass loaded: a `SELECT ... FOR
UPDATE` without populate_existing returns the object already in the session,
and only attributes whose value changed are written back. `print.shift` is the
tare correction the code adds to a segment's starting mass.

An import asks for the correction that is last by aggregate_version and then by
created_at (`workers/dispatcher.py:646-648`), so the row's record_version is modelled:
`latest` is that correction and `top` its version. Only the order of versions matters;
they are counted from the row's own (`Versions`) while nobody holds a copy of the row, so that
they stay small. A copy's version may be written back later (the observer, a
creation), which is how a newer correction comes to have the lower version. `MaxChanges`
bounds the loads that raise the version while a copy is held. `late` and `blurred`
are history variables for the two situations in which the code's own evidence
is ambiguous (see section 6). Left out: several spools and M600 segments,
location import, Google and audit rows, the administrator's confirmation of
large variances and above-nominal masses, the operator's archive and delete.

### PhysicalSpool

For each printer the state that `FILAMENT_MANAGER_SPOOL_STATE` persists (`macro`:
loaded spool, phase, target, what follows, whether it was ever recorded and
restored), the id that Moonraker tracks (`active`), prints in motion; and the
canonical side: `home` is Spool.active_printer_id, `requests` the queued
spool_change and spool_unload jobs. The macros' commands are actions of people
(OpenSelector, FilamentChange, UnloadFilament, Choose, ConfirmInsertion, ...), what
they start ends by actions of the machine (UnloadEnds, LoadEnds, RestoreState), and
Klipper may restart or time out in between. `_reconcile_moonraker_state` visits the
printers in the order of `Bindings` in four steps, because it commits or waits for
the printer between them: ReadPrinter, RepairActive, OwnSpool, PublishCatalog.
A spool that is recorded elsewhere makes OwnSpool fail, which ends the pass; so
SpoolsSettled speaks of the printers before that one.

### BuildPlates

`klipper` is the bed mesh, the persisted selection with its origin and sequence,
the calibration receipts and whether the clock was set; `plate` the canonical side
with the last sequence taken, `sides` the surfaces with the receipts counted and the
events logged. The poll and the Synchronize button each read (`inFlight`) and later
commit (SynchronizePlates); the poll then restores the canonical side if Klipper's
differs. The poll's session has loaded the printer's row at its start (`loaded`,
`workers/dispatcher.py:743-752`), and the lock it takes later does not refresh that object
(`database.py:38` keeps objects through a commit, `build_plate_sync.py:64` has no
populate_existing): it compares with the old values and writes the columns it changed
(`Written`). The button's session is new. Selecting and clearing in the application queue jobs; a clear asks Klipper
first and commits after its answer (`clearing`).

### PrintStart

`hold` is the macro's start state: phase, the answers still missing, overrides.
`look` is the poll under way: the print status, hold and file that it read when it
began, and the `print_jobs` row that it works on. People cancel, send the file
again, start again, exchange the spool and override the weight at any moment. The
worker's answers (InspectionAnswered, FilamentAnswered) act on the hold that is
there when they arrive, as the macros do, not on the one that was read.

### Nozzles, PrinterConnections

Requests take row locks one by one, so each is several actions: `holder` says who
has a row, `requested` where its transaction is. Seeding reads and writes without
locks (SeedReads, SeedWrites). `reseeded` is a history variable: OperatorsAgree is
about the operators' own protocol; what seeding does to it is the run nozzle_reseed.
In `PrinterConnections` whoever edits a connection holds the registry's advisory
lock and the row, whoever asks for a physical command only the row; the job that
delivers the command looks the endpoint up again (ReadEndpoint).

### CuraDeployments, WorkstationAgent

`deployments` and `restores` are the tables in order of creation; times are
abstracted to `due` and `leased`, the five minute bucket of nozzle drift to `bucket`.
The agent's `run_once` is a walk through `work`: it looks at Cura and the directories
once, reports (Heartbeat), claims a restore, else a deployment, and executes it:
BeginInstall backs up, WriteFile replaces one file at a time, WriteManifest comes
last, WriteFails puts the backup back. It may stop between any two steps; a lost
request ends the iteration in the same way. `original` is a history variable:
the directory before the claimed row touched it. Cura may be opened after the agent
looked, and rewrites its files when it is closed. A completion may be processed by the
server after the agent has given up waiting for the answer (`ReportTimesOut`,
`DelayedReport`): the row may by then have lapsed and been claimed again, and is
completed all the same, since a claim has no number.

### CuraRecovery

The files that Cura has, captured while it is closed, uploaded in two steps (the
server reads its history, then commits a verdict: a repetition, a suspected reset, or
a new point with pruning), deleted in two steps, restored file by file. A capture
may be of a half restored configuration, which the model has.

### MaterialSettings, Calibrations

Every save appends: `templates[t].revisions`, `snapshots` in version order. A
template's save reads the linked profiles without their locks (BeginSave) and commits
later (CommitSave), unless a concurrent insert took its version (SaveFails). A change
of template has three steps, as change_profile_template has: it locks templates, those of
the target's material type and those the product's rows inherit from (BeginRebase); it
locks the product with its rows and plans from what is then current (PlanRebase);
it inserts and commits (CommitRebase). It may be refused or be the victim of a deadlock
after the first or the second (RebaseFails). While the product is locked (`Held`), no
other transaction inserts a row of it. `amid` is a history field of a save: a change of
template was under way when it began. The recurring seeding runs in between: it adds the
configured family for the active nozzle (`WithFamily`), and copies every active template of
the base material for the families that derive from it (`Copies`), each under the name that
the family now has (`SeededName`). One setting stands for all.

A calibration's
handlers each hold the session's row lock, so each is one action; what makes it hard
is the order of results, repetitions and reviews, for which `outdated` is a history
variable that does not depend on the statuses that the code writes. The page that applies
the results fetches two things apart (`frontend/src/pages/CalibrationPage.tsx` below the
repository's root): its list of sessions, `listed`, whose version it sends with the
confirmation, and the suggestions, `suggested`, which carry no version. ListCalibrations
refreshes the first and not the second, as the page does after an edit; `of` is a history
field, the version that the suggestions were computed from.

### DatabaseBackups

`lock` is the advisory lock that dumping and pruning hold, `task` who is doing
which, `pending` the request's file, `command` how far `restore_pending_backup`
came: the safety archive, the replaced database, migrations and revoked sessions,
the removed request. The command may die after each.

### GooglePublication

A consent is consumed, exchanged without a lock and stored (Consume, StoreGrant).
A publication holds the shared lock from BeginPass to its commit, through finding or
creating the workbook, staging and replacing the tabs; any request may fail although
it was carried out. `owed` is a history variable: nobody else wrote into the workbook
since the last forced publication was asked for.

### OperatorAlerts

Five categories, evaluated one after the other in a transaction from what is
committed when each is reached; raising an alert that had been resolved deletes its
read state at once, but the rows that others write meanwhile stay.

## 3. The runs

| Run | Instance | Checks | States (approx.) |
|---|---|---|---|
| queue_leases | 2 dispatchers, 1 object with 2 edits, upsert and adjust_weight, 1 manual convergence, 1 attempt, 1 retry, 1 slip | TypeOK, LockedWhileRunning, SupersededIsCovered, LeaseRespected, DebtStaysActionable, KeepsPromise | 278,000 |
| queue_schedule | 2 dispatchers, 2 schedulers, 2 buckets, 2 attempts, 1 retry, 2 slips | FailuresBounded, SchedulerSingleton, EveryJobSettles, RecurringRunsAgain | 14,000 |
| projection | 2 dispatchers, 1 vendor, 1 product with 2 edits, 1 convergence, 1 mishap, 1 remote delete | ProjectionTypeOK, SettledReachedRemote, NoLockCycle, LagIsVisible, GranularJobsNeverDuplicate | 114,000 |
| ledger | 2 dispatchers, 2 g capacity, 2 tares, 1 statement, 1 print, 1 g extruded, 1 load beside a held copy | TypeOK, BalancesAgree, BasisExplainsBalance, UsageCountedOnce, EmptySpoolShelved | 582,000 |
| printers | the five printer modules, see below | PrintersTypeOK, PrinterHoldsOne, CalibrationsLoggedOnce, OperatorsAgree, EndpointsStand, TargetStands, PrintersSettle, HoldsAreAnswered | 665,000 |
| workshop | Cura, settings, calibration, backups, recovery, Google, alerts, see below | WorkshopTypeOK, ChoicesCoverTemplates, KnownGoodRemains, WorkshopSettles, SeedingKeepsOut, RebaseStands, TemplateTakesReviewed, RestoresLoseNothing, OnlyCurrentConsent, RecurrenceIsUnread | 626,000 |
| projection_stale, projection_duplicate, ledger_phantom, ledger_double, cura_rollback, nozzle_reseed | small | one documented claim each, violated | - |

### One run for several modules

`MCPrinters` and `MCWorkshop` extend several modules that share no variable. A
variable `part`, chosen in the initial state, says which of them runs; the others
keep their initial values. The state space is the sum of theirs, not the product,
and each behaviour is one of a single module's specification. Fairness is stated of
`part`'s action: since the part never changes, weak fairness of "a poll of spools, or
of plates, or a look at a held start" is weak fairness of whichever the part has.
`PrintersSettle` and `WorkshopSettles` are conjunctions of what each part must come to.

| Part | Instance | Bounds |
|---|---|---|
| spools | 2 printers, 2 spools, one of them loaded | 2 operations of people, 1 fault |
| plates | 2 sides, mesh saved, none selected | 3 operations, 2 jobs |
| start | 2 contents of a file (1 passes), 2 rolls (1 matches and suffices), 2 sides | 2 starts, 1 loss |
| nozzles | 1 printer, 2 nozzles, one fitted | 4 requests |
| connections | 2 endpoints, at most 2 printers, 1 command | 2 edits or changes of idleness |
| cura | 1 installation, 2 libraries, 2 nozzles; an empty Cura and nothing published, or materials in Cura and a library | 2 requests, 1 restore, 1 mishap |
| settings | at first 1 template, of a family that is copied; 1 product with a profile, 3 material names, 2 values | 3 edits |
| calibration | 3 steps of which 2 are required and one is derived from another | session version 5 |
| backups | 2 archives, 2 commits, retention 1 | archives and contents |
| recovery | 2 machine files, 1 profile, history of 1 | 4 points, 2 edits, 2 operations |
| google | 2 contents, 2 consents | 3 operations, 1 fault |
| alerts | 1 person, 6 conditions | 3 events, 2 deployments |

### Why the bounds are enough

Every race in the queue is between two dispatchers
over one row, or two schedulers over one type; a third adds no new order of
reads and writes. One slip (a death or an outlived lease) is what creates a
second holder of a row; `queue_schedule` allows two, so that a row is abandoned
twice. Two versions are the fewest in which older and newer requests differ.
One attempt makes failures terminal at once; the run with two exercises backoff
and the off-by-one at the limit. `queue_leases` has edits and no schedule,
`queue_schedule` a schedule and no edits, since the product of both is beyond a
run of minutes and the two only meet in `complete_job`, which `queue_leases`
exercises with a manual run of the recurring type. In `ledger` two grams let a
balance be full, half and empty; one weighing or edit and one print produce
every pairwise race of the five writers. `MaxCopies` bounds remote records:
`CreateRemote` is disabled at the bound, so such a behaviour simply goes no
further, and no safety property depends on it going further.

In the parts, bounds are on what people and accidents do, never on what the program
does by itself: once they are used up, the polls, the agent and the jobs go on, which
is what the liveness properties are about. Two of everything that can be confused
with one another (libraries, spools, sides, endpoints, contents) are the fewest in
which a stale value differs from a current one; two printers let a spool move between
them; two people's requests let one overtake the other. That these cases happen is
what the mutants show: each property is violated, under the same bounds, by a
plausible bug. EndpointsStand was also checked with three endpoints (14.8 million
states).

Symmetry over dispatchers is used in `queue_leases` and `projection` only, which
check no liveness. CHECK_DEADLOCK is FALSE everywhere because the bounded
counters let each instance come to rest.

## 4. Fairness

Queue and ledger: weak fairness of claiming and of finishing what was claimed:
`dispatcher_loop` is a `while True` that sleeps and tries again, its handlers have
HTTP timeouts, and a dead process is restarted by the service manager. "Finishing"
includes failing: nothing forces a handler to succeed. Weak fairness of the
scheduler's loop and of clocks. No fairness of crashes, outlived leases, edits,
retries or external users. `SpoolLedger` assumes strong fairness of starting a
reconciliation: one is queued every minute, rows are claimed oldest first, so it
gets its turn even if other jobs keep interrupting. It is strong and not weak
because a moment in which every dispatcher is busy disables the start of a
reconciliation. In the queue, weak fairness of each claim is enough.

| Module | Weakly fair | Why |
|---|---|---|
| PhysicalSpool | the poll; for each printer, the end of what it has begun (motions, restores, prints) | a recurring job; a started macro ends. Nobody has to finish a workflow he started |
| BuildPlates | the poll; the end of prints and probing; jobs and requests under way | the same, and the dispatchers of OutboxQueue |
| PrintStart | the poll's steps | the same. No fairness of people: HoldsAreAnswered only speaks of holds that wait for the worker |
| WorkstationAgent | the agent's steps; the end of Cura; next_attempt_at, leases and buckets passing | `run_forever` restarts after any error; a person closes Cura some time; clocks |
| GooglePublication | a publication's steps; prints ending, the interval and the delay passing | a recurring job; clocks |
| OperatorAlerts | the evaluation's steps | a recurring job |

Nobody's edits, requests, faults, restarts, retries or deletions are fair.

## 5. What is proved

The theorems are of the form `Spec => []P` or `Spec => [][A]_vars`. None uses
fairness; those of the queue and the ledger are stated of `Safety`, which is
`Init /\ [][Next]_vars`. Every invariant and every action property that a passing run
checks has its theorem, which covers all values of the constants that satisfy the ASSUMEs
of the modules. TLC evaluates these in every run. They say:

* marks such as `NoJob`, `NoSpool`, `Nowhere` are none of what they mark the absence of;
  bounds are natural numbers;
* `IdOrder` and `VendorOrder` list products and vendors once each, as ORDER BY id does;
  vendors and products are different things, and each product has a vendor;
* the list of printers is not empty, and the deployment's own printer is among the
  connections (`MaxPrinters >= 1`); the settings demand a printer;
* the nozzles that are fitted in the beginning are numbered from 1 and fitted once, as
  seeding creates them; the set of hotends is finite;
* the history of recovery points has room for one (the code: 15), and Cura has finitely
  many files; spools have a positive capacity and positive tares;
* the templates and products of the initial state are well formed, and each product's
  source is one of the templates; the set of products is finite.

Sets of workers, schedulers, objects, spools, installations and people need not be finite.
The invariants were checked by TLC, on the instances of the runs, before they were proved.

### OutboxQueueProofs

| Theorem | States |
|---|---|
| TypeSafety | TypeOK |
| LocksAreHeld | LockedWhileRunning |
| LeasesAreRespected | LeaseRespected (action property) |
| FailuresAreBounded | FailuresBounded |
| WrittenOffIsCovered | SupersededIsCovered |
| DebtsStayActionable | DebtStaysActionable (action property) |
| OneScheduledRun | SchedulerSingleton |
| QueueKeepsPromise | OutboxQueue implements DeliveryPromise |

`LeaseInv` is TypeOK and LockedWhileRunning with `HandsHold`: what a dispatcher has
in hand was queued, and a handler that returned has had its effect. The second
half is what QueueKeepsPromise needs at Complete, where delivery requires the
effect; the first keeps a row that does not exist from being settled.

FailuresBounded is not inductive: a row might be added that already has
attempts. `FailInv` adds `AbsentIsFresh`, a row that does not exist has none.

SchedulerSingleton needs what the advisory lock protects. `PlansHold` says that
only the lock's holder has a plan, that between its check and its insert nothing
but an administrator's retry can make a planned type active, and that one plan is
for one bucket; `SchedInv` joins both with LeaseInv. The commit then adds the only
active run.

The refinement maps a row's status to an outcome (`Outcome`): PENDING and RUNNING
are owed, COMPLETED delivered, DEAD abandoned, SUPERSEDED obsolete; the set of
effects is the same variable. One lemma per action shows the step that it takes
in DeliveryPromise, a stutter for Claim, time and crashes. The step of Complete is
the interesting one: it delivers one request and makes obsolete every failed one
that the code's two UPDATE statements hit, and `RetiresIsCovers` shows these to
be exactly requests that the delivered one covers.

### SpoolLedgerProofs

| Theorem | States | Inductive invariant |
|---|---|---|
| TypeSafety | TypeOK | LedgerInv |
| BalancesNeverPart | BalancesAgree | LedgerInv |
| BalanceIsExplained | BasisExplainsBalance | LedgerInv /\ BasisInv |
| UsageIsCountedOnce | UsageCountedOnce | CountInv |

`LedgerInv` is TypeOK and BalancesAgree with `RemoteKnown`, a spool that is linked
has a remote record, and `ObserverAgrees`, the two balances that an observer pass
loaded are equal. The last is what keeps BalancesAgree through ApplyTerminal, which
writes back only the columns that it changed relative to the stale copy: equal
copies change together, or neither does.

`BasisInv` drops the clamp at zero from BasisExplainsBalance: as long as the evidence
is not blurred, the balance *is* the sum, so the sum is not negative. With the
clamp the statement is not inductive: 0 = max(0, -5) holds, but a correction to 3
is recorded as +3, and 3 is not max(0, -2).

`CountInv` says that *everything* that anybody has read or stored is at least
what is left: the balance, Spoolman's record, the mass in every dispatcher's
hand, the copy of the observer pass, and the segment's start less its use so far.
Each writer copies one of these into another. UsageCountedOnce alone is lost at
the first import. The proof needs `PassFollowsPrint` besides: an observer pass is
about a captured print that has ended, whose use does not grow any more.

### SpoolmanProjectionProofs

| Theorem | States |
|---|---|
| ProjectionRunsInTheQueue | ProjectionSpec implies the queue's Safety |
| ProjectionTypes | ProjectionTypeOK |
| SettledUpsertsReachSpoolman | SettledReachedRemote |
| HandlersNeverDeadlock | NoLockCycle |
| AcknowledgedIsShown | LagIsVisible |
| GranularCreatesOnce | GranularJobsNeverDuplicate |

One inductive invariant, `ProjInv`, serves all. Each handler step is a step or a stutter of
the queue, so the queue's LeaseInv comes for free. Its own parts: `Itinerary`, what a
handler needs is locked or still to do, and what is to do ascends from what is
locked, which is the lock order of the code and excludes that two handlers wait for each
other; `Drafts`, what a session will save is what the record it locked shows; `Pointers`, a saved
pointer names a live record unless a user deleted it; `LagIsOwed`, whatever differs from its
acknowledged version is owed a projection by some row; `Alone`, for GranularCreatesOnce. A
convergence that did not see a product was not overtaken by that product's projection
(in `Pointers`): it holds the vendors' locks, which the upsert of a product needs first.
LagIsVisible alone is lost at the first commit, because it says nothing of what a
handler is about to save.

### PhysicalSpoolProofs

| Theorem | States | Inductive invariant |
|---|---|---|
| SpoolTypes | SpoolTypeOK | SpoolInv |
| HotendsHoldOne | PrinterHoldsOne | SpoolInv /\ HomesApart |
| PromptedSpoolStands | TargetStands (action property) | SpoolInv |

`SpoolInv` adds `VisitOK` to the types: what the poll holds between its steps was read by
an earlier one. `HomesApart` states PrinterHoldsOne without counting. TargetStands is proved
action by action: those that change a target check the phase that the property protects.

### PrinterProofs

| Theorem | States | Inductive invariant |
|---|---|---|
| StartTypes | StartTypeOK | StartInv |
| PlateTypes, NoCalibrationTwice | PlatesTypeOK, CalibrationsLoggedOnce | PlatesInv |
| NozzleTypes, OperatorsKeepAgreement | NozzlesTypeOK, OperatorsAgree | NozzlesInv |
| ConnectionTypes, CommandsReachWhatWasChecked | ConnectionsTypeOK, EndpointsStand | ConnectionsInv |
| PrintersTypes | PrintersTypeOK, of MCPrinters | all five |

`ReceiptsInv` (plates): logged <= counted <= Klipper's receipts, and nobody's reading in flight
is ahead of Klipper. The order of commits does not matter then. `LocksInv` and `StillSound`
(nozzles): which locks a request holds at which point, and that what it has
checked stays so while it holds them; for seeding, which takes no locks, it does not, hence
`reseeded`. `RegistryInv` and `CommandStands` (connections): one edit at a time, whose
address is nobody else's; an open command's printer keeps its endpoint, and an edit about to
commit keeps it too, since it has seen the command.

### WorkshopProofs

| Theorem | States | Inductive invariant |
|---|---|---|
| RecoveryTypes, LastGoodRemains | RecoveryTypeOK, KnownGoodRemains | RecoveryInv |
| CuraTypes | CuraTypeOK | CuraInv |
| AlertsTypes, RecurrencesAreUnread | AlertsTypeOK, RecurrenceIsUnread (action property) | AlertsInv |
| CalibrationTypes, TemplatesTakeReviewed | CalibrationTypeOK, TemplateTakesReviewed (action property) | CalibrationInv |
| BackupTypes, RestoreIsSafe | BackupTypeOK, RestoresLoseNothing (action property) | BackupInv |
| PublicationTypes, ConsentsStayRevoked | PublicationTypeOK, OnlyCurrentConsent (action property) | PublicationInv |
| SettingsTypes, ChoicesStayComplete, SeedingStaysOut, ChangesStand | SettingsTypeOK, ChoicesCoverTemplates, SeedingKeepsOut and RebaseStands (action properties) | SettingsInv |
| WorkshopTypes | WorkshopTypeOK, of MCWorkshop | all seven |

* `NewestIsBest` (recovery): the newest automatic point has the most machines of all that
  were accepted, and an upload that will be accepted has no fewer. KnownGoodRemains by
  itself does not survive pruning, which keeps the newest, not the best.
* `RowInHand` (Cura): the row that the agent works on is there and of its kind. The server
  may reorder and refresh rows, but not those.
* `ReadersInHand` (alerts): who had read an alert when the evaluation began still has when it
  gets there; of an alert that it will raise it deletes what all of them had read.
* `CalibrationInv`: a completed step is not older than a repetition, and suggestions of the
  current version are the steps' results (`SuggestionsFit`), older ones carry an older version.
* `CommandHolds` (backups): once the safety archive is made, what the database contains is in
  an archive that no retention removes; once the dump is in, the content is the requested
  one. `StoppedIsIdle` excludes that a stopped service prunes meanwhile.
* `ConsentsAreNew` (Google): a consent that is asked for, or an exchange that would still be
  answered, is newer than any that was revoked. Consents are single: the state that an exchange
  presents is hashed and compared with the newest.
* `SettingsInv`: one save at a time has a template's row, and only one with the types' lock
  may change its material type (`SavesHoldTemplates`); a save copies rows that inherit from its
  template, nobody is changing the template of their products, and where it will
  add, no changed row is current (`SavesStand`). The last needs that rows leave a
  scope from the oldest on (`s.left` is closed downwards), so that a withdrawn row does not
  uncover an older one.
* `SeedingAdds`: every name the seeding uses is that of a family (`Sown`), and a family whose
  name is no living choice was never renamed or deleted. What it adds to the choices
  therefore was never one, whichever templates it copied.

This proof found two things. An earlier version of the model had BeginRebase lock the
product together with the templates; with the steps that the code has, RebaseStands is not
true as it had been stated (section 6), and the field `amid` excludes the case. And SelectSeq, a
recursive operator, stood in SpoolmanProjection's LoadProducts; it is a recursive function
now (`Existing`).

### Only model-checked

* Liveness (EveryJobSettles, RecurringRunsAgain, EmptySpoolShelved, PrintersSettle,
  WorkshopSettles, HoldsAreAnswered): fairness and ENABLED are out of the prover's
  reach. So are SpoolsSettled, PlatesSettled, LibrarySettled and the others they are made of.
* The six sentences of section 6, which TLC refutes.
* That the sums, orders and matchings which the models compute recursively or choose are those
  of the code for every input: induction over data is out of reach; where a theorem
  needs such a fact, it uses the property of the choice, not its value.

## 6. What the models show about the code

Six runs look for a violation of a sentence in the repository's own documents
or comments and find it. `PROJECT.json` quotes each with its place.

| Run | Sentence | What happens |
|---|---|---|
| projection_stale | out-of-order stale jobs complete without overwriting newer data | the product is read before the advisory lock; the slower of two upserts writes version 1 over version 2 |
| projection_duplicate | advisory locks prevent duplicate remote objects | in full convergence the seeded pointer is not flushed, the look-up in the same session misses it, a second record is created and the commit violates the unique constraint |
| ledger_phantom | a lower remote balance is no evidence of consumption until the correction reached Spoolman | an edit while the spool is first created there queues no correction, and the difference is imported as usage |
| ledger_double | terminal use does not double-count prior Spoolman use | a print first seen late starts from a balance that imports already lowered |
| cura_rollback | rollback restores the exact pre-synchronization files | the agent stops between two files, takes the row up again and archives the half-written files over its backup |
| nozzle_reseed | a nozzle is marked Active before it is installed | seeding installs a nozzle that an operator removed and set to Maintenance |

### Two situations in which the ledger's own evidence is ambiguous

`late`: Capture took the starting mass after the print had used some filament.
That is the situation of ledger_double, and UsageCountedOnce excludes it.

`blurred`: the balance is no longer reading - tare + events.

* `SpoolMassBasis.remaining` clamps at zero (services/spool_mass.py:26). With a
  reading, a tare so high that the sum is negative yields 0; a later positive
  correction is recorded as an event relative to that 0, and the next edit that
  recalculates starts from the negative sum again and undoes the correction.
* `_apply_terminal_spool_usage` locks the spool with `with_for_update` but without
  `populate_existing`, so it computes from what the pass had loaded earlier. The
  event it records may not match the balance it leaves, and may be dated before a
  weighing that it follows. Also, terminal use counts from the segment's start:
  a weighing made during the print is lowered to start - use if that is less,
  and never raised.

### Other observations, without a run of their own

* LagIsVisible is stated for behaviours without an outlived lease. With one, TLC
  finds the handler that lost the row writing an old version after the new holder
  wrote and acknowledged the new one; diagnostics then reports no lag.
* `attempts` grows in fail_job only. A job whose handler always kills its process,
  or always outlives its lease, is retried for ever; README.md:51 speaks of bounded
  retries. Nothing renews a lease while a handler runs.
* schedule_periodic_jobs adds a row and supersedes nothing; 06_SYNC_ENGINE.md:11 and
  ARCHITECTURE.md:63 say that a new periodic run supersedes its previous terminal
  attempt before it is enqueued. The success of the run does supersede it, which is
  what SupersededIsCovered and RecurringRunsAgain rely on.
* A successful recurring run retires every dead run of its type, newer ones too;
  the document says older. Full convergence retires dead upserts whose version it
  may not have read. Both are harmless for the remote state only because a later
  convergence comes (SettledReachedRemote).
* Once two imports of one spool would have the same before and after, the unique
  usage key fails the whole spoolman.reconcile.full job, and does so at each run
  until a balance changes (ImportClashes).
* spoolman.vendor.upsert is retired by convergence and listed as a job type, but has
  no handler and nothing enqueues it.
* A held start: FILAMENT_MANAGER_GCODE_INSPECTION names no file and no sequence
  (clients/moonraker.py:973, print_history.py:745-755). After a cancel, another upload
  under the same name and another start, the PASS of a poll that read the first file
  releases the second, which docs/PRINTING_WORKFLOW.md:7 says is inspected first.
  PrintStart has this behaviour; it is one poll interval wide.
* A poll whose printer has a canonical spool recorded on another printer raises
  ValueError (moonraker_sync.py:213) and ends the whole job, each time, so that the
  printers after it in the list are not synchronized. SpoolsSettled excludes them.
* A selection at the printer that was read before one in the application, and is
  committed after the job of the latter is done, takes the canonical side back
  (build_plate_sync.py:139). Both then agree on the older side, which PlatesSettled
  allows.
* A Cura library that returns to an earlier content is queued again in its old place
  of the order; a newer, stale row is then claimed after it. The next heartbeat
  notices and queues it once more, which is why LibrarySettled holds. A heartbeat does
  not retry a row that FAILED; the failure stays visible instead.
* Recovery points: a capture taken while a restoration is half done is a point like
  any other; two deletions that overlap may lose one suppression of the other, and an
  upload that read before a deletion creates the point again (workstations.py:988).
  A reset is recognized by comparison with the newest point only.
* A change of template locks templates first and the product's rows last
  (profiles.py:197, 240). Between the two, another request may create a profile of the
  product from a template that is not among those locked, and a save of that template by the
  compatibility route, which takes no lock on material types, may read the row. The change
  then plans for it too and commits, and the save copies the row it had read: the product is
  back at the template it left, which material_settings.py:216-219 means to exclude
  ("would incorrectly revive a historical profile after that scope rebased"). It needs four
  requests and a second nozzle. TLC finds it with four templates (two materials, two nozzles)
  if `~s.amid` is dropped from RebaseStands; with it, RebaseStands is proved.
* An applied calibration can be measured again and then deleted
  (calibrations.py:308, 713), though 11_FILAMENT_CALIBRATION_WIZARD.md:147 keeps applied ones.
  Applying to a profile does not compare what was reviewed.
* Applying to a template compares the version, but that of the page's list
  (CalibrationPage.tsx:190-199). The suggestions (calibrations.py:440-463) carry none, are cached
  for 20 s (frontend/src/Application.tsx:10), and a result entered in another step invalidates the
  list only (CalibrationPage.tsx:145). An operator who opens the review, repeats a
  step, and opens the review again may confirm the old suggestions under the new version; the
  template then takes the new results, which nobody has reviewed, though
  11_FILAMENT_CALIBRATION_WIZARD.md:147 lets only reviewed recommendations cascade. Calibrations
  has this behaviour; without its last disjunct, `listed.version > suggested.of`,
  TemplateTakesReviewed is violated. What is checked and proved is the rest: no result that is
  older than a repetition reaches the template, and none that differs from the suggestions while
  the page has listed no later version than theirs.
* Pruning does not spare the archive that a pending restore names
  (database_backups.py:534); the restore then refuses. The retention is the one read
  before the dump.
* Installing and replacing nozzles takes two nozzles' rows in an order that depends on
  the request, so PostgreSQL may abort one of two opposite exchanges; and the
  replaced nozzle is read without a lock (nozzles.py:354), so that a concurrent edit's
  version increment may be lost.
* Editing the diameter of an installed nozzle leaves printers.nozzle_diameter_mm as it
  was (nozzles.py:235).
* google_publication.py:71-72 says that the workbook already matches when the
  fingerprint does; after a replacement whose answer was lost and a revert of the
  tables it does not, until something is published or forced. WorkbookRepaired is
  therefore about forced publications. A forced job (`google.rebuild.full`) that finds
  the lock taken or a print active returns, and is done.
* A command that was given up and is retried by an administrator after the endpoint
  moved goes to the new one; EndpointsStand excludes revived commands. Adopting a
  deployment's printer with an outdated address in its row changes the endpoint
  without the checks (printer_connections.py:211), because the row is what they compare.
* An alert that is marked read while the evaluation that raises it again is open stays
  read; read-all marks alerts that were never shown.

## 7. Abstractions, and what is not modelled

* OutboxQueue: a row is identified by type, aggregate and version.
  queue_filament_default_projection can add a second row with the same three and
  another idempotency key; such a row behaves as one more retry of the first.
  Effects are sets, so an effect that happens twice is not distinguished here;
  SpoolmanProjection counts the records.
* SpoolmanProjection: no spool pass, no discovery of a vendor by name, no delete
  jobs, no managed extra fields, no fingerprints; vendors have one version and are there
  from the start. A vendor created after a convergence has read the vendors and before it
  reads the products is projected with its first product, after other products' locks
  (workers/dispatcher.py:343-348); two convergences could then wait for each other, and
  PostgreSQL would abort one, which is retried. NoLockCycle is about the vendors that
  existed when a convergence began.
* SpoolLedger: one spool, whole grams. Gross readings are those that give a mass
  within the capacity, and those below the tare that the code refuses. The commit of an
  adjust_weight job is one step with its write to Spoolman; a commit that fails
  after the write shows up as the job's death with the mass written. Not modelled:
  several spools and M600 segments, two adjust_weight jobs that run out of order, a
  record_version that is written back lower and then raised again to a number that an
  idempotency key already has, the import of a location (whose repair also
  reads the remaining weight again), Google and audit rows, the administrator's
  override for masses above nominal, the operator's archive and delete.
* PhysicalSpool: one hotend per printer; no tool changer, no accounting of M600. The
  compatibility report is only which spools can be loaded. BuildPlates: one printer;
  editing, retiring and rating plates are left out; the active plate and the active side are
  one value, so that a stale write that mixes the two is not modelled. PrintStart: one printer, one file
  name. Nozzles: one diameter. PrinterConnections: no API keys; the address in the
  deployment's settings is that of its row; the five physical job types are one kind.
* The jobs in these modules are claimed, run and settled without the queue's leases
  and supersession, which are OutboxQueue's.
* CuraDeployments: queue_cura_library reads a row without a lock (cura_library.py:309) and
  writes it in one step here. In the code a request may reset a row that another has reset and
  an agent has claimed in between; the completion is then refused and the row claimed once more.
* WorkstationAgent: a library is a value, a file holds one library's content or the
  user's own. Pairing and the import of edits made in Cura are
  left out; the two routes that once imported a Cura material always refuse
  (api/routes/profiles.py:1882-1895) and have no action.
* MaterialSettings: one setting, without ranges; one base material whose templates are
  copied (the code: PLA and PETG). Calibrations: measurements are values
  of a small set; the arithmetic of fits is left out. DatabaseBackups: an archive is the
  content it holds; pg_dump and pg_restore are conversions. GooglePublication: OAuth
  only. OperatorAlerts: one printer, spool, side and workstation.
* Not modelled at all, with reasons in `PROJECT.json`: canonical create, read,
  update and delete of the catalogue (one transaction each, under the row's lock), the
  workbook import, telemetry, migrations, the web frontend but for what the calibration page
  shows. Authentication is outside this project.

## 8. Plan

Every safety property that a passing run checks is proved. What would add most next:

1. Theorems about what the runs imply but do not state: the shape of the recovery history
   under deletions (what `operated` excludes), and agreement of nozzles for the rows that
   seeding did not touch, in place of `reseeded` for all.
2. A promise for the physical boundary, as DeliveryPromise is for the outbox: a spool
   is in one place, a command is carried out or refused; with PhysicalSpool
   and PrinterConnections shown to implement it.
3. SpoolmanProjection with the spool pass and delete jobs, and its proofs extended.
4. The tool changer and M600 segments, as an extension of PhysicalSpool and the ledger to
   two spools.
