---------------------------- MODULE CuraRecovery ----------------------------
(***************************************************************************)
(* Recovery points of one Cura installation: the agent captures the user's *)
(* configuration while Cura is closed, the server keeps a bounded history  *)
(* and refuses what looks like a reset, and an administrator names, deletes*)
(* and restores points.  Requests overlap, and the agent may stop between  *)
(* any two of its steps.                                                   *)
(***************************************************************************)
EXTENDS Integers, FiniteSets

CONSTANTS Setting,       \* files that recovery captures
          MachineFile,   \* those below machine_instances/
          ProfileFile,   \* those below quality/ and quality_changes/
          ManyFiles, ManyProfiles,   \* counts from which losing some is suspicious
          HistoryLimit,  \* AUTOMATIC_RECOVERY_HISTORY_LIMIT
          MaxPoints,     \* bound on the points ever made
          MaxEdits,      \* bound on changes made in Cura
          MaxPointOps,   \* bound on the administrator's requests and on stops
          NoPoint

ASSUME RecoveryAssumption ==
    /\ {ManyFiles, ManyProfiles, MaxPoints, MaxEdits, MaxPointOps} \subseteq Nat
    /\ HistoryLimit \in Nat \ {0}
    /\ MachineFile \cup ProfileFile \subseteq Setting /\ IsFiniteSet(Setting)

VARIABLES
    configured,  \* the files that Cura has
    opened,      \* Cura is running
    points,      \* cura_recovery_snapshots; id is the order of captured_at
    pointsMade,  \* how many there ever were
    suppressed,  \* suppressed_recovery_snapshots, one installation's
    health,      \* cura_recovery_status
    capture,     \* the manual backup's row in cura_deployments
    restoration, \* the newest row of cura_recovery_restores
    agent,       \* what the agent is doing, and what it has read
    deletion,    \* what a deletion under way has read
    edits, pointOps,
    operated,    \* history: an administrator took or deleted a point
    best         \* history: the most machines an accepted capture had

recoveryVars == <<configured, opened, points, pointsMade, suppressed, health, capture,
                  restoration, agent, deletion, edits, pointOps, operated, best>>
administration == <<capture, restoration, deletion, pointOps, operated>>
store == <<points, pointsMade, suppressed, health, best>>

Point == [id : Nat, held : SUBSET Setting, manual : BOOLEAN]
Waiting == [at |-> "waiting"]
NoDeletion == [point |-> NoPoint, suppressed |-> {}, last |-> FALSE]
NoRestoration == [status |-> "none", held |-> {}, point |-> 0]

RecoveryInit ==
    /\ configured = Setting /\ opened = FALSE
    /\ points = {} /\ pointsMade = 0 /\ suppressed = {} /\ health = "unknown"
    /\ capture = "none" /\ restoration = NoRestoration
    /\ agent = Waiting /\ deletion = NoDeletion
    /\ edits = 0 /\ pointOps = 0 /\ operated = FALSE /\ best = 0

-----------------------------------------------------------------------------
Machines(held) == Cardinality(held \cap MachineFile)
Profiles(held) == Cardinality(held \cap ProfileFile)

\* Mutated form: machines are not compared.
FilesVanish(previous, held) ==
    Cardinality(previous) >= ManyFiles /\ 10 * Cardinality(held) <= 6 * Cardinality(previous)

\* suspected_reset
SuspectedReset(previous, held) ==
    \/ Machines(held) < Machines(previous)
    \/ Cardinality(previous) >= ManyFiles /\ 10 * Cardinality(held) <= 6 * Cardinality(previous)
    \/ Profiles(previous) >= ManyProfiles /\ 2 * Profiles(held) <= Profiles(previous)

NewestPoint(set) == {p \in set : \A q \in set : q.id <= p.id}

\* Named points are never pruned.
KeepNewest(set) ==
    {p \in set : ~p.manual =>
        Cardinality({q \in set : ~q.manual /\ q.id > p.id}) < HistoryLimit}

\* The row that an upload takes up: its request's, or the automatic one of this content.
Existing(held, manual) == {p \in points : ~manual /\ ~p.manual /\ p.held = held}

\* upload_cura_recovery_snapshot, in the order of its checks.
Verdict(held, manual) ==
    IF ~manual /\ held \in suppressed THEN "deleted_by_administrator"
    ELSE IF Machines(held) = 0 THEN "no_printer_configuration"
    ELSE IF ~manual /\ \E p \in NewestPoint(points) : SuspectedReset(p.held, held) THEN "suspected_reset"
    ELSE IF Existing(held, manual) # {} THEN "existing" ELSE "new"

-----------------------------------------------------------------------------
(* The agent.                                                              *)

\* capture_recovery_snapshot, for a Cura that was closed when the iteration began.
CaptureSettings ==
    /\ agent = Waiting /\ ~opened
    /\ agent' = [at |-> "captured", held |-> configured, manual |-> FALSE]
    /\ UNCHANGED <<configured, opened, edits, administration, store>>

ClaimCapture ==
    /\ agent = Waiting /\ ~opened /\ capture = "pending"
    /\ capture' = "claimed" /\ agent' = [at |-> "captured", held |-> configured, manual |-> TRUE]
    /\ UNCHANGED <<configured, opened, edits, store, restoration, deletion, pointOps, operated>>

\* The transaction's reads.
BeginUpload ==
    /\ agent.at = "captured"
    /\ agent' = [at |-> "uploading", held |-> agent.held, manual |-> agent.manual,
                 verdict |-> Verdict(agent.held, agent.manual), first |-> points = {}]
    /\ UNCHANGED <<configured, opened, edits, administration, store>>

\* A new automatic point prunes the history in the same transaction.
Stored ==
    IF agent.verdict = "new"
    THEN LET p == [id |-> pointsMade + 1, held |-> agent.held, manual |-> agent.manual]
             all == points \cup {p} IN
         /\ pointsMade < MaxPoints /\ pointsMade' = pointsMade + 1
         /\ points' = IF agent.manual THEN all ELSE KeepNewest(all)
    ELSE UNCHANGED <<points, pointsMade>>

Accepted == agent.verdict \in {"new", "existing"}

\* The row of the agent is not locked: an overlapping deletion's columns stay.
CommitUpload ==
    /\ agent.at = "uploading" /\ agent' = Waiting /\ Stored
    /\ health' = IF Accepted THEN "ready"
                 ELSE IF agent.verdict = "deleted_by_administrator" THEN health
                 ELSE IF agent.first THEN "not_ready" ELSE "capture_blocked"
    /\ best' = IF Accepted /\ Machines(agent.held) > best THEN Machines(agent.held) ELSE best
    /\ capture' = IF agent.manual THEN "none" ELSE capture
    /\ operated' = (operated \/ (agent.manual /\ Accepted))
    /\ UNCHANGED <<configured, opened, suppressed, restoration, deletion, edits, pointOps>>

ClaimRestoration ==
    /\ agent = Waiting /\ ~opened /\ restoration.status \in {"pending", "claimed"}
    /\ restoration' = [restoration EXCEPT !.status = "claimed"]
    /\ agent' = [at |-> "replacing", backup |-> configured]
    /\ UNCHANGED <<configured, opened, edits, store, capture, deletion, pointOps, operated>>

\* restore_recovery_snapshot: the saved files first, then what was not saved goes.
ReplaceFiles ==
    /\ agent.at = "replacing" /\ configured' = configured \cup restoration.held
    /\ agent' = [agent EXCEPT !.at = "removing"]
    /\ UNCHANGED <<opened, edits, administration, store>>

RemoveFiles ==
    /\ agent.at = "removing" /\ configured' = restoration.held
    /\ agent' = [agent EXCEPT !.at = "replaced"]
    /\ UNCHANGED <<opened, edits, administration, store>>

\* _restore_failed_recovery
RestorationFails ==
    /\ agent.at \in {"replacing", "removing"} /\ pointOps < MaxPointOps /\ pointOps' = pointOps + 1
    /\ configured' = agent.backup /\ agent' = Waiting
    /\ restoration' = [restoration EXCEPT !.status = "failed"] /\ health' = "restore_failed"
    /\ UNCHANGED <<opened, edits, points, pointsMade, suppressed, best, capture, deletion, operated>>

\* complete_cura_recovery_restore
RestorationEnds ==
    /\ agent.at = "replaced" /\ agent' = Waiting
    /\ restoration' = [restoration EXCEPT !.status = "succeeded"] /\ health' = "ready"
    /\ UNCHANGED <<configured, opened, edits, points, pointsMade, suppressed, best, capture,
                   deletion, pointOps, operated>>

\* Its claims lapse; a manual backup that was claimed is claimed again.
AgentStops ==
    /\ agent # Waiting /\ pointOps < MaxPointOps /\ pointOps' = pointOps + 1
    /\ agent' = Waiting
    /\ capture' = IF capture = "claimed" THEN "pending" ELSE capture
    /\ UNCHANGED <<configured, opened, edits, store, restoration, deletion, operated>>

-----------------------------------------------------------------------------
(* Cura and the administrator.                                             *)

OpenSession ==
    /\ ~opened /\ edits < MaxEdits /\ opened' = TRUE
    /\ UNCHANGED <<configured, edits, agent, administration, store>>

\* Printers and profiles are added and lost; a reset loses everything.
CloseSession(held) ==
    /\ opened /\ opened' = FALSE /\ configured' = held /\ edits' = edits + 1
    /\ UNCHANGED <<agent, administration, store>>

Administers == pointOps < MaxPointOps /\ pointOps' = pointOps + 1

RequestCapture ==
    /\ Administers /\ capture = "none" /\ capture' = "pending"
    /\ UNCHANGED <<configured, opened, edits, agent, store, restoration, deletion, operated>>

\* The row keeps a copy of the payload.
RequestRestoration(p) ==
    /\ Administers /\ restoration.status \notin {"pending", "claimed"}
    /\ deletion.point # p
    /\ restoration' = [status |-> "pending", held |-> p.held, point |-> p.id]
    /\ health' = "restore_pending"
    /\ UNCHANGED <<configured, opened, edits, agent, points, pointsMade, suppressed, best, capture,
                   deletion, operated>>

\* The point is locked, the agent's row only read.
BeginDeletion(p) ==
    /\ Administers /\ deletion = NoDeletion
    /\ ~(restoration.status \in {"pending", "claimed"} /\ restoration.point = p.id)
    /\ deletion' = [point |-> p, suppressed |-> suppressed \cup (IF p.manual THEN {} ELSE {p.held}),
                    last |-> points = {p}]
    /\ UNCHANGED <<configured, opened, edits, agent, store, capture, restoration, operated>>

CommitDeletion ==
    /\ deletion # NoDeletion /\ deletion' = NoDeletion /\ operated' = TRUE
    /\ points' = points \ {deletion.point}
    /\ suppressed' = IF deletion.point.manual THEN suppressed ELSE deletion.suppressed
    /\ health' = IF deletion.last THEN "not_ready" ELSE health
    /\ UNCHANGED <<configured, opened, edits, agent, pointsMade, best, capture, restoration, pointOps>>

-----------------------------------------------------------------------------
RecoveryNext ==
    \/ CaptureSettings \/ ClaimCapture \/ BeginUpload \/ CommitUpload
    \/ ClaimRestoration \/ ReplaceFiles \/ RemoveFiles \/ RestorationFails \/ RestorationEnds
    \/ AgentStops \/ OpenSession \/ RequestCapture \/ CommitDeletion
    \/ \E held \in SUBSET Setting : CloseSession(held)
    \/ \E p \in points : RequestRestoration(p) \/ BeginDeletion(p)

RecoverySpec == RecoveryInit /\ [][RecoveryNext]_recoveryVars

-----------------------------------------------------------------------------
(* What is claimed.                                                        *)

RecoveryTypeOK ==
    /\ configured \subseteq Setting /\ points \subseteq Point
    /\ Cardinality({p \in points : ~p.manual}) <= HistoryLimit
    /\ suppressed \subseteq SUBSET Setting /\ pointsMade \in 0 .. MaxPoints
    /\ capture \in {"none", "pending", "claimed"} /\ operated \in BOOLEAN

\* No reset, torn restore, replayed capture or turn of the bounded history loses the last
\* known good configuration: until an administrator takes or deletes a point, one with as
\* many machines as were ever accepted remains (suspected_reset, the pruning in
\* upload_cura_recovery_snapshot, restore_recovery_snapshot).
KnownGoodRemains ==
    ~operated /\ best > 0 => \E p \in points : Machines(p.held) = best
=============================================================================
