--------------------------- MODULE CuraDeployments ---------------------------
(***************************************************************************)
(* The server's half of Cura synchronization for one workstation: the      *)
(* desired library and nozzle, the cura_deployments and                    *)
(* cura_recovery_restores rows, their leases, and what a heartbeat, a      *)
(* claim and a completion do to them.  The agent's half is WorkstationAgent,*)
(* whose steps call Heartbeat, ClaimRow, Completed and the like.           *)
(***************************************************************************)
EXTENDS Integers, SequencesExt

CONSTANTS Library,     \* contents build_cura_library can render, by checksum
          FirstLibrary,\* the one published before the workstation is paired
          NoLibrary,   \* nothing published yet, or nothing verified as installed
          Installation,\* Cura installations of the workstation
          Diameter,    \* nozzle_diameter_mm values
          FirstDiameter,
          MaxChanges,  \* bound on administrator and operator requests
          MaxRestores  \* bound on recovery requests

ASSUME DeploymentsAssumption ==
    /\ NoLibrary \notin Library /\ FirstLibrary \in Library
    /\ Library \cap Diameter = {} /\ FirstDiameter \in Diameter
    /\ {MaxChanges, MaxRestores} \subseteq Nat

VARIABLES
    managed,      \* cura_management_enabled
    desired,      \* what the published templates and profiles render to
    canonical,    \* Printer.nozzle_diameter_mm
    reported,     \* the extruder's diameter of each installation, at the last heartbeat
    bucket,       \* reports that queued a nozzle row in this five minute bucket
    deployments,  \* cura_deployments, oldest first
    restores,     \* cura_recovery_restores, oldest first
    changes       \* requests so far, for their bound

serverVars == <<managed, desired, canonical, reported, bucket, deployments, restores, changes>>

Active == {"PENDING", "CLAIMED"}
Status == Active \cup {"SUCCEEDED", "FAILED", "CANCELLED"}

\* due: next_attempt_at has passed.  leased: lease_expires_at has not.
Deployment == [status : Status, due : BOOLEAN, leased : BOOLEAN,
               op : {"library", "nozzle"}, content : Library \cup Diameter]
Restore == [status : Status, due : BOOLEAN, leased : BOOLEAN, initialize : BOOLEAN]

New(op, content) == [status |-> "PENDING", due |-> TRUE, leased |-> FALSE,
                     op |-> op, content |-> content]

ServerInit ==
    /\ managed = FALSE
    /\ desired \in {NoLibrary, FirstLibrary}
    /\ canonical = FirstDiameter
    /\ reported = [i \in Installation |-> FirstDiameter] /\ bucket = {}
    /\ deployments = <<>> /\ restores = <<>>
    /\ changes = 0

-----------------------------------------------------------------------------
(* Queueing.                                                               *)

IsLibrary(row) == row.op = "library"
RowsOf(rows, L) == {i \in DOMAIN rows : IsLibrary(rows[i]) /\ rows[i].content = L}

\* Every caller forces; only the heartbeat leaves a failed row to the operator.
Requeues(status, retryFailed) ==
    (status = "FAILED" /\ retryFailed) \/ status \in {"SUCCEEDED", "CANCELLED"}

\* Mutated form: an empty library is queued like any other.
QueuesEmpty(rows, L, retryFailed) ==
    IF RowsOf(rows, L) = {} THEN Append(rows, New("library", L)) ELSE rows

\* queue_cura_library: one row per content, which keeps its place in the order.  The code reads
\* the row without a lock; that another request resets it and an agent claims it before this
\* one has written is left out.
QueueLibrary(rows, L, retryFailed) ==
    IF L = NoLibrary THEN rows
    ELSE IF RowsOf(rows, L) = {} THEN Append(rows, New("library", L))
    ELSE [i \in DOMAIN rows |->
            IF i \in RowsOf(rows, L) /\ Requeues(rows[i].status, retryFailed)
            THEN New("library", L) ELSE rows[i]]

\* Mutated form: any earlier row of the diameter stands for the request.
NozzleEverQueued(rows, d) == \E i \in DOMAIN rows : rows[i].op = "nozzle" /\ rows[i].content = d

NozzleUnderway(rows, d) ==
    \E i \in DOMAIN rows :
        rows[i].op = "nozzle" /\ rows[i].content = d /\ rows[i].status \in Active

\* queue_cura_nozzle_update under a trigger that was not used before.
QueueNozzle(rows, d) ==
    IF NozzleUnderway(rows, d) THEN rows ELSE Append(rows, New("nozzle", d))

\* Edits queue for managed workstations only.
WhenManaged(rows) == IF managed THEN rows ELSE deployments

-----------------------------------------------------------------------------
(* People.                                                                 *)

Change == changes < MaxChanges /\ changes' = changes + 1

\* Any edit that alters the rendered library ends in queue_managed_cura_library.
PublishSettings(L) ==
    /\ Change /\ L # desired
    /\ desired' = L
    /\ deployments' = WhenManaged(QueueLibrary(deployments, L, TRUE))
    /\ UNCHANGED <<managed, canonical, reported, bucket, restores>>

InstallNozzle(d) ==
    /\ Change /\ d # canonical
    /\ canonical' = d
    /\ deployments' = WhenManaged(QueueNozzle(deployments, d))
    /\ bucket' = {}   \* the printer's new record_version is part of the key
    /\ UNCHANGED <<managed, desired, reported, restores>>

\* Takeover after review, or the switch on an agent without unmanaged sources.
EnableManagement ==
    /\ Change /\ ~managed
    /\ managed' = TRUE
    /\ deployments' = QueueLibrary(deployments, desired, TRUE)
    /\ UNCHANGED <<desired, canonical, reported, bucket, restores>>

DisableManagement ==
    /\ Change /\ managed
    /\ managed' = FALSE
    /\ UNCHANGED <<desired, canonical, reported, bucket, deployments, restores>>

\* Never nozzle work, and never what an agent already claimed.
Superseded(row) == IsLibrary(row) /\ row.status = "PENDING" /\ row.content # desired

\* "Push app settings", for one workstation or for all that report a printer.
SyncNow ==
    LET queued == QueueLibrary(deployments, desired, TRUE) IN
    /\ Change /\ managed /\ desired # NoLibrary
    /\ deployments' = [i \in DOMAIN queued |->
          IF Superseded(queued[i]) THEN [queued[i] EXCEPT !.status = "CANCELLED"]
          ELSE IF i \in RowsOf(queued, desired) /\ queued[i].status = "PENDING"
          THEN [queued[i] EXCEPT !.due = TRUE] ELSE queued[i]]
    /\ UNCHANGED <<managed, desired, canonical, reported, bucket, restores>>

\* create_cura_deployments, which selects managed agents, and the rebuild of
\* all projections.
DeployProfile ==
    /\ Change /\ managed /\ desired # NoLibrary
    /\ deployments' = QueueLibrary(deployments, desired, TRUE)
    /\ UNCHANGED <<managed, desired, canonical, reported, bucket, restores>>

\* The workstation row is locked, so a second active restore is refused.
RequestRestore(initialize) ==
    /\ Change /\ Len(restores) < MaxRestores
    /\ \A i \in DOMAIN restores : restores[i].status \notin Active
    /\ restores' = Append(restores, [status |-> "PENDING", due |-> TRUE, leased |-> FALSE,
                                     initialize |-> initialize])
    /\ UNCHANGED <<managed, desired, canonical, reported, bucket, deployments>>

-----------------------------------------------------------------------------
(* The agent's requests.  `seen` is what it reported: the verified library  *)
(* of every installation, the extruder's diameter, and whether materials    *)
(* exist that Filament Manager did not write.                               *)

Installed(libraries) == libraries = {desired}

NozzleDrift(diameters) == \E i \in Installation : diameters[i] # canonical

\* The key of a drift is new when the previous report had none, else it is the
\* bucket's.
DriftQueues(diameters) ==
    NozzleDrift(diameters) /\ (NozzleDrift(reported) => diameters \notin bucket)

Heartbeat(seen) ==
    LET enabled == managed \/ ~seen.unmanaged
        nozzled == IF DriftQueues(seen.diameters)
                   THEN QueueNozzle(deployments, canonical) ELSE deployments IN
    /\ managed' = enabled
    /\ reported' = seen.diameters
    /\ IF enabled
       THEN /\ bucket' = IF NozzleDrift(reported) /\ nozzled # deployments
                         THEN bucket \cup {seen.diameters} ELSE bucket
            /\ deployments' = IF Installed(seen.libraries) THEN nozzled
                              ELSE QueueLibrary(nozzled, desired, FALSE)
       ELSE UNCHANGED <<bucket, deployments>>
    /\ UNCHANGED <<desired, canonical, restores, changes>>

\* Mutated form: the row of a stopped agent is never leased again.
ReadyOnce(row) == row.due /\ row.status = "PENDING"

Ready(row) == row.due /\ (row.status = "PENDING" \/ (row.status = "CLAIMED" /\ ~row.leased))

\* The oldest ready row, or none.
NextRow(rows) ==
    {i \in DOMAIN rows : Ready(rows[i]) /\ \A j \in DOMAIN rows : Ready(rows[j]) => i <= j}

ClaimRow(rows, i) == [rows EXCEPT ![i].status = "CLAIMED", ![i].leased = TRUE]

Defer(rows, i) == [rows EXCEPT ![i].status = "PENDING", ![i].due = FALSE, ![i].leased = FALSE]
Settle(rows, i, status) == [rows EXCEPT ![i].status = status, ![i].leased = FALSE]

\* An installed library closes the failed ones of this workstation.
CloseFailed(rows, i) ==
    [j \in DOMAIN rows |->
        IF j # i /\ IsLibrary(rows[j]) /\ rows[j].status = "FAILED"
        THEN [rows[j] EXCEPT !.status = "CANCELLED"] ELSE rows[j]]

\* What the completion of row i leaves.
Completed(i, outcome) ==
    LET settled == Settle(deployments, i, outcome) IN
    CASE outcome = "deferred" -> Defer(deployments, i)
      [] outcome = "FAILED" -> settled
      [] OTHER -> IF IsLibrary(deployments[i]) THEN CloseFailed(settled, i)
                  ELSE IF managed THEN QueueLibrary(settled, desired, TRUE) ELSE settled

\* Only a claimed row can be completed, by whichever claim.
CompleteDeployment(i, outcome) ==
    /\ deployments' = IF deployments[i].status = "CLAIMED" THEN Completed(i, outcome)
                      ELSE deployments
    /\ UNCHANGED <<managed, desired, canonical, reported, bucket, restores, changes>>

\* A restored Cura gets its nozzle aligned and then its library back.
CompleteRestore(i, outcome) ==
    LET enabled == managed \/ (outcome = "SUCCEEDED" /\ restores[i].initialize) IN
    /\ IF restores[i].status # "CLAIMED" THEN UNCHANGED <<managed, deployments, restores>>
       ELSE /\ restores' = IF outcome = "deferred" THEN Defer(restores, i)
                           ELSE Settle(restores, i, outcome)
            /\ managed' = enabled
            /\ deployments' = IF outcome = "SUCCEEDED" /\ enabled
                  THEN QueueLibrary(QueueNozzle(deployments, canonical), desired, TRUE)
                  ELSE deployments
    /\ UNCHANGED <<desired, canonical, reported, bucket, changes>>

-----------------------------------------------------------------------------
(* Time.                                                                   *)

BecomeDue ==
    /\ \/ /\ \E i \in DOMAIN deployments :
               /\ deployments[i].status = "PENDING" /\ ~deployments[i].due
               /\ deployments' = [deployments EXCEPT ![i].due = TRUE]
          /\ UNCHANGED restores
       \/ /\ \E i \in DOMAIN restores :
               /\ restores[i].status = "PENDING" /\ ~restores[i].due
               /\ restores' = [restores EXCEPT ![i].due = TRUE]
          /\ UNCHANGED deployments
    /\ UNCHANGED <<managed, desired, canonical, reported, bucket, changes>>

Lapse ==
    /\ \/ /\ \E i \in DOMAIN deployments :
               /\ deployments[i].leased
               /\ deployments' = [deployments EXCEPT ![i].leased = FALSE]
          /\ UNCHANGED restores
       \/ /\ \E i \in DOMAIN restores :
               /\ restores[i].leased
               /\ restores' = [restores EXCEPT ![i].leased = FALSE]
          /\ UNCHANGED deployments
    /\ UNCHANGED <<managed, desired, canonical, reported, bucket, changes>>

NextBucket ==
    /\ bucket # {}
    /\ bucket' = {}
    /\ UNCHANGED <<managed, desired, canonical, reported, deployments, restores, changes>>

PeopleStep ==
    \/ \E L \in Library : PublishSettings(L)
    \/ \E d \in Diameter : InstallNozzle(d)
    \/ EnableManagement \/ DisableManagement
    \/ SyncNow \/ DeployProfile
    \/ \E b \in BOOLEAN : RequestRestore(b)

TimeStep == BecomeDue \/ Lapse \/ NextBucket

ServerTypeOK ==
    /\ managed \in BOOLEAN
    /\ desired \in Library \cup {NoLibrary}
    /\ canonical \in Diameter
    /\ reported \in [Installation -> Diameter]
    /\ bucket \subseteq [Installation -> Diameter]
    /\ deployments \in Seq(Deployment)
    /\ restores \in Seq(Restore)
    /\ changes \in 0..MaxChanges
=============================================================================
