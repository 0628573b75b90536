--------------------------- MODULE WorkstationAgent ---------------------------
(***************************************************************************)
(* The agent beside Cura: it looks at the installations and at the running *)
(* Cura once, reports, and executes at most one claimed row per iteration  *)
(* against files that it replaces one at a time.  The process may stop     *)
(* between any two steps; a lost request ends the iteration the same way.  *)
(***************************************************************************)
EXTENDS CuraDeployments

CONSTANTS Nothing,    \* no row is being applied, or no completion on its way
          Own,        \* materials that Filament Manager did not write
          MaxMishaps  \* bound on failures, stops, Cura sessions and edits in Cura

ASSUME AgentAssumption ==
    /\ Own \notin Library \cup {NoLibrary}
    /\ MaxMishaps \in Nat

VARIABLES
    disk,      \* what Cura's data directories hold
    original,  \* history: the directories before the claimed row touched them
    cura,      \* Cura is running
    work,      \* where run_once is, and what it has read
    delayed,   \* a completion still on its way when the agent had given up waiting
    mishaps    \* so far, for their bound

agentVars == <<disk, original, cura, work, delayed, mishaps>>
vars == <<serverVars, agentVars>>

\* Materials and plugin files, the machine's configuration, and the user's
\* quality profiles, which are clean or hold settings the library owns.
File == {"material", "machine", "quality"}
Content == Library \cup {NoLibrary, Own}
Files == [File -> Content]
Directory == [files : Files, manifest : Library \cup {NoLibrary}, diameter : Diameter]

\* plan_quality_profile_cleanup leaves no setting that the library owns.
CleanedProfiles == NoLibrary

\* render_deployment
Rendered(L) == [f \in File |-> IF f = "quality" THEN CleanedProfiles ELSE L]

\* managed_library_checksum: every file the manifest hashes agrees with it.
Verified(d) == IF d.files = Rendered(d.manifest) THEN d.manifest ELSE NoLibrary

\* What the takeover has to review: discover_materials, discover_print_profiles.
OwnMaterials(d) == d.files["material"] = Own
OwnProfiles(d) == d.files["quality"] = Own
Unmanaged(d) == OwnMaterials(d) \/ OwnProfiles(d)

\* linked_extruder_nozzle_diameter
LinkedDiameter(d) == d.diameter

\* heartbeat_payload
Discovered(installations) ==
    [libraries |-> {Verified(disk[i]) : i \in installations},
     diameters |-> [i \in installations |-> LinkedDiameter(disk[i])],
     unmanaged |-> \E i \in installations : Unmanaged(disk[i])]

Seen == [libraries : SUBSET (Library \cup {NoLibrary}),
         diameters : [Installation -> Diameter], unmanaged : BOOLEAN]

Idle == [at |-> "idle"]
Work == {Idle}
    \cup [at : {"seen"}, running : BOOLEAN, seen : Seen]
    \cup [at : {"restores", "deployments"}, running : BOOLEAN]
    \cup [at : {"restoring", "restored"}, running : BOOLEAN, row : Nat]
    \cup [at : {"deploying"}, running : BOOLEAN, row : Nat,
          todo : SUBSET Installation, applied : BOOLEAN]
    \cup [at : {"writing"}, running : BOOLEAN, row : Nat, todo : SUBSET Installation,
          applied : BOOLEAN, on : Installation, left : SUBSET File,
          zip : Files \X (Library \cup {NoLibrary})]

AgentInit ==
    /\ disk \in [Installation -> {[files |-> [f \in File |-> c], manifest |-> NoLibrary,
                                   diameter |-> FirstDiameter] : c \in {NoLibrary, Own}}]
    /\ original = Nothing
    /\ cura = FALSE
    /\ work = Idle /\ delayed = Nothing
    /\ mishaps = 0

Mishap == mishaps < MaxMishaps /\ mishaps' = mishaps + 1

-----------------------------------------------------------------------------
(* run_once.                                                               *)

\* discover_installations, and cura_is_running for the whole iteration.
Discover ==
    /\ work = Idle
    /\ work' = [at |-> "seen", running |-> cura, seen |-> Discovered(Installation)]
    /\ UNCHANGED <<serverVars, disk, original, cura, mishaps, delayed>>

SendHeartbeat ==
    /\ work.at = "seen"
    /\ Heartbeat(work.seen)
    /\ work' = [at |-> "restores", running |-> work.running]
    /\ UNCHANGED <<disk, original, cura, mishaps, delayed>>

\* Recovery work goes first.
ClaimRestore ==
    /\ work.at = "restores"
    /\ IF NextRow(restores) = {}
       THEN work' = [work EXCEPT !.at = "deployments"] /\ UNCHANGED restores
       ELSE \E i \in NextRow(restores) :
               /\ restores' = ClaimRow(restores, i)
               /\ work' = [at |-> "restoring", running |-> work.running, row |-> i]
    /\ UNCHANGED <<managed, desired, canonical, reported, bucket, deployments, changes,
                   disk, original, cura, mishaps, delayed>>

ClaimDeployment ==
    /\ work.at = "deployments"
    /\ IF NextRow(deployments) = {}
       THEN work' = Idle /\ UNCHANGED <<deployments, original>>
       ELSE \E i \in NextRow(deployments) :
               /\ deployments' = ClaimRow(deployments, i)
               /\ work' = [at |-> "deploying", running |-> work.running, row |-> i,
                           todo |-> Installation, applied |-> FALSE]
               /\ original' = IF deployments[i].status = "PENDING" /\ IsLibrary(deployments[i])
                              THEN disk ELSE original
    /\ UNCHANGED <<managed, desired, canonical, reported, bucket, restores, changes,
                   disk, cura, mishaps, delayed>>

\* restore_recovery_snapshot: the saved machine files and quality profiles replace the
\* present ones.
ApplyRestore ==
    /\ work.at = "restoring" /\ ~work.running
    /\ \E i \in Installation, d \in Diameter, q \in {CleanedProfiles, Own} :
          disk' = [disk EXCEPT ![i].files["machine"] = NoLibrary, ![i].files["quality"] = q,
                               ![i].diameter = d]
    /\ work' = [work EXCEPT !.at = "restored"]
    /\ UNCHANGED <<serverVars, original, cura, mishaps, delayed>>

ReportRestore ==
    /\ \/ /\ work.at = "restored" /\ UNCHANGED mishaps
          /\ CompleteRestore(work.row, "SUCCEEDED")
       \/ /\ work.at = "restoring" /\ work.running /\ UNCHANGED mishaps
          /\ CompleteRestore(work.row, "deferred")
       \/ /\ work.at = "restoring" /\ ~work.running /\ Mishap
          /\ CompleteRestore(work.row, "FAILED")
    /\ work' = Idle
    /\ UNCHANGED <<disk, original, cura, delayed>>

Deploying(op) ==
    work.at = "deploying" /\ ~work.running /\ deployments[work.row].op = op

AlreadyCurrent ==
    /\ Deploying("library")
    /\ \E i \in work.todo :
          /\ Verified(disk[i]) = deployments[work.row].content
          /\ work' = [work EXCEPT !.todo = @ \ {i}, !.applied = TRUE]
    /\ UNCHANGED <<serverVars, disk, original, cura, mishaps, delayed>>

\* What _backup puts into the archive of this row and installation.
Saved(d) == <<d.files, d.manifest>>

BeginInstall ==
    /\ Deploying("library")
    /\ \E i \in work.todo :
          /\ Verified(disk[i]) # deployments[work.row].content
          /\ work' = [at |-> "writing", running |-> FALSE, row |-> work.row,
                      todo |-> work.todo \ {i}, applied |-> work.applied,
                      on |-> i, left |-> File, zip |-> Saved(disk[i])]
    /\ UNCHANGED <<serverVars, disk, original, cura, mishaps, delayed>>

\* Generated files go first, then machine files, then cleaned profiles.
NextFile == IF "material" \in work.left THEN "material"
            ELSE IF "machine" \in work.left THEN "machine" ELSE "quality"

WriteFile ==
    /\ work.at = "writing" /\ work.left # {}
    /\ disk' = [disk EXCEPT ![work.on].files[NextFile] =
                   Rendered(deployments[work.row].content)[NextFile]]
    /\ work' = [work EXCEPT !.left = @ \ {NextFile}]
    /\ UNCHANGED <<serverVars, original, cura, mishaps, delayed>>

Resume(applied) == [at |-> "deploying", running |-> FALSE, row |-> work.row,
                    todo |-> work.todo, applied |-> applied]

\* The manifest is written last.
WriteManifest ==
    /\ work.at = "writing" /\ work.left = {}
    /\ disk' = [disk EXCEPT ![work.on].manifest = deployments[work.row].content]
    /\ work' = Resume(TRUE)
    /\ UNCHANGED <<serverVars, original, cura, mishaps, delayed>>

\* _restore_backup
PutBack(d, zip) == [d EXCEPT !.files = zip[1], !.manifest = zip[2]]

WriteFails ==
    /\ work.at = "writing" /\ Mishap
    /\ disk' = [disk EXCEPT ![work.on] = PutBack(disk[work.on], work.zip)]
    /\ work' = Resume(work.applied)
    /\ UNCHANGED <<serverVars, original, cura, delayed>>

\* apply_nozzle_update rewrites the machine file that the manifest hashes.
SetNozzle ==
    /\ Deploying("nozzle")
    /\ \E i \in work.todo :
          /\ disk' = IF disk[i].diameter = deployments[work.row].content THEN disk
                     ELSE [disk EXCEPT ![i].diameter = deployments[work.row].content,
                                       ![i].files["machine"] = NoLibrary]
          /\ work' = [work EXCEPT !.todo = @ \ {i}, !.applied = TRUE]
    /\ UNCHANGED <<serverVars, original, cura, mishaps, delayed>>

\* No matching machine, an unsafe target, a profile that cannot be cleaned.
SkipInstallation ==
    /\ work.at = "deploying" /\ ~work.running /\ Mishap
    /\ \E i \in work.todo : work' = [work EXCEPT !.todo = @ \ {i}]
    /\ UNCHANGED <<serverVars, disk, original, cura, delayed>>

Outcome == IF work.running THEN "deferred" ELSE IF work.applied THEN "SUCCEEDED" ELSE "FAILED"

Finished == work.at = "deploying" /\ (work.running \/ work.todo = {})

Report ==
    /\ Finished
    /\ CompleteDeployment(work.row, Outcome)
    /\ work' = Idle
    /\ original' = Nothing
    /\ UNCHANGED <<disk, cura, delayed, mishaps>>

\* The server does not answer within 30 s, and run_forever starts over ...
ReportTimesOut ==
    /\ Finished /\ delayed = Nothing /\ Mishap
    /\ delayed' = [row |-> work.row, outcome |-> Outcome]
    /\ work' = Idle
    /\ UNCHANGED <<serverVars, disk, original, cura>>

\* ... but completes the row when it gets to it, whoever has claimed it by then.
DelayedReport ==
    /\ delayed # Nothing
    /\ CompleteDeployment(delayed.row, delayed.outcome)
    /\ delayed' = Nothing
    /\ UNCHANGED <<disk, original, cura, work, mishaps>>

\* The process stops, or a request fails and run_forever starts over.
Stop ==
    /\ work # Idle /\ Mishap
    /\ work' = Idle
    /\ UNCHANGED <<serverVars, disk, original, cura, delayed>>

-----------------------------------------------------------------------------
(* Cura and its user.                                                      *)

OpenCura ==
    /\ ~cura /\ Mishap
    /\ cura' = TRUE
    /\ UNCHANGED <<serverVars, disk, original, work, delayed>>

CloseCura ==
    /\ cura
    /\ cura' = FALSE
    /\ UNCHANGED <<serverVars, disk, original, work, mishaps, delayed>>

\* Cura rewrites its own files, and its user adds materials.
EditInCura ==
    /\ cura /\ Mishap
    /\ \E i \in Installation :
          \/ \E f \in {"material", "quality"} : disk' = [disk EXCEPT ![i].files[f] = Own]
          \/ \E d \in Diameter :
                disk' = [disk EXCEPT ![i].files["machine"] = NoLibrary, ![i].diameter = d]
    /\ UNCHANGED <<serverVars, original, cura, work, delayed>>

-----------------------------------------------------------------------------

AgentStep ==
    \/ Discover \/ SendHeartbeat
    \/ ClaimRestore \/ ApplyRestore \/ ReportRestore
    \/ ClaimDeployment \/ AlreadyCurrent \/ BeginInstall \/ WriteFile \/ WriteManifest
    \/ SetNozzle \/ Report

Trouble == WriteFails \/ SkipInstallation \/ ReportTimesOut \/ DelayedReport \/ Stop \/ OpenCura \/ EditInCura

CuraInit == ServerInit /\ AgentInit

CuraNext ==
    \/ (PeopleStep \/ TimeStep) /\ UNCHANGED agentVars
    \/ AgentStep
    \/ Trouble
    \/ CloseCura

\* The agent's loop never ends, clocks run, and Cura is closed some time.
CuraSpec ==
    /\ CuraInit /\ [][CuraNext]_vars
    /\ WF_vars(AgentStep) /\ WF_vars(CloseCura)
    /\ WF_vars(BecomeDue /\ UNCHANGED agentVars)
    /\ WF_vars(Lapse /\ UNCHANGED agentVars)
    /\ WF_vars(NextBucket /\ UNCHANGED agentVars)

-----------------------------------------------------------------------------

CuraTypeOK ==
    /\ ServerTypeOK
    /\ disk \in [Installation -> Directory]
    /\ original \in [Installation -> Directory] \cup {Nothing}
    /\ cura \in BOOLEAN
    /\ work \in Work
    /\ delayed \in [row : Nat, outcome : {"deferred", "SUCCEEDED", "FAILED"}] \cup {Nothing}
    /\ mishaps \in 0..MaxMishaps

AllInstalled == \A i \in Installation : disk[i].files = Rendered(desired)
FailureShown == \E r \in RowsOf(deployments, desired) : deployments[r].status = "FAILED"

\* Whatever is published, deferred, claimed out of order, interrupted or edited
\* in Cura: in the end every managed installation holds exactly the desired
\* library, or its row shows the failure (workstation_heartbeat, run_once).
LibrarySettled == managed /\ desired # NoLibrary => AllInstalled \/ FailureShown

\* A managed installation ends with the canonical nozzle, without an operator
\* and in spite of a failed row (_reported_nozzle_drift, queue_cura_nozzle_update).
NozzleSettled == managed => \A i \in Installation : disk[i].diameter = canonical

\* A requested recovery ends, through deferrals, a stopped agent and a lapsed
\* lease (claim_cura_recovery_restore, complete_cura_recovery_restore).
RestoreSettles ==
    \A i \in 1..MaxRestores :
        (i \in DOMAIN restores) ~> (i \in DOMAIN restores /\ restores[i].status \notin Active)

\* "Rollback restores the exact pre-synchronization" files "captured by that
\* deployment": the archive holds what was there before the row's first write
\* (_backup, apply_rendered).
RollbackIsExact ==
    work.at = "writing" => work.zip = Saved(original[work.on])
=============================================================================
