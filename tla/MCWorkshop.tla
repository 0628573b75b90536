----------------------------- MODULE MCWorkshop -----------------------------
(***************************************************************************)
(* The slicer side, the database and what is published, each alone as the  *)
(* part that the first state picks; they share no variable.                *)
(*   cura         a workstation with one Cura, two libraries, two nozzles; *)
(*                at first an empty Cura and no library, or one of each    *)
(*   settings     a template of a copied family and a product with a       *)
(*                profile of it; its base and the configured family absent *)
(*   calibration  one session of three steps                               *)
(*   backups      two archives of two contents                             *)
(*   google       two contents of the tables, two consents                 *)
(*   alerts       one person, two deployments                              *)
(*   recovery     two machine files and one profile, a history of one      *)
(***************************************************************************)
EXTENDS WorkstationAgent, MaterialSettings, Calibrations, DatabaseBackups, CuraRecovery,
        GooglePublication, OperatorAlerts, TLC

CONSTANTS A, B, narrow, wide, cura5, q1, m1, m2, quality, u1

MCLibrary == {A, B}
MCDiameter == {narrow, wide}
MCInstallation == {cura5}

MCNozzle == {narrow, wide}
MCProduct == {q1}
MCTemplates == <<[material |-> "silk", nozzle |-> narrow, active |-> TRUE, revisions |-> <<0>>]>>
MCProducts == q1 :> [material |-> "silk", source |-> <<1, 1>>]

MCSetting == {m1, m2, quality}
MCMachineFile == {m1, m2}
MCProfileFile == {quality}

MCPerson == {u1}

VARIABLE part

workshopVars == <<part, vars, settingsVars, calibrationVars, backupVars, recoveryVars, googleVars,
                  alertVars>>
besideCura == <<part, settingsVars, calibrationVars, backupVars, recoveryVars, googleVars,
                alertVars>>

WorkshopInit ==
    /\ part \in {"cura", "settings", "calibration", "backups", "recovery", "google", "alerts"}
    /\ CuraInit /\ SettingsInit /\ CalibrationInit /\ BackupInit /\ RecoveryInit
    /\ PublicationInit /\ AlertsInit
    /\ part = "cura" => (desired = NoLibrary <=> disk[cura5].files["machine"] = NoLibrary)
    /\ part # "cura" => desired = A /\ disk[cura5].manifest = NoLibrary
                        /\ disk[cura5].files["machine"] = Own
    /\ part # "backups" => policy.enabled
    /\ part # "google" => exported = 0

WorkshopNext ==
    \/ part = "cura" /\ CuraNext /\ UNCHANGED besideCura
    \/ /\ part = "settings" /\ SettingsNext
       /\ UNCHANGED <<part, vars, calibrationVars, backupVars, recoveryVars, googleVars,
                      alertVars>>
    \/ /\ part = "calibration" /\ CalibrationNext
       /\ UNCHANGED <<part, vars, settingsVars, backupVars, recoveryVars, googleVars,
                      alertVars>>
    \/ /\ part = "backups" /\ BackupNext
       /\ UNCHANGED <<part, vars, settingsVars, calibrationVars, recoveryVars, googleVars,
                      alertVars>>
    \/ /\ part = "recovery" /\ RecoveryNext
       /\ UNCHANGED <<part, vars, settingsVars, calibrationVars, backupVars, googleVars,
                      alertVars>>
    \/ /\ part = "google" /\ PublicationNext
       /\ UNCHANGED <<part, vars, settingsVars, calibrationVars, backupVars, recoveryVars,
                      alertVars>>

    \/ /\ part = "alerts" /\ AlertsNext
       /\ UNCHANGED <<part, vars, settingsVars, calibrationVars, backupVars, recoveryVars,
                      googleVars>>

\* The fairness of CuraSpec, PublicationSpec and AlertsSpec: the part never changes, so that
\* one condition over several is one of each.
InCura(Act) == part = "cura" /\ Act /\ UNCHANGED besideCura
InGoogle(Act) ==
    /\ part = "google" /\ Act
    /\ UNCHANGED <<part, vars, settingsVars, calibrationVars, backupVars, recoveryVars,
                   alertVars>>

InAlerts(Act) ==
    /\ part = "alerts" /\ Act
    /\ UNCHANGED <<part, vars, settingsVars, calibrationVars, backupVars, recoveryVars, googleVars>>

WorkshopFairness ==
    /\ WF_workshopVars(InCura(AgentStep) \/ InGoogle(PassStep) \/ InAlerts(EvaluationStep))
    /\ WF_workshopVars(InCura(CloseCura) \/ InGoogle(TimePasses))
    /\ WF_workshopVars(InCura(BecomeDue /\ UNCHANGED agentVars))
    /\ WF_workshopVars(InCura(Lapse /\ UNCHANGED agentVars))
    /\ WF_workshopVars(InCura(NextBucket /\ UNCHANGED agentVars))

WorkshopSpec == WorkshopInit /\ [][WorkshopNext]_workshopVars /\ WorkshopFairness

\* What each part's variables may hold.
WorkshopTypeOK ==
    /\ CuraTypeOK /\ SettingsTypeOK /\ CalibrationTypeOK /\ BackupTypeOK /\ RecoveryTypeOK
    /\ PublicationTypeOK /\ AlertsTypeOK

\* What must come about in each part: on every managed installation the desired library or
\* a failed row that shows, and the canonical nozzle (run_once); a workbook that a requested
\* synchronization repaired (sync); alerts that agree with the plant
\* (evaluate_operator_notifications); the end of every requested recovery
\* (claim_cura_recovery_restore).
WorkshopSettles ==
    /\ <>[](/\ part = "cura" => LibrarySettled /\ NozzleSettled
            /\ part = "google" => WorkbookRepaired
            /\ part = "alerts" => AlertsAgree)
    /\ part = "cura" => RestoreSettles
=============================================================================
