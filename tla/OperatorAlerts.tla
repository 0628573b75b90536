--------------------------- MODULE OperatorAlerts ---------------------------
(***************************************************************************)
(* Notifications: the conditions an operator has to act upon, each with    *)
(* one row that is raised and resolved as it comes and goes, and who has   *)
(* read it.  One recurring job evaluates them, a category at a time, each  *)
(* from what is committed when it gets there, and commits at its end.      *)
(* One printer, one spool, one plate side and one workstation.             *)
(***************************************************************************)
EXTENDS Integers, Sequences

CONSTANTS Person,
          MeshDueAfterPrints, \* of the plate
          NoEvaluation,
          MaxDeployments,     \* bound on deployments
          MaxAlertOps         \* bound on what happens, failed evaluations included

ASSUME AlertsAssumption ==
    MeshDueAfterPrints \in Nat \ {0} /\ {MaxDeployments, MaxAlertOps} \subseteq Nat

VARIABLES
    plant,       \* what the conditions are about
    deploys,     \* cura_deployments of the workstation, in the order of creation
    alerts,      \* notifications by deduplication key
    readers,     \* user_notification_states
    evaluation,  \* the transaction of notifications.evaluate, and what it has done so far
    alertOps

alertVars == <<plant, deploys, alerts, readers, evaluation, alertOps>>

\* The categories in the order in which they are evaluated, with their keys.
Category == <<{"unavailable"}, {"dead"}, {"low", "empty"}, {"mesh"}, {"library", "nozzle"}>>
Key == UNION {Category[c] : c \in DOMAIN Category}

AlertsInit ==
    /\ plant = [offline |-> FALSE, dead |-> FALSE, spool |-> "fine", prints |-> 0, aged |-> FALSE]
    /\ deploys = <<>>
    /\ alerts = [k \in Key |-> "none"] /\ readers = [k \in Key |-> {}]
    /\ evaluation = NoEvaluation /\ alertOps = 0

-----------------------------------------------------------------------------
(* What is reported.                                                       *)

\* build_plate_maintenance_status: since the side's last mesh calibration.
MeshDue == plant.prints >= MeshDueAfterPrints \/ plant.aged

\* The newest deployment of an operation decides; recovery captures are not reported.
FailedLast(operation) ==
    \E i \in DOMAIN deploys :
       /\ deploys[i] = [operation |-> operation, status |-> "FAILED"]
       /\ \A j \in DOMAIN deploys : deploys[j].operation = operation => j <= i

Holding(k) ==
    CASE k = "unavailable" -> plant.offline
      [] k = "dead" -> plant.dead
      [] k \in {"low", "empty"} -> plant.spool = k
      [] k = "mesh" -> MeshDue
      [] OTHER -> FailedLast(k)

AlertOp == alertOps < MaxAlertOps /\ alertOps' = alertOps + 1

PlantBecomes(p) == AlertOp /\ plant' = p /\ UNCHANGED <<deploys, alerts, readers, evaluation>>

PrinterReach == PlantBecomes([plant EXCEPT !.offline = ~@])
JobGivenUp == PlantBecomes([plant EXCEPT !.dead = ~@])
SpoolBecomes(s) == s # plant.spool /\ PlantBecomes([plant EXCEPT !.spool = s])
PrintCompletes ==
    plant.prints < MeshDueAfterPrints /\ PlantBecomes([plant EXCEPT !.prints = @ + 1])
DaysPass == ~plant.aged /\ PlantBecomes([plant EXCEPT !.aged = TRUE])
MeshCalibrated == PlantBecomes([plant EXCEPT !.prints = 0, !.aged = FALSE])

QueueDeployment(operation) ==
    /\ AlertOp /\ Len(deploys) < MaxDeployments
    /\ deploys' = Append(deploys, [operation |-> operation, status |-> "PENDING"])
    /\ UNCHANGED <<plant, alerts, readers, evaluation>>

\* In any order, and an older failure may still succeed.
DeploymentEnds(i, status) ==
    /\ AlertOp /\ deploys[i].status # "SUCCEEDED" /\ deploys[i].status # status
    /\ deploys' = [deploys EXCEPT ![i].status = status]
    /\ UNCHANGED <<plant, alerts, readers, evaluation>>

-----------------------------------------------------------------------------
(* evaluate_operator_notifications                                         *)

Evaluating == evaluation # NoEvaluation

BeginEvaluation ==
    /\ ~Evaluating
    /\ evaluation' = [next |-> 1, found |-> {}, deleted |-> [k \in Key |-> {}], before |-> readers]
    /\ UNCHANGED <<plant, deploys, alerts, readers, alertOps>>

\* Mutated form: the alert is raised again as it was.
RaisedAsItWas(k) == {}

\* upsert_notification: the read state of an alert that comes back is deleted.
Outdated(k) == IF alerts[k] = "active" THEN {} ELSE readers[k]

\* Mutated form: a category in which nothing holds ends the evaluation.
EvaluatesUntilQuiet ==
    /\ Evaluating /\ evaluation.next \in DOMAIN Category
    /\ LET holding == {k \in Category[evaluation.next] : Holding(k)} IN
       evaluation' = [evaluation EXCEPT !.next = IF holding = {} THEN Len(Category) + 1 ELSE @ + 1,
                        !.found = @ \cup holding]
    /\ UNCHANGED <<plant, deploys, alerts, readers, alertOps>>

EvaluateCategory ==
    /\ Evaluating /\ evaluation.next \in DOMAIN Category
    /\ LET holding == {k \in Category[evaluation.next] : Holding(k)} IN
       evaluation' = [evaluation EXCEPT !.next = @ + 1, !.found = @ \cup holding,
                        !.deleted = [k \in Key |-> IF k \in holding THEN Outdated(k) ELSE @[k]]]
    /\ UNCHANGED <<plant, deploys, alerts, readers, alertOps>>

\* _resolve_missing_category
Cleared(k) == IF alerts[k] = "active" THEN "resolved" ELSE alerts[k]

FinishEvaluation ==
    /\ Evaluating /\ evaluation.next \notin DOMAIN Category
    /\ alerts' = [k \in Key |-> IF k \in evaluation.found THEN "active" ELSE Cleared(k)]
    /\ readers' = [k \in Key |-> readers[k] \ evaluation.deleted[k]]
    /\ evaluation' = NoEvaluation
    /\ UNCHANGED <<plant, deploys, alertOps>>

\* The worker stops or the job fails; nothing of it stays.
EvaluationDies ==
    /\ AlertOp /\ Evaluating /\ evaluation' = NoEvaluation
    /\ UNCHANGED <<plant, deploys, alerts, readers>>

-----------------------------------------------------------------------------
(* The routes of a person's own read state, which wait for a row that is   *)
(* being deleted, and fail.                                                *)

Deletable(person, keys) == Evaluating /\ \E k \in keys : person \in evaluation.deleted[k]

ReadAlerts(person, keys) ==
    /\ keys # {} /\ ~Deletable(person, keys)
    /\ readers' = [k \in Key |-> IF k \in keys THEN readers[k] \cup {person} ELSE readers[k]]
    /\ UNCHANGED <<plant, deploys, alerts, evaluation, alertOps>>

MarkRead(person, k) == alerts[k] # "none" /\ ReadAlerts(person, {k})

\* Resolved ones too.
MarkAllRead(person) == ReadAlerts(person, {k \in Key : alerts[k] # "none"})

-----------------------------------------------------------------------------
EvaluationStep == BeginEvaluation \/ EvaluateCategory \/ FinishEvaluation

AlertsNext ==
    \/ PrinterReach \/ JobGivenUp \/ PrintCompletes \/ DaysPass \/ MeshCalibrated
    \/ \E s \in {"fine", "low", "empty", "archived"} : SpoolBecomes(s)
    \/ \E operation \in {"library", "nozzle", "capture"} : QueueDeployment(operation)
    \/ \E i \in DOMAIN deploys, status \in {"FAILED", "SUCCEEDED"} : DeploymentEnds(i, status)
    \/ \E p \in Person : MarkAllRead(p) \/ \E k \in Key : MarkRead(p, k)
    \/ EvaluationStep \/ EvaluationDies

\* The scheduler keeps queueing notifications.evaluate.
AlertsSpec == AlertsInit /\ [][AlertsNext]_alertVars /\ WF_alertVars(EvaluationStep)

-----------------------------------------------------------------------------
(* What is claimed.                                                        *)

AlertsTypeOK ==
    /\ plant.spool \in {"fine", "low", "empty", "archived"} /\ plant.prints \in 0..MeshDueAfterPrints
    /\ alerts \in [Key -> {"none", "active", "resolved"}] /\ readers \in [Key -> SUBSET Person]
    /\ Evaluating => evaluation.next \in 1..6 /\ evaluation.found \subseteq Key
    /\ \A k \in Key : alerts[k] = "none" => readers[k] = {}

\* A condition that comes back is unread by everybody who had read an earlier occurrence
\* of it when the evaluation that noticed began (upsert_notification).
RecurrenceIsUnread ==
    [][\A k \in Key : alerts[k] # "active" /\ alerts'[k] = "active"
                      => readers'[k] \cap evaluation.before[k] = {}]_alertVars

\* Once what they are about stops changing, the active alerts come to be exactly those
\* whose condition holds, whatever changed or failed while they were being evaluated.
AlertsAgree == \A k \in Key : alerts[k] = "active" <=> Holding(k)
=============================================================================
