--------------------------- MODULE DatabaseBackups ---------------------------
(***************************************************************************)
(* Archives of the canonical database: the worker's, those an operator     *)
(* asks for, imported ones, and the safety archive of a restore.  A        *)
(* restore is requested while the services run and carried out by a        *)
(* command of its own once they are stopped; the command may die anywhere. *)
(***************************************************************************)
EXTENDS Integers, FiniteSets

CONSTANTS Retention,    \* retention counts that an administrator may choose
          MaxContent,   \* bound on what the database ever contained
          MaxArchives,  \* bound on archives made here
          NoRequest, Nobody

ASSUME BackupAssumption ==
    /\ Retention \subseteq Nat /\ MaxContent \in Nat \ {0} /\ MaxArchives \in Nat
    /\ Nobody \notin {"worker", "web"}

VARIABLES
    services,   \* whether web and worker run
    content,    \* what the database contains; each commit makes it a new one
    contents,   \* how many there were
    archives,   \* the readable archives of the data volume
    made,       \* how many were made
    policy,     \* database.backup_policy
    due,        \* whether the interval since the newest automatic archive is over
    backoff,    \* whether the next retry is still to come
    print,      \* the newest live print
    lock,       \* BACKUP_LOCK_KEY
    task,       \* the backups under way
    pending,    \* the request's file
    command     \* how far restore_pending_backup is

backupVars == <<services, content, contents, archives, made, policy, due, backoff, print,
                lock, task, pending, command>>
operation == <<lock, task, due, backoff>>

Archive == [id : Nat, kind : {"automatic", "manual", "imported"}, content : Nat, newer : BOOLEAN]
Phases == {"none", "checked", "saved", "restored", "revoked"}
NoTask == [phase |-> "none", retention |-> 0]
Free == [who \in {"worker", "web"} |-> NoTask]

\* Kept elsewhere; one made by a later release.
Foreign == {[id |-> 1000 + k, content |-> 0, newer |-> k = 1] : k \in {0, 1}}

BackupInit ==
    /\ services = TRUE /\ content = 1 /\ contents = 1 /\ archives = {} /\ made = 0
    /\ policy \in [enabled : BOOLEAN, retention : Retention]
    /\ due = TRUE /\ backoff = FALSE /\ print = "none" /\ lock = Nobody /\ task = Free
    /\ pending = NoRequest /\ command = "none"

-----------------------------------------------------------------------------
Automatic == {a \in archives : a.kind = "automatic"}

\* A fresh row, or an old one that no printer denies.
HasActivePrint == print \in {"fresh", "unconfirmed"}

\* prune_automatic_archives
Pruned(set, count) ==
    {a \in set : a.kind = "automatic" =>
        Cardinality({b \in set : b.kind = "automatic" /\ b.id > a.id}) < IF count > 1 THEN count ELSE 1}

NewArchive(kind) == [id |-> made + 1, kind |-> kind, content |-> content, newer |-> FALSE]

Created(kind) == made < MaxArchives /\ made' = made + 1 /\ archives' = archives \cup {NewArchive(kind)}

Started(who, retention) ==
    /\ services /\ lock = Nobody /\ task[who].phase = "none" /\ made < MaxArchives
    /\ lock' = who /\ task' = [task EXCEPT ![who] = [phase |-> "dump", retention |-> retention]]

Ended(who) == lock' = Nobody /\ task' = [task EXCEPT ![who] = NoTask]

-----------------------------------------------------------------------------
(* Around them: work, time and prints.                                     *)

Commit ==
    /\ services /\ contents < MaxContent
    /\ contents' = contents + 1 /\ content' = contents + 1
    /\ UNCHANGED <<services, archives, made, policy, print, pending, command, operation>>

IntervalEnds ==
    /\ ~due /\ due' = TRUE /\ backoff' = FALSE
    /\ UNCHANGED <<services, content, contents, archives, made, policy, print, lock, task,
                   pending, command>>

RetryComes ==
    /\ backoff /\ backoff' = FALSE
    /\ UNCHANGED <<services, content, contents, archives, made, policy, due, print, lock, task,
                   pending, command>>

\* Its row is updated at every poll, and may stay behind when a printer disappears.
PrintChanges(state) ==
    /\ print' = state /\ print # state
    /\ state = "fresh" => services
    /\ state \in {"unconfirmed", "left"} => print # "none"
    /\ UNCHANGED <<services, content, contents, archives, made, policy, pending, command, operation>>

-----------------------------------------------------------------------------
(* Backups.                                                                *)

\* backup_is_due, then the lock; a print may start before the dump does.
WorkerBackup ==
    /\ policy.enabled /\ due /\ ~backoff /\ ~HasActivePrint
    /\ Started("worker", policy.retention)
    /\ UNCHANGED <<services, content, contents, archives, made, policy, due, backoff, print,
                   pending, command>>

OperatorBackup ==
    /\ ~HasActivePrint /\ Started("web", 0)
    /\ UNCHANGED <<services, content, contents, archives, made, policy, due, backoff, print,
                   pending, command>>

\* The archive is validated and the failures forgotten.
Dump(who) ==
    /\ task[who].phase = "dump"
    /\ Created(IF who = "worker" THEN "automatic" ELSE "manual")
    /\ backoff' = FALSE /\ due' = (due /\ who # "worker")
    /\ task' = [task EXCEPT ![who] = [phase |-> "prune",
                  retention |-> IF who = "worker" THEN @.retention ELSE policy.retention]]
    /\ UNCHANGED <<services, content, contents, policy, print, lock, pending, command>>

\* record_backup_failure: a backoff that grows, and the lock released.
BackupFails(who) ==
    /\ task[who].phase # "none" /\ backoff' = TRUE /\ Ended(who)
    /\ UNCHANGED <<services, content, contents, archives, made, policy, due, print, pending, command>>

\* By the worker with the retention that it read before the dump.
Prune(who) ==
    /\ task[who].phase = "prune"
    /\ archives' = Pruned(archives, task[who].retention) /\ Ended(who)
    /\ UNCHANGED <<services, content, contents, made, policy, due, backoff, print, pending, command>>

\* At once, and without the lock.
SavePolicy(enabled, retention) ==
    /\ services /\ policy' = [enabled |-> enabled, retention |-> retention] /\ policy' # policy
    /\ archives' = Pruned(archives, retention)
    /\ UNCHANGED <<services, content, contents, made, print, pending, command, operation>>

\* backup-now on the command line: neither lock nor print is consulted.
BackupNow ==
    /\ Created("manual") /\ backoff' = FALSE
    /\ UNCHANGED <<services, content, contents, policy, due, print, lock, task, pending, command>>

\* One that is still here is not stored again.
Import(copy) ==
    /\ services /\ \A a \in archives : a.id # copy.id
    /\ archives' = archives \cup {[id |-> copy.id, kind |-> "imported", content |-> copy.content,
                                   newer |-> copy.newer]}
    /\ UNCHANGED <<services, content, contents, made, policy, print, pending, command, operation>>

-----------------------------------------------------------------------------
(* Restores.                                                               *)

PrepareRestore(a) ==
    /\ services /\ pending = NoRequest /\ pending' = a.id
    /\ UNCHANGED <<services, content, contents, archives, made, policy, print, command, operation>>

CancelRestore ==
    /\ services /\ pending # NoRequest /\ pending' = NoRequest
    /\ UNCHANGED <<services, content, contents, archives, made, policy, print, command, operation>>

\* A dump that was under way is lost, and its session's lock with it.
StopServices ==
    /\ services /\ services' = FALSE /\ lock' = Nobody /\ task' = Free
    /\ UNCHANGED <<content, contents, archives, made, policy, due, backoff, print, pending, command>>

\* The operator leaves them stopped while the command runs.
StartServices ==
    /\ ~services /\ command = "none" /\ services' = TRUE
    /\ UNCHANGED <<content, contents, archives, made, policy, print, pending, command, operation>>

Requested == {a \in archives : a.id = pending}

Moves(from, to) == command = from /\ command' = to

\* The request names an archive that is still there, made by this release or an earlier
\* one, and no other session is connected.
BeginRestore ==
    /\ Moves("none", "checked") /\ ~services
    /\ \E a \in Requested : ~a.newer
    /\ UNCHANGED <<services, content, contents, archives, made, policy, print, pending, operation>>

\* Mutated form: an earlier safety archive is good enough.
SafetyArchiveOnce == IF \E a \in archives : a.kind = "manual" THEN UNCHANGED <<archives, made>> ELSE Created("manual")

\* create_backup_archive("pre_restore"), at every attempt.
SafetyArchive == Created("manual")

SaveFirst ==
    /\ Moves("checked", "saved") /\ ~services /\ SafetyArchive
    /\ backoff' = FALSE
    /\ UNCHANGED <<services, content, contents, policy, due, print, lock, task, pending>>

\* pg_restore in a single transaction; policy and prints are part of what is restored.
RestoreDump ==
    /\ Moves("saved", "restored") /\ ~services
    /\ content' \in {a.content : a \in Requested} /\ print' \in {print, "none", "left"}
    /\ policy' \in [enabled : BOOLEAN, retention : Retention]
    /\ UNCHANGED <<services, contents, archives, made, pending, operation>>

\* Migrations, and the sessions that were restored end.
Revoke ==
    /\ Moves("restored", "revoked")
    /\ UNCHANGED <<services, content, contents, archives, made, policy, print, pending, operation>>

RequestDone == Moves("revoked", "none")

EndRestore ==
    /\ RequestDone /\ pending' = NoRequest
    /\ UNCHANGED <<services, content, contents, archives, made, policy, print, operation>>

\* A step fails, or the process ends.
CommandDies ==
    /\ command # "none" /\ command' = "none"
    /\ UNCHANGED <<services, content, contents, archives, made, policy, print, pending, operation>>

-----------------------------------------------------------------------------
BackupNext ==
    \/ Commit \/ IntervalEnds \/ RetryComes
    \/ \E state \in {"none", "fresh", "unconfirmed", "left"} : PrintChanges(state)
    \/ WorkerBackup \/ OperatorBackup \/ BackupNow
    \/ \E who \in {"worker", "web"} : Dump(who) \/ BackupFails(who) \/ Prune(who)
    \/ \E enabled \in BOOLEAN, r \in Retention : SavePolicy(enabled, r)
    \/ \E a \in archives : PrepareRestore(a)
    \/ \E copy \in Foreign : Import(copy)
    \/ CancelRestore \/ StopServices \/ StartServices
    \/ BeginRestore \/ SaveFirst \/ RestoreDump \/ Revoke \/ EndRestore \/ CommandDies

BackupSpec == BackupInit /\ [][BackupNext]_backupVars

-----------------------------------------------------------------------------
(* What is claimed.                                                        *)

BackupTypeOK ==
    /\ {services, due, backoff} \subseteq BOOLEAN /\ archives \subseteq Archive
    /\ content \in 0 .. MaxContent /\ made \in 0 .. MaxArchives /\ command \in Phases
    /\ lock \in {Nobody, "worker", "web"}
    /\ \A who \in DOMAIN task : (task[who].phase # "none") = (lock = who)

\* What a restore replaces is in an archive that no retention removes, and its request is
\* withdrawn by the command only once the database is the requested one, whenever the
\* command died before and whatever was done in between (restore_pending_backup).
RestoresLoseNothing ==
    [][/\ command = "saved" /\ command' = "restored" =>
             \E a \in archives : a.kind # "automatic" /\ a.content = content
       /\ ~services /\ pending' # pending => content \in {a.content : a \in Requested}]_backupVars
=============================================================================
