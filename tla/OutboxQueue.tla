---------------------------- MODULE OutboxQueue ----------------------------
(***************************************************************************)
(* The outbox_jobs table and everything that moves its rows: canonical     *)
(* transactions that enqueue, schedulers that enqueue periodic work,       *)
(* dispatchers that claim under a lease, dispatch, complete or fail, the   *)
(* administrator's retry, and the clock that makes rows due and leases     *)
(* lapse.  One row is one request; its unique (job_type, idempotency_key)  *)
(* is its identity <<type, agg, ver>>.                                     *)
(***************************************************************************)
EXTENDS Naturals, FiniteSets

CONSTANTS Worker,         \* dispatcher loops, over all worker processes
          Scheduler,      \* scheduler loops, one per worker process
          Object,         \* canonical objects that are projected
          UpsertType,     \* spoolman.{vendor,filament,spool}.upsert
          DebtType,       \* spoolman.spool.adjust_weight, spoolman.spool.delete
          RecurringType,  \* RECONSTRUCTABLE_RECURRING_JOB_TYPES
          FullType,       \* spoolman.reconcile.full
          Request,        \* the sets of types one canonical edit enqueues
          System,         \* SYSTEM_AGGREGATE_ID
          MaxAttempts,    \* settings.sync.max_retry_attempts
          MaxVersion,     \* bound on edits of one object
          MaxBucket,      \* bound on the scheduler's time buckets
          MaxManual,      \* bound on operator-requested recurring jobs
          MaxRevives,     \* bound on administrator retries of one job
          MaxSlips,       \* bound on process deaths and outlived leases together
          Nobody,         \* locked_by is null, or an advisory lock is free
          Gone,           \* locked_by names an incarnation that no longer runs
          NoJob           \* a dispatcher between two jobs

ASSUME QueueAssumption ==
    /\ FullType \in RecurringType
    /\ UpsertType \cap RecurringType = {}
    /\ DebtType \cap (RecurringType \cup UpsertType) = {}
    /\ Request \subseteq SUBSET (UpsertType \cup DebtType)
    /\ MaxAttempts \in Nat \ {0}
    /\ {MaxVersion, MaxBucket, MaxManual, MaxRevives, MaxSlips} \subseteq Nat
    /\ Worker \cap {Nobody, Gone} = {}
    /\ Nobody # Gone
    /\ Nobody \notin Scheduler

\* Rows that canonical edits, the periodic schedule and operators can create.
EditJob == [type : UpsertType \cup DebtType, agg : Object, ver : 1..MaxVersion]
PeriodicJob == [type : RecurringType, agg : {System}, ver : 0..MaxBucket]
ManualJob == [type : {FullType}, agg : {System},
              ver : (MaxBucket + 1)..(MaxBucket + MaxManual)]
Job == EditJob \cup PeriodicJob \cup ManualJob

ASSUME NoJobAssumption == NoJob \notin Job

Status == {"absent", "PENDING", "RUNNING", "COMPLETED", "DEAD", "SUPERSEDED"}

VARIABLES
    status, attempts, due, lockedBy, lapsed, born,   \* the row's columns
    revived, applied,      \* history: retries granted, effects that happened
    hand, phase,           \* the dispatcher's claimed job and progress
    schedLock, planned,    \* SCHEDULER_LOCK_KEY and the rows its holder adds
    canonical, bucket,     \* record_version of each object, now // interval
    stamp,                 \* the clock behind created_at
    crashes, overruns      \* deaths and outlived leases so far

rowVars == <<status, attempts, due, lockedBy, lapsed, born, revived>>
workerVars == <<hand, phase>>
schedVars == <<schedLock, planned>>
worldVars == <<canonical, bucket>>
slipVars == <<crashes, overruns>>
vars == <<rowVars, workerVars, schedVars, worldVars, applied, stamp, slipVars>>

TypeOK ==
    /\ status \in [Job -> Status]
    /\ attempts \in [Job -> Nat]
    /\ due \in [Job -> BOOLEAN]
    /\ lockedBy \in [Job -> Worker \cup {Nobody, Gone}]
    /\ lapsed \in [Job -> BOOLEAN]
    /\ born \in [Job -> Nat]
    /\ revived \in [Job -> 0..MaxRevives]
    /\ applied \in SUBSET Job
    /\ hand \in [Worker -> Job \cup {NoJob}]
    /\ phase \in [Worker -> {"idle", "dispatching", "applied"}]
    /\ schedLock \in Scheduler \cup {Nobody}
    /\ planned \in [Scheduler -> SUBSET PeriodicJob]
    /\ canonical \in [Object -> 0..MaxVersion]
    /\ bucket \in 0..MaxBucket
    /\ stamp \in Nat
    /\ crashes \in 0..MaxSlips
    /\ overruns \in 0..MaxSlips

Init ==
    /\ status = [j \in Job |-> "absent"]
    /\ attempts = [j \in Job |-> 0]
    /\ due = [j \in Job |-> FALSE]
    /\ lockedBy = [j \in Job |-> Nobody]
    /\ lapsed = [j \in Job |-> FALSE]
    /\ born = [j \in Job |-> 0]
    /\ revived = [j \in Job |-> 0]
    /\ applied = {}
    /\ hand = [w \in Worker |-> NoJob]
    /\ phase = [w \in Worker |-> "idle"]
    /\ schedLock = Nobody
    /\ planned = [s \in Scheduler |-> {}]
    /\ canonical = [o \in Object |-> 0]
    /\ bucket = 0
    /\ stamp = 0
    /\ crashes = 0
    /\ overruns = 0

-----------------------------------------------------------------------------
(* Enqueueing.                                                             *)

\* add_outbox_job for every row of S, inside one transaction that commits.
AddOutboxJobs(S) ==
    /\ \A j \in S : status[j] = "absent"
    /\ status' = [j \in Job |-> IF j \in S THEN "PENDING" ELSE status[j]]
    /\ due' = [j \in Job |-> IF j \in S THEN TRUE ELSE due[j]]
    /\ born' = [j \in Job |-> IF j \in S THEN stamp ELSE born[j]]
    /\ stamp' = stamp + 1
    /\ UNCHANGED <<attempts, lockedBy, lapsed, revived>>

Bumped(o) == canonical[o] + 1

\* A canonical edit bumps record_version and enqueues its projections with it.
Edit(o, T) ==
    /\ canonical[o] < MaxVersion
    /\ canonical' = [canonical EXCEPT ![o] = Bumped(o)]
    /\ AddOutboxJobs({j \in EditJob : j.type \in T /\ j.agg = o /\ j.ver = Bumped(o)})
    /\ UNCHANGED <<bucket, workerVars, schedVars, applied, slipVars>>

\* An operator queues a recurring job by hand, whatever is already active.
RequestRun(j) ==
    /\ j \in ManualJob
    /\ AddOutboxJobs({j})
    /\ UNCHANGED <<worldVars, workerVars, schedVars, applied, slipVars>>

Active(j) == status[j] \in {"PENDING", "RUNNING"}

\* Mutated form: an exhausted row counts as active and blocks its successors.
BlockedByDead(j) == \E k \in Job : k.type = j.type /\ status[k] \in {"PENDING", "RUNNING", "DEAD"}

\* A row of the type is PENDING or RUNNING, whoever queued it.
Busy(j) == \E k \in Job : k.type = j.type /\ Active(k)

\* The rows the schedule wants now: the type idle, its bucket not used yet.
Wanted == {j \in PeriodicJob :
              /\ j.ver = bucket
              /\ status[j] = "absent"
              /\ ~Busy(j)}

\* Mutated form: schedulers do not exclude each other.
LockIgnored == TRUE

\* pg_try_advisory_xact_lock would succeed.
LockFree == schedLock = Nobody

\* One try at the advisory lock; its holder decides what to insert.
SchedulePlan(s) ==
    /\ planned[s] = {}
    /\ LockFree
    /\ Wanted # {}
    /\ schedLock' = s
    /\ planned' = [planned EXCEPT ![s] = Wanted]
    /\ UNCHANGED <<rowVars, workerVars, worldVars, applied, stamp, slipVars>>

Unplan(s) ==
    /\ schedLock' = IF schedLock = s THEN Nobody ELSE schedLock
    /\ planned' = [planned EXCEPT ![s] = {}]

\* The commit inserts the planned rows and releases the lock with it.
ScheduleCommit(s) ==
    /\ planned[s] # {}
    /\ AddOutboxJobs(planned[s])
    /\ Unplan(s)
    /\ UNCHANGED <<workerVars, worldVars, applied, slipVars>>

\* The process or its connection dies before the commit.
ScheduleAbort(s) ==
    /\ planned[s] # {}
    /\ crashes + overruns < MaxSlips
    /\ crashes' = crashes + 1
    /\ Unplan(s)
    /\ UNCHANGED <<rowVars, workerVars, worldVars, applied, stamp, overruns>>

-----------------------------------------------------------------------------
(* Dispatching.                                                            *)

\* Mutated form: a row whose owner died is never picked up again.
ClaimableOnlyPending(j) == status[j] = "PENDING" /\ due[j]

Claimable(j) ==
    \/ status[j] = "PENDING" /\ due[j]
    \/ status[j] = "RUNNING" /\ lapsed[j]

\* claim_jobs with limit 1: the oldest due or abandoned row.
Claim(w, j) ==
    /\ hand[w] = NoJob
    /\ Claimable(j)
    /\ \A k \in Job : Claimable(k) => born[j] <= born[k]
    /\ status' = [status EXCEPT ![j] = "RUNNING"]
    /\ lockedBy' = [lockedBy EXCEPT ![j] = w]
    /\ lapsed' = [lapsed EXCEPT ![j] = FALSE]
    /\ hand' = [hand EXCEPT ![w] = j]
    /\ phase' = [phase EXCEPT ![w] = "dispatching"]
    /\ UNCHANGED <<attempts, due, born, revived, schedVars, worldVars, applied, stamp, slipVars>>

\* dispatch_job returns: the remote system has the effect, the row does not.
Dispatch(w) ==
    /\ phase[w] = "dispatching"
    /\ applied' = applied \cup {hand[w]}
    /\ phase' = [phase EXCEPT ![w] = "applied"]
    /\ UNCHANGED <<rowVars, hand, schedVars, worldVars, stamp, slipVars>>

\* Mutated form: any running row is taken for one's own.
OwnsAnyRunning(w) == status[hand[w]] = "RUNNING"

\* complete_job and fail_job touch the row only for its current owner.
Owns(w) == status[hand[w]] = "RUNNING" /\ lockedBy[hand[w]] = w

\* Mutated form: the row keeps its owner's name when it is given back.
ClearLapseOnly(j) ==
    /\ lapsed' = [lapsed EXCEPT ![j] = FALSE]
    /\ UNCHANGED lockedBy

\* locked_by and locked_at are reset together.
ClearLock(j) ==
    /\ lockedBy' = [lockedBy EXCEPT ![j] = Nobody]
    /\ lapsed' = [lapsed EXCEPT ![j] = FALSE]

Release(w) ==
    /\ hand' = [hand EXCEPT ![w] = NoJob]
    /\ phase' = [phase EXCEPT ![w] = "idle"]

\* Mutated form: success retires failures of newer versions too.
RetiresAnyVersion(j, k) ==
    /\ j # k
    /\ \/ j.type \in RecurringType /\ k.type = j.type
       \/ j.type \notin RecurringType /\ k.type = j.type /\ k.agg = j.agg
       \/ j.type = FullType /\ k.type \in UpsertType

\* Mutated form: full convergence retires deletes and weight adjustments too.
RetiresDebtToo(j, k) ==
    /\ j # k
    /\ \/ j.type \in RecurringType /\ k.type = j.type
       \/ /\ j.type \notin RecurringType
          /\ k.type = j.type /\ k.agg = j.agg /\ k.ver <= j.ver
       \/ j.type = FullType

\* The dead rows that the success of j turns into history.
Retires(j, k) ==
    /\ j # k
    /\ \/ j.type \in RecurringType /\ k.type = j.type
       \/ /\ j.type \notin RecurringType
          /\ k.type = j.type /\ k.agg = j.agg /\ k.ver <= j.ver
       \/ j.type = FullType /\ k.type \in UpsertType

\* Mutated form: the row is settled before the handler ran.
CompletesBeforeDispatch(w) == phase[w] # "idle"

\* complete_job runs after dispatch_job returned.
Dispatched(w) == phase[w] = "applied"

Complete(w) ==
    /\ Dispatched(w)
    /\ Owns(w)
    /\ status' = [k \in Job |->
          IF k = hand[w] THEN "COMPLETED"
          ELSE IF status[k] = "DEAD" /\ Retires(hand[w], k) THEN "SUPERSEDED"
          ELSE status[k]]
    /\ ClearLock(hand[w])
    /\ Release(w)
    /\ UNCHANGED <<attempts, due, born, revived, schedVars, worldVars, applied, stamp, slipVars>>

\* complete_job of a dispatcher whose row went to somebody else: the row is
\* left alone, but whatever the handler did in its session is committed.
CompleteTooLate(w) ==
    /\ Dispatched(w)
    /\ ~Owns(w)
    /\ Release(w)
    /\ UNCHANGED <<rowVars, schedVars, worldVars, applied, stamp, slipVars>>

\* Mutated form: off by one at the retry limit.
GivesUpLate(n) == n > MaxAttempts

GivesUp(n) == n >= MaxAttempts

\* Mutated form: attempts counts those that are left.
CountsDown(n) == n - 1

OneMore(n) == n + 1

\* Any exception in dispatch_job or complete_job: back off, or give up.
Fail(w) ==
    /\ hand[w] # NoJob
    /\ Owns(w)
    /\ attempts' = [attempts EXCEPT ![hand[w]] = OneMore(@)]
    /\ status' = [status EXCEPT ![hand[w]] =
          IF GivesUp(OneMore(attempts[hand[w]])) THEN "DEAD" ELSE "PENDING"]
    /\ due' = [due EXCEPT ![hand[w]] = FALSE]
    /\ ClearLock(hand[w])
    /\ Release(w)
    /\ UNCHANGED <<born, revived, schedVars, worldVars, applied, stamp, slipVars>>

\* fail_job of a dispatcher whose row went to somebody else.
FailTooLate(w) ==
    /\ hand[w] # NoJob
    /\ ~Owns(w)
    /\ Release(w)
    /\ UNCHANGED <<rowVars, schedVars, worldVars, applied, stamp, slipVars>>

\* The process dies; its successor draws a new uuid4, so no live dispatcher
\* will ever again answer to the locked_by it leaves behind.
Crash(w) ==
    /\ hand[w] # NoJob
    /\ crashes + overruns < MaxSlips
    /\ crashes' = crashes + 1
    /\ lockedBy' = [j \in Job |-> IF lockedBy[j] = w THEN Gone ELSE lockedBy[j]]
    /\ Release(w)
    /\ UNCHANGED <<status, attempts, due, lapsed, born, revived,
                   schedVars, worldVars, applied, stamp, overruns>>

\* retry_job: attempts is not reset.
Retry(j) ==
    /\ status[j] = "DEAD"
    /\ revived[j] < MaxRevives
    /\ revived' = [revived EXCEPT ![j] = @ + 1]
    /\ status' = [status EXCEPT ![j] = "PENDING"]
    /\ due' = [due EXCEPT ![j] = TRUE]
    /\ ClearLock(j)
    /\ UNCHANGED <<attempts, born, workerVars, schedVars, worldVars, applied, stamp, slipVars>>

-----------------------------------------------------------------------------
(* The clock.                                                              *)

\* next_attempt_at passes.
BecomeDue(j) ==
    /\ status[j] = "PENDING"
    /\ ~due[j]
    /\ due' = [due EXCEPT ![j] = TRUE]
    /\ UNCHANGED <<status, attempts, lockedBy, lapsed, born, revived,
                   workerVars, schedVars, worldVars, applied, stamp, slipVars>>

LapseRow(j) ==
    /\ status[j] = "RUNNING"
    /\ ~lapsed[j]
    /\ lapsed' = [lapsed EXCEPT ![j] = TRUE]
    /\ UNCHANGED <<status, attempts, due, lockedBy, born, revived,
                   workerVars, schedVars, worldVars, applied, stamp, crashes>>

\* outbox_lock_timeout_seconds after a crash ...
LapseAbandoned(j) ==
    /\ lockedBy[j] = Gone
    /\ LapseRow(j)
    /\ UNCHANGED overruns

\* ... or during a handler that outlives its lease, which nothing renews.
LapseSlow(j) ==
    /\ lockedBy[j] \in Worker
    /\ crashes + overruns < MaxSlips
    /\ LapseRow(j)
    /\ overruns' = overruns + 1

Tick ==
    /\ bucket < MaxBucket
    /\ bucket' = bucket + 1
    /\ UNCHANGED <<canonical, rowVars, workerVars, schedVars, applied, stamp, slipVars>>

-----------------------------------------------------------------------------
Next ==
    \/ \E o \in Object, T \in Request : Edit(o, T)
    \/ \E j \in ManualJob : RequestRun(j)
    \/ \E s \in Scheduler : SchedulePlan(s) \/ ScheduleCommit(s) \/ ScheduleAbort(s)
    \/ \E w \in Worker, j \in Job : Claim(w, j)
    \/ \E w \in Worker : \/ Dispatch(w) \/ Complete(w) \/ CompleteTooLate(w)
                         \/ Fail(w) \/ FailTooLate(w) \/ Crash(w)
    \/ \E j \in Job : \/ Retry(j) \/ BecomeDue(j)
                      \/ LapseAbandoned(j) \/ LapseSlow(j)
    \/ Tick

Safety == Init /\ [][Next]_vars

\* Loops keep running and clocks keep moving; nothing forces a success, a
\* crash, an edit or an administrator.
Fairness ==
    /\ \A w \in Worker :
          /\ WF_vars(\E j \in Job : Claim(w, j))
          /\ WF_vars(\/ Dispatch(w) \/ Complete(w) \/ CompleteTooLate(w)
                     \/ Fail(w) \/ FailTooLate(w))
    /\ \A s \in Scheduler : WF_vars(SchedulePlan(s)) /\ WF_vars(ScheduleCommit(s))
    /\ \A j \in Job : WF_vars(BecomeDue(j)) /\ WF_vars(LapseAbandoned(j))
    /\ WF_vars(Tick)

Spec == Safety /\ Fairness

-----------------------------------------------------------------------------
(* Properties.                                                             *)

\* A row is locked exactly while it is RUNNING, and its lock names either a
\* dispatcher that works on it or one that died: no row is lost to a lock
\* that nobody will ever give back (locked_by in claim, complete, fail, retry).
LockedWhileRunning ==
    /\ \A j \in Job : (lockedBy[j] # Nobody) <=> (status[j] = "RUNNING")
    /\ \A j \in Job, w \in Worker : lockedBy[j] = w => hand[w] = j
    /\ \A w \in Worker : hand[w] = NoJob <=> phase[w] = "idle"

\* What makes a failed request k redundant once j has been delivered, in the
\* words of 06_SYNC_ENGINE: any run of the same recurring operation, an equal
\* or newer version of the same projection, or full convergence for upserts.
Covers(j, k) ==
    \/ j.type = k.type /\ j.type \in RecurringType
    \/ j.type = k.type /\ j.agg = k.agg /\ j.ver >= k.ver
    \/ j.type = FullType /\ k.type \in UpsertType

\* Failed work is written off as history only if some request that covers it
\* was delivered (the two or three UPDATE statements of complete_job).
SupersededIsCovered ==
    \A k \in Job : status[k] = "SUPERSEDED" =>
        \E j \in Job : j # k /\ status[j] = "COMPLETED" /\ Covers(j, k)

\* A request fails at most max_attempts times, plus once for each time an
\* administrator asked for it again: attempts survives retry_job and lost
\* leases, so neither can start the count over.
FailuresBounded ==
    \A j \in Job :
        /\ attempts[j] <= MaxAttempts + revived[j]
        /\ Active(j) => attempts[j] < MaxAttempts + revived[j]

\* However many schedulers run, at most one scheduled run of a recurring
\* operation is active, unless an administrator revived an old one
\* (SCHEDULER_LOCK_KEY around the check and the insert).
SchedulerSingleton ==
    \A j, k \in PeriodicJob :
        j # k /\ j.type = k.type /\ Active(j) /\ Active(k)
            => revived[j] > 0 \/ revived[k] > 0

\* While a lease is current only its holder settles the row, by finishing it:
\* a dispatcher that lost its lease cannot complete, fail or give back a row
\* that another one is working on.
LeaseRespected ==
    [][\A j \in Job :
          status[j] = "RUNNING" /\ ~lapsed[j] /\ status'[j] # "RUNNING"
              => \E w \in Worker : lockedBy[j] = w /\ hand[w] = j /\ hand'[w] = NoJob
      ]_vars

\* A failed delete or weight adjustment stays actionable: it leaves DEAD only
\* when an administrator retries it or when the same operation on the same
\* object succeeds for an equal or newer version in that very step.
DebtStaysActionable ==
    [][\A k \in Job :
          k.type \in DebtType /\ status[k] = "DEAD" /\ status'[k] # "DEAD"
              => \/ status'[k] = "PENDING" /\ revived'[k] > revived[k]
                 \/ \E j \in Job : /\ j.type = k.type /\ j.agg = k.agg /\ j.ver >= k.ver
                                   /\ status[j] = "RUNNING" /\ status'[j] = "COMPLETED"
      ]_vars

Settled(j) == status[j] \in {"COMPLETED", "DEAD", "SUPERSEDED"}

\* Whatever crashes, fails or outlives its lease finitely often, every queued
\* request is eventually delivered or given up: nothing stays RUNNING under a
\* dead dispatcher or PENDING for ever.
EveryJobSettles == \A j \in Job : Active(j) ~> Settled(j)

\* Dead, manual or slow runs never stop the schedule: once the last bucket is
\* reached, that bucket's run of every recurring operation is had.
RecurringRunsAgain ==
    \A j \in PeriodicJob : (j.ver = MaxBucket /\ bucket = MaxBucket) ~> Settled(j)

Outcome(s) ==
    CASE s = "absent" -> "none"
      [] s \in {"PENDING", "RUNNING"} -> "owed"
      [] s = "COMPLETED" -> "delivered"
      [] s = "DEAD" -> "abandoned"
      [] s = "SUPERSEDED" -> "obsolete"

Promise == INSTANCE DeliveryPromise WITH
    Redundant <- {p \in Job \X Job : Covers(p[1], p[2])},
    promise <- [j \in Job |-> Outcome(status[j])],
    effect <- applied

\* The queue keeps the outbox's promise: every step of a lease, a retry or a
\* crash is a step, or nothing at all, of what callers were promised.
KeepsPromise == Promise!Spec
=============================================================================
