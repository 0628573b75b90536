------------------------- MODULE OutboxQueueProofs -------------------------
(***************************************************************************)
(* Proofs about OutboxQueue, for every number of dispatchers, schedulers,  *)
(* objects, versions, retries and crashes.                                 *)
(***************************************************************************)
EXTENDS OutboxQueue, TLAPS

\* Every step is one of the actions, named here once for the case splits.
Step ==
    \/ \E o \in Object, T \in Request : Edit(o, T)
    \/ \E j \in ManualJob : RequestRun(j)
    \/ \E s \in Scheduler : SchedulePlan(s)
    \/ \E s \in Scheduler : ScheduleCommit(s)
    \/ \E s \in Scheduler : ScheduleAbort(s)
    \/ \E w \in Worker, j \in Job : Claim(w, j)
    \/ \E w \in Worker : Dispatch(w)
    \/ \E w \in Worker : Complete(w)
    \/ \E w \in Worker : CompleteTooLate(w)
    \/ \E w \in Worker : Fail(w)
    \/ \E w \in Worker : FailTooLate(w)
    \/ \E w \in Worker : Crash(w)
    \/ \E j \in Job : Retry(j)
    \/ \E j \in Job : BecomeDue(j)
    \/ \E j \in Job : LapseAbandoned(j)
    \/ \E j \in Job : LapseSlow(j)
    \/ Tick

LEMMA NextIsStep == Next => Step
  BY DEF Next, Step

\* The sets of rows are disjoint from the placeholders and known by field.
LEMMA JobFacts ==
    /\ NoJob \notin Job
    /\ PeriodicJob \subseteq Job /\ ManualJob \subseteq Job /\ EditJob \subseteq Job
  BY NoJobAssumption DEF Job

\* The part of the invariant that links dispatchers to the rows they hold: a
\* held row was queued, and a handler that returned has had its effect.
HandsHold ==
    \A w \in Worker :
        /\ hand[w] # NoJob => status[hand[w]] # "absent"
        /\ phase[w] = "applied" => hand[w] \in applied

\* Rows start without attempts.
AbsentIsFresh == \A j \in Job : status[j] = "absent" => attempts[j] = 0

LeaseInv == TypeOK /\ LockedWhileRunning /\ HandsHold

-----------------------------------------------------------------------------
LEMMA TypeInit == Init => LeaseInv
  BY QueueAssumption, NoJobAssumption
     DEF Init, LeaseInv, TypeOK, LockedWhileRunning, HandsHold, Status

\* The columns of the table, apart from the rest of TypeOK.
RowsOK ==
    /\ status \in [Job -> Status]
    /\ attempts \in [Job -> Nat]
    /\ due \in [Job -> BOOLEAN]
    /\ lockedBy \in [Job -> Worker \cup {Nobody, Gone}]
    /\ lapsed \in [Job -> BOOLEAN]
    /\ born \in [Job -> Nat]
    /\ revived \in [Job -> 0..MaxRevives]
    /\ stamp \in Nat

LEMMA AddKeepsRows ==
  ASSUME RowsOK, NEW S, AddOutboxJobs(S)
  PROVE  RowsOK'
<1>1. status' \in [Job -> Status]
  BY DEF RowsOK, AddOutboxJobs, Status
<1>2. due' \in [Job -> BOOLEAN]
  BY DEF RowsOK, AddOutboxJobs
<1>3. born' \in [Job -> Nat] /\ stamp' \in Nat
  BY DEF RowsOK, AddOutboxJobs
<1> QED
  BY <1>1, <1>2, <1>3 DEF RowsOK, AddOutboxJobs

LEMMA TypeStep == LeaseInv /\ [Next]_vars => TypeOK'
<1> SUFFICES ASSUME LeaseInv, [Next]_vars PROVE TypeOK'
  OBVIOUS
<1> USE QueueAssumption DEF LeaseInv, TypeOK, Status
<1>1. CASE UNCHANGED vars
  BY <1>1 DEF vars, rowVars, workerVars, schedVars, worldVars, slipVars
<1>2. CASE \E o \in Object, T \in Request : Edit(o, T)
  <2>1. PICK o \in Object, T \in Request : Edit(o, T)
    BY <1>2
  <2>2. RowsOK'
    BY <2>1, AddKeepsRows DEF Edit, RowsOK
  <2>3. canonical' \in [Object -> 0..MaxVersion]
    BY <2>1 DEF Edit, Bumped
  <2> QED
    BY <2>1, <2>2, <2>3 DEF Edit, RowsOK, workerVars, schedVars, slipVars
<1>3. CASE \E j \in ManualJob : RequestRun(j)
  <2>1. PICK j \in ManualJob : RequestRun(j)
    BY <1>3
  <2>2. RowsOK'
    BY <2>1, AddKeepsRows DEF RequestRun, RowsOK
  <2> QED
    BY <2>1, <2>2 DEF RequestRun, RowsOK, workerVars, schedVars, worldVars, slipVars
<1>4. CASE \E s \in Scheduler : SchedulePlan(s)
  BY <1>4 DEF SchedulePlan, Wanted, rowVars, workerVars, worldVars, slipVars
<1>5. CASE \E s \in Scheduler : ScheduleCommit(s)
  <2>1. PICK s \in Scheduler : ScheduleCommit(s)
    BY <1>5
  <2>2. RowsOK'
    BY <2>1, AddKeepsRows DEF ScheduleCommit, RowsOK
  <2> QED
    BY <2>1, <2>2 DEF ScheduleCommit, Unplan, RowsOK, workerVars, worldVars, slipVars
<1>6. CASE \E s \in Scheduler : ScheduleAbort(s)
  BY <1>6 DEF ScheduleAbort, Unplan, rowVars, workerVars, worldVars
<1>7. CASE \E w \in Worker, j \in Job : Claim(w, j)
  BY <1>7 DEF Claim, schedVars, worldVars, slipVars
<1>8. CASE \E w \in Worker : Dispatch(w)
  BY <1>8 DEF Dispatch, LockedWhileRunning, rowVars, schedVars, worldVars, slipVars
<1>9. CASE \E w \in Worker : Complete(w)
  <2>1. PICK w \in Worker : Complete(w)
    BY <1>9
  <2>2. status' \in [Job -> Status]
    BY <2>1 DEF Complete
  <2>3. /\ lockedBy' \in [Job -> Worker \cup {Nobody, Gone}]
        /\ lapsed' \in [Job -> BOOLEAN]
    BY <2>1 DEF Complete, ClearLock
  <2> QED
    BY <2>1, <2>2, <2>3 DEF Complete, Release, schedVars, worldVars, slipVars
<1>10. CASE \E w \in Worker : CompleteTooLate(w)
  BY <1>10 DEF CompleteTooLate, Release, rowVars, schedVars, worldVars, slipVars
<1>11. CASE \E w \in Worker : Fail(w)
  BY <1>11 DEF Fail, OneMore, ClearLock, Release, schedVars, worldVars, slipVars
<1>12. CASE \E w \in Worker : FailTooLate(w)
  BY <1>12 DEF FailTooLate, Release, rowVars, schedVars, worldVars, slipVars
<1>13. CASE \E w \in Worker : Crash(w)
  BY <1>13 DEF Crash, Release, schedVars, worldVars
<1>14. CASE \E j \in Job : Retry(j)
  BY <1>14 DEF Retry, ClearLock, workerVars, schedVars, worldVars, slipVars
<1>15. CASE \E j \in Job : BecomeDue(j)
  BY <1>15 DEF BecomeDue, workerVars, schedVars, worldVars, slipVars
<1>16. CASE \E j \in Job : LapseAbandoned(j)
  BY <1>16 DEF LapseAbandoned, LapseRow, workerVars, schedVars, worldVars
<1>17. CASE \E j \in Job : LapseSlow(j)
  BY <1>17 DEF LapseSlow, LapseRow, workerVars, schedVars, worldVars
<1>18. CASE Tick
  BY <1>18 DEF Tick, rowVars, workerVars, schedVars, slipVars
<1> QED
  BY NextIsStep, <1>1, <1>2, <1>3, <1>4, <1>5, <1>6, <1>7, <1>8, <1>9, <1>10,
     <1>11, <1>12, <1>13, <1>14, <1>15, <1>16, <1>17, <1>18 DEF Step

LEMMA LockStep == LeaseInv /\ [Next]_vars => LockedWhileRunning'
<1> SUFFICES ASSUME LeaseInv, [Next]_vars PROVE LockedWhileRunning'
  OBVIOUS
<1> USE QueueAssumption DEF LeaseInv, TypeOK, LockedWhileRunning
<1>0. /\ Nobody \notin Worker /\ Gone \notin Worker /\ Nobody # Gone
      /\ NoJob \notin Job
  BY JobFacts
\* What leaves rows, hands and phases alone.
<1>1. ASSUME UNCHANGED <<status, lockedBy, hand, phase>>
      PROVE  LockedWhileRunning'
  BY <1>1
\* New rows are pending and unlocked: they were absent.
<1>2. ASSUME NEW S, AddOutboxJobs(S), UNCHANGED <<hand, phase>>
      PROVE  LockedWhileRunning'
  BY <1>2 DEF AddOutboxJobs
<1>3. ASSUME NEW w \in Worker, NEW j \in Job, Claim(w, j)
      PROVE  LockedWhileRunning'
  <2>1. \A k \in Job : lockedBy[k] # w
    BY <1>0, <1>3 DEF Claim
  <2>2. \A k \in Job : (lockedBy'[k] # Nobody) <=> (status'[k] = "RUNNING")
    BY <1>0, <1>3 DEF Claim
  <2>3. \A k \in Job, v \in Worker : lockedBy'[k] = v => hand'[v] = k
    BY <1>0, <1>3, <2>1 DEF Claim
  <2>4. \A v \in Worker : hand'[v] = NoJob <=> phase'[v] = "idle"
    BY <1>0, <1>3 DEF Claim
  <2> QED
    BY <2>2, <2>3, <2>4
<1>4. ASSUME NEW w \in Worker, Dispatch(w)
      PROVE  LockedWhileRunning'
  BY <1>4 DEF Dispatch, rowVars
\* A dispatcher that gives its row back clears its name from it.
<1>5. ASSUME NEW w \in Worker, hand[w] # NoJob, ClearLock(hand[w]), Release(w),
             \A k \in Job \ {hand[w]} : (status'[k] = "RUNNING") <=> (status[k] = "RUNNING"),
             status'[hand[w]] # "RUNNING"
      PROVE  LockedWhileRunning'
  <2>1. hand[w] \in Job
    BY <1>5
  <2>2. \A k \in Job : (lockedBy'[k] # Nobody) <=> (status'[k] = "RUNNING")
    BY <1>5, <2>1 DEF ClearLock
  <2>3. \A k \in Job, v \in Worker : lockedBy'[k] = v => hand'[v] = k
    BY <1>0, <1>5, <2>1 DEF ClearLock, Release
  <2>4. \A v \in Worker : hand'[v] = NoJob <=> phase'[v] = "idle"
    BY <1>0, <1>5 DEF Release
  <2> QED
    BY <2>2, <2>3, <2>4
\* A dispatcher without a row of its own leaves no name behind.
<1>6. ASSUME NEW w \in Worker, hand[w] # NoJob, ~Owns(w), Release(w),
             UNCHANGED <<status, lockedBy>>
      PROVE  LockedWhileRunning'
  <2>1. \A k \in Job : lockedBy[k] # w
    BY <1>0, <1>6 DEF Owns
  <2> QED
    BY <1>0, <1>6, <2>1 DEF Release
<1>7. ASSUME NEW w \in Worker, Complete(w)
      PROVE  LockedWhileRunning'
  <2>1. hand[w] # NoJob /\ hand[w] \in Job
    BY <1>7 DEF Complete, Dispatched
  <2>2. status'[hand[w]] = "COMPLETED"
    BY <1>7, <2>1 DEF Complete
  <2>3. \A k \in Job \ {hand[w]} : (status'[k] = "RUNNING") <=> (status[k] = "RUNNING")
    BY <1>7 DEF Complete
  <2> QED
    BY <1>5, <1>7, <2>1, <2>2, <2>3 DEF Complete
<1>8. ASSUME NEW w \in Worker, Fail(w)
      PROVE  LockedWhileRunning'
  BY <1>5, <1>8 DEF Fail
<1>9. ASSUME NEW w \in Worker, CompleteTooLate(w) \/ FailTooLate(w)
      PROVE  LockedWhileRunning'
  BY <1>6, <1>9 DEF CompleteTooLate, FailTooLate, Dispatched, rowVars
<1>10. ASSUME NEW w \in Worker, Crash(w)
       PROVE  LockedWhileRunning'
  <2>1. \A k \in Job : (lockedBy'[k] # Nobody) <=> (status'[k] = "RUNNING")
    BY <1>0, <1>10 DEF Crash
  <2>2. \A k \in Job, v \in Worker : lockedBy'[k] = v => hand'[v] = k
    BY <1>0, <1>10 DEF Crash, Release
  <2>3. \A v \in Worker : hand'[v] = NoJob <=> phase'[v] = "idle"
    BY <1>0, <1>10 DEF Crash, Release
  <2> QED
    BY <2>1, <2>2, <2>3
<1>11. ASSUME NEW j \in Job, Retry(j)
       PROVE  LockedWhileRunning'
  BY <1>0, <1>11 DEF Retry, ClearLock, workerVars
<1>12. ASSUME NEW j \in Job, BecomeDue(j) \/ LapseAbandoned(j) \/ LapseSlow(j)
       PROVE  LockedWhileRunning'
  BY <1>1, <1>12 DEF BecomeDue, LapseAbandoned, LapseSlow, LapseRow, workerVars
<1>13. ASSUME NEW o \in Object, NEW T \in Request, Edit(o, T)
       PROVE  LockedWhileRunning'
  BY <1>2, <1>13 DEF Edit, workerVars
<1>14. ASSUME NEW j \in ManualJob, RequestRun(j)
       PROVE  LockedWhileRunning'
  BY <1>2, <1>14 DEF RequestRun, workerVars
<1>15. ASSUME NEW s \in Scheduler, SchedulePlan(s) \/ ScheduleAbort(s)
       PROVE  LockedWhileRunning'
  BY <1>1, <1>15 DEF SchedulePlan, ScheduleAbort, rowVars, workerVars
<1>16. ASSUME NEW s \in Scheduler, ScheduleCommit(s)
       PROVE  LockedWhileRunning'
  BY <1>2, <1>16 DEF ScheduleCommit, workerVars
<1>17. ASSUME Tick \/ UNCHANGED vars
       PROVE  LockedWhileRunning'
  BY <1>1, <1>17 DEF Tick, vars, rowVars, workerVars
<1> QED
  BY NextIsStep, <1>3, <1>4, <1>7, <1>8, <1>9, <1>10, <1>11, <1>12,
     <1>13, <1>14, <1>15, <1>16, <1>17 DEF Step

LEMMA HandsStep == LeaseInv /\ [Next]_vars => HandsHold'
<1> SUFFICES ASSUME LeaseInv, [Next]_vars PROVE HandsHold'
  OBVIOUS
<1> USE QueueAssumption DEF LeaseInv, TypeOK, LockedWhileRunning, HandsHold
<1>0. NoJob \notin Job
  BY JobFacts
\* Hands, phases and effects stay, and no row disappears.
<1>1. ASSUME UNCHANGED <<hand, phase, applied>>,
             \A k \in Job : status'[k] = "absent" => status[k] = "absent"
      PROVE  HandsHold'
  BY <1>0, <1>1
<1>2. ASSUME NEW w \in Worker, NEW j \in Job, Claim(w, j)
      PROVE  HandsHold'
  BY <1>0, <1>2 DEF Claim
<1>3. ASSUME NEW w \in Worker, Dispatch(w)
      PROVE  HandsHold'
  BY <1>0, <1>3 DEF Dispatch, rowVars
\* Giving a row back.
<1>4. ASSUME NEW w \in Worker, Release(w), UNCHANGED applied,
             \A k \in Job : status'[k] = "absent" => status[k] = "absent"
      PROVE  HandsHold'
  BY <1>0, <1>4 DEF Release
<1>5. ASSUME NEW w \in Worker, Complete(w)
      PROVE  HandsHold'
  BY <1>4, <1>5 DEF Complete
<1>6. ASSUME NEW w \in Worker, CompleteTooLate(w) \/ FailTooLate(w) \/ Crash(w)
      PROVE  HandsHold'
  BY <1>4, <1>6 DEF CompleteTooLate, FailTooLate, Crash, rowVars
<1>7. ASSUME NEW w \in Worker, Fail(w)
      PROVE  HandsHold'
  BY <1>4, <1>7 DEF Fail
<1>8. ASSUME NEW S, AddOutboxJobs(S), UNCHANGED <<hand, phase, applied>>
      PROVE  HandsHold'
  BY <1>1, <1>8 DEF AddOutboxJobs
<1>9. ASSUME NEW o \in Object, NEW T \in Request, Edit(o, T)
      PROVE  HandsHold'
  BY <1>8, <1>9 DEF Edit, workerVars
<1>10. ASSUME NEW j \in ManualJob, RequestRun(j)
       PROVE  HandsHold'
  BY <1>8, <1>10 DEF RequestRun, workerVars
<1>11. ASSUME NEW s \in Scheduler, ScheduleCommit(s)
       PROVE  HandsHold'
  BY <1>8, <1>11 DEF ScheduleCommit, workerVars
<1>12. ASSUME NEW s \in Scheduler, SchedulePlan(s) \/ ScheduleAbort(s)
       PROVE  HandsHold'
  BY <1>1, <1>12 DEF SchedulePlan, ScheduleAbort, rowVars, workerVars
<1>13. ASSUME NEW j \in Job, Retry(j)
       PROVE  HandsHold'
  BY <1>1, <1>13 DEF Retry, workerVars
<1>14. ASSUME NEW j \in Job, BecomeDue(j) \/ LapseAbandoned(j) \/ LapseSlow(j)
       PROVE  HandsHold'
  BY <1>1, <1>14 DEF BecomeDue, LapseAbandoned, LapseSlow, LapseRow, workerVars
<1>15. ASSUME Tick \/ UNCHANGED vars
       PROVE  HandsHold'
  BY <1>1, <1>15 DEF Tick, vars, rowVars, workerVars
<1> QED
  BY NextIsStep, <1>2, <1>3, <1>5, <1>6, <1>7, <1>9, <1>10, <1>11, <1>12,
     <1>13, <1>14, <1>15 DEF Step

LEMMA LeaseInvInductive == LeaseInv /\ [Next]_vars => LeaseInv'
  BY TypeStep, LockStep, HandsStep DEF LeaseInv

LEMMA LeaseInvHolds == Safety => []LeaseInv
  BY TypeInit, LeaseInvInductive, PTL DEF Safety

\* Every reachable state is well formed, whatever the constants.
THEOREM TypeSafety == Safety => []TypeOK
<1>1. LeaseInv => TypeOK
  BY DEF LeaseInv
<1> QED
  BY <1>1, LeaseInvHolds, PTL

\* No row is ever lost to a lock nobody will give back: a row is locked exactly
\* while it runs, by a dispatcher that works on it or by one that died.
THEOREM LocksAreHeld == Safety => []LockedWhileRunning
<1>1. LeaseInv => LockedWhileRunning
  BY DEF LeaseInv
<1> QED
  BY <1>1, LeaseInvHolds, PTL

\* While its lease is current, a row is settled by its holder and nobody else.
THEOREM LeasesAreRespected == Safety => LeaseRespected
<1>1. ASSUME LeaseInv, [Next]_vars, NEW j \in Job,
             status[j] = "RUNNING", ~lapsed[j], status'[j] # "RUNNING"
      PROVE  \E w \in Worker : lockedBy[j] = w /\ hand[w] = j /\ hand'[w] = NoJob
  <2> USE QueueAssumption DEF LeaseInv, TypeOK
  <2>1. ASSUME NEW w \in Worker, Complete(w) \/ Fail(w)
        PROVE  lockedBy[j] = w /\ hand[w] = j /\ hand'[w] = NoJob
    <3>1. hand[w] = j
      <4>1. CASE Complete(w)
        BY <1>1, <4>1 DEF Complete
      <4>2. CASE Fail(w)
        BY <1>1, <4>2 DEF Fail
      <4> QED
        BY <2>1, <4>1, <4>2
    <3> QED
      BY <1>1, <2>1, <3>1 DEF Complete, Fail, Owns, Release
  <2>2. ASSUME NEW S, AddOutboxJobs(S) PROVE FALSE
    BY <1>1, <2>2 DEF AddOutboxJobs
  <2>3. ASSUME NEW w \in Worker, NEW k \in Job, Claim(w, k) PROVE FALSE
    BY <1>1, <2>3 DEF Claim
  <2>4. ASSUME NEW k \in Job, Retry(k) PROVE FALSE
    BY <1>1, <2>4 DEF Retry
  <2>5. status' # status
    BY <1>1
  <2> QED
    BY <1>1, <2>1, <2>2, <2>3, <2>4, <2>5, NextIsStep
       DEF Step, Edit, RequestRun, SchedulePlan, ScheduleCommit, ScheduleAbort, Dispatch,
           CompleteTooLate, FailTooLate, Crash, BecomeDue, LapseAbandoned, LapseSlow,
           LapseRow, Tick, rowVars, vars
<1>2. LeaseInv /\ [Next]_vars =>
        [\A j \in Job :
          status[j] = "RUNNING" /\ ~lapsed[j] /\ status'[j] # "RUNNING"
              => \E w \in Worker : lockedBy[j] = w /\ hand[w] = j /\ hand'[w] = NoJob]_vars
  BY <1>1
<1> QED
  BY <1>2, LeaseInvHolds, PTL DEF Safety, LeaseRespected

-----------------------------------------------------------------------------
(* Failures.                                                               *)

FailInv == LeaseInv /\ AbsentIsFresh /\ FailuresBounded

LEMMA FailInit == Init => FailInv
  BY TypeInit, QueueAssumption DEF Init, FailInv, AbsentIsFresh, FailuresBounded, Active

LEMMA FailStep == FailInv /\ [Next]_vars => (AbsentIsFresh /\ FailuresBounded)'
<1> SUFFICES ASSUME FailInv, [Next]_vars PROVE (AbsentIsFresh /\ FailuresBounded)'
  OBVIOUS
<1> USE QueueAssumption
    DEF FailInv, LeaseInv, TypeOK, AbsentIsFresh, FailuresBounded, Active
\* Nothing is counted, and no row becomes active or disappears.
<1>1. ASSUME UNCHANGED <<attempts, revived>>,
             \A k \in Job : /\ status'[k] = "absent" => status[k] = "absent"
                            /\ status'[k] \in {"PENDING", "RUNNING"}
                                 => status[k] \in {"PENDING", "RUNNING"}
      PROVE  (AbsentIsFresh /\ FailuresBounded)'
  BY <1>1
\* New rows start from nothing.
<1>2. ASSUME NEW S, AddOutboxJobs(S)
      PROVE  (AbsentIsFresh /\ FailuresBounded)'
  BY <1>2 DEF AddOutboxJobs
<1>3. ASSUME NEW w \in Worker, Fail(w)
      PROVE  (AbsentIsFresh /\ FailuresBounded)'
  <2>1. hand[w] \in Job /\ status[hand[w]] = "RUNNING"
    BY <1>3 DEF Fail, Owns
  <2>2. attempts'[hand[w]] = attempts[hand[w]] + 1 /\ revived' = revived
    BY <1>3, <2>1 DEF Fail, OneMore
  <2>3. status'[hand[w]] = IF GivesUp(attempts[hand[w]] + 1) THEN "DEAD" ELSE "PENDING"
    BY <1>3, <2>1 DEF Fail, OneMore
  <2>4. \A k \in Job \ {hand[w]} : status'[k] = status[k] /\ attempts'[k] = attempts[k]
    BY <1>3 DEF Fail
  <2>5. /\ attempts'[hand[w]] <= MaxAttempts + revived'[hand[w]]
        /\ status'[hand[w]] = "PENDING" => attempts'[hand[w]] < MaxAttempts + revived'[hand[w]]
    BY <2>1, <2>2, <2>3 DEF GivesUp
  <2> QED
    BY <2>1, <2>2, <2>3, <2>4, <2>5
<1>4. ASSUME NEW j \in Job, Retry(j)
      PROVE  (AbsentIsFresh /\ FailuresBounded)'
  BY <1>4 DEF Retry
<1>5. ASSUME NEW w \in Worker, NEW j \in Job, Claim(w, j)
      PROVE  (AbsentIsFresh /\ FailuresBounded)'
  BY <1>1, <1>5 DEF Claim, Claimable
<1>6. ASSUME NEW w \in Worker, Complete(w)
      PROVE  (AbsentIsFresh /\ FailuresBounded)'
  BY <1>1, <1>6 DEF Complete
<1>7. ASSUME UNCHANGED <<status, attempts, revived>>
      PROVE  (AbsentIsFresh /\ FailuresBounded)'
  BY <1>1, <1>7
<1>8. ASSUME NEW w \in Worker, \/ Dispatch(w) \/ CompleteTooLate(w)
                               \/ FailTooLate(w) \/ Crash(w)
      PROVE  (AbsentIsFresh /\ FailuresBounded)'
  BY <1>7, <1>8 DEF Dispatch, CompleteTooLate, FailTooLate, Crash, rowVars
<1>9. ASSUME NEW s \in Scheduler, SchedulePlan(s) \/ ScheduleAbort(s)
      PROVE  (AbsentIsFresh /\ FailuresBounded)'
  BY <1>7, <1>9 DEF SchedulePlan, ScheduleAbort, rowVars
<1>10. ASSUME NEW j \in Job, BecomeDue(j) \/ LapseAbandoned(j) \/ LapseSlow(j)
       PROVE  (AbsentIsFresh /\ FailuresBounded)'
  BY <1>7, <1>10 DEF BecomeDue, LapseAbandoned, LapseSlow, LapseRow
<1>11. ASSUME Tick \/ UNCHANGED vars
       PROVE  (AbsentIsFresh /\ FailuresBounded)'
  BY <1>7, <1>11 DEF Tick, vars, rowVars
<1> QED
  BY NextIsStep, <1>2, <1>3, <1>4, <1>5, <1>6, <1>8, <1>9, <1>10, <1>11
     DEF Step, Edit, RequestRun, ScheduleCommit

\* However often leases are lost and whoever retries, no request fails more
\* than max_attempts times plus once for each retry somebody asked for.
THEOREM FailuresAreBounded == Safety => []FailuresBounded
<1>1. FailInv /\ [Next]_vars => FailInv'
  BY FailStep, LeaseInvInductive DEF FailInv
<1>2. FailInv => FailuresBounded
  BY DEF FailInv
<1> QED
  BY FailInit, <1>1, <1>2, PTL DEF Safety

-----------------------------------------------------------------------------
(* What becomes of failed requests.                                        *)

LEMMA RetiresIsCovers ==
  ASSUME NEW j \in Job, NEW k \in Job, Retires(j, k)
  PROVE  j # k /\ Covers(j, k)
<1>1. j.ver \in Nat /\ k.ver \in Nat
  BY QueueAssumption DEF Job, EditJob, PeriodicJob, ManualJob
<1> QED
  BY <1>1 DEF Retires, Covers

LEMMA CoveredInit == Init => SupersededIsCovered
  BY DEF Init, SupersededIsCovered

LEMMA CoveredStep == LeaseInv /\ SupersededIsCovered /\ [Next]_vars => SupersededIsCovered'
<1> SUFFICES ASSUME LeaseInv, SupersededIsCovered, [Next]_vars PROVE SupersededIsCovered'
  OBVIOUS
<1> USE DEF LeaseInv, TypeOK, SupersededIsCovered
\* Delivered rows stay delivered, and nothing is written off.
<1>1. ASSUME \A k \in Job : /\ status'[k] = "SUPERSEDED" => status[k] = "SUPERSEDED"
                            /\ status[k] = "COMPLETED" => status'[k] = "COMPLETED"
      PROVE  SupersededIsCovered'
  BY <1>1
<1>2. ASSUME NEW w \in Worker, Complete(w)
      PROVE  SupersededIsCovered'
  <2>1. hand[w] \in Job
    BY <1>2 DEF Complete, Dispatched, LockedWhileRunning
  <2>2. status'[hand[w]] = "COMPLETED"
    BY <1>2, <2>1 DEF Complete
  <2>3. \A k \in Job : status[k] = "COMPLETED" => status'[k] = "COMPLETED"
    BY <1>2 DEF Complete
  <2>4. \A k \in Job : status'[k] = "SUPERSEDED"
          => status[k] = "SUPERSEDED" \/ Retires(hand[w], k)
    BY <1>2 DEF Complete
  <2> QED
    BY <2>1, <2>2, <2>3, <2>4, RetiresIsCovers
<1>3. ASSUME NEW w \in Worker, NEW j \in Job, Claim(w, j)
      PROVE  SupersededIsCovered'
  BY <1>1, <1>3 DEF Claim, Claimable
<1>4. ASSUME NEW w \in Worker, Fail(w)
      PROVE  SupersededIsCovered'
  BY <1>1, <1>4 DEF Fail, Owns
<1>5. ASSUME NEW j \in Job, Retry(j)
      PROVE  SupersededIsCovered'
  BY <1>1, <1>5 DEF Retry
<1>6. ASSUME NEW S, AddOutboxJobs(S)
      PROVE  SupersededIsCovered'
  BY <1>1, <1>6 DEF AddOutboxJobs
<1>7. ASSUME UNCHANGED status
      PROVE  SupersededIsCovered'
  BY <1>7
<1> QED
  BY NextIsStep, <1>2, <1>3, <1>4, <1>5, <1>6, <1>7
     DEF Step, Edit, RequestRun, SchedulePlan, ScheduleCommit, ScheduleAbort, Dispatch,
         CompleteTooLate, FailTooLate, Crash, BecomeDue, LapseAbandoned, LapseSlow,
         LapseRow, Tick, rowVars, vars

\* No failed request is written off unless one that covers it was delivered.
THEOREM WrittenOffIsCovered == Safety => []SupersededIsCovered
<1>1. (LeaseInv /\ SupersededIsCovered) /\ [Next]_vars => (LeaseInv /\ SupersededIsCovered)'
  BY LeaseInvInductive, CoveredStep
<1> QED
  BY TypeInit, CoveredInit, <1>1, PTL DEF Safety

\* A failed delete or weight adjustment is retried by a person or superseded by
\* its own kind; full convergence and the clock never write it off.
THEOREM DebtsStayActionable == Safety => DebtStaysActionable
<1>1. ASSUME LeaseInv, [Next]_vars, NEW k \in Job,
             k.type \in DebtType, status[k] = "DEAD", status'[k] # "DEAD"
      PROVE  \/ status'[k] = "PENDING" /\ revived'[k] > revived[k]
             \/ \E j \in Job : /\ j.type = k.type /\ j.agg = k.agg /\ j.ver >= k.ver
                               /\ status[j] = "RUNNING" /\ status'[j] = "COMPLETED"
  <2> USE DEF LeaseInv, TypeOK
  <2>1. ASSUME NEW w \in Worker, Complete(w)
        PROVE  \E j \in Job : /\ j.type = k.type /\ j.agg = k.agg /\ j.ver >= k.ver
                              /\ status[j] = "RUNNING" /\ status'[j] = "COMPLETED"
    <3>1. hand[w] \in Job /\ status[hand[w]] = "RUNNING"
      BY <1>1, <2>1 DEF Complete, Dispatched, Owns, LockedWhileRunning
    <3>2. status'[hand[w]] = "COMPLETED"
      BY <1>1, <2>1, <3>1 DEF Complete
    <3>3. Retires(hand[w], k)
      BY <1>1, <2>1, <3>1 DEF Complete
    <3>4. k.type \notin RecurringType /\ k.type \notin UpsertType
      BY <1>1, QueueAssumption
    <3>5. hand[w].type = k.type /\ hand[w].agg = k.agg /\ k.ver <= hand[w].ver
      BY <3>3, <3>4 DEF Retires
    <3>6. hand[w].ver \in Nat /\ k.ver \in Nat
      BY <1>1, <3>1, QueueAssumption DEF Job, EditJob, PeriodicJob, ManualJob
    <3> QED
      BY <3>1, <3>2, <3>5, <3>6
  <2>2. ASSUME NEW j \in Job, Retry(j)
        PROVE  status'[k] = "PENDING" /\ revived'[k] > revived[k]
    <3>1. j = k
      BY <1>1, <2>2 DEF Retry
    <3>2. revived[k] \in Nat
      BY <1>1, QueueAssumption
    <3> QED
      BY <1>1, <2>2, <3>1, <3>2 DEF Retry
  <2>3. ASSUME NEW w \in Worker, NEW j \in Job, Claim(w, j) PROVE FALSE
    BY <1>1, <2>3 DEF Claim, Claimable
  <2>4. ASSUME NEW w \in Worker, Fail(w) PROVE FALSE
    BY <1>1, <2>4 DEF Fail, Owns
  <2>5. ASSUME NEW S, AddOutboxJobs(S) PROVE FALSE
    BY <1>1, <2>5 DEF AddOutboxJobs
  <2>6. status' # status
    BY <1>1
  <2> QED
    BY <1>1, <2>1, <2>2, <2>3, <2>4, <2>5, <2>6, NextIsStep
       DEF Step, Edit, RequestRun, SchedulePlan, ScheduleCommit, ScheduleAbort, Dispatch,
           CompleteTooLate, FailTooLate, Crash, BecomeDue, LapseAbandoned, LapseSlow,
           LapseRow, Tick, rowVars, vars
<1>2. LeaseInv /\ [Next]_vars =>
        [\A k \in Job :
          k.type \in DebtType /\ status[k] = "DEAD" /\ status'[k] # "DEAD"
              => \/ status'[k] = "PENDING" /\ revived'[k] > revived[k]
                 \/ \E j \in Job : /\ j.type = k.type /\ j.agg = k.agg /\ j.ver >= k.ver
                                   /\ status[j] = "RUNNING" /\ status'[j] = "COMPLETED"]_vars
  BY <1>1
<1> QED
  BY <1>2, LeaseInvHolds, PTL DEF Safety, DebtStaysActionable

-----------------------------------------------------------------------------
(* The queue implements the outbox's promise.                              *)

outcome == [j \in Job |-> Outcome(status[j])]

LEMMA OutcomeFacts ==
    /\ Outcome("absent") = "none"
    /\ Outcome("PENDING") = "owed"
    /\ Outcome("RUNNING") = "owed"
    /\ Outcome("COMPLETED") = "delivered"
    /\ Outcome("DEAD") = "abandoned"
    /\ Outcome("SUPERSEDED") = "obsolete"
    /\ \A x \in Status : Outcome(x) \in Promise!Outcome
  BY DEF Outcome, Status, Promise!Outcome

LEMMA OutcomeType == LeaseInv => outcome \in [Job -> Promise!Outcome]
  BY OutcomeFacts DEF outcome, LeaseInv, TypeOK

LEMMA PromiseInit == Init => Promise!Init
  BY OutcomeFacts DEF Init, Promise!Init

\* A step that moves no row and touches no remote system promises nothing new.
LEMMA PromiseStutters ==
  ASSUME UNCHANGED <<status, applied>>
  PROVE  UNCHANGED Promise!vars
  BY DEF Promise!vars

LEMMA AddOwes ==
  ASSUME LeaseInv, LeaseInv', NEW S, AddOutboxJobs(S), UNCHANGED applied
  PROVE  Promise!Owe
<1> USE DEF LeaseInv, TypeOK
<1>1. outcome' \in [Job -> Promise!Outcome]
  BY OutcomeFacts DEF outcome
<1>2. ASSUME NEW j \in Job, outcome'[j] # outcome[j]
      PROVE  outcome[j] = "none" /\ outcome'[j] = "owed"
  <2>1. status'[j] # status[j]
    BY <1>2 DEF outcome
  <2>2. status[j] = "absent" /\ status'[j] = "PENDING"
    BY <2>1 DEF AddOutboxJobs
  <2> QED
    BY <2>2, OutcomeFacts DEF outcome
<1> QED
  BY <1>1, <1>2 DEF Promise!Owe, outcome

LEMMA ClaimStutters ==
  ASSUME LeaseInv, NEW w \in Worker, NEW j \in Job, Claim(w, j)
  PROVE  UNCHANGED Promise!vars
<1> USE DEF LeaseInv, TypeOK
<1>1. status[j] \in {"PENDING", "RUNNING"} /\ status'[j] = "RUNNING"
  BY DEF Claim, Claimable
<1>2. \A k \in Job \ {j} : status'[k] = status[k]
  BY DEF Claim
<1>3. \A k \in Job : Outcome(status'[k]) = Outcome(status[k])
  BY <1>1, <1>2, OutcomeFacts
<1> QED
  BY <1>3 DEF Claim, Promise!vars

LEMMA DispatchAffects ==
  ASSUME LeaseInv, NEW w \in Worker, Dispatch(w)
  PROVE  Promise!Next
<1> USE DEF LeaseInv, TypeOK
<1>1. hand[w] \in Job /\ status[hand[w]] # "absent"
  BY DEF Dispatch, LockedWhileRunning, HandsHold
<1>2. outcome[hand[w]] # "none"
  BY <1>1, OutcomeFacts DEF outcome, Status
<1>3. Promise!Affect(hand[w])
  BY <1>2 DEF Dispatch, Promise!Affect, outcome, rowVars
<1> QED
  BY <1>1, <1>3 DEF Promise!Next

LEMMA CompleteDelivers ==
  ASSUME LeaseInv, LeaseInv', NEW w \in Worker, Complete(w)
  PROVE  Promise!Next
<1> DEFINE j == hand[w]
<1> USE DEF LeaseInv, TypeOK
<1>1. j \in Job /\ status[j] = "RUNNING" /\ j \in applied
  BY DEF Complete, Dispatched, Owns, LockedWhileRunning, HandsHold
<1>2. status'[j] = "COMPLETED"
  BY <1>1 DEF Complete
<1>3. ASSUME NEW k \in Job \ {j}, outcome'[k] # outcome[k]
      PROVE  /\ outcome[k] = "abandoned" /\ outcome'[k] = "obsolete"
             /\ <<j, k>> \in {p \in Job \X Job : Covers(p[1], p[2])}
  <2>1. status'[k] # status[k]
    BY <1>3 DEF outcome
  <2>2. status[k] = "DEAD" /\ status'[k] = "SUPERSEDED" /\ Retires(j, k)
    BY <2>1 DEF Complete
  <2>3. Covers(j, k)
    BY <2>2, <1>1, RetiresIsCovers
  <2> QED
    BY <1>1, <2>2, <2>3, OutcomeFacts DEF outcome
<1>4. outcome' \in [Job -> Promise!Outcome]
  BY OutcomeFacts DEF outcome
<1>5. outcome[j] = "owed" /\ outcome'[j] = "delivered"
  BY <1>1, <1>2, OutcomeFacts DEF outcome
<1>6. UNCHANGED applied
  BY DEF Complete
<1>7. Promise!Deliver(j)
  BY <1>1, <1>3, <1>4, <1>5, <1>6 DEF Promise!Deliver, outcome
<1> QED
  BY <1>1, <1>7 DEF Promise!Next

LEMMA FailAbandons ==
  ASSUME LeaseInv, NEW w \in Worker, Fail(w)
  PROVE  [Promise!Next]_Promise!vars
<1> DEFINE j == hand[w]
<1> USE DEF LeaseInv, TypeOK
<1>1. j \in Job /\ status[j] = "RUNNING" /\ UNCHANGED applied
  BY DEF Fail, Owns
<1>2. \A k \in Job \ {j} : status'[k] = status[k]
  BY DEF Fail
<1>3. CASE status'[j] = "PENDING"
  <2>1. \A k \in Job : Outcome(status'[k]) = Outcome(status[k])
    BY <1>1, <1>2, <1>3, OutcomeFacts
  <2> QED
    BY <1>1, <2>1 DEF Promise!vars
<1>4. CASE status'[j] = "DEAD"
  <2>1. outcome[j] = "owed" /\ outcome' = [outcome EXCEPT ![j] = "abandoned"]
    BY <1>1, <1>2, <1>4, OutcomeFacts DEF outcome
  <2>2. Promise!Abandon(j)
    BY <1>1, <2>1 DEF Promise!Abandon, outcome
  <2> QED
    BY <1>1, <2>2 DEF Promise!Next
<1>5. status'[j] \in {"PENDING", "DEAD"}
  BY <1>1 DEF Fail
<1> QED
  BY <1>3, <1>4, <1>5

LEMMA RetryRevives ==
  ASSUME LeaseInv, NEW j \in Job, Retry(j)
  PROVE  Promise!Next
<1> USE DEF LeaseInv, TypeOK
<1>1. outcome[j] = "abandoned" /\ outcome' = [outcome EXCEPT ![j] = "owed"]
  BY OutcomeFacts DEF Retry, outcome
<1>2. Promise!Revive(j)
  BY <1>1 DEF Retry, Promise!Revive, outcome
<1> QED
  BY <1>2 DEF Promise!Next

LEMMA PromiseStep == LeaseInv /\ LeaseInv' /\ [Next]_vars => [Promise!Next]_Promise!vars
<1> SUFFICES ASSUME LeaseInv, LeaseInv', [Next]_vars
             PROVE  [Promise!Next]_Promise!vars
  OBVIOUS
<1>1. ASSUME NEW S, AddOutboxJobs(S), UNCHANGED applied PROVE Promise!Next
  BY <1>1, AddOwes DEF Promise!Next
<1>2. CASE \E o \in Object, T \in Request : Edit(o, T)
  BY <1>1, <1>2 DEF Edit
<1>3. CASE \E j \in ManualJob : RequestRun(j)
  BY <1>1, <1>3 DEF RequestRun
<1>4. CASE \E s \in Scheduler : ScheduleCommit(s)
  BY <1>1, <1>4 DEF ScheduleCommit
<1>5. CASE \E w \in Worker, j \in Job : Claim(w, j)
  BY <1>5, ClaimStutters
<1>6. CASE \E w \in Worker : Dispatch(w)
  BY <1>6, DispatchAffects
<1>7. CASE \E w \in Worker : Complete(w)
  BY <1>7, CompleteDelivers
<1>8. CASE \E w \in Worker : Fail(w)
  BY <1>8, FailAbandons
<1>9. CASE \E j \in Job : Retry(j)
  BY <1>9, RetryRevives
<1>10. CASE UNCHANGED <<status, applied>>
  BY <1>10, PromiseStutters
<1> QED
  BY NextIsStep, <1>2, <1>3, <1>4, <1>5, <1>6, <1>7, <1>8, <1>9, <1>10
     DEF Step, SchedulePlan, ScheduleAbort, CompleteTooLate, FailTooLate, Crash, BecomeDue,
         LapseAbandoned, LapseSlow, LapseRow, Tick, rowVars, vars

\* The queue keeps the outbox's promise: whatever leases, crashes and retries
\* do, work is delivered only after its effect and retired only when covered.
THEOREM QueueKeepsPromise == Safety => KeepsPromise
<1>1. LeaseInv /\ LeaseInv' /\ [Next]_vars => [Promise!Next]_Promise!vars
  BY PromiseStep
<1> QED
  BY PromiseInit, <1>1, LeaseInvHolds, PTL DEF Safety, KeepsPromise, Promise!Spec

-----------------------------------------------------------------------------
(* One scheduled run at a time.                                            *)

\* Only the lock's holder has a plan; between the check and the insert nothing
\* but an administrator's retry can make a planned type busy; one plan is for
\* one bucket.
PlansHold ==
    \A s \in Scheduler :
        /\ planned[s] # {} => schedLock = s
        /\ \A j \in planned[s], k \in PeriodicJob :
              k.type = j.type /\ Active(k) => revived[k] > 0
        /\ \A j, k \in planned[s] : j.ver = k.ver

SchedInv == LeaseInv /\ PlansHold /\ SchedulerSingleton

LEMMA SchedInit == Init => SchedInv
  BY TypeInit, JobFacts DEF Init, SchedInv, PlansHold, SchedulerSingleton, Active

\* Same type and same bucket is the same row.
LEMMA PeriodicIdentity ==
  ASSUME NEW j \in PeriodicJob, NEW k \in PeriodicJob, j.type = k.type, j.ver = k.ver
  PROVE  j = k
  BY DEF PeriodicJob

LEMMA OthersAreNotPeriodic ==
    PeriodicJob \cap ManualJob = {} /\ PeriodicJob \cap EditJob = {}
<1>1. ASSUME NEW j \in PeriodicJob PROVE j \notin ManualJob
  BY QueueAssumption DEF PeriodicJob, ManualJob
<1>2. ASSUME NEW j \in PeriodicJob PROVE j \notin EditJob
  BY QueueAssumption DEF PeriodicJob, EditJob
<1> QED
  BY <1>1, <1>2

\* Steps that make no scheduled row active but a revived one keep the facts.
LEMMA NoNewRunKeeps ==
  ASSUME SchedInv, LeaseInv', UNCHANGED schedVars,
         \A k \in PeriodicJob : Active(k)' => Active(k) \/ revived'[k] > 0,
         \A k \in PeriodicJob : revived[k] > 0 => revived'[k] > 0
  PROVE  (PlansHold /\ SchedulerSingleton)'
  BY DEF SchedInv, PlansHold, SchedulerSingleton, schedVars

LEMMA CommitKeepsSingleton ==
  ASSUME SchedInv, LeaseInv', NEW s \in Scheduler, ScheduleCommit(s)
  PROVE  (PlansHold /\ SchedulerSingleton)'
<1> USE DEF SchedInv, LeaseInv, TypeOK
<1>1. planned[s] \subseteq PeriodicJob /\ schedLock = s /\ planned[s] # {}
  BY DEF ScheduleCommit, PlansHold
<1>2. \A t \in Scheduler : planned'[t] = {}
  <2>1. \A t \in Scheduler \ {s} : planned[t] = {}
    BY <1>1 DEF PlansHold
  <2> QED
    BY <2>1 DEF ScheduleCommit, Unplan
<1>3. UNCHANGED revived
  BY DEF ScheduleCommit, AddOutboxJobs
<1>4. \A k \in PeriodicJob : Active(k)' => Active(k) \/ k \in planned[s]
  BY JobFacts DEF ScheduleCommit, AddOutboxJobs, Active
<1>5. ASSUME NEW j \in PeriodicJob, NEW k \in PeriodicJob,
             j # k, j.type = k.type, Active(j)', Active(k)'
      PROVE  revived'[j] > 0 \/ revived'[k] > 0
  <2>1. CASE j \in planned[s] /\ k \in planned[s]
    BY <1>5, <2>1, PeriodicIdentity DEF PlansHold
  <2>2. CASE j \in planned[s] /\ Active(k)
    BY <1>3, <1>5, <2>2 DEF PlansHold
  <2>3. CASE k \in planned[s] /\ Active(j)
    BY <1>3, <1>5, <2>3 DEF PlansHold
  <2>4. CASE Active(j) /\ Active(k)
    BY <1>3, <1>5, <2>4 DEF SchedulerSingleton
  <2> QED
    BY <1>4, <1>5, <2>1, <2>2, <2>3, <2>4
<1> QED
  BY <1>2, <1>5 DEF PlansHold, SchedulerSingleton

LEMMA PlanKeepsSingleton ==
  ASSUME SchedInv, LeaseInv', NEW s \in Scheduler, SchedulePlan(s)
  PROVE  (PlansHold /\ SchedulerSingleton)'
<1> USE DEF SchedInv, LeaseInv, TypeOK
<1>1. \A t \in Scheduler : planned[t] = {}
  BY QueueAssumption DEF SchedulePlan, LockFree, PlansHold
<1>2. /\ UNCHANGED <<status, revived>>
      /\ schedLock' = s
      /\ \A t \in Scheduler : planned'[t] = IF t = s THEN Wanted ELSE {}
  BY <1>1 DEF SchedulePlan, rowVars
<1>3. \A j \in Wanted, k \in PeriodicJob : k.type = j.type => ~Active(k)
  BY JobFacts DEF Wanted, Busy
<1>4. \A j, k \in Wanted : j.ver = k.ver
  BY DEF Wanted
<1>5. \A k \in Job : Active(k)' = Active(k)
  BY <1>2 DEF Active
<1>6. SchedulerSingleton'
  BY <1>2, <1>5, JobFacts DEF SchedulerSingleton
<1>7. PlansHold'
  BY <1>2, <1>3, <1>4, <1>5, JobFacts DEF PlansHold
<1> QED
  BY <1>6, <1>7

LEMMA SchedStep == SchedInv /\ LeaseInv' /\ [Next]_vars => (PlansHold /\ SchedulerSingleton)'
<1> SUFFICES ASSUME SchedInv, LeaseInv', [Next]_vars
             PROVE  (PlansHold /\ SchedulerSingleton)'
  OBVIOUS
<1> USE DEF SchedInv, LeaseInv, TypeOK
<1>1. ASSUME NEW S, S \cap PeriodicJob = {}, AddOutboxJobs(S), UNCHANGED schedVars
      PROVE  (PlansHold /\ SchedulerSingleton)'
  <2>1. UNCHANGED revived /\ \A k \in PeriodicJob : status'[k] = status[k]
    BY <1>1, JobFacts DEF AddOutboxJobs
  <2> QED
    BY <1>1, <2>1, NoNewRunKeeps DEF Active
<1>2. CASE \E o \in Object, T \in Request : Edit(o, T)
  <2>1. PICK o \in Object, T \in Request : Edit(o, T)
    BY <1>2
  <2> DEFINE S == {j \in EditJob : j.type \in T /\ j.agg = o /\ j.ver = Bumped(o)}
  <2>2. S \cap PeriodicJob = {} /\ AddOutboxJobs(S) /\ UNCHANGED schedVars
    BY <2>1, OthersAreNotPeriodic DEF Edit
  <2> QED
    BY <2>2, <1>1
<1>3. CASE \E j \in ManualJob : RequestRun(j)
  <2>1. PICK j \in ManualJob : RequestRun(j)
    BY <1>3
  <2>2. {j} \cap PeriodicJob = {} /\ AddOutboxJobs({j}) /\ UNCHANGED schedVars
    BY <2>1, OthersAreNotPeriodic DEF RequestRun
  <2> QED
    BY <2>2, <1>1
<1>4. CASE \E s \in Scheduler : SchedulePlan(s)
  BY <1>4, PlanKeepsSingleton
<1>5. CASE \E s \in Scheduler : ScheduleCommit(s)
  BY <1>5, CommitKeepsSingleton
<1>6. CASE \E s \in Scheduler : ScheduleAbort(s)
  <2>1. PICK s \in Scheduler : ScheduleAbort(s)
    BY <1>6
  <2>2. /\ UNCHANGED <<status, revived>>
        /\ schedLock = s /\ planned'[s] = {}
        /\ \A t \in Scheduler \ {s} : planned[t] = {} /\ planned'[t] = {}
    BY <2>1 DEF ScheduleAbort, Unplan, rowVars, PlansHold
  <2> QED
    BY <2>2 DEF PlansHold, SchedulerSingleton, Active
<1>7. ASSUME NEW w \in Worker, NEW j \in Job, Claim(w, j)
      PROVE  (PlansHold /\ SchedulerSingleton)'
  BY <1>7, NoNewRunKeeps, JobFacts DEF Claim, Claimable, Active
<1>8. ASSUME NEW w \in Worker, Complete(w)
      PROVE  (PlansHold /\ SchedulerSingleton)'
  BY <1>8, NoNewRunKeeps, JobFacts DEF Complete, Active
<1>9. ASSUME NEW w \in Worker, Fail(w)
      PROVE  (PlansHold /\ SchedulerSingleton)'
  BY <1>9, NoNewRunKeeps, JobFacts DEF Fail, Owns, Active
<1>10. ASSUME NEW j \in Job, Retry(j)
       PROVE  (PlansHold /\ SchedulerSingleton)'
  <2>1. UNCHANGED schedVars /\ revived'[j] = revived[j] + 1 /\ revived[j] \in Nat
    BY <1>10, QueueAssumption DEF Retry
  <2>2. \A k \in Job \ {j} : status'[k] = status[k] /\ revived'[k] = revived[k]
    BY <1>10 DEF Retry
  <2>3. \A k \in PeriodicJob : /\ Active(k)' => Active(k) \/ revived'[k] > 0
                               /\ revived[k] > 0 => revived'[k] > 0
    BY <2>1, <2>2, JobFacts DEF Active
  <2> QED
    BY <2>1, <2>3, NoNewRunKeeps
<1>11. ASSUME UNCHANGED <<status, revived, schedVars>>
       PROVE  (PlansHold /\ SchedulerSingleton)'
  BY <1>11, NoNewRunKeeps DEF Active
<1> QED
  BY NextIsStep, <1>2, <1>3, <1>4, <1>5, <1>6, <1>7, <1>8, <1>9, <1>10, <1>11
     DEF Step, Dispatch, CompleteTooLate, FailTooLate, Crash, BecomeDue,
         LapseAbandoned, LapseSlow, LapseRow, Tick, rowVars, vars

\* However many schedulers and processes run, and wherever one dies, at most
\* one scheduled run of a recurring operation is active that nobody revived.
THEOREM OneScheduledRun == Safety => []SchedulerSingleton
<1>1. SchedInv /\ [Next]_vars => SchedInv'
  BY SchedStep, LeaseInvInductive DEF SchedInv
<1>2. SchedInv => SchedulerSingleton
  BY DEF SchedInv
<1> QED
  BY SchedInit, <1>1, <1>2, PTL DEF Safety
=============================================================================
