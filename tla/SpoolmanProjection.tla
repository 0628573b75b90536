------------------------- MODULE SpoolmanProjection -------------------------
(***************************************************************************)
(* The Spoolman handlers run by the outbox: granular upserts and full      *)
(* convergence project canonical vendors and products to remote records.   *)
(* A handler reads canonical rows, takes one advisory lock per object,     *)
(* calls Spoolman, and leaves its ProjectionState changes in the session   *)
(* that complete_job commits together with the settled outbox row.         *)
(***************************************************************************)
EXTENDS OutboxQueue, Sequences

CONSTANTS Vendor,     \* vendors, all created before the first handler starts
          VendorOf,   \* the vendor of each product in Object
          IdOrder,    \* the products in ORDER BY id
          VendorOrder,\* the vendors in ORDER BY id
          Deletable,  \* things whose remote record somebody may delete
          MaxCopies,  \* bound on remote records ever created per thing
          MaxMishaps  \* bound on crashes, overruns and remote deletes together

Thing == Vendor \cup Object
Copy == 1..MaxCopies

\* ORDER BY a primary key: every row, and no row twice.
Enumerates(order, S) ==
    /\ order \in Seq(S)
    /\ \A x \in S : \E i \in 1..Len(order) : order[i] = x
    /\ \A i, j \in 1..Len(order) : order[i] = order[j] => i = j

ASSUME ProjectionAssumption ==
    /\ Vendor \cap Object = {}
    /\ VendorOf \in [Object -> Vendor]
    /\ Enumerates(IdOrder, Object) /\ Enumerates(VendorOrder, Vendor)
    /\ Deletable \subseteq Thing
    /\ MaxCopies \in Nat \ {0}
    /\ MaxMishaps \in Nat

VARIABLES
    live,      \* remote records of each thing that exist now
    used,      \* remote ids ever handed out for each thing
    content,   \* the canonical version each remote record was written from
    peak,      \* history: the newest version ever written for the thing
    tampered,  \* history: things whose remote record was deleted under us
    pointer,   \* committed ProjectionState.remote_id, 0 without a row
    ack,       \* committed ProjectionState.acknowledged_version
    lock,      \* pg_advisory_xact_lock of each thing
    tx         \* each dispatcher's session: what it read and will commit

remoteVars == <<live, used, content, peak, tampered>>
stateVars == <<pointer, ack>>
projVars == <<remoteVars, stateVars, lock, tx>>
pvars == <<vars, projVars>>

Fresh == [stage |-> "start", todo |-> <<>>, seen |-> [o \in Object |-> 0],
          listed |-> [t \in Thing |-> 0], seeded |-> "no",
          draft |-> [t \in Thing |-> 0], clash |-> FALSE]

Session == [stage : {"start", "vendors", "run"}, todo : Seq(Thing),
            seen : [Object -> 0..MaxVersion], listed : [Thing -> 0..MaxCopies],
            seeded : {"no", "row", "new", "unknown"}, draft : [Thing -> 0..MaxCopies],
            clash : BOOLEAN]

ProjectionTypeOK ==
    /\ live \in [Thing -> SUBSET Copy]
    /\ used \in [Thing -> 0..MaxCopies]
    /\ content \in [Thing -> [Copy -> 0..MaxVersion]]
    /\ peak \in [Thing -> 0..MaxVersion]
    /\ tampered \in SUBSET Deletable
    /\ pointer \in [Thing -> 0..MaxCopies]
    /\ ack \in [Thing -> 0..MaxVersion]
    /\ lock \in [Thing -> Worker \cup {Nobody}]
    /\ tx \in [Worker -> Session]

ProjectionInit ==
    /\ Init
    /\ live = [t \in Thing |-> {}]
    /\ used = [t \in Thing |-> 0]
    /\ content = [t \in Thing |-> [c \in Copy |-> 0]]
    /\ peak = [t \in Thing |-> 0]
    /\ tampered = {}
    /\ pointer = [t \in Thing |-> 0]
    /\ ack = [t \in Thing |-> 0]
    /\ lock = [t \in Thing |-> Nobody]
    /\ tx = [w \in Worker |-> Fresh]

-----------------------------------------------------------------------------
(* The handlers, up to the return of dispatch_job.                         *)

Dispatching(w) == phase[w] = "dispatching"
IsFull(w) == hand[w].type = FullType

\* Mutated form: the product is locked before its vendor.
ProductFirst(o) == <<o, VendorOf[o]>>

\* _project_filament projects the vendor first.  Full convergence has done that for every
\* vendor of its list, so that its own products lock no vendor.
UpsertOrder(o) == <<VendorOf[o], o>>

\* A granular upsert loads the product and its vendor, before any lock.
BeginUpsert(w) ==
    /\ Dispatching(w) /\ tx[w].stage = "start" /\ ~IsFull(w)
    /\ tx' = [tx EXCEPT ![w].stage = "run",
                        ![w].seen = canonical,
                        ![w].todo = UpsertOrder(hand[w].agg)]
    /\ UNCHANGED <<vars, remoteVars, stateVars, lock>>

\* The first remote record of each thing that the listing returns, if any.
Listing == [t \in Thing |->
    IF live[t] = {} THEN 0 ELSE CHOOSE c \in live[t] : \A d \in live[t] : c <= d]

\* Full convergence lists every remote record once, then starts on vendors.
BeginFull(w) ==
    /\ Dispatching(w) /\ tx[w].stage = "start" /\ IsFull(w)
    /\ tx' = [tx EXCEPT ![w].stage = "vendors",
                        ![w].listed = Listing,
                        ![w].todo = VendorOrder]
    /\ UNCHANGED <<vars, remoteVars, stateVars, lock>>

\* The products that exist by now, in ORDER BY id.
Existing ==
    LET first[n \in 0..Len(IdOrder)] ==
          IF n = 0 THEN <<>>
          ELSE IF canonical[IdOrder[n]] > 0 THEN Append(first[n - 1], IdOrder[n])
          ELSE first[n - 1]
    IN  first[Len(IdOrder)]

\* Its products are read only once the vendors are done, still before locks.
LoadProducts(w) ==
    /\ Dispatching(w) /\ tx[w].stage = "vendors" /\ tx[w].todo = <<>>
    /\ tx' = [tx EXCEPT ![w].stage = "run",
                        ![w].seen = canonical,
                        ![w].todo = Existing]
    /\ UNCHANGED <<vars, remoteVars, stateVars, lock>>

\* _seed_projection_remote_id for the next thing, before its lock: a loaded
\* row is repointed in the session; without a row a new one is added to the
\* session, which no later query of that session sees (autoflush=False).
Seed(w) ==
    LET t == Head(tx[w].todo) IN
    /\ Dispatching(w) /\ IsFull(w)
    /\ tx[w].todo # <<>> /\ tx[w].seeded = "no"
    /\ tx' = [tx EXCEPT ![w].seeded =
          IF tx[w].listed[t] = 0 THEN "unknown"
          ELSE IF pointer[t] = 0 THEN "new" ELSE "row"]
    /\ UNCHANGED <<vars, remoteVars, stateVars, lock>>

\* About to take the next thing's advisory lock.
AtLock(w) ==
    /\ Dispatching(w) /\ tx[w].todo # <<>>
    /\ IsFull(w) => tx[w].seeded # "no"

\* Mutated form: nobody waits for anybody.
LockIgnoredBy(w, t) == TRUE

\* pg_advisory_xact_lock returns: the lock is free or already ours.
LockOpen(w, t) == lock[t] \in {Nobody, w}

\* The remote id this session believes in, once it holds the lock.
Believed(w, t) == IF tx[w].seeded = "row" THEN tx[w].listed[t] ELSE pointer[t]

VersionSeen(w, t) == IF t \in Object THEN tx[w].seen[t] ELSE 0

\* _lock_projection returned for the next thing t.  Taking the lock and the
\* calls to Spoolman are one step: only Spoolman's own users act in between,
\* and the calls find what they left.
Projecting(w, t) ==
    /\ AtLock(w)
    /\ t = Head(tx[w].todo)
    /\ LockOpen(w, t)
    /\ lock' = [lock EXCEPT ![t] = w]

\* The remote record c of t now shows what this session read; the session
\* remembers the pointer and version it will save, and moves on.
Write(w, t, c) ==
    /\ content' = [content EXCEPT ![t][c] = VersionSeen(w, t)]
    /\ peak' = [peak EXCEPT ![t] = IF @ < VersionSeen(w, t) THEN VersionSeen(w, t) ELSE @]
    /\ tx' = [tx EXCEPT ![w].todo = Tail(@), ![w].draft[t] = c, ![w].seeded = "no",
                        ![w].clash = @ \/ tx[w].seeded = "new"]
    /\ UNCHANGED <<vars, stateVars, tampered>>

\* The believed record answers, and is updated.
UpdateBelieved(w, t) ==
    /\ Projecting(w, t)
    /\ Believed(w, t) \in live[t]
    /\ Write(w, t, Believed(w, t))
    /\ UNCHANGED <<live, used>>

\* No pointer, or 404: a granular job adopts the record with our UUID ...
AdoptDiscovered(w, t) ==
    /\ Projecting(w, t)
    /\ Believed(w, t) \notin live[t]
    /\ ~IsFull(w)
    /\ \E c \in live[t] : live[t] = {c} /\ Write(w, t, c)
    /\ UNCHANGED <<live, used>>

\* Mutated form: a granular job creates without looking for its UUID.
NeedsNoDiscovery(w, t) == TRUE

\* ... convergence relies on its listing instead (allow_discovery=False) ...
MayCreate(w, t) == IsFull(w) \/ live[t] = {}

\* ... and otherwise a record is created.
CreateRemote(w, t) ==
    /\ Projecting(w, t)
    /\ Believed(w, t) \notin live[t]
    /\ MayCreate(w, t)
    /\ used[t] < MaxCopies
    /\ live' = [live EXCEPT ![t] = @ \cup {used[t] + 1}]
    /\ used' = [used EXCEPT ![t] = @ + 1]
    /\ Write(w, t, used[t] + 1)

-----------------------------------------------------------------------------
(* The end of the transaction, together with the outbox row.               *)

Unlock(w) == lock' = [t \in Thing |-> IF lock[t] = w THEN Nobody ELSE lock[t]]

\* Mutated form: the acknowledged version runs ahead by one.
SavesNextVersion(w, t) == VersionSeen(w, t) + 1

\* _save_projection's acknowledged_version: what was read, hence written.
SavedVersion(w, t) == VersionSeen(w, t)

\* The commit of complete_job saves every projection the session touched.  A
\* row added twice, or added beside a committed one, breaks the unique key.
Commit(w) ==
    /\ ~tx[w].clash
    /\ pointer' = [t \in Thing |-> IF tx[w].draft[t] # 0 THEN tx[w].draft[t] ELSE pointer[t]]
    /\ ack' = [t \in Thing |-> IF tx[w].draft[t] # 0 THEN SavedVersion(w, t) ELSE ack[t]]
    /\ Unlock(w)
    /\ tx' = [tx EXCEPT ![w] = Fresh]
    /\ UNCHANGED remoteVars

\* Rollback, or a lost connection: the remote writes stay.
Rollback(w) ==
    /\ Unlock(w)
    /\ tx' = [tx EXCEPT ![w] = Fresh]
    /\ UNCHANGED <<remoteVars, stateVars>>

ProjectionDispatch(w) ==
    /\ tx[w].stage = "run" /\ tx[w].todo = <<>>
    /\ Dispatch(w)
    /\ UNCHANGED projVars

ProjectionComplete(w) == Commit(w) /\ (Complete(w) \/ CompleteTooLate(w))
ProjectionFail(w) == Rollback(w) /\ (Fail(w) \/ FailTooLate(w))
ProjectionCrash(w) == Rollback(w) /\ Crash(w)

\* Somebody deletes the record in Spoolman itself.
RemoteDelete(t) ==
    /\ t \in Deletable \ tampered
    /\ \E c \in live[t] : live' = [live EXCEPT ![t] = @ \ {c}]
    /\ tampered' = tampered \cup {t}
    /\ UNCHANGED <<vars, used, content, peak, stateVars, lock, tx>>

-----------------------------------------------------------------------------
\* Everything a dispatcher does once it holds a job.
HandlerStep(w) ==
    \/ BeginUpsert(w) \/ BeginFull(w) \/ LoadProducts(w) \/ Seed(w)
    \/ \E t \in Thing : UpdateBelieved(w, t) \/ AdoptDiscovered(w, t) \/ CreateRemote(w, t)
    \/ ProjectionDispatch(w) \/ ProjectionComplete(w) \/ ProjectionFail(w)

\* What the queue does on its own.
QueueStep ==
    \/ \E o \in Object, T \in Request : Edit(o, T)
    \/ \E j \in ManualJob : RequestRun(j)
    \/ \E w \in Worker, j \in Job : Claim(w, j)
    \/ \E j \in Job : Retry(j) \/ BecomeDue(j) \/ LapseAbandoned(j) \/ LapseSlow(j)

Mishaps == crashes + overruns + Cardinality(tampered)

ProjectionNext ==
  /\ \/ QueueStep /\ UNCHANGED projVars
     \/ \E w \in Worker : HandlerStep(w) \/ ProjectionCrash(w)
     \/ \E t \in Thing : RemoteDelete(t)
  /\ Mishaps' <= MaxMishaps

ProjectionSpec == ProjectionInit /\ [][ProjectionNext]_pvars

-----------------------------------------------------------------------------
(* Properties.                                                             *)

FullDelivered == \E j \in Job : j.type = FullType /\ status[j] = "COMPLETED"

\* A settled upsert was really shown to Spoolman: once its row is COMPLETED,
\* or written off without any full convergence having succeeded, some write of
\* that version or a newer one reached the remote record.
SettledReachedRemote ==
    \A j \in Job : j.type \in UpsertType =>
        /\ status[j] = "COMPLETED" => peak[j.agg] >= j.ver
        /\ status[j] = "SUPERSEDED" => peak[j.agg] >= j.ver \/ FullDelivered

\* Two handlers never wait for each other's advisory locks, because every
\* path locks vendors before products and products in one order; a vendor that
\* a convergence has not listed, because it was created meanwhile, is left out.
NoLockCycle ==
    \A v, w \in Worker :
        v # w /\ AtLock(v) /\ AtLock(w)
            => ~(lock[Head(tx[v].todo)] = w /\ lock[Head(tx[w].todo)] = v)

\* The acknowledged version tells the diagnostics page the truth, as long as
\* no handler outlives its lease: when nothing about a product is queued,
\* failed or in anybody's hands, and its projection is not reported as lagging,
\* the remote record it names exists and shows the canonical version, stale
\* writers, crashes and rolled back writes notwithstanding.
Quiet(o) ==
    /\ \A j \in Job : j.agg = o \/ j.type = FullType => ~Active(j) /\ status[j] # "DEAD"
    /\ \A w \in Worker : hand[w] # NoJob => hand[w].agg # o /\ hand[w].type # FullType
LagIsVisible ==
    \A o \in Object \ tampered :
        overruns = 0 /\ Quiet(o) /\ pointer[o] # 0 /\ ack[o] = canonical[o]
            => pointer[o] \in live[o] /\ content[o][pointer[o]] = canonical[o]

\* As long as full convergence has not run, lost pointers, crashes and retries
\* never leave two live remote records of one thing: the lock and the look-up
\* by managed UUID make creation exactly-once.
GranularJobsNeverDuplicate ==
    \A t \in Thing : Cardinality(live[t]) > 1 =>
        \E j \in Job : j.type = FullType /\ status[j] # "absent"

\* 06_SYNC_ENGINE: out-of-order stale jobs complete without overwriting newer
\* data (the canonical row is read before the lock, and not again after it).
NoStaleOverwrite ==
    [][\A t \in Thing, c \in Copy : content'[t][c] >= content[t][c]]_pvars

\* 06_SYNC_ENGINE: per-object advisory locks prevent concurrent retries or
\* convergence from creating duplicate remote objects.
NoDuplicateRemote == \A t \in Thing : Cardinality(live[t]) <= 1
=============================================================================
