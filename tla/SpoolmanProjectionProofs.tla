---------------------- MODULE SpoolmanProjectionProofs ----------------------
(***************************************************************************)
(* Proofs about SpoolmanProjection, for every number of dispatchers,       *)
(* vendors, products, versions, crashes and deletions in Spoolman.         *)
(***************************************************************************)
EXTENDS SpoolmanProjection, OutboxQueueProofs, SequenceTheorems, FiniteSetTheorems,
        WellFoundedInduction

\* The order in which every path takes advisory locks: vendors, then products,
\* each in ORDER BY id.
Before(s, t) ==
    \/ s \in Vendor /\ t \in Object
    \/ \E i, j \in 1..Len(VendorOrder) : i < j /\ VendorOrder[i] = s /\ VendorOrder[j] = t
    \/ \E i, j \in 1..Len(IdOrder) : i < j /\ IdOrder[i] = s /\ IdOrder[j] = t

Ascending(seq) ==
    \A i, j \in 1..Len(seq) : i < j => Before(seq[i], seq[j])

\* The things the job in hand projects, once its products have been read: a
\* product and its vendor, or every vendor and every product that was seen.
Needs(w) ==
    IF ~IsFull(w) THEN {VendorOf[hand[w].agg], hand[w].agg}
    ELSE Vendor \cup {o \in Object : tx[w].seen[o] > 0}

InTodo(w, t) == \E i \in 1..Len(tx[w].todo) : tx[w].todo[i] = t

\* Only canonical edits and operators queue rows here, and an edit's row never
\* asks for a version that canonical data has not reached.
RowsAreKnown ==
    \A j \in Job : status[j] # "absent" =>
        /\ j \in EditJob \cup ManualJob
        /\ j \in EditJob => j.ver <= canonical[j.agg]

\* A session begins after its claim, and is through its things when it returns.
Unbegun(w) ==
    /\ phase[w] = "idle" => tx[w].stage = "start"
    /\ tx[w].stage = "start" => tx[w] = Fresh /\ \A t \in Thing : lock[t] # w
    /\ phase[w] = "applied" => tx[w].stage = "run" /\ tx[w].todo = <<>>

\* While a handler runs, each thing it needs is locked or still to do, what is to
\* do ascends from what is locked, and what it read covers its own row.
Itinerary(w) ==
    tx[w].stage # "start" =>
        /\ tx[w].stage = "vendors" => IsFull(w) /\ tx[w].seen = [o \in Object |-> 0]
        /\ \A t \in Needs(w) : lock[t] = w \/ InTodo(w, t)
        /\ \A t \in Thing : lock[t] = w \/ InTodo(w, t) => t \in Needs(w)
        /\ \A t \in Thing : \A i \in 1..Len(tx[w].todo) : lock[t] = w => Before(t, tx[w].todo[i])
        /\ Ascending(tx[w].todo)
        /\ ~IsFull(w) => tx[w].seen[hand[w].agg] >= hand[w].ver
        /\ IsFull(w) /\ tx[w].stage = "run" => \A V \in Vendor : lock[V] = w

\* What a session will save is what the records it locked really show.
Drafts(w) ==
    /\ \A o \in Object : tx[w].seen[o] <= canonical[o]
    /\ \A t \in Thing :
        /\ tx[w].draft[t] # 0 <=> lock[t] = w
        /\ lock[t] = w =>
            /\ content[t][tx[w].draft[t]] = VersionSeen(w, t)
            /\ peak[t] >= VersionSeen(w, t)
            /\ t \in tampered \/ tx[w].draft[t] \in live[t]

\* Saved pointers name live records of existing products, and a running
\* convergence that did not see a product was not overtaken by its projection.
Pointers ==
    /\ \A o \in Object : ack[o] <= canonical[o] /\ (pointer[o] # 0 => canonical[o] > 0)
    /\ \A t \in Thing : pointer[t] # 0 => t \in tampered \/ pointer[t] \in live[t]
    /\ \A w \in Worker, o \in Object :
          hand[w] # NoJob /\ IsFull(w) /\ tx[w].stage = "run" /\ tx[w].seen[o] = 0
             => pointer[o] = 0

\* While no handler outlives its lease, a dispatcher owns the row in its hand.
HandsOwn ==
    overruns = 0 => \A w \in Worker : hand[w] # NoJob =>
        status[hand[w]] = "RUNNING" /\ lockedBy[hand[w]] = w /\ ~lapsed[hand[w]]

\* A product whose record shows something else than its acknowledged version is
\* owed a projection: by a row that waits, runs or failed.
Lagging(o) ==
    pointer[o] # 0 /\ ack[o] = canonical[o] /\ content[o][pointer[o]] # canonical[o]
Owed(o) ==
    \E j \in Job : (j.agg = o \/ j.type = FullType) /\ (Active(j) \/ status[j] = "DEAD")
LagIsOwed == overruns = 0 => \A o \in Object : Lagging(o) => Owed(o)

\* Without a convergence there is at most one remote record of each thing.
Alone ==
    (\A j \in Job : j.type = FullType => status[j] = "absent")
       => \A t \in Thing : live[t] = {} \/ \E c \in Copy : live[t] = {c}

\* The inductive invariant.
ProjInv == /\ LeaseInv /\ ProjectionTypeOK /\ RowsAreKnown
           /\ \A w \in Worker : Unbegun(w) /\ Itinerary(w) /\ Drafts(w)
           /\ Pointers /\ HandsOwn /\ LagIsOwed /\ Alone /\ SettledReachedRemote

-----------------------------------------------------------------------------
(* Numbers and orders.                                                     *)

LEMMA LeastNumber ==
  ASSUME NEW S \in SUBSET Nat, S # {}
  PROVE  \E x \in S : \A y \in S : x <= y
<1> DEFINE R == {p \in Nat \X Nat : p[1] < p[2]}
<1>1. IsWellFoundedOn(R, Nat)
  BY NatLessThanWellFounded DEF OpToRel
<1>2. \A x, y \in Nat : <<y, x>> \in R <=> y < x
  OBVIOUS
<1> HIDE DEF R
<1>3. \E x \in S : \A y \in S : ~(<<y, x>> \in R)
  BY <1>1, WFMin
<1>4. PICK x \in S : \A y \in S : ~(<<y, x>> \in R)
  BY <1>3
<1>5. ASSUME NEW y \in S PROVE x <= y
  <2>1. x \in Nat /\ y \in Nat /\ ~(y < x)
    BY <1>2, <1>4
  <2> QED
    BY <2>1
<1> QED
  BY <1>4, <1>5


LEMMA OrderFacts ==
    /\ Len(VendorOrder) \in Nat /\ \A i \in 1..Len(VendorOrder) : VendorOrder[i] \in Vendor
    /\ Len(IdOrder) \in Nat /\ \A i \in 1..Len(IdOrder) : IdOrder[i] \in Object
    /\ Vendor \cap Object = {}
    /\ \A i, j \in 1..Len(VendorOrder) : VendorOrder[i] = VendorOrder[j] => i = j
    /\ \A i, j \in 1..Len(IdOrder) : IdOrder[i] = IdOrder[j] => i = j
<1> USE ProjectionAssumption DEF Enumerates
<1>1. \A i \in 1..Len(VendorOrder) : VendorOrder[i] \in Vendor
  BY ElementOfSeq
<1>2. \A i \in 1..Len(IdOrder) : IdOrder[i] \in Object
  BY ElementOfSeq
<1>3. Len(VendorOrder) \in Nat /\ Len(IdOrder) \in Nat
  BY LenProperties
<1> QED
  BY <1>1, <1>2, <1>3

LEMMA BeforeAsymmetric ==
  ASSUME NEW s, NEW t, Before(s, t)
  PROVE  ~Before(t, s)
<1>1. CASE s \in Vendor /\ t \in Object
  BY <1>1, OrderFacts DEF Before
<1>2. ASSUME NEW i \in 1..Len(VendorOrder), NEW j \in 1..Len(VendorOrder),
             i < j, VendorOrder[i] = s, VendorOrder[j] = t
      PROVE  ~Before(t, s)
  <2>1. s \in Vendor /\ t \in Vendor
    BY <1>2, OrderFacts
  <2>2. ASSUME NEW k \in 1..Len(VendorOrder), NEW l \in 1..Len(VendorOrder),
               k < l, VendorOrder[k] = t, VendorOrder[l] = s
        PROVE  FALSE
    <3>1. k = j /\ l = i
      BY <1>2, <2>2, OrderFacts
    <3> QED
      BY <1>2, <2>2, <3>1, OrderFacts
  <2> QED
    BY <2>1, <2>2, OrderFacts DEF Before
<1>3. ASSUME NEW i \in 1..Len(IdOrder), NEW j \in 1..Len(IdOrder),
             i < j, IdOrder[i] = s, IdOrder[j] = t
      PROVE  ~Before(t, s)
  <2>1. s \in Object /\ t \in Object
    BY <1>3, OrderFacts
  <2>2. ASSUME NEW k \in 1..Len(IdOrder), NEW l \in 1..Len(IdOrder),
               k < l, IdOrder[k] = t, IdOrder[l] = s
        PROVE  FALSE
    <3>1. k = j /\ l = i
      BY <1>3, <2>2, OrderFacts
    <3> QED
      BY <1>3, <2>2, <3>1, OrderFacts
  <2> QED
    BY <2>1, <2>2, OrderFacts DEF Before
<1> QED
  BY <1>1, <1>2, <1>3 DEF Before

\* What the listing of the products computes, with the recursion made explicit:
\* f is the function first of Existing.
Lists(f, m) ==
    f = [n \in 0..m |->
          IF n = 0 THEN <<>>
          ELSE IF canonical[IdOrder[n]] > 0 THEN Append(f[n - 1], IdOrder[n])
          ELSE f[n - 1]]

LEMMA ListsExists ==
  ASSUME NEW m \in Nat
  PROVE  \E f : Lists(f, m)
<1> DEFINE Bad == {n \in Nat : ~\E f : Lists(f, n)}
<1> SUFFICES ASSUME Bad # {} PROVE FALSE
  OBVIOUS
<1>1. PICK n \in Bad : \A k \in Bad : n <= k
  BY LeastNumber
<1>2. CASE n = 0
  <2>1. Lists([i \in 0..0 |-> <<>>], 0)
    BY DEF Lists
  <2> QED
    BY <1>1, <1>2, <2>1
<1>3. CASE n # 0
  <2>1. n \in Nat /\ n - 1 \in Nat /\ n - 1 \notin Bad
    BY <1>1, <1>3
  <2>2. PICK g : Lists(g, n - 1)
    BY <2>1
  <2> DEFINE last == IF canonical[IdOrder[n]] > 0 THEN Append(g[n - 1], IdOrder[n])
                     ELSE g[n - 1]
             f == [i \in 0..n |-> IF i = n THEN last ELSE g[i]]
  <2>3. \A i \in 0..(n - 1) : f[i] = g[i]
    BY <2>1
  <2>4. \A i \in 0..(n - 1) : g[i] = IF i = 0 THEN <<>>
                    ELSE IF canonical[IdOrder[i]] > 0 THEN Append(g[i - 1], IdOrder[i])
                    ELSE g[i - 1]
    BY <2>1, <2>2 DEF Lists
  <2>5. \A i \in 0..n : f[i] = IF i = 0 THEN <<>>
                    ELSE IF canonical[IdOrder[i]] > 0 THEN Append(f[i - 1], IdOrder[i])
                    ELSE f[i - 1]
    <3>1. ASSUME NEW i \in 0..(n - 1)
          PROVE  f[i] = IF i = 0 THEN <<>>
                    ELSE IF canonical[IdOrder[i]] > 0 THEN Append(f[i - 1], IdOrder[i])
                    ELSE f[i - 1]
      <4>1. CASE i = 0
        BY <2>3, <2>4, <4>1
      <4>2. CASE i # 0
        <5>1. i - 1 \in 0..(n - 1)
          BY <2>1, <4>2
        <5> QED
          BY <2>3, <2>4, <4>2, <5>1
      <4> QED
        BY <4>1, <4>2
    <3>2. f[n] = last /\ f[n - 1] = g[n - 1]
      BY <2>1
    <3>3. f[n] = IF n = 0 THEN <<>>
                 ELSE IF canonical[IdOrder[n]] > 0 THEN Append(f[n - 1], IdOrder[n])
                 ELSE f[n - 1]
      BY <1>3, <3>2
    <3>4. \A i \in 0..n : i = n \/ i \in 0..(n - 1)
      BY <2>1
    <3> HIDE DEF f
    <3> QED
      BY <3>1, <3>3, <3>4
  <2> HIDE DEF f
  <2>6. Lists(f, n)
    <3>1. f = [i \in 0..n |-> f[i]]
      BY DEF f
    <3> QED
      BY <2>5, <3>1 DEF Lists
  <2> QED
    BY <1>1, <2>6
<1> QED
  BY <1>2, <1>3

\* What a prefix of the listing holds: products that exist, each of them, in order.
ListedUpTo(seq, n) ==
    /\ seq \in Seq(Object)
    /\ \A i \in 1..Len(seq) : /\ canonical[seq[i]] > 0
                              /\ \E k \in 1..n : IdOrder[k] = seq[i]
    /\ Ascending(seq)
    /\ \A k \in 1..n : canonical[IdOrder[k]] > 0 => \E i \in 1..Len(seq) : seq[i] = IdOrder[k]

LEMMA ListedExtends ==
  ASSUME NEW n \in 1..Len(IdOrder), NEW seq, ListedUpTo(seq, n - 1),
         canonical[IdOrder[n]] > 0
  PROVE  ListedUpTo(Append(seq, IdOrder[n]), n)
<1> DEFINE o == IdOrder[n]
           new == Append(seq, o)
<1>1. o \in Object /\ seq \in Seq(Object)
  BY OrderFacts DEF ListedUpTo
<1>2. /\ new \in Seq(Object)
      /\ Len(new) = Len(seq) + 1 /\ Len(seq) \in Nat
      /\ \A i \in 1..Len(seq) : new[i] = seq[i]
      /\ new[Len(seq) + 1] = o
  BY <1>1, AppendProperties, LenProperties
<1> HIDE DEF new
<1>3. n \in Nat /\ Len(IdOrder) \in Nat /\ 1 <= n /\ n <= Len(IdOrder)
  BY OrderFacts
<1>4. ASSUME NEW i \in 1..Len(new)
      PROVE  canonical[new[i]] > 0 /\ \E k \in 1..n : IdOrder[k] = new[i]
  <2>1. CASE i \in 1..Len(seq)
    BY <1>2, <1>3, <2>1 DEF ListedUpTo
  <2>2. CASE i = Len(seq) + 1
    BY <1>2, <1>3, <2>2
  <2> QED
    BY <1>2, <2>1, <2>2
<1>5. ASSUME NEW i \in 1..Len(new), NEW j \in 1..Len(new), i < j
      PROVE  Before(new[i], new[j])
  <2>1. CASE j \in 1..Len(seq)
    <3>1. i \in 1..Len(seq)
      BY <1>2, <1>5, <2>1
    <3>2. Before(seq[i], seq[j])
      BY <1>5, <2>1, <3>1 DEF ListedUpTo, Ascending
    <3> QED
      BY <1>2, <2>1, <3>1, <3>2
  <2>2. CASE j = Len(seq) + 1
    <3>1. i \in 1..Len(seq)
      BY <1>2, <1>5, <2>2
    <3>2. PICK k \in 1..(n - 1) : IdOrder[k] = new[i]
      BY <1>2, <3>1 DEF ListedUpTo
    <3>3. k < n /\ k \in 1..Len(IdOrder) /\ new[j] = o
      BY <1>2, <1>3, <2>2, <3>2
    <3> QED
      BY <3>2, <3>3 DEF Before
  <2> QED
    BY <1>2, <2>1, <2>2
<1>6. ASSUME NEW k \in 1..n, canonical[IdOrder[k]] > 0
      PROVE  \E i \in 1..Len(new) : new[i] = IdOrder[k]
  <2>1. CASE k = n
    BY <1>2, <2>1
  <2>2. CASE k # n
    <3>1. k \in 1..(n - 1)
      BY <1>3, <2>2
    <3>2. PICK i \in 1..Len(seq) : seq[i] = IdOrder[k]
      BY <1>6, <3>1 DEF ListedUpTo
    <3> QED
      BY <1>2, <3>2
  <2> QED
    BY <2>1, <2>2
<1> QED
  BY <1>2, <1>4, <1>5, <1>6 DEF ListedUpTo, Ascending, new

LEMMA ListedSkips ==
  ASSUME NEW n \in 1..Len(IdOrder), NEW seq, ListedUpTo(seq, n - 1),
         ~(canonical[IdOrder[n]] > 0)
  PROVE  ListedUpTo(seq, n)
<1>1. n \in Nat /\ 1 <= n
  BY OrderFacts
<1>2. \A k \in 1..n : k = n \/ k \in 1..(n - 1)
  BY <1>1
<1>3. \A k \in 1..(n - 1) : k \in 1..n
  BY <1>1
<1> QED
  BY <1>2, <1>3 DEF ListedUpTo

\* The products that exist, each once, in the order of their ids.
LEMMA ExistingFacts == ListedUpTo(Existing, Len(IdOrder))
<1> DEFINE N == Len(IdOrder)
<1>1. N \in Nat
  BY OrderFacts
<1>2. PICK f : Lists(f, N) /\ Existing = f[N]
  <2>1. \E f : Lists(f, N)
    BY <1>1, ListsExists
  <2> QED
    BY <2>1 DEF Lists, Existing
<1>3. \A n \in 0..N : f[n] = IF n = 0 THEN <<>>
                    ELSE IF canonical[IdOrder[n]] > 0 THEN Append(f[n - 1], IdOrder[n])
                    ELSE f[n - 1]
  BY <1>1, <1>2 DEF Lists
<1> DEFINE Bad == {n \in 0..N : ~ListedUpTo(f[n], n)}
<1>4. Bad = {}
  <2> SUFFICES ASSUME Bad # {} PROVE FALSE
    OBVIOUS
  <2>1. Bad \in SUBSET Nat
    BY <1>1
  <2>2. PICK n \in Bad : \A k \in Bad : n <= k
    BY <2>1, LeastNumber
  <2>3. CASE n = 0
    <3>1. f[0] = <<>>
      BY <1>1, <1>3
    <3>2. ListedUpTo(<<>>, 0)
      BY EmptySeq DEF ListedUpTo, Ascending
    <3> QED
      BY <2>2, <2>3, <3>1, <3>2
  <2>4. CASE n # 0
    <3>1. n \in 1..N /\ n - 1 \in 0..N /\ n - 1 \notin Bad
      BY <1>1, <2>1, <2>2, <2>4
    <3>2. ListedUpTo(f[n - 1], n - 1)
      BY <3>1
    <3>3. f[n] = IF canonical[IdOrder[n]] > 0 THEN Append(f[n - 1], IdOrder[n])
                 ELSE f[n - 1]
      BY <1>3, <2>4, <3>1
    <3>4. ListedUpTo(f[n], n)
      BY <3>1, <3>2, <3>3, ListedExtends, ListedSkips
    <3> QED
      BY <2>2, <3>4
  <2> QED
    BY <2>3, <2>4
<1> QED
  BY <1>1, <1>2, <1>4

-----------------------------------------------------------------------------
(* The handlers run inside the queue.                                      *)

\* Every step is one of the actions, named here once for the case splits.
ProjStep ==
    \/ QueueStep /\ UNCHANGED projVars
    \/ \E w \in Worker : BeginUpsert(w)
    \/ \E w \in Worker : BeginFull(w)
    \/ \E w \in Worker : LoadProducts(w)
    \/ \E w \in Worker : Seed(w)
    \/ \E w \in Worker, t \in Thing : UpdateBelieved(w, t)
    \/ \E w \in Worker, t \in Thing : AdoptDiscovered(w, t)
    \/ \E w \in Worker, t \in Thing : CreateRemote(w, t)
    \/ \E w \in Worker : ProjectionDispatch(w)
    \/ \E w \in Worker : ProjectionComplete(w)
    \/ \E w \in Worker : ProjectionFail(w)
    \/ \E w \in Worker : ProjectionCrash(w)
    \/ \E t \in Thing : RemoteDelete(t)

LEMMA NextIsProjStep == ProjectionNext => ProjStep
  BY DEF ProjectionNext, HandlerStep, ProjStep

LEMMA QueueStepIsNext == QueueStep => Next
  BY DEF QueueStep, Next

\* A handler touches the outbox only through the queue's own steps.
LEMMA StepOfTheQueue == [ProjectionNext]_pvars => [Next]_vars
<1> SUFFICES ASSUME [ProjectionNext]_pvars PROVE [Next]_vars
  OBVIOUS
<1>1. CASE QueueStep
  BY <1>1, QueueStepIsNext
<1>2. CASE \E w \in Worker : ProjectionDispatch(w) \/ ProjectionComplete(w) \/ ProjectionFail(w)
                             \/ ProjectionCrash(w)
  BY <1>2 DEF ProjectionDispatch, ProjectionComplete, ProjectionFail, ProjectionCrash, Next
<1>3. CASE UNCHANGED vars
  BY <1>3
<1>4. ASSUME NEW w \in Worker, NEW t \in Thing,
             UpdateBelieved(w, t) \/ AdoptDiscovered(w, t) \/ CreateRemote(w, t)
      PROVE  UNCHANGED vars
  BY <1>4 DEF UpdateBelieved, AdoptDiscovered, CreateRemote, Write
<1>5. UNCHANGED pvars => UNCHANGED vars
  BY DEF pvars
<1> QED
  BY NextIsProjStep, <1>1, <1>2, <1>3, <1>4, <1>5
     DEF ProjStep, BeginUpsert, BeginFull, LoadProducts, Seed, RemoteDelete

\* Every behaviour of the projection is one of the queue.
THEOREM ProjectionRunsInTheQueue == ProjectionSpec => Safety
<1>1. ProjectionInit => Init
  BY DEF ProjectionInit
<1> QED
  BY <1>1, StepOfTheQueue, PTL DEF ProjectionSpec, Safety

-----------------------------------------------------------------------------
(* Types, and what a dispatcher's job can be.                              *)

LEMMA ThingFacts ==
    /\ Vendor \subseteq Thing /\ Object \subseteq Thing /\ Vendor \cap Object = {}
    /\ \A o \in Object : VendorOf[o] \in Vendor
    /\ MaxCopies \in Nat /\ MaxCopies > 0 /\ MaxVersion \in Nat
    /\ Nobody \notin Worker
  BY ProjectionAssumption, QueueAssumption DEF Thing

\* A claimed row is an upsert of one product, or a convergence.
LEMMA HandKinds ==
  ASSUME LeaseInv, RowsAreKnown, NEW w \in Worker, hand[w] # NoJob
  PROVE  /\ hand[w] \in Job
         /\ \/ IsFull(w)
            \/ /\ ~IsFull(w) /\ hand[w] \in EditJob
               /\ hand[w].agg \in Object /\ hand[w].ver \in 1..MaxVersion
               /\ hand[w].ver <= canonical[hand[w].agg]
<1>1. hand[w] \in Job /\ status[hand[w]] # "absent"
  BY DEF LeaseInv, TypeOK, HandsHold
<1>2. hand[w] \in EditJob \cup ManualJob /\ (hand[w] \in EditJob => hand[w].ver <= canonical[hand[w].agg])
  BY <1>1 DEF RowsAreKnown
<1>3. hand[w] \in ManualJob => IsFull(w)
  BY DEF ManualJob, IsFull
<1>4. hand[w] \in EditJob => /\ hand[w].agg \in Object /\ hand[w].ver \in 1..MaxVersion
                             /\ hand[w].type \in UpsertType \cup DebtType
  BY DEF EditJob
<1>5. hand[w] \in EditJob => ~IsFull(w)
  BY <1>4, QueueAssumption DEF IsFull
<1> QED
  BY <1>1, <1>2, <1>3, <1>4, <1>5

LEMMA FreshIsSession == Fresh \in Session
<1>1. <<>> \in Seq(Thing)
  BY EmptySeq
<1>2. 0 \in 0..MaxVersion /\ 0 \in 0..MaxCopies
  BY ThingFacts
<1> QED
  BY <1>1, <1>2 DEF Fresh, Session

LEMMA ProjTypeInit == ProjectionInit => ProjectionTypeOK
<1>1. 0 \in 0..MaxVersion /\ 0 \in 0..MaxCopies
  BY ThingFacts
<1> QED
  BY <1>1, FreshIsSession DEF ProjectionInit, ProjectionTypeOK

LEMMA ListingType ==
  ASSUME live \in [Thing -> SUBSET Copy]
  PROVE  Listing \in [Thing -> 0..MaxCopies]
<1>1. ASSUME NEW t \in Thing, live[t] # {}
      PROVE  (CHOOSE c \in live[t] : \A d \in live[t] : c <= d) \in 0..MaxCopies
  <2>1. live[t] \in SUBSET Nat /\ live[t] \subseteq Copy
    BY ThingFacts DEF Copy
  <2>2. \E c \in live[t] : \A d \in live[t] : c <= d
    BY <1>1, <2>1, LeastNumber
  <2>3. (CHOOSE c \in live[t] : \A d \in live[t] : c <= d) \in live[t]
    BY <2>2
  <2> QED
    BY <2>1, <2>3, ThingFacts DEF Copy
<1>2. \A t \in Thing : Listing[t] \in 0..MaxCopies
  <2>1. 0 \in 0..MaxCopies
    BY ThingFacts
  <2> QED
    BY <1>1, <2>1 DEF Listing
<1> QED
  BY <1>2 DEF Listing

LEMMA TodoFacts ==
  ASSUME ProjectionTypeOK, NEW w \in Worker, tx[w].todo # <<>>
  PROVE  LET todo == tx[w].todo IN
         /\ Head(todo) \in Thing /\ Head(todo) = todo[1]
         /\ Len(todo) \in Nat /\ Len(todo) > 0
         /\ Tail(todo) \in Seq(Thing) /\ Len(Tail(todo)) = Len(todo) - 1
         /\ \A i \in 1..Len(Tail(todo)) : Tail(todo)[i] = todo[i + 1]
<1>1. tx[w].todo \in Seq(Thing)
  BY DEF ProjectionTypeOK, Session
<1>2. Len(tx[w].todo) \in Nat /\ Len(tx[w].todo) > 0
  BY <1>1, EmptySeq
<1>3. Head(tx[w].todo) = tx[w].todo[1]
  BY <1>1, <1>2
<1> QED
  BY <1>1, <1>2, <1>3, HeadTailProperties

LEMMA ExistingType == Existing \in Seq(Thing)
  BY ExistingFacts, SeqMonotonic, ThingFacts DEF ListedUpTo

\* What a projected record makes of the state: t is the next thing, c the record.
Wrote(w, t, c) ==
    /\ Projecting(w, t) /\ c \in Copy /\ c \in live'[t] /\ Write(w, t, c)
    /\ \A x \in Thing : live[x] \subseteq live'[x] /\ live'[x] \in SUBSET Copy
    /\ live' \in [Thing -> SUBSET Copy] /\ used' \in [Thing -> 0..MaxCopies]

LEMMA ProjectionWrites ==
  ASSUME ProjectionTypeOK, NEW w \in Worker, NEW t \in Thing,
         UpdateBelieved(w, t) \/ AdoptDiscovered(w, t) \/ CreateRemote(w, t)
  PROVE  \E c \in Copy : Wrote(w, t, c)
<1> USE DEF ProjectionTypeOK
<1>1. CASE UpdateBelieved(w, t)
  <2>1. Believed(w, t) \in live[t] /\ Believed(w, t) \in Copy
    BY <1>1 DEF UpdateBelieved
  <2> QED
    BY <1>1, <2>1 DEF UpdateBelieved, Wrote
<1>2. CASE AdoptDiscovered(w, t)
  <2>1. PICK c \in live[t] : Write(w, t, c)
    BY <1>2 DEF AdoptDiscovered
  <2>2. c \in Copy
    BY <2>1
  <2> QED
    BY <1>2, <2>1, <2>2 DEF AdoptDiscovered, Wrote
<1>3. CASE CreateRemote(w, t)
  <2>1. used[t] + 1 \in Copy /\ used[t] + 1 \in 0..MaxCopies
    BY <1>3, ThingFacts DEF CreateRemote, Copy
  <2>2. /\ live' = [live EXCEPT ![t] = @ \cup {used[t] + 1}]
        /\ used' = [used EXCEPT ![t] = @ + 1]
    BY <1>3 DEF CreateRemote
  <2>3. live' \in [Thing -> SUBSET Copy] /\ used' \in [Thing -> 0..MaxCopies]
    BY <2>1, <2>2
  <2>4. /\ \A x \in Thing : live[x] \subseteq live'[x]
        /\ used[t] + 1 \in live'[t]
    BY <2>2
  <2> QED
    BY <1>3, <2>1, <2>3, <2>4 DEF CreateRemote, Wrote
<1> QED
  BY <1>1, <1>2, <1>3

LEMMA VersionSeenType ==
  ASSUME ProjectionTypeOK, NEW w \in Worker, NEW t \in Thing
  PROVE  VersionSeen(w, t) \in 0..MaxVersion
  BY ThingFacts DEF ProjectionTypeOK, Session, VersionSeen

\* Records only gain contents, and only the record that was written changes.
LEMMA WriteRecords ==
  ASSUME ProjectionTypeOK, NEW w \in Worker, NEW t \in Thing, NEW c \in Copy, Wrote(w, t, c)
  PROVE  /\ content'[t][c] = VersionSeen(w, t)
         /\ \A x \in Thing, d \in Copy : x # t \/ d # c => content'[x][d] = content[x][d]
         /\ peak'[t] >= VersionSeen(w, t) /\ \A x \in Thing : peak'[x] >= peak[x]
         /\ content' \in [Thing -> [Copy -> 0..MaxVersion]] /\ peak' \in [Thing -> 0..MaxVersion]
<1> DEFINE v0 == VersionSeen(w, t)
<1>1. /\ content' = [content EXCEPT ![t][c] = v0]
      /\ peak' = [peak EXCEPT ![t] = IF @ < v0 THEN v0 ELSE @]
  BY DEF Wrote, Write
<1>2. v0 \in 0..MaxVersion
  BY VersionSeenType
<1> HIDE DEF v0
<1>3. /\ content'[t][c] = v0
      /\ \A x \in Thing, d \in Copy : x # t \/ d # c => content'[x][d] = content[x][d]
      /\ content' \in [Thing -> [Copy -> 0..MaxVersion]]
  BY <1>1, <1>2 DEF ProjectionTypeOK
<1>4. /\ peak'[t] >= v0 /\ \A x \in Thing : peak'[x] >= peak[x]
      /\ peak' \in [Thing -> 0..MaxVersion]
  BY <1>1, <1>2, ThingFacts DEF ProjectionTypeOK
<1> QED
  BY <1>3, <1>4 DEF v0

\* The session has taken one lock, and goes on to the next thing.
LEMMA WriteEffect ==
  ASSUME ProjectionTypeOK, NEW w \in Worker, NEW t \in Thing, NEW c \in Copy, Wrote(w, t, c)
  PROVE  /\ tx'[w].stage = tx[w].stage /\ tx'[w].seen = tx[w].seen
         /\ tx'[w].todo = Tail(tx[w].todo) /\ tx'[w].draft = [tx[w].draft EXCEPT ![t] = c]
         /\ \A v \in Worker \ {w} : tx'[v] = tx[v]
         /\ tx' \in [Worker -> Session]
         /\ t = tx[w].todo[1] /\ tx[w].todo # <<>> /\ phase[w] = "dispatching"
         /\ IsFull(w) => tx[w].seeded # "no"
         /\ lock[t] \in {Nobody, w} /\ lock' = [lock EXCEPT ![t] = w]
<1>1. /\ Projecting(w, t)
      /\ tx' = [tx EXCEPT ![w].todo = Tail(@), ![w].draft[t] = c, ![w].seeded = "no",
                          ![w].clash = @ \/ tx[w].seeded = "new"]
  BY DEF Wrote, Write
<1>2. /\ tx'[w] = [tx[w] EXCEPT !.todo = Tail(@), !.draft = [@ EXCEPT ![t] = c],
                                !.seeded = "no", !.clash = @ \/ tx[w].seeded = "new"]
      /\ \A v \in Worker \ {w} : tx'[v] = tx[v]
      /\ DOMAIN tx' = Worker
  BY <1>1 DEF ProjectionTypeOK
<1>3. /\ t = tx[w].todo[1] /\ tx[w].todo # <<>> /\ phase[w] = "dispatching"
      /\ IsFull(w) => tx[w].seeded # "no"
      /\ lock[t] \in {Nobody, w} /\ lock' = [lock EXCEPT ![t] = w]
  BY <1>1, TodoFacts DEF Projecting, AtLock, LockOpen, Dispatching
<1>4. tx[w] \in Session /\ Tail(tx[w].todo) \in Seq(Thing) /\ c \in 0..MaxCopies
  BY <1>3, TodoFacts, ThingFacts DEF ProjectionTypeOK, Copy
<1>5. [tx[w] EXCEPT !.todo = Tail(@), !.draft = [@ EXCEPT ![t] = c],
                    !.seeded = "no", !.clash = @ \/ tx[w].seeded = "new"] \in Session
  BY <1>4 DEF Session
<1>6. tx' \in [Worker -> Session]
  <2>1. tx' = [v \in Worker |-> tx'[v]]
    BY <1>1 DEF ProjectionTypeOK
  <2>2. \A v \in Worker : tx'[v] \in Session
    BY <1>2, <1>5 DEF ProjectionTypeOK
  <2> QED
    BY <2>1, <2>2
<1>7. /\ tx'[w].stage = tx[w].stage /\ tx'[w].seen = tx[w].seen
      /\ tx'[w].todo = Tail(tx[w].todo) /\ tx'[w].draft = [tx[w].draft EXCEPT ![t] = c]
  BY <1>2, <1>4 DEF Session
<1> QED
  BY <1>2, <1>3, <1>6, <1>7

LEMMA SessionChanges ==
  ASSUME ProjectionTypeOK, NEW w \in Worker, NEW s \in Session,
         tx' = [tx EXCEPT ![w] = s]
  PROVE  tx' \in [Worker -> Session] /\ tx'[w] = s /\ \A v \in Worker \ {w} : tx'[v] = tx[v]
  BY DEF ProjectionTypeOK

LEMMA BeginUpsertEffect ==
  ASSUME LeaseInv, ProjectionTypeOK, RowsAreKnown, NEW w \in Worker, BeginUpsert(w),
         hand[w] # NoJob
  PROVE  LET s == [tx[w] EXCEPT !.stage = "run", !.seen = canonical,
                                !.todo = UpsertOrder(hand[w].agg)] IN
         s \in Session /\ tx' = [tx EXCEPT ![w] = s]
<1>1. tx[w] \in Session /\ canonical \in [Object -> 0..MaxVersion]
  BY DEF ProjectionTypeOK, LeaseInv, TypeOK
<1>2. hand[w].agg \in Object
  BY HandKinds DEF BeginUpsert
<1>3. UpsertOrder(hand[w].agg) \in Seq(Thing)
  BY <1>2, ThingFacts DEF UpsertOrder
<1> QED
  BY <1>1, <1>3 DEF BeginUpsert, Session, ProjectionTypeOK

LEMMA BeginFullEffect ==
  ASSUME ProjectionTypeOK, NEW w \in Worker, BeginFull(w)
  PROVE  LET s == [tx[w] EXCEPT !.stage = "vendors", !.listed = Listing,
                                !.todo = VendorOrder] IN
         s \in Session /\ tx' = [tx EXCEPT ![w] = s]
<1>1. tx[w] \in Session /\ Listing \in [Thing -> 0..MaxCopies]
  BY ListingType DEF ProjectionTypeOK
<1>2. VendorOrder \in Seq(Thing)
  BY ProjectionAssumption, SeqMonotonic, ThingFacts DEF Enumerates
<1> QED
  BY <1>1, <1>2 DEF BeginFull, Session, ProjectionTypeOK

LEMMA LoadProductsEffect ==
  ASSUME LeaseInv, ProjectionTypeOK, NEW w \in Worker, LoadProducts(w)
  PROVE  LET s == [tx[w] EXCEPT !.stage = "run", !.seen = canonical, !.todo = Existing] IN
         s \in Session /\ tx' = [tx EXCEPT ![w] = s]
<1>1. tx[w] \in Session /\ canonical \in [Object -> 0..MaxVersion] /\ Existing \in Seq(Thing)
  BY ExistingType DEF ProjectionTypeOK, LeaseInv, TypeOK
<1> HIDE DEF Existing
<1> QED
  BY <1>1 DEF LoadProducts, Session, ProjectionTypeOK

LEMMA SeedEffect ==
  ASSUME ProjectionTypeOK, NEW w \in Worker, Seed(w)
  PROVE  \E x \in {"unknown", "new", "row"} :
            LET s == [tx[w] EXCEPT !.seeded = x] IN
            s \in Session /\ tx' = [tx EXCEPT ![w] = s]
<1>1. tx[w] \in Session
  BY DEF ProjectionTypeOK
<1>2. PICK x \in {"unknown", "new", "row"} : tx' = [tx EXCEPT ![w].seeded = x]
  BY DEF Seed
<1>3. [tx[w] EXCEPT !.seeded = x] \in Session
  BY <1>1 DEF Session
<1> QED
  BY <1>2, <1>3 DEF ProjectionTypeOK

\* The end of a transaction, whether it commits or not.
EndStep(w) == ProjectionComplete(w) \/ ProjectionFail(w) \/ ProjectionCrash(w)

LEMMA EndEffect ==
  ASSUME LeaseInv, ProjectionTypeOK, NEW w \in Worker, EndStep(w)
  PROVE  /\ tx' = [tx EXCEPT ![w] = Fresh]
         /\ lock' = [t \in Thing |-> IF lock[t] = w THEN Nobody ELSE lock[t]]
         /\ UNCHANGED <<live, used, content, peak, tampered, canonical, bucket>>
         /\ hand[w] # NoJob /\ hand' = [hand EXCEPT ![w] = NoJob]
         /\ phase' = [phase EXCEPT ![w] = "idle"]
<1>1. Commit(w) \/ Rollback(w)
  BY DEF EndStep, ProjectionComplete, ProjectionFail, ProjectionCrash
<1>2. /\ tx' = [tx EXCEPT ![w] = Fresh]
      /\ lock' = [t \in Thing |-> IF lock[t] = w THEN Nobody ELSE lock[t]]
      /\ UNCHANGED <<live, used, content, peak, tampered>>
  BY <1>1 DEF Commit, Rollback, Unlock, remoteVars
<1>3. \/ Complete(w) \/ CompleteTooLate(w) \/ Fail(w) \/ FailTooLate(w) \/ Crash(w)
  BY DEF EndStep, ProjectionComplete, ProjectionFail, ProjectionCrash
<1>4. Release(w) /\ UNCHANGED <<canonical, bucket>>
  BY <1>3 DEF Complete, CompleteTooLate, Fail, FailTooLate, Crash, worldVars
<1>5. hand[w] # NoJob
  BY <1>3 DEF Complete, CompleteTooLate, Fail, FailTooLate, Crash, Dispatched, LeaseInv,
              LockedWhileRunning
<1> QED
  BY <1>2, <1>4, <1>5 DEF Release

LEMMA ProjTypeStep ==
  ASSUME LeaseInv, LeaseInv', ProjectionTypeOK, RowsAreKnown, [ProjectionNext]_pvars
  PROVE  ProjectionTypeOK'
<1> USE DEF ProjectionTypeOK
<1>0. \A w \in Worker : Dispatching(w) => hand[w] # NoJob
  BY DEF Dispatching, LeaseInv, LockedWhileRunning
<1>1. ASSUME tx' \in [Worker -> Session], UNCHANGED <<remoteVars, stateVars, lock>>
      PROVE  ProjectionTypeOK'
  BY <1>1 DEF remoteVars, stateVars
<1>2. CASE UNCHANGED projVars
  BY <1>2 DEF projVars, remoteVars, stateVars
<1>3. ASSUME NEW w \in Worker, BeginUpsert(w)
      PROVE  ProjectionTypeOK'
  BY <1>0, <1>1, <1>3, BeginUpsertEffect, SessionChanges DEF BeginUpsert
<1>4. ASSUME NEW w \in Worker, BeginFull(w)
      PROVE  ProjectionTypeOK'
  BY <1>1, <1>4, BeginFullEffect, SessionChanges DEF BeginFull
<1>5. ASSUME NEW w \in Worker, LoadProducts(w)
      PROVE  ProjectionTypeOK'
  BY <1>1, <1>5, LoadProductsEffect, SessionChanges DEF LoadProducts
<1>6. ASSUME NEW w \in Worker, Seed(w)
      PROVE  ProjectionTypeOK'
  BY <1>1, <1>6, SeedEffect, SessionChanges DEF Seed
<1>7. ASSUME NEW w \in Worker, NEW t \in Thing,
             UpdateBelieved(w, t) \/ AdoptDiscovered(w, t) \/ CreateRemote(w, t)
      PROVE  ProjectionTypeOK'
  <2>1. PICK c \in Copy : Wrote(w, t, c)
    BY <1>7, ProjectionWrites
  <2>2. /\ tx' \in [Worker -> Session] /\ lock' = [lock EXCEPT ![t] = w]
        /\ content' \in [Thing -> [Copy -> 0..MaxVersion]] /\ peak' \in [Thing -> 0..MaxVersion]
    BY <2>1, WriteEffect, WriteRecords
  <2> QED
    BY <2>1, <2>2 DEF Wrote, Write, stateVars
<1>8. ASSUME NEW w \in Worker, ProjectionDispatch(w)
      PROVE  ProjectionTypeOK'
  BY <1>2, <1>8 DEF ProjectionDispatch
<1>9. ASSUME NEW w \in Worker, EndStep(w)
      PROVE  ProjectionTypeOK'
  <2>1. tx' \in [Worker -> Session]
    BY <1>9, EndEffect, FreshIsSession, SessionChanges
  <2>2. lock' \in [Thing -> Worker \cup {Nobody}] /\ UNCHANGED remoteVars
    BY <1>9, EndEffect DEF remoteVars
  <2>3. pointer' \in [Thing -> 0..MaxCopies] /\ ack' \in [Thing -> 0..MaxVersion]
    <3>1. CASE Rollback(w)
      BY <3>1 DEF Rollback, stateVars
    <3>2. CASE Commit(w)
      BY <3>2, VersionSeenType DEF Commit, SavedVersion, Session
    <3> QED
      BY <1>9, <3>1, <3>2 DEF EndStep, ProjectionComplete, ProjectionFail, ProjectionCrash
  <2> QED
    BY <2>1, <2>2, <2>3 DEF remoteVars
<1>10. ASSUME NEW t \in Thing, RemoteDelete(t)
       PROVE  ProjectionTypeOK'
  BY <1>10 DEF RemoteDelete, stateVars
<1> QED
  BY NextIsProjStep, <1>2, <1>3, <1>4, <1>5, <1>6, <1>7, <1>8, <1>9, <1>10
     DEF ProjStep, EndStep, pvars

-----------------------------------------------------------------------------
(* The rows of the queue.                                                  *)

LEMMA AddOnly ==
  ASSUME NEW S, AddOutboxJobs(S), NEW j \in Job
  PROVE  /\ status'[j] = IF j \in S THEN "PENDING" ELSE status[j]
         /\ j \in S => status[j] = "absent"
  BY DEF AddOutboxJobs

\* No step but an enqueueing one makes a row, and versions only grow.
LEMMA QueueKeepsRows ==
  ASSUME LeaseInv, [ProjectionNext]_pvars
  PROVE  /\ \A o \in Object : canonical'[o] >= canonical[o]
         /\ \/ \E o \in Object, T \in Request : Edit(o, T) /\ UNCHANGED projVars
            \/ \E j \in ManualJob : RequestRun(j) /\ UNCHANGED projVars
            \/ /\ UNCHANGED canonical
               /\ \A j \in Job : status[j] = "absent" => status'[j] = "absent"
<1> USE DEF LeaseInv, TypeOK
<1>1. ASSUME UNCHANGED <<canonical, status>>
      PROVE  /\ \A o \in Object : canonical'[o] >= canonical[o]
             /\ UNCHANGED canonical
             /\ \A j \in Job : status[j] = "absent" => status'[j] = "absent"
  BY <1>1, QueueAssumption
<1>2. ASSUME QueueStep, UNCHANGED projVars,
             ~\E o \in Object, T \in Request : Edit(o, T),
             ~\E j \in ManualJob : RequestRun(j)
      PROVE  /\ UNCHANGED canonical
             /\ \A j \in Job : status[j] = "absent" => status'[j] = "absent"
  <2>1. CASE \E w \in Worker, j \in Job : Claim(w, j)
    BY <2>1 DEF Claim, Claimable, worldVars
  <2>2. CASE \E j \in Job : Retry(j)
    BY <2>2 DEF Retry, worldVars
  <2>3. CASE \E j \in Job : BecomeDue(j) \/ LapseAbandoned(j) \/ LapseSlow(j)
    BY <2>3, <1>1 DEF BecomeDue, LapseAbandoned, LapseSlow, LapseRow, worldVars
  <2> QED
    BY <1>2, <2>1, <2>2, <2>3 DEF QueueStep
<1>3. ASSUME NEW o \in Object, NEW T \in Request, Edit(o, T)
      PROVE  \A p \in Object : canonical'[p] >= canonical[p]
  BY <1>3, QueueAssumption DEF Edit, Bumped
<1>4. ASSUME NEW w \in Worker, EndStep(w)
      PROVE  /\ UNCHANGED canonical
             /\ \A j \in Job : status[j] = "absent" => status'[j] = "absent"
  <2>1. hand[w] \in Job => status[hand[w]] # "absent"
    BY NoJobAssumption DEF HandsHold
  <2>2. hand[w] \in Job
    BY <1>4, NoJobAssumption DEF EndStep, ProjectionComplete, ProjectionFail, ProjectionCrash, Complete,
       CompleteTooLate, Dispatched, Fail, FailTooLate, Crash, LockedWhileRunning
  <2>3. CASE Complete(w)
    BY <2>1, <2>2, <2>3 DEF Complete, worldVars
  <2>4. CASE Fail(w)
    BY <2>1, <2>2, <2>4 DEF Fail, worldVars
  <2>5. CASE CompleteTooLate(w) \/ FailTooLate(w) \/ Crash(w)
    BY <2>5, <1>1 DEF CompleteTooLate, FailTooLate, Crash, worldVars, rowVars
  <2> QED
    BY <1>4, <2>3, <2>4, <2>5 DEF EndStep, ProjectionComplete, ProjectionFail, ProjectionCrash
<1>5. ASSUME NEW w \in Worker, NEW t \in Thing,
             UpdateBelieved(w, t) \/ AdoptDiscovered(w, t) \/ CreateRemote(w, t)
      PROVE  UNCHANGED <<canonical, status>>
  BY <1>5 DEF UpdateBelieved, AdoptDiscovered, CreateRemote, Write, vars, worldVars, rowVars
<1>6. ASSUME NEW w \in Worker,
             BeginUpsert(w) \/ BeginFull(w) \/ LoadProducts(w) \/ Seed(w) \/ ProjectionDispatch(w)
      PROVE  UNCHANGED <<canonical, status>>
  BY <1>6 DEF BeginUpsert, BeginFull, LoadProducts, Seed, ProjectionDispatch, Dispatch,
              vars, worldVars, rowVars
<1>7. ASSUME NEW t \in Thing, RemoteDelete(t)
      PROVE  UNCHANGED <<canonical, status>>
  BY <1>7 DEF RemoteDelete, vars, worldVars, rowVars
<1>8. CASE UNCHANGED pvars
  BY <1>1, <1>8 DEF pvars, vars, worldVars, rowVars
<1>9. ASSUME UNCHANGED canonical
      PROVE  \A p \in Object : canonical'[p] >= canonical[p]
  BY <1>9, QueueAssumption
<1> HIDE DEF LeaseInv, TypeOK
<1>10. CASE ProjectionNext
  <2>1. CASE QueueStep /\ UNCHANGED projVars
    BY <2>1, <1>2, <1>3, <1>9 DEF RequestRun, worldVars
  <2>2. CASE \E w \in Worker : EndStep(w)
    BY <2>2, <1>4, <1>9
  <2>3. CASE \E w \in Worker, t \in Thing :
                UpdateBelieved(w, t) \/ AdoptDiscovered(w, t) \/ CreateRemote(w, t)
    BY <2>3, <1>5, <1>1
  <2>4. CASE \E w \in Worker :
             BeginUpsert(w) \/ BeginFull(w) \/ LoadProducts(w) \/ Seed(w) \/ ProjectionDispatch(w)
    BY <2>4, <1>6, <1>1
  <2>5. CASE \E t \in Thing : RemoteDelete(t)
    BY <2>5, <1>7, <1>1
  <2> QED
    BY <1>10, NextIsProjStep, <2>1, <2>2, <2>3, <2>4, <2>5 DEF ProjStep, EndStep
<1> QED
  BY <1>8, <1>10

LEMMA RowsAreKnownStep ==
  ASSUME LeaseInv, LeaseInv', RowsAreKnown, [ProjectionNext]_pvars
  PROVE  RowsAreKnown'
<1> SUFFICES ASSUME NEW j \in Job, status'[j] # "absent"
             PROVE  /\ j \in EditJob \cup ManualJob
                    /\ j \in EditJob => j.ver <= canonical'[j.agg]
  BY DEF RowsAreKnown
<1>1. j \in EditJob => /\ j.agg \in Object /\ j.ver \in Nat
                       /\ canonical[j.agg] \in Nat /\ canonical'[j.agg] \in Nat
  BY QueueAssumption DEF EditJob, LeaseInv, TypeOK
<1>2. j \in EditJob => canonical'[j.agg] >= canonical[j.agg]
  BY <1>1, QueueKeepsRows
<1>3. CASE status[j] # "absent"
  BY <1>1, <1>2, <1>3 DEF RowsAreKnown
<1>4. CASE status[j] = "absent"
  <2>1. ASSUME NEW o \in Object, NEW T \in Request, Edit(o, T)
        PROVE  /\ j \in EditJob \cup ManualJob
               /\ j \in EditJob => j.ver <= canonical'[j.agg]
    <3>1. j \in EditJob /\ j.agg = o /\ j.ver = Bumped(o)
      BY <2>1, <1>4, AddOnly DEF Edit
    <3>2. canonical'[o] = Bumped(o)
      BY <2>1 DEF Edit, LeaseInv, TypeOK
    <3> QED
      BY <1>1, <3>1, <3>2
  <2>2. ASSUME NEW k \in ManualJob, RequestRun(k)
        PROVE  /\ j \in EditJob \cup ManualJob
               /\ j \in EditJob => j.ver <= canonical'[j.agg]
    <3>1. j = k
      BY <2>2, <1>4, AddOnly DEF RequestRun
    <3>2. j \notin EditJob
      BY <3>1, QueueAssumption DEF EditJob, ManualJob
    <3> QED
      BY <3>1, <3>2
  <2> QED
    BY <1>4, <2>1, <2>2, QueueKeepsRows
<1> QED
  BY <1>3, <1>4

-----------------------------------------------------------------------------
(* The locks and drafts of a dispatcher.                                   *)

\* What the others do leaves v's itinerary alone as long as the records of the
\* things v has locked change only by deletion.
Apart(v) ==
    /\ tx'[v] = tx[v] /\ hand'[v] = hand[v]
    /\ \A t \in Thing : lock'[t] = v <=> lock[t] = v
    /\ \A t \in Thing : lock[t] = v =>
          content'[t] = content[t] /\ (t \in tampered' \/ live[t] \subseteq live'[t])
    /\ \A t \in Thing : peak'[t] >= peak[t]
    /\ tampered \subseteq tampered'

SessionInv(v) == Unbegun(v) /\ Itinerary(v) /\ Drafts(v)

\* Once it has begun, a dispatcher needs only things.
LEMMA NeedsAreThings ==
  ASSUME LeaseInv, RowsAreKnown, NEW w \in Worker, hand[w] # NoJob
  PROVE  Needs(w) \subseteq Thing
<1>1. CASE IsFull(w)
  BY <1>1, ThingFacts DEF Needs
<1>2. CASE ~IsFull(w)
  <2>1. hand[w].agg \in Object /\ VendorOf[hand[w].agg] \in Vendor
    BY <1>2, HandKinds, ThingFacts
  <2> QED
    BY <1>2, <2>1, ThingFacts DEF Needs
<1> QED
  BY <1>1, <1>2

\* A dispatcher that has begun holds a job.
LEMMA BegunHolds ==
  ASSUME LeaseInv, NEW w \in Worker, Unbegun(w), tx[w].stage # "start"
  PROVE  hand[w] # NoJob
  BY DEF LeaseInv, LockedWhileRunning, Unbegun

LEMMA Elsewhere ==
  ASSUME LeaseInv, LeaseInv', ProjectionTypeOK, ProjectionTypeOK', RowsAreKnown,
         [ProjectionNext]_pvars, NEW v \in Worker, Apart(v), SessionInv(v),
         phase'[v] = phase[v] \/ Unbegun(v)'
  PROVE  SessionInv(v)'
<1>1. Unbegun(v)'
  BY DEF Apart, SessionInv, Unbegun
<1>2. IsFull(v)' = IsFull(v) /\ Needs(v)' = Needs(v)
  BY DEF Apart, IsFull, Needs
<1>3. \A t : InTodo(v, t)' <=> InTodo(v, t)
  BY DEF Apart, InTodo
<1>4. Itinerary(v)'
  <2> SUFFICES ASSUME tx'[v].stage # "start" PROVE Itinerary(v)'
    BY DEF Itinerary
  <2>1. tx'[v] = tx[v] /\ hand'[v] = hand[v]
    BY DEF Apart
  <2>2. \A t \in Thing : lock'[t] = v <=> lock[t] = v
    BY DEF Apart
  <2>3. /\ tx[v].stage = "vendors" => IsFull(v) /\ tx[v].seen = [o \in Object |-> 0]
        /\ \A t \in Needs(v) : lock[t] = v \/ InTodo(v, t)
        /\ \A t \in Thing : lock[t] = v \/ InTodo(v, t) => t \in Needs(v)
        /\ \A t \in Thing : \A i \in 1..Len(tx[v].todo) : lock[t] = v => Before(t, tx[v].todo[i])
        /\ Ascending(tx[v].todo)
        /\ ~IsFull(v) => tx[v].seen[hand[v].agg] >= hand[v].ver
        /\ IsFull(v) /\ tx[v].stage = "run" => \A V \in Vendor : lock[V] = v
    BY <2>1 DEF SessionInv, Itinerary
  <2>4. /\ tx'[v].stage = "vendors" => IsFull(v)' /\ tx'[v].seen = [o \in Object |-> 0]
        /\ Ascending(tx'[v].todo)
        /\ ~IsFull(v)' => tx'[v].seen[hand'[v].agg] >= hand'[v].ver
    BY <1>2, <2>1, <2>3
  <2>5. \A t \in Thing : lock'[t] = v \/ InTodo(v, t)' => t \in Needs(v)'
    BY <1>2, <1>3, <2>2, <2>3
  <2> Needs(v) \subseteq Thing
    BY <2>1, BegunHolds, NeedsAreThings DEF SessionInv
  <2>6. \A t \in Needs(v)' : lock'[t] = v \/ InTodo(v, t)'
    BY <1>2, <1>3, <2>2, <2>3, NeedsAreThings
  <2>7. \A t \in Thing : \A i \in 1..Len(tx'[v].todo) : lock'[t] = v => Before(t, tx'[v].todo[i])
    BY <2>1, <2>2, <2>3
  <2>8. IsFull(v)' /\ tx'[v].stage = "run" => \A V \in Vendor : lock'[V] = v
    BY <1>2, <2>1, <2>2, <2>3, ThingFacts
  <2> QED
    BY <2>4, <2>5, <2>6, <2>7, <2>8 DEF Itinerary
<1>5. ASSUME NEW o \in Object
      PROVE  tx'[v].seen[o] <= canonical'[o]
  <2>1. tx[v].seen[o] \in Nat /\ canonical[o] \in Nat /\ canonical'[o] \in Nat
    BY QueueAssumption DEF ProjectionTypeOK, Session, LeaseInv, TypeOK
  <2> QED
    BY <2>1, QueueKeepsRows DEF Apart, SessionInv, Drafts
<1>6. ASSUME NEW t \in Thing
      PROVE  /\ tx'[v].draft[t] # 0 <=> lock'[t] = v
             /\ lock'[t] = v =>
                  /\ content'[t][tx'[v].draft[t]] = VersionSeen(v, t)'
                  /\ peak'[t] >= VersionSeen(v, t)'
                  /\ t \in tampered' \/ tx'[v].draft[t] \in live'[t]
  <2>1. VersionSeen(v, t)' = VersionSeen(v, t)
    BY DEF Apart, VersionSeen
  <2>2. peak[t] \in Nat /\ peak'[t] \in Nat /\ VersionSeen(v, t) \in Nat
    BY VersionSeenType, QueueAssumption DEF ProjectionTypeOK
  <2> QED
    BY <2>1, <2>2 DEF Apart, SessionInv, Drafts
<1>7. Drafts(v)'
  BY <1>5, <1>6 DEF Drafts
<1> QED
  BY <1>1, <1>4, <1>7 DEF SessionInv

\* A step that reads canonical rows, or only marks the session.
Reads(w) ==
    /\ tx'[w] \in Session /\ \A v \in Worker \ {w} : tx'[v] = tx[v]
    /\ UNCHANGED <<vars, remoteVars, stateVars, lock>>

LEMMA ReadsApart ==
  ASSUME ProjectionTypeOK, NEW w \in Worker, Reads(w), NEW v \in Worker \ {w}
  PROVE  Apart(v)
<1>1. \A t \in Thing : peak[t] \in Nat
  BY QueueAssumption DEF ProjectionTypeOK
<1> QED
  BY <1>1 DEF Reads, Apart, vars, workerVars, remoteVars

LEMMA SeedSession ==
  ASSUME LeaseInv, ProjectionTypeOK, NEW w \in Worker, Seed(w), SessionInv(w)
  PROVE  Reads(w) /\ SessionInv(w)'
<1>1. PICK x \in {"unknown", "new", "row"} :
          [tx[w] EXCEPT !.seeded = x] \in Session /\ tx' = [tx EXCEPT ![w] = [tx[w] EXCEPT !.seeded = x]]
  BY SeedEffect
<1>2. tx'[w] = [tx[w] EXCEPT !.seeded = x] /\ Reads(w)
  <2>1. tx'[w] = [tx[w] EXCEPT !.seeded = x] /\ \A v \in Worker \ {w} : tx'[v] = tx[v]
    BY <1>1, SessionChanges
  <2>2. UNCHANGED <<vars, remoteVars, stateVars, lock>>
    BY DEF Seed
  <2> QED
    BY <1>1, <2>1, <2>2 DEF Reads
<1>3. UNCHANGED <<vars, remoteVars, lock>> /\ tx[w].todo # <<>>
  BY DEF Seed
<1>4. /\ tx'[w].stage = tx[w].stage /\ tx'[w].todo = tx[w].todo
      /\ tx'[w].seen = tx[w].seen /\ tx'[w].draft = tx[w].draft
  BY <1>2 DEF ProjectionTypeOK, Session
<1>5. phase'[w] = phase[w] /\ hand'[w] = hand[w] /\ canonical' = canonical
  BY <1>3 DEF vars, workerVars, worldVars
<1>6. tx[w].stage # "start"
  BY <1>3 DEF SessionInv, Unbegun, Fresh
<1>7. Unbegun(w)'
  BY <1>3, <1>4, <1>5, <1>6 DEF SessionInv, Unbegun
<1>8. IsFull(w)' = IsFull(w) /\ Needs(w)' = Needs(w) /\ \A t : InTodo(w, t)' <=> InTodo(w, t)
  BY <1>4, <1>5 DEF IsFull, Needs, InTodo
<1>9. Itinerary(w)'
  BY <1>3, <1>4, <1>5, <1>8 DEF SessionInv, Itinerary
<1>10. Drafts(w)'
  BY <1>3, <1>4, <1>5 DEF SessionInv, Drafts, VersionSeen, remoteVars
<1> QED
  BY <1>2, <1>7, <1>9, <1>10 DEF SessionInv

\* A session that has not begun, with nothing locked.
LEMMA BlankSession ==
  ASSUME ProjectionTypeOK, NEW w \in Worker, tx[w] = Fresh, \A t \in Thing : lock[t] # w,
         phase[w] # "applied", LeaseInv
  PROVE  SessionInv(w)
<1>1. /\ tx[w].stage = "start" /\ tx[w].seen = [o \in Object |-> 0]
      /\ tx[w].draft = [t \in Thing |-> 0]
  BY DEF Fresh
<1>2. \A o \in Object : canonical[o] \in Nat
  BY QueueAssumption DEF LeaseInv, TypeOK
<1>3. Unbegun(w)
  BY <1>1 DEF Unbegun
<1>4. Itinerary(w)
  BY <1>1 DEF Itinerary
<1>5. Drafts(w)
  BY <1>1, <1>2 DEF Drafts
<1> QED
  BY <1>3, <1>4, <1>5 DEF SessionInv

LEMMA BlankSessionNext ==
  ASSUME ProjectionTypeOK', NEW w \in Worker, tx'[w] = Fresh, \A t \in Thing : lock'[t] # w,
         phase'[w] # "applied", LeaseInv'
  PROVE  SessionInv(w)'
<1>1. /\ tx'[w].stage = "start" /\ tx'[w].seen = [o \in Object |-> 0]
      /\ tx'[w].draft = [t \in Thing |-> 0]
  BY DEF Fresh
<1>2. \A o \in Object : canonical'[o] \in Nat
  BY QueueAssumption DEF LeaseInv, TypeOK
<1>3. Unbegun(w)'
  BY <1>1 DEF Unbegun
<1>4. Itinerary(w)'
  BY <1>1 DEF Itinerary
<1>5. Drafts(w)'
  BY <1>1, <1>2 DEF Drafts
<1> QED
  BY <1>3, <1>4, <1>5 DEF SessionInv

LEMMA BeginUpsertSession ==
  ASSUME LeaseInv, ProjectionTypeOK, RowsAreKnown, NEW w \in Worker, BeginUpsert(w),
         SessionInv(w)
  PROVE  Reads(w) /\ SessionInv(w)'
<1> DEFINE o == hand[w].agg
           V == VendorOf[o]
<1>1. hand[w] # NoJob /\ phase[w] = "dispatching" /\ ~IsFull(w) /\ tx[w].stage = "start"
  BY DEF BeginUpsert, Dispatching, LeaseInv, LockedWhileRunning
<1>2. o \in Object /\ V \in Vendor /\ hand[w].ver \in Nat /\ hand[w].ver <= canonical[o]
  BY <1>1, HandKinds, ThingFacts
<1>3. UNCHANGED <<vars, remoteVars, stateVars, lock>>
  BY DEF BeginUpsert
<1>4. phase'[w] = phase[w] /\ hand'[w] = hand[w] /\ canonical' = canonical
  BY <1>3 DEF vars, workerVars, worldVars
<1>5. tx[w] = Fresh /\ \A t \in Thing : lock[t] # w
  BY <1>1 DEF SessionInv, Unbegun
<1>6. /\ tx'[w].stage = "run" /\ tx'[w].seen = canonical /\ tx'[w].todo = <<V, o>>
      /\ tx'[w].draft = [t \in Thing |-> 0] /\ Reads(w)
  <2> DEFINE s == [tx[w] EXCEPT !.stage = "run", !.seen = canonical, !.todo = UpsertOrder(o)]
  <2>1. s \in Session /\ tx' = [tx EXCEPT ![w] = s]
    BY <1>1, BeginUpsertEffect
  <2>2. s.stage = "run" /\ s.seen = canonical /\ s.todo = <<V, o>> /\ s.draft = [t \in Thing |-> 0]
    BY <1>5 DEF Fresh, UpsertOrder
  <2> HIDE DEF s
  <2> QED
    BY <1>3, <2>1, <2>2, SessionChanges DEF Reads
<1>7. ~IsFull(w)' /\ Needs(w)' = {V, o}
  BY <1>1, <1>4 DEF IsFull, Needs
<1>8. \A t : InTodo(w, t)' <=> t \in {V, o}
  BY <1>6 DEF InTodo
<1>9. Ascending(tx'[w].todo)
  BY <1>2, <1>6 DEF Ascending, Before
<1>10. \A t \in Thing : lock'[t] # w
  BY <1>3, <1>5
<1>11. Itinerary(w)'
  BY <1>2, <1>4, <1>6, <1>7, <1>8, <1>9, <1>10 DEF Itinerary
<1>12. Drafts(w)'
  <2>1. \A p \in Object : canonical[p] \in Nat
    BY QueueAssumption DEF LeaseInv, TypeOK
  <2> QED
    BY <1>4, <1>6, <1>10, <2>1 DEF Drafts
<1> QED
  BY <1>1, <1>4, <1>6, <1>11, <1>12 DEF SessionInv, Unbegun

LEMMA BeginFullSession ==
  ASSUME LeaseInv, ProjectionTypeOK, NEW w \in Worker, BeginFull(w), SessionInv(w)
  PROVE  Reads(w) /\ SessionInv(w)'
<1>1. phase[w] = "dispatching" /\ IsFull(w) /\ tx[w].stage = "start"
  BY DEF BeginFull, Dispatching
<1>3. UNCHANGED <<vars, remoteVars, stateVars, lock>>
  BY DEF BeginFull
<1>4. phase'[w] = phase[w] /\ hand'[w] = hand[w] /\ canonical' = canonical
  BY <1>3 DEF vars, workerVars, worldVars
<1>5. tx[w] = Fresh /\ \A t \in Thing : lock[t] # w
  BY <1>1 DEF SessionInv, Unbegun
<1>6. /\ tx'[w].stage = "vendors" /\ tx'[w].seen = [o \in Object |-> 0]
      /\ tx'[w].todo = VendorOrder
      /\ tx'[w].draft = [t \in Thing |-> 0] /\ Reads(w)
  <2> DEFINE s == [tx[w] EXCEPT !.stage = "vendors", !.listed = Listing, !.todo = VendorOrder]
  <2>1. s \in Session /\ tx' = [tx EXCEPT ![w] = s]
    BY BeginFullEffect
  <2>2. /\ s.stage = "vendors" /\ s.seen = [o \in Object |-> 0] /\ s.todo = VendorOrder
        /\ s.draft = [t \in Thing |-> 0]
    BY <1>5 DEF Fresh
  <2> HIDE DEF s
  <2> QED
    BY <1>3, <2>1, <2>2, SessionChanges DEF Reads
<1>7. IsFull(w)' /\ Needs(w)' = Vendor
  BY <1>1, <1>4, <1>6 DEF IsFull, Needs
<1>8. \A t : InTodo(w, t)' <=> t \in Vendor
  BY <1>6, OrderFacts, ProjectionAssumption DEF InTodo, Enumerates
<1>9. Ascending(tx'[w].todo)
  BY <1>6 DEF Ascending, Before
<1>10. \A t \in Thing : lock'[t] # w
  BY <1>3, <1>5
<1>11. Itinerary(w)'
  BY <1>6, <1>7, <1>8, <1>9, <1>10 DEF Itinerary
<1>12. Drafts(w)'
  <2>1. \A p \in Object : canonical[p] \in Nat
    BY QueueAssumption DEF LeaseInv, TypeOK
  <2> QED
    BY <1>4, <1>6, <1>10, <2>1 DEF Drafts
<1> QED
  BY <1>1, <1>4, <1>6, <1>11, <1>12 DEF SessionInv, Unbegun

LEMMA LoadProductsSession ==
  ASSUME LeaseInv, ProjectionTypeOK, NEW w \in Worker, LoadProducts(w), SessionInv(w)
  PROVE  Reads(w) /\ SessionInv(w)'
<1>1. phase[w] = "dispatching" /\ tx[w].stage = "vendors" /\ tx[w].todo = <<>>
  BY DEF LoadProducts, Dispatching
<1>2. IsFull(w) /\ tx[w].seen = [o \in Object |-> 0] /\ Needs(w) = Vendor
  BY <1>1 DEF SessionInv, Itinerary, Needs
<1>3. UNCHANGED <<vars, remoteVars, stateVars, lock>>
  BY DEF LoadProducts
<1>4. phase'[w] = phase[w] /\ hand'[w] = hand[w] /\ canonical' = canonical
  BY <1>3 DEF vars, workerVars, worldVars
<1>5. \A t \in Thing : lock[t] = w <=> t \in Vendor
  <2>1. \A t : ~InTodo(w, t)
    BY <1>1 DEF InTodo
  <2> QED
    BY <1>1, <1>2, <2>1, ThingFacts DEF SessionInv, Itinerary
<1>6. /\ tx'[w].stage = "run" /\ tx'[w].seen = canonical /\ tx'[w].todo = Existing
      /\ tx'[w].draft = tx[w].draft /\ Reads(w)
  <2> DEFINE s == [tx[w] EXCEPT !.stage = "run", !.seen = canonical, !.todo = Existing]
  <2>1. s \in Session /\ tx' = [tx EXCEPT ![w] = s]
    BY LoadProductsEffect
  <2>2. /\ s.stage = "run" /\ s.seen = canonical /\ s.todo = Existing /\ s.draft = tx[w].draft
    BY DEF ProjectionTypeOK, Session
  <2> HIDE DEF s
  <2> QED
    BY <1>3, <2>1, <2>2, SessionChanges DEF Reads
<1> DEFINE E == Existing
<1>7. IsFull(w)' /\ Needs(w)' = Vendor \cup {o \in Object : canonical[o] > 0}
  BY <1>2, <1>4, <1>6 DEF IsFull, Needs
<1>8. /\ E \in Seq(Object) /\ Ascending(E)
      /\ \A t : (\E i \in 1..Len(E) : E[i] = t) <=> (t \in Object /\ canonical[t] > 0)
  <2>1. ListedUpTo(E, Len(IdOrder))
    BY ExistingFacts
  <2>2. \A i \in 1..Len(E) : E[i] \in Object /\ canonical[E[i]] > 0
    BY <2>1, ElementOfSeq DEF ListedUpTo
  <2>3. \A o \in Object : \E k \in 1..Len(IdOrder) : IdOrder[k] = o
    BY ProjectionAssumption DEF Enumerates
  <2> HIDE DEF E
  <2> QED
    BY <2>1, <2>2, <2>3 DEF ListedUpTo
<1>9. tx'[w].todo = E
  BY <1>6
<1> HIDE DEF E
<1>10. \A t : InTodo(w, t)' <=> t \in Object /\ canonical[t] > 0
  BY <1>8, <1>9 DEF InTodo
<1>11. \A t \in Thing : lock'[t] = w <=> t \in Vendor
  BY <1>3, <1>5
<1>12. \A t \in Thing : \A i \in 1..Len(tx'[w].todo) : lock'[t] = w => Before(t, tx'[w].todo[i])
  <2>1. \A i \in 1..Len(E) : E[i] \in Object
    BY <1>8, ElementOfSeq
  <2> QED
    BY <1>9, <1>11, <2>1 DEF Before
<1>13. Itinerary(w)'
  <2>1. \A t \in Needs(w)' : lock'[t] = w \/ InTodo(w, t)'
    BY <1>7, <1>10, <1>11, ThingFacts
  <2>2. \A t \in Thing : lock'[t] = w \/ InTodo(w, t)' => t \in Needs(w)'
    BY <1>7, <1>10, <1>11
  <2> QED
    BY <1>6, <1>7, <1>8, <1>9, <1>11, <1>12, <2>1, <2>2, ThingFacts DEF Itinerary
<1>14. Drafts(w)'
  <2>1. \A p \in Object : canonical[p] \in Nat
    BY QueueAssumption DEF LeaseInv, TypeOK
  <2>2. \A t \in Thing : lock[t] = w => VersionSeen(w, t)' = VersionSeen(w, t)
    BY <1>5, ThingFacts DEF VersionSeen
  <2>3. UNCHANGED <<content, peak, tampered, live>>
    BY <1>3 DEF remoteVars
  <2> QED
    BY <1>3, <1>4, <1>6, <2>1, <2>2, <2>3 DEF Drafts, SessionInv
<1> QED
  BY <1>1, <1>4, <1>6, <1>13, <1>14 DEF SessionInv, Unbegun

\* The next thing t is locked and shown what the session read.
LEMMA WroteSession ==
  ASSUME LeaseInv, ProjectionTypeOK, RowsAreKnown, NEW w \in Worker, NEW t \in Thing,
         NEW c \in Copy, Wrote(w, t, c), SessionInv(w)
  PROVE  SessionInv(w)'
<1> DEFINE todo == tx[w].todo
<1>1. /\ tx[w].todo # <<>> /\ t = todo[1] /\ phase[w] = "dispatching"
      /\ lock[t] \in {Nobody, w} /\ lock' = [lock EXCEPT ![t] = w]
  BY WriteEffect
<1>2. UNCHANGED <<vars, stateVars, tampered>>
  BY DEF Wrote, Write
<1>3. phase'[w] = phase[w] /\ hand'[w] = hand[w] /\ canonical' = canonical
  BY <1>2 DEF vars, workerVars, worldVars
<1>4. /\ tx'[w].stage = tx[w].stage /\ tx'[w].seen = tx[w].seen
      /\ tx'[w].todo = Tail(todo)
      /\ tx'[w].draft = [tx[w].draft EXCEPT ![t] = c]
  BY WriteEffect
<1>5. tx[w].stage # "start"
  BY <1>1 DEF SessionInv, Unbegun, Fresh
<1>6. IsFull(w)' = IsFull(w) /\ Needs(w)' = Needs(w)
  BY <1>3, <1>4 DEF IsFull, Needs
<1>7. Needs(w) \subseteq Thing
  BY <1>5, BegunHolds, NeedsAreThings DEF SessionInv
<1>8. /\ Len(todo) \in Nat /\ Len(todo) > 0 /\ Len(Tail(todo)) = Len(todo) - 1
      /\ \A i \in 1..Len(Tail(todo)) : Tail(todo)[i] = todo[i + 1]
  BY <1>1, TodoFacts
<1>9. \A x \in Thing : lock'[x] = w <=> lock[x] = w \/ x = t
  BY <1>1 DEF ProjectionTypeOK
<1>10. \A x \in Thing : InTodo(w, x)' => InTodo(w, x)
  <2> SUFFICES ASSUME NEW x \in Thing, NEW i \in 1..Len(Tail(todo)), Tail(todo)[i] = x
               PROVE  \E j \in 1..Len(todo) : todo[j] = x
    BY <1>4 DEF InTodo
  <2>1. i + 1 \in 1..Len(todo) /\ todo[i + 1] = x
    BY <1>8
  <2> QED
    BY <2>1
<1>11. \A x \in Thing : InTodo(w, x) => InTodo(w, x)' \/ x = t
  <2> SUFFICES ASSUME NEW x \in Thing, NEW i \in 1..Len(todo), todo[i] = x, x # t
               PROVE  \E j \in 1..Len(Tail(todo)) : Tail(todo)[j] = x
    BY <1>4 DEF InTodo
  <2>1. i - 1 \in 1..Len(Tail(todo)) /\ (i - 1) + 1 = i
    BY <1>1, <1>8
  <2> QED
    BY <1>8, <2>1
<1>12. /\ \A x \in Needs(w) : lock[x] = w \/ InTodo(w, x)
       /\ \A x \in Thing : lock[x] = w \/ InTodo(w, x) => x \in Needs(w)
       /\ \A x \in Thing : \A i \in 1..Len(todo) : lock[x] = w => Before(x, todo[i])
       /\ Ascending(todo)
  BY <1>5 DEF SessionInv, Itinerary
<1>13. InTodo(w, t)
  BY <1>1, <1>8 DEF InTodo
<1>14. ASSUME NEW x \in Thing, NEW i \in 1..Len(tx'[w].todo), lock'[x] = w
       PROVE  Before(x, tx'[w].todo[i])
  <2>1. i + 1 \in 1..Len(todo) /\ tx'[w].todo[i] = todo[i + 1] /\ 1 \in 1..Len(todo) /\ 1 < i + 1
    BY <1>4, <1>8
  <2>2. CASE lock[x] = w
    BY <1>12, <2>1, <2>2
  <2>3. CASE x = t
    BY <1>1, <1>12, <2>1, <2>3 DEF Ascending
  <2> QED
    BY <1>9, <1>14, <2>2, <2>3
<1>15. Ascending(tx'[w].todo)
  <2> SUFFICES ASSUME NEW i \in 1..Len(Tail(todo)), NEW j \in 1..Len(Tail(todo)), i < j
               PROVE  Before(Tail(todo)[i], Tail(todo)[j])
    BY <1>4 DEF Ascending
  <2>1. i + 1 \in 1..Len(todo) /\ j + 1 \in 1..Len(todo) /\ i + 1 < j + 1
    BY <1>8
  <2> QED
    BY <1>8, <1>12, <2>1 DEF Ascending
<1>16. Itinerary(w)'
  <2>1. \A x \in Needs(w)' : lock'[x] = w \/ InTodo(w, x)'
    BY <1>6, <1>7, <1>9, <1>11, <1>12
  <2>2. \A x \in Thing : lock'[x] = w \/ InTodo(w, x)' => x \in Needs(w)'
    BY <1>6, <1>9, <1>10, <1>12, <1>13
  <2>3. /\ tx'[w].stage = "vendors" => IsFull(w)' /\ tx'[w].seen = [o \in Object |-> 0]
        /\ ~IsFull(w)' => tx'[w].seen[hand'[w].agg] >= hand'[w].ver
        /\ IsFull(w)' /\ tx'[w].stage = "run" => \A V \in Vendor : lock'[V] = w
    BY <1>3, <1>4, <1>5, <1>6, <1>9, ThingFacts DEF SessionInv, Itinerary
  <2> QED
    BY <1>14, <1>15, <2>1, <2>2, <2>3 DEF Itinerary
<1>17. Drafts(w)'
  <2>1. \A o \in Object : tx'[w].seen[o] <= canonical'[o]
    BY <1>3, <1>4 DEF SessionInv, Drafts
  <2>2. \A x \in Thing : VersionSeen(w, x)' = VersionSeen(w, x)
    BY <1>4 DEF VersionSeen
  <2>3. ASSUME NEW x \in Thing
        PROVE  /\ tx'[w].draft[x] # 0 <=> lock'[x] = w
               /\ lock'[x] = w =>
                    /\ content'[x][tx'[w].draft[x]] = VersionSeen(w, x)'
                    /\ peak'[x] >= VersionSeen(w, x)'
                    /\ x \in tampered' \/ tx'[w].draft[x] \in live'[x]
    <3>1. CASE x = t
      <4>1. tx'[w].draft[t] = c /\ c # 0 /\ c \in live'[t]
        BY <1>4, ThingFacts DEF ProjectionTypeOK, Session, Copy, Wrote
      <4>2. content'[t][c] = VersionSeen(w, t) /\ peak'[t] >= VersionSeen(w, t)
        BY WriteRecords
      <4> QED
        BY <1>9, <2>2, <3>1, <4>1, <4>2
    <3>2. CASE x # t
      <4>1. tx'[w].draft[x] = tx[w].draft[x] /\ tx[w].draft[x] \in 0..MaxCopies
        BY <1>4, <3>2 DEF ProjectionTypeOK, Session
      <4>2. \A d \in Copy : content'[x][d] = content[x][d]
        BY <3>2, WriteRecords
      <4>3. peak'[x] >= peak[x] /\ peak[x] \in Nat /\ peak'[x] \in Nat
            /\ VersionSeen(w, x) \in Nat
        BY WriteRecords, VersionSeenType, QueueAssumption DEF ProjectionTypeOK
      <4>4. live[x] \subseteq live'[x] /\ tampered' = tampered
        BY <1>2 DEF Wrote
      <4>5. /\ tx[w].draft[x] # 0 <=> lock[x] = w
            /\ lock[x] = w =>
                 /\ content[x][tx[w].draft[x]] = VersionSeen(w, x)
                 /\ peak[x] >= VersionSeen(w, x)
                 /\ x \in tampered \/ tx[w].draft[x] \in live[x]
        BY DEF SessionInv, Drafts
      <4>6. tx[w].draft[x] # 0 => tx[w].draft[x] \in Copy
        BY <4>1, ThingFacts DEF Copy
      <4> QED
        BY <1>9, <2>2, <3>2, <4>1, <4>2, <4>3, <4>4, <4>5, <4>6
    <3> QED
      BY <3>1, <3>2
  <2> QED
    BY <2>1, <2>3 DEF Drafts
<1>18. Unbegun(w)'
  BY <1>1, <1>3, <1>4, <1>5 DEF Unbegun
<1> QED
  BY <1>16, <1>17, <1>18 DEF SessionInv

LEMMA WroteApart ==
  ASSUME ProjectionTypeOK, ProjectionTypeOK', NEW w \in Worker, NEW t \in Thing, NEW c \in Copy,
         Wrote(w, t, c), NEW v \in Worker \ {w}
  PROVE  Apart(v) /\ phase'[v] = phase[v]
<1>1. UNCHANGED <<vars, tampered>>
  BY DEF Wrote, Write
<1>2. /\ lock[t] \in {Nobody, w} /\ lock' = [lock EXCEPT ![t] = w]
      /\ tx'[v] = tx[v]
  <2>1. lock[t] \in {Nobody, w} /\ lock' = [lock EXCEPT ![t] = w]
    BY WriteEffect
  <2>2. \A u \in Worker \ {w} : tx'[u] = tx[u]
    BY WriteEffect
  <2> QED
    BY <2>1, <2>2
<1>8. /\ \A x \in Thing, d \in Copy : x # t => content'[x][d] = content[x][d]
      /\ \A x \in Thing : peak'[x] >= peak[x]
  BY WriteRecords
<1>3. lock[t] # v /\ lock'[t] # v
  BY <1>2, ThingFacts DEF ProjectionTypeOK
<1>4. \A x \in Thing : lock'[x] = v <=> lock[x] = v
  BY <1>2, <1>3 DEF ProjectionTypeOK
<1>5. ASSUME NEW x \in Thing, x # t PROVE content'[x] = content[x]
  <2>1. content[x] \in [Copy -> 0..MaxVersion] /\ content'[x] \in [Copy -> 0..MaxVersion]
    BY DEF ProjectionTypeOK
  <2> QED
    BY <1>8, <1>5, <2>1
<1>6. phase' = phase /\ hand' = hand
  BY <1>1 DEF vars, workerVars
<1>7. \A x \in Thing : live[x] \subseteq live'[x]
  BY DEF Wrote
<1> QED
  BY <1>1, <1>2, <1>3, <1>4, <1>5, <1>6, <1>7, <1>8 DEF Apart

LEMMA EndApart ==
  ASSUME LeaseInv, ProjectionTypeOK, NEW w \in Worker, EndStep(w), NEW v \in Worker \ {w}
  PROVE  Apart(v) /\ phase'[v] = phase[v]
<1>1. /\ tx' = [tx EXCEPT ![w] = Fresh]
      /\ lock' = [t \in Thing |-> IF lock[t] = w THEN Nobody ELSE lock[t]]
      /\ UNCHANGED <<live, content, peak, tampered>>
      /\ hand' = [hand EXCEPT ![w] = NoJob] /\ phase' = [phase EXCEPT ![w] = "idle"]
  BY EndEffect
<1>2. tx'[v] = tx[v] /\ hand'[v] = hand[v] /\ phase'[v] = phase[v]
  BY <1>1 DEF ProjectionTypeOK, LeaseInv, TypeOK
<1>3. \A t \in Thing : lock'[t] = v <=> lock[t] = v
  BY <1>1, ThingFacts
<1>4. \A t \in Thing : peak[t] \in Nat
  BY QueueAssumption DEF ProjectionTypeOK
<1> QED
  BY <1>1, <1>2, <1>3, <1>4 DEF Apart

LEMMA SessionStep ==
  ASSUME LeaseInv, LeaseInv', ProjectionTypeOK, ProjectionTypeOK', RowsAreKnown,
         \A w \in Worker : SessionInv(w), [ProjectionNext]_pvars
  PROVE  \A v \in Worker : SessionInv(v)'
<1> SUFFICES ASSUME NEW v \in Worker PROVE SessionInv(v)'
  OBVIOUS
<1>0. \A t \in Thing : peak[t] \in Nat
  BY QueueAssumption DEF ProjectionTypeOK
<1>1. ASSUME UNCHANGED projVars, hand'[v] = hand[v], phase'[v] = phase[v]
      PROVE  SessionInv(v)'
  <2>1. Apart(v)
    BY <1>0, <1>1 DEF projVars, remoteVars, Apart
  <2> QED
    BY <1>1, <2>1, Elsewhere
<1>2. CASE UNCHANGED pvars
  BY <1>1, <1>2 DEF pvars, vars, workerVars
<1>3. CASE QueueStep /\ UNCHANGED projVars
  <2>1. ASSUME NEW w \in Worker, NEW j \in Job, Claim(w, j)
        PROVE  SessionInv(v)'
    <3>1. CASE v = w
      <4>1. hand[w] = NoJob /\ phase[w] = "idle" /\ phase'[w] = "dispatching"
        BY <2>1 DEF Claim, LeaseInv, TypeOK, LockedWhileRunning
      <4>2. tx[w] = Fresh /\ \A t \in Thing : lock[t] # w
        BY <4>1 DEF SessionInv, Unbegun
      <4> QED
        BY <1>3, <3>1, <4>1, <4>2, BlankSessionNext DEF projVars
    <3>2. CASE v # w
      BY <1>1, <1>3, <2>1, <3>2 DEF Claim, LeaseInv, TypeOK
    <3> QED
      BY <3>1, <3>2
  <2>2. ASSUME UNCHANGED workerVars
        PROVE  SessionInv(v)'
    BY <1>1, <1>3, <2>2 DEF workerVars
  <2> QED
    BY <1>3, <2>1, <2>2 DEF QueueStep, Edit, RequestRun, Retry, BecomeDue, LapseAbandoned,
                            LapseSlow, LapseRow
<1>4. ASSUME NEW w \in Worker, Reads(w), SessionInv(w)'
      PROVE  SessionInv(v)'
  <2>1. CASE v # w
    <3>1. Apart(v) /\ phase'[v] = phase[v]
      BY <1>4, <2>1, ReadsApart DEF Reads, vars, workerVars
    <3> QED
      BY <3>1, Elsewhere
  <2> QED
    BY <1>4, <2>1
<1>5. ASSUME NEW w \in Worker, BeginUpsert(w) \/ BeginFull(w) \/ LoadProducts(w) \/ Seed(w)
      PROVE  SessionInv(v)'
  BY <1>4, <1>5, BeginUpsertSession, BeginFullSession, LoadProductsSession, SeedSession
<1>6. ASSUME NEW w \in Worker, NEW t \in Thing,
             UpdateBelieved(w, t) \/ AdoptDiscovered(w, t) \/ CreateRemote(w, t)
      PROVE  SessionInv(v)'
  <2>1. PICK c \in Copy : Wrote(w, t, c)
    BY <1>6, ProjectionWrites
  <2>2. CASE v = w
    BY <2>1, <2>2, WroteSession
  <2>3. CASE v # w
    BY <2>1, <2>3, WroteApart, Elsewhere
  <2> QED
    BY <2>2, <2>3
<1>7. ASSUME NEW w \in Worker, ProjectionDispatch(w)
      PROVE  SessionInv(v)'
  <2>1. /\ UNCHANGED projVars /\ hand' = hand /\ tx[w].stage = "run" /\ tx[w].todo = <<>>
        /\ phase' = [phase EXCEPT ![w] = "applied"]
    BY <1>7 DEF ProjectionDispatch, Dispatch
  <2>2. CASE v = w
    <3>1. phase'[v] = "applied"
      BY <2>1, <2>2 DEF LeaseInv, TypeOK
    <3>2. Unbegun(v)'
      BY <2>1, <2>2, <3>1 DEF Unbegun, projVars
    <3>3. Apart(v)
      BY <1>0, <2>1 DEF projVars, remoteVars, Apart
    <3> QED
      BY <3>2, <3>3, Elsewhere
  <2>3. CASE v # w
    BY <1>1, <2>1, <2>3 DEF LeaseInv, TypeOK
  <2> QED
    BY <2>2, <2>3
<1>8. ASSUME NEW w \in Worker, EndStep(w)
      PROVE  SessionInv(v)'
  <2>1. CASE v = w
    <3>1. /\ tx' = [tx EXCEPT ![w] = Fresh] /\ phase' = [phase EXCEPT ![w] = "idle"]
          /\ lock' = [t \in Thing |-> IF lock[t] = w THEN Nobody ELSE lock[t]]
      BY <1>8, EndEffect
    <3>2. tx'[w] = Fresh /\ phase'[w] = "idle" /\ \A t \in Thing : lock'[t] # w
      BY <3>1, ThingFacts DEF ProjectionTypeOK, LeaseInv, TypeOK
    <3> QED
      BY <2>1, <3>2, BlankSessionNext
  <2>2. CASE v # w
    BY <1>8, <2>2, EndApart, Elsewhere
  <2> QED
    BY <2>1, <2>2
<1>9. ASSUME NEW t \in Thing, RemoteDelete(t)
      PROVE  SessionInv(v)'
  <2>1. /\ UNCHANGED <<vars, content, peak, lock, tx>> /\ tampered' = tampered \cup {t}
        /\ \A x \in Thing : x # t => live'[x] = live[x]
    BY <1>9 DEF RemoteDelete, ProjectionTypeOK
  <2>2. Apart(v)
    BY <1>0, <2>1 DEF Apart, vars, workerVars
  <2> QED
    BY <2>1, <2>2, Elsewhere DEF vars, workerVars
<1> QED
  BY NextIsProjStep, <1>2, <1>3, <1>5, <1>6, <1>7, <1>8, <1>9 DEF ProjStep, EndStep

-----------------------------------------------------------------------------
(* What becomes of a row and of its records.                               *)

\* Apart from a completion, a row is queued, moves among the states in which it
\* is owed or has failed, or stays.
Moves(j) ==
    \/ status'[j] = status[j]
    \/ status[j] = "absent" /\ status'[j] = "PENDING"
    \/ /\ Active(j) \/ status[j] = "DEAD"
       /\ status'[j] \in {"PENDING", "RUNNING", "DEAD"}

LEMMA StatusMoves ==
  ASSUME LeaseInv, [ProjectionNext]_pvars, NEW j \in Job,
         ~\E w \in Worker : ProjectionComplete(w) /\ Complete(w)
  PROVE  Moves(j)
<1> USE DEF LeaseInv, TypeOK, Active, Moves
<1>1. ASSUME NEW o \in Object, NEW T \in Request, Edit(o, T) PROVE Moves(j)
  BY <1>1, AddOnly DEF Edit
<1>2. ASSUME NEW k \in ManualJob, RequestRun(k) PROVE Moves(j)
  BY <1>2, AddOnly DEF RequestRun
<1>3. ASSUME NEW w \in Worker, NEW k \in Job, Claim(w, k) PROVE Moves(j)
  BY <1>3 DEF Claim, Claimable
<1>4. ASSUME NEW k \in Job, Retry(k) PROVE Moves(j)
  BY <1>4 DEF Retry
<1>5. ASSUME NEW w \in Worker, Fail(w) PROVE Moves(j)
  BY <1>5, NoJobAssumption DEF Fail, Owns
<1>6. ASSUME UNCHANGED status PROVE Moves(j)
  BY <1>6
<1> HIDE DEF LeaseInv, TypeOK, Active, Moves
<1>7. CASE QueueStep /\ UNCHANGED projVars
  BY <1>1, <1>2, <1>3, <1>4, <1>6, <1>7
     DEF QueueStep, BecomeDue, LapseAbandoned, LapseSlow, LapseRow
<1>8. ASSUME NEW w \in Worker, EndStep(w) PROVE Moves(j)
  BY <1>5, <1>6, <1>8 DEF EndStep, ProjectionComplete, ProjectionFail, ProjectionCrash,
                          CompleteTooLate, FailTooLate, Crash, rowVars
<1>9. ASSUME NEW w \in Worker, NEW t \in Thing,
             UpdateBelieved(w, t) \/ AdoptDiscovered(w, t) \/ CreateRemote(w, t)
      PROVE  Moves(j)
  BY <1>6, <1>9 DEF UpdateBelieved, AdoptDiscovered, CreateRemote, Write, vars, rowVars
<1>10. ASSUME NEW w \in Worker,
              BeginUpsert(w) \/ BeginFull(w) \/ LoadProducts(w) \/ Seed(w) \/ ProjectionDispatch(w)
       PROVE  Moves(j)
  BY <1>6, <1>10 DEF BeginUpsert, BeginFull, LoadProducts, Seed, ProjectionDispatch, Dispatch,
                     vars, rowVars
<1>11. ASSUME NEW t \in Thing, RemoteDelete(t) PROVE Moves(j)
  BY <1>6, <1>11 DEF RemoteDelete, vars, rowVars
<1>12. CASE UNCHANGED pvars
  BY <1>6, <1>12 DEF pvars, vars, rowVars
<1>13. CASE ProjectionNext
  <2>1. CASE \E w \in Worker : EndStep(w)
    BY <1>8, <2>1
  <2>2. CASE \E w \in Worker, t \in Thing :
                UpdateBelieved(w, t) \/ AdoptDiscovered(w, t) \/ CreateRemote(w, t)
    BY <1>9, <2>2
  <2>3. CASE \E w \in Worker :
             BeginUpsert(w) \/ BeginFull(w) \/ LoadProducts(w) \/ Seed(w) \/ ProjectionDispatch(w)
    BY <1>10, <2>3
  <2> QED
    BY <1>7, <1>11, <1>13, NextIsProjStep, <2>1, <2>2, <2>3 DEF ProjStep, EndStep
<1> QED
  BY <1>12, <1>13

\* A completion settles its own row and writes off what failed before it.
LEMMA CompletionMoves ==
  ASSUME LeaseInv, NEW w \in Worker, ProjectionComplete(w), Complete(w), NEW j \in Job
  PROVE  /\ hand[w] \in Job /\ phase[w] = "applied"
         /\ j = hand[w] => status'[j] = "COMPLETED"
         /\ j # hand[w] => \/ status'[j] = status[j]
                           \/ /\ status[j] = "DEAD" /\ status'[j] = "SUPERSEDED"
                              /\ Retires(hand[w], j)
         /\ status[hand[w]] = "RUNNING"
<1>1. hand[w] \in Job /\ phase[w] = "applied" /\ status[hand[w]] = "RUNNING"
  BY DEF Complete, Dispatched, Owns, LeaseInv, TypeOK, LockedWhileRunning
<1> QED
  BY <1>1 DEF Complete

\* Rows are never forgotten, and a delivered row stays delivered.
LEMMA RowsLast ==
  ASSUME LeaseInv, [ProjectionNext]_pvars, NEW j \in Job
  PROVE  /\ status[j] # "absent" => status'[j] # "absent"
         /\ status[j] = "COMPLETED" => status'[j] = "COMPLETED"
<1>1. CASE \E w \in Worker : ProjectionComplete(w) /\ Complete(w)
  BY <1>1, CompletionMoves
<1>2. CASE ~\E w \in Worker : ProjectionComplete(w) /\ Complete(w)
  BY <1>2, StatusMoves DEF Active, Moves
<1> QED
  BY <1>1, <1>2

\* A completed handler has locked, and written, everything its job needs.
LEMMA AppliedIsThorough ==
  ASSUME LeaseInv, ProjectionTypeOK, RowsAreKnown, NEW w \in Worker, SessionInv(w),
         phase[w] = "applied"
  PROVE  /\ hand[w] # NoJob /\ tx[w].stage = "run" /\ \A t \in Needs(w) : lock[t] = w
         /\ \A t \in Thing : tx[w].draft[t] # 0 <=> t \in Needs(w)
<1>1. hand[w] # NoJob
  BY DEF LeaseInv, LockedWhileRunning
<1>2. tx[w].stage = "run" /\ tx[w].todo = <<>>
  BY DEF SessionInv, Unbegun
<1>3. \A t : ~InTodo(w, t)
  BY <1>2 DEF InTodo
<1>4. Needs(w) \subseteq Thing
  BY <1>1, NeedsAreThings
<1> QED
  BY <1>1, <1>2, <1>3, <1>4 DEF SessionInv, Itinerary, Drafts

\* While no handler outlives its lease, everybody works on a row of his own.
LEMMA HandsOwnStep ==
  ASSUME LeaseInv, LeaseInv', HandsOwn, [Next]_vars
  PROVE  HandsOwn'
<1> SUFFICES ASSUME overruns' = 0, NEW w \in Worker, hand'[w] # NoJob
             PROVE  /\ status'[hand'[w]] = "RUNNING" /\ lockedBy'[hand'[w]] = w
                    /\ ~lapsed'[hand'[w]]
  BY DEF HandsOwn
<1> USE DEF LeaseInv, TypeOK
<1> DEFINE Own == /\ hand[w] # NoJob
                  /\ status[hand[w]] = "RUNNING" /\ lockedBy[hand[w]] = w /\ ~lapsed[hand[w]]
<1>0. overruns \in Nat /\ (overruns = 0 /\ hand[w] # NoJob => Own) /\ Nobody \notin Worker
      /\ (hand[w] # NoJob => hand[w] \in Job)
  BY QueueAssumption DEF HandsOwn
<1>1. ASSUME UNCHANGED <<rowVars, hand, overruns>>
      PROVE  status'[hand'[w]] = "RUNNING" /\ lockedBy'[hand'[w]] = w /\ ~lapsed'[hand'[w]]
  BY <1>0, <1>1 DEF rowVars
<1>2. ASSUME NEW S, AddOutboxJobs(S), UNCHANGED <<hand, overruns>>
      PROVE  status'[hand'[w]] = "RUNNING" /\ lockedBy'[hand'[w]] = w /\ ~lapsed'[hand'[w]]
  BY <1>0, <1>2 DEF AddOutboxJobs
<1>3. ASSUME NEW v \in Worker, Release(v), UNCHANGED overruns,
             \A j \in Job : lockedBy[j] = w /\ v # w => /\ status'[j] = status[j]
                                                        /\ lockedBy'[j] = lockedBy[j]
                                                        /\ lapsed'[j] = lapsed[j]
      PROVE  status'[hand'[w]] = "RUNNING" /\ lockedBy'[hand'[w]] = w /\ ~lapsed'[hand'[w]]
  <2>1. v # w /\ hand'[w] = hand[w]
    BY <1>3 DEF Release
  <2> QED
    BY <1>0, <1>3, <2>1
<1>4. ASSUME NEW v \in Worker, NEW j \in Job, Claim(v, j)
      PROVE  status'[hand'[w]] = "RUNNING" /\ lockedBy'[hand'[w]] = w /\ ~lapsed'[hand'[w]]
  <2>1. CASE v = w
    BY <1>4, <2>1 DEF Claim
  <2>2. CASE v # w
    <3>1. hand'[w] = hand[w] /\ Own
      BY <1>0, <1>4, <2>2 DEF Claim, slipVars
    <3>2. hand[w] # j
      BY <1>4, <3>1 DEF Claim, Claimable
    <3> QED
      BY <1>0, <1>4, <3>1, <3>2 DEF Claim
  <2> QED
    BY <2>1, <2>2
<1>5. ASSUME NEW v \in Worker, Complete(v) \/ Fail(v)
      PROVE  status'[hand'[w]] = "RUNNING" /\ lockedBy'[hand'[w]] = w /\ ~lapsed'[hand'[w]]
  <2>1. hand[v] \in Job /\ lockedBy[hand[v]] = v /\ Release(v) /\ UNCHANGED overruns
    BY <1>5 DEF Complete, Fail, Owns, Dispatched, LockedWhileRunning, slipVars
  <2>2. ASSUME NEW j \in Job, lockedBy[j] = w, v # w
        PROVE  status'[j] = status[j] /\ lockedBy'[j] = lockedBy[j] /\ lapsed'[j] = lapsed[j]
    <3>1. j # hand[v] /\ status[j] = "RUNNING"
      BY <1>0, <2>1, <2>2 DEF LockedWhileRunning
    <3> QED
      BY <1>5, <2>1, <3>1 DEF Complete, Fail, ClearLock
  <2> QED
    BY <1>3, <2>1, <2>2
<1>6. ASSUME NEW v \in Worker, CompleteTooLate(v) \/ FailTooLate(v)
      PROVE  status'[hand'[w]] = "RUNNING" /\ lockedBy'[hand'[w]] = w /\ ~lapsed'[hand'[w]]
  BY <1>3, <1>6 DEF CompleteTooLate, FailTooLate, rowVars, slipVars
<1>7. ASSUME NEW v \in Worker, Crash(v)
      PROVE  status'[hand'[w]] = "RUNNING" /\ lockedBy'[hand'[w]] = w /\ ~lapsed'[hand'[w]]
  BY <1>3, <1>7 DEF Crash
<1>8. ASSUME NEW j \in Job, Retry(j)
      PROVE  status'[hand'[w]] = "RUNNING" /\ lockedBy'[hand'[w]] = w /\ ~lapsed'[hand'[w]]
  <2>1. hand' = hand /\ overruns' = overruns
    BY <1>8 DEF Retry, workerVars, slipVars
  <2>2. Own /\ hand[w] # j
    BY <1>0, <1>8, <2>1 DEF Retry
  <2> QED
    BY <1>0, <1>8, <2>1, <2>2 DEF Retry, ClearLock
<1>9. ASSUME NEW j \in Job, BecomeDue(j)
      PROVE  status'[hand'[w]] = "RUNNING" /\ lockedBy'[hand'[w]] = w /\ ~lapsed'[hand'[w]]
  BY <1>0, <1>9 DEF BecomeDue, workerVars, slipVars
<1>10. ASSUME NEW j \in Job, LapseAbandoned(j)
       PROVE  status'[hand'[w]] = "RUNNING" /\ lockedBy'[hand'[w]] = w /\ ~lapsed'[hand'[w]]
  <2>1. hand' = hand /\ overruns' = overruns /\ lockedBy[j] = Gone
    BY <1>10 DEF LapseAbandoned, LapseRow, workerVars
  <2>2. Own /\ hand[w] # j
    BY <1>0, <2>1, QueueAssumption
  <2> QED
    BY <1>0, <1>10, <2>1, <2>2 DEF LapseAbandoned, LapseRow
<1>11. ASSUME NEW j \in Job, LapseSlow(j)
       PROVE  FALSE
  BY <1>0, <1>11 DEF LapseSlow
<1>12. ASSUME NEW s \in Scheduler, SchedulePlan(s) \/ ScheduleAbort(s)
       PROVE  status'[hand'[w]] = "RUNNING" /\ lockedBy'[hand'[w]] = w /\ ~lapsed'[hand'[w]]
  BY <1>1, <1>12 DEF SchedulePlan, ScheduleAbort, workerVars, slipVars
<1>13. ASSUME NEW s \in Scheduler, ScheduleCommit(s)
       PROVE  status'[hand'[w]] = "RUNNING" /\ lockedBy'[hand'[w]] = w /\ ~lapsed'[hand'[w]]
  BY <1>2, <1>13 DEF ScheduleCommit, workerVars, slipVars
<1>14. ASSUME (\E o \in Object, T \in Request : Edit(o, T)) \/ (\E j \in ManualJob : RequestRun(j))
       PROVE  status'[hand'[w]] = "RUNNING" /\ lockedBy'[hand'[w]] = w /\ ~lapsed'[hand'[w]]
  BY <1>2, <1>14 DEF Edit, RequestRun, workerVars, slipVars
<1>15. ASSUME (\E v \in Worker : Dispatch(v)) \/ Tick \/ UNCHANGED vars
       PROVE  status'[hand'[w]] = "RUNNING" /\ lockedBy'[hand'[w]] = w /\ ~lapsed'[hand'[w]]
  BY <1>1, <1>15 DEF Dispatch, Tick, vars, workerVars, slipVars
<1> HIDE DEF LeaseInv, TypeOK, Own
<1> QED
  BY NextIsStep, <1>4, <1>5, <1>6, <1>7, <1>8, <1>9, <1>10, <1>11, <1>12, <1>13, <1>14, <1>15
     DEF Step

\* Two handlers are never both past the vendor of a product, so whatever a
\* finished handler has locked, no convergence has left out of its run.
LEMMA OneAtATime ==
  ASSUME LeaseInv, ProjectionTypeOK, RowsAreKnown, NEW v \in Worker, NEW w \in Worker, v # w,
         SessionInv(v), SessionInv(w), phase[v] = "applied", NEW o \in Object, o \in Needs(v),
         hand[w] # NoJob, IsFull(w), tx[w].stage = "run"
  PROVE  FALSE
<1>1. \A t \in Needs(v) : lock[t] = v
  BY AppliedIsThorough
<1>2. VendorOf[o] \in Vendor
  BY ThingFacts
<1>3. VendorOf[o] \in Needs(v)
  <2>1. CASE IsFull(v)
    BY <1>2, <2>1 DEF Needs
  <2>2. CASE ~IsFull(v)
    <3>1. o = hand[v].agg \/ o = VendorOf[hand[v].agg]
      BY <2>2 DEF Needs
    <3>2. hand[v] # NoJob
      BY AppliedIsThorough
    <3>3. VendorOf[hand[v].agg] \in Vendor
      BY <2>2, <3>2, HandKinds, ThingFacts
    <3>4. o = hand[v].agg
      BY <3>1, <3>3, ThingFacts
    <3> QED
      BY <2>2, <3>4 DEF Needs
  <2> QED
    BY <2>1, <2>2
<1>4. lock[VendorOf[o]] = w
  BY <1>2 DEF SessionInv, Itinerary
<1> QED
  BY <1>1, <1>3, <1>4

LEMMA PointersStep ==
  ASSUME LeaseInv, LeaseInv', ProjectionTypeOK, ProjectionTypeOK', RowsAreKnown,
         \A w \in Worker : SessionInv(w), \A w \in Worker : SessionInv(w)',
         Pointers, [ProjectionNext]_pvars
  PROVE  Pointers'
<1>0. \A o \in Object : canonical[o] \in Nat /\ canonical'[o] \in Nat /\ ack[o] \in Nat
                        /\ canonical'[o] >= canonical[o]
  BY QueueKeepsRows, QueueAssumption, ThingFacts DEF LeaseInv, TypeOK, ProjectionTypeOK
<1>1. ASSUME UNCHANGED <<pointer, ack>>,
             \A t \in Thing : t \in tampered' \/ live[t] \subseteq live'[t],
             tampered \subseteq tampered',
             \A w \in Worker, o \in Object :
                hand'[w] # NoJob /\ IsFull(w)' /\ tx'[w].stage = "run" /\ tx'[w].seen[o] = 0
                   => pointer[o] = 0
      PROVE  Pointers'
  BY <1>0, <1>1 DEF Pointers
<1>2. ASSUME UNCHANGED <<pointer, ack, tx, live, tampered>>,
             \A w \in Worker : hand'[w] = hand[w] \/ tx[w].stage # "run"
      PROVE  Pointers'
  BY <1>1, <1>2 DEF Pointers, IsFull
<1>3. CASE UNCHANGED pvars
  BY <1>2, <1>3 DEF pvars, vars, workerVars, projVars, remoteVars, stateVars
<1>4. CASE QueueStep /\ UNCHANGED projVars
  <2>1. ASSUME NEW w \in Worker, NEW j \in Job, Claim(w, j)
        PROVE  Pointers'
    <3>1. phase[w] = "idle" /\ \A v \in Worker : v # w => hand'[v] = hand[v]
      BY <2>1 DEF Claim, LeaseInv, TypeOK, LockedWhileRunning
    <3>2. tx[w].stage = "start"
      BY <3>1 DEF SessionInv, Unbegun
    <3> QED
      BY <1>2, <1>4, <3>1, <3>2 DEF projVars, remoteVars, stateVars
  <2>2. ASSUME UNCHANGED workerVars
        PROVE  Pointers'
    BY <1>2, <1>4, <2>2 DEF workerVars, projVars, remoteVars, stateVars
  <2> QED
    BY <1>4, <2>1, <2>2 DEF QueueStep, Edit, RequestRun, Retry, BecomeDue, LapseAbandoned,
                            LapseSlow, LapseRow
<1>5. ASSUME NEW w \in Worker, Reads(w),
             IsFull(w) => \/ tx'[w].stage # "run"
                          \/ tx'[w].stage = tx[w].stage /\ tx'[w].seen = tx[w].seen
                          \/ tx'[w].seen = canonical
      PROVE  Pointers'
  <2>1. UNCHANGED <<pointer, ack, live, tampered, hand, canonical>>
    BY <1>5 DEF Reads, remoteVars, stateVars, vars, workerVars, worldVars
  <2>2. ASSUME NEW v \in Worker, NEW o \in Object,
               hand'[v] # NoJob, IsFull(v)', tx'[v].stage = "run", tx'[v].seen[o] = 0
        PROVE  pointer[o] = 0
    <3>1. hand[v] # NoJob /\ IsFull(v)
      BY <2>1, <2>2 DEF IsFull
    <3>2. CASE v = w /\ tx'[w].seen = canonical
      BY <1>0, <2>2, <3>2 DEF Pointers
    <3>3. CASE tx'[v].stage = tx[v].stage /\ tx'[v].seen = tx[v].seen
      BY <2>2, <3>1, <3>3 DEF Pointers
    <3> QED
      BY <1>5, <2>2, <3>1, <3>2, <3>3 DEF Reads
  <2> QED
    BY <1>1, <2>1, <2>2
<1>6. ASSUME NEW w \in Worker, BeginUpsert(w) \/ BeginFull(w) \/ LoadProducts(w) \/ Seed(w)
      PROVE  Pointers'
  <2>1. Reads(w)
    BY <1>6, BeginUpsertSession, BeginFullSession, LoadProductsSession, SeedSession
  <2>2. tx[w] \in Session
    BY DEF ProjectionTypeOK
  <2>3. CASE BeginUpsert(w)
    BY <1>5, <2>1, <2>3 DEF BeginUpsert
  <2>4. CASE BeginFull(w)
    <3>1. tx'[w].stage = "vendors"
      BY <2>2, <2>4 DEF BeginFull, ProjectionTypeOK, Session
    <3> QED
      BY <1>5, <2>1, <3>1
  <2>5. CASE LoadProducts(w)
    <3>1. tx'[w].seen = canonical
      BY <2>2, <2>5 DEF LoadProducts, ProjectionTypeOK, Session
    <3> QED
      BY <1>5, <2>1, <3>1
  <2>6. CASE Seed(w)
    <3>1. tx'[w].stage = tx[w].stage /\ tx'[w].seen = tx[w].seen
      BY <2>2, <2>6 DEF Seed, ProjectionTypeOK, Session
    <3> QED
      BY <1>5, <2>1, <3>1
  <2> QED
    BY <1>6, <2>3, <2>4, <2>5, <2>6
<1>7. ASSUME NEW w \in Worker, NEW t \in Thing,
             UpdateBelieved(w, t) \/ AdoptDiscovered(w, t) \/ CreateRemote(w, t)
      PROVE  Pointers'
  <2>1. PICK c \in Copy : Wrote(w, t, c)
    BY <1>7, ProjectionWrites
  <2>2. UNCHANGED <<pointer, ack, tampered, hand>>
    BY <2>1 DEF Wrote, Write, stateVars, vars, workerVars
  <2>3. \A x \in Thing : live[x] \subseteq live'[x]
    BY <2>1 DEF Wrote
  <2>4. \A v \in Worker : tx'[v].stage = tx[v].stage /\ tx'[v].seen = tx[v].seen
    BY <2>1, WriteEffect
  <2> QED
    BY <1>1, <2>2, <2>3, <2>4 DEF Pointers, IsFull
<1>8. ASSUME NEW w \in Worker, ProjectionDispatch(w)
      PROVE  Pointers'
  BY <1>2, <1>8 DEF ProjectionDispatch, Dispatch, projVars, remoteVars, stateVars
<1>9. ASSUME NEW t \in Thing, RemoteDelete(t)
      PROVE  Pointers'
  <2>1. /\ UNCHANGED <<pointer, ack, tx, hand>> /\ tampered' = tampered \cup {t}
        /\ \A x \in Thing : x # t => live'[x] = live[x]
    BY <1>9 DEF RemoteDelete, ProjectionTypeOK, stateVars, vars, workerVars
  <2> QED
    BY <1>1, <2>1 DEF Pointers, IsFull
<1>10. ASSUME NEW w \in Worker, EndStep(w)
       PROVE  /\ UNCHANGED <<live, tampered, canonical>>
              /\ hand'[w] = NoJob
              /\ \A v \in Worker \ {w} : hand'[v] = hand[v] /\ tx'[v] = tx[v]
  BY <1>10, EndEffect DEF LeaseInv, TypeOK, ProjectionTypeOK
<1>11. ASSUME NEW w \in Worker, EndStep(w), Rollback(w)
       PROVE  Pointers'
  BY <1>1, <1>10, <1>11 DEF Rollback, stateVars, Pointers, IsFull
<1>12. ASSUME NEW w \in Worker, ProjectionComplete(w)
       PROVE  Pointers'
  <2>1. phase[w] = "applied" /\ Commit(w) /\ EndStep(w)
    BY <1>12 DEF ProjectionComplete, Complete, CompleteTooLate, Dispatched, EndStep
  <2>2. /\ pointer' = [t \in Thing |-> IF tx[w].draft[t] # 0 THEN tx[w].draft[t] ELSE pointer[t]]
        /\ ack' = [t \in Thing |-> IF tx[w].draft[t] # 0 THEN VersionSeen(w, t) ELSE ack[t]]
    BY <2>1 DEF Commit, SavedVersion
  <2>3. /\ hand[w] # NoJob
        /\ \A t \in Thing : tx[w].draft[t] # 0 => t \in Needs(w) /\ lock[t] = w
    BY <2>1, AppliedIsThorough
  <2>4. ASSUME NEW o \in Object
        PROVE  ack'[o] <= canonical'[o] /\ (pointer'[o] # 0 => canonical'[o] > 0)
    <3>1. o \in Thing
      BY ThingFacts
    <3>2. CASE tx[w].draft[o] = 0
      BY <1>0, <2>2, <3>1, <3>2 DEF Pointers
    <3>3. CASE tx[w].draft[o] # 0
      <4>1. VersionSeen(w, o) = tx[w].seen[o] /\ tx[w].seen[o] <= canonical[o]
            /\ tx[w].seen[o] \in Nat
        BY QueueAssumption DEF VersionSeen, SessionInv, Drafts, ProjectionTypeOK, Session
      <4>2. canonical[o] > 0
        <5>1. CASE IsFull(w)
          BY <1>0, <2>3, <3>1, <3>3, <4>1, <5>1, ThingFacts DEF Needs
        <5>2. CASE ~IsFull(w)
          <6>1. /\ hand[w].agg \in Object /\ VendorOf[hand[w].agg] \in Vendor
                /\ hand[w].ver \in 1..MaxVersion /\ hand[w].ver <= canonical[hand[w].agg]
            BY <2>3, <5>2, HandKinds, ThingFacts
          <6>2. o = hand[w].agg
            BY <2>3, <3>1, <3>3, <5>2, <6>1, ThingFacts DEF Needs
          <6> QED
            BY <1>0, <6>1, <6>2
        <5> QED
          BY <5>1, <5>2
      <4> QED
        BY <1>0, <2>2, <3>1, <3>3, <4>1, <4>2
    <3> QED
      BY <3>2, <3>3
  <2>5. ASSUME NEW t \in Thing, pointer'[t] # 0
        PROVE  t \in tampered' \/ pointer'[t] \in live'[t]
    <3>1. tampered' = tampered /\ live' = live
      BY <1>10, <2>1
    <3>2. CASE tx[w].draft[t] = 0
      BY <2>2, <2>5, <3>1, <3>2 DEF Pointers
    <3>3. CASE tx[w].draft[t] # 0
      BY <2>2, <2>3, <3>1, <3>3 DEF SessionInv, Drafts
    <3> QED
      BY <3>2, <3>3
  <2>6. ASSUME NEW v \in Worker, NEW o \in Object,
               hand'[v] # NoJob, IsFull(v)', tx'[v].stage = "run", tx'[v].seen[o] = 0
        PROVE  pointer'[o] = 0
    <3>1. v # w /\ hand[v] # NoJob /\ IsFull(v) /\ tx[v].stage = "run" /\ tx[v].seen[o] = 0
      BY <1>10, <2>1, <2>6 DEF IsFull
    <3>2. pointer[o] = 0 /\ o \in Thing
      BY <3>1, ThingFacts DEF Pointers
    <3>3. o \notin Needs(w)
      BY <2>1, <3>1, OneAtATime
    <3> QED
      BY <2>2, <2>3, <3>2, <3>3
  <2> QED
    BY <2>4, <2>5, <2>6 DEF Pointers
<1> QED
  BY NextIsProjStep, <1>3, <1>4, <1>6, <1>7, <1>8, <1>9, <1>11, <1>12
     DEF ProjStep, EndStep, ProjectionFail, ProjectionCrash

\* What is owed stays owed, or was retired by the very handler that settled it.
LEMMA OwedLasts ==
  ASSUME LeaseInv, [ProjectionNext]_pvars, NEW o \in Object, Owed(o),
         ~\E w \in Worker : ProjectionComplete(w) /\ Complete(w)
  PROVE  Owed(o)'
<1>1. PICK j \in Job : (j.agg = o \/ j.type = FullType) /\ (Active(j) \/ status[j] = "DEAD")
  BY DEF Owed
<1>2. Active(j)' \/ status'[j] = "DEAD"
  BY <1>1, StatusMoves DEF Moves, Active
<1> QED
  BY <1>1, <1>2 DEF Owed

LEMMA LagStep ==
  ASSUME LeaseInv, LeaseInv', ProjectionTypeOK, ProjectionTypeOK', RowsAreKnown, HandsOwn,
         \A w \in Worker : SessionInv(w), Pointers, LagIsOwed, [ProjectionNext]_pvars
  PROVE  LagIsOwed'
<1> SUFFICES ASSUME overruns' = 0, NEW o \in Object, Lagging(o)' PROVE Owed(o)'
  BY DEF LagIsOwed
<1>0. /\ canonical[o] \in Nat /\ canonical'[o] \in Nat /\ ack[o] \in Nat /\ o \in Thing
      /\ canonical'[o] >= canonical[o]
  BY QueueKeepsRows, QueueAssumption, ThingFacts DEF LeaseInv, TypeOK, ProjectionTypeOK
<1>1. overruns = 0
  <2>1. overruns \in Nat /\ overruns' \in Nat
    BY QueueAssumption DEF LeaseInv, TypeOK
  <2>2. overruns <= overruns'
    <3>1. [Next]_vars
      BY StepOfTheQueue
    <3>2. CASE UNCHANGED overruns
      BY <2>1, <3>2
    <3>3. ASSUME NEW j \in Job, LapseSlow(j) PROVE overruns <= overruns'
      BY <2>1, <3>3 DEF LapseSlow
    <3> QED
      BY <3>1, <3>2, <3>3, NextIsStep
         DEF Step, Edit, RequestRun, SchedulePlan, ScheduleCommit, ScheduleAbort, Claim, Dispatch,
             Complete, CompleteTooLate, Fail, FailTooLate, Crash, Retry, BecomeDue,
             LapseAbandoned, Tick, vars, slipVars
  <2> QED
    BY <2>1, <2>2
<1>2. CASE \E w \in Worker : ProjectionComplete(w)
  <2>1. PICK w \in Worker : ProjectionComplete(w)
    BY <1>2
  <2>2. phase[w] = "applied" /\ Commit(w) /\ EndStep(w)
    BY <2>1 DEF ProjectionComplete, Complete, CompleteTooLate, Dispatched, EndStep
  <2>3. /\ pointer' = [t \in Thing |-> IF tx[w].draft[t] # 0 THEN tx[w].draft[t] ELSE pointer[t]]
        /\ ack' = [t \in Thing |-> IF tx[w].draft[t] # 0 THEN VersionSeen(w, t) ELSE ack[t]]
        /\ content' = content /\ canonical' = canonical
    BY <2>2, EndEffect DEF Commit, SavedVersion
  <2>4. /\ hand[w] # NoJob
        /\ \A t \in Thing : tx[w].draft[t] # 0 <=> t \in Needs(w)
        /\ \A t \in Needs(w) : lock[t] = w
        /\ tx[w].stage = "run"
    BY <2>2, AppliedIsThorough
  <2>5. tx[w].draft[o] = 0
    <3> SUFFICES ASSUME tx[w].draft[o] # 0 PROVE FALSE
      OBVIOUS
    <3>1. content[o][tx[w].draft[o]] = VersionSeen(w, o)
      BY <1>0, <2>4 DEF SessionInv, Drafts
    <3> QED
      BY <1>0, <2>3, <3>1 DEF Lagging
  <2>6. Lagging(o)
    BY <1>0, <2>3, <2>5 DEF Lagging
  <2>7. ~IsFull(w)
    <3>1. IsFull(w) => tx[w].seen[o] = 0
      <4>1. tx[w].seen[o] \in Nat
        BY QueueAssumption DEF ProjectionTypeOK, Session
      <4> QED
        BY <1>0, <2>4, <2>5, <4>1 DEF Needs
    <3> QED
      BY <2>4, <2>6, <3>1 DEF Pointers, Lagging
  <2>8. hand[w].agg # o
    BY <1>0, <2>4, <2>5, <2>7 DEF Needs
  <2>9. Complete(w)
    BY <1>1, <2>1, <2>4 DEF ProjectionComplete, CompleteTooLate, Owns, HandsOwn
  <2>10. PICK j \in Job : (j.agg = o \/ j.type = FullType) /\ (Active(j) \/ status[j] = "DEAD")
    BY <1>1, <2>6 DEF LagIsOwed, Owed
  <2>11. j # hand[w]
    BY <2>7, <2>8, <2>10 DEF IsFull
  <2>12. ~Retires(hand[w], j)
    <3>1. hand[w] \in EditJob
      BY <2>4, <2>7, HandKinds
    <3>2. hand[w].type \notin RecurringType
      BY <3>1, QueueAssumption DEF EditJob
    <3> QED
      BY <2>7, <2>8, <2>10, <3>2 DEF Retires, IsFull
  <2>13. status'[j] = status[j]
    BY <2>1, <2>9, <2>11, <2>12, CompletionMoves
  <2> QED
    BY <2>10, <2>13 DEF Owed, Active
<1>3. CASE ~\E w \in Worker : ProjectionComplete(w)
  <2>1. CASE Lagging(o)
    <3>1. Owed(o)
      BY <1>1, <2>1 DEF LagIsOwed
    <3> QED
      BY <1>3, <3>1, OwedLasts
  <2>2. CASE ~Lagging(o)
    <3>1. ASSUME UNCHANGED <<pointer, ack, content>> PROVE FALSE
      <4>1. canonical'[o] # canonical[o] /\ ack[o] = canonical'[o]
        BY <2>2, <3>1 DEF Lagging
      <4> QED
        BY <1>0, <4>1 DEF Pointers
    <3>2. ASSUME NEW w \in Worker, EndStep(w) PROVE FALSE
      BY <1>3, <3>1, <3>2, EndEffect
         DEF EndStep, ProjectionFail, ProjectionCrash, Rollback, stateVars
    <3>3. ASSUME NEW w \in Worker, NEW t \in Thing,
                 UpdateBelieved(w, t) \/ AdoptDiscovered(w, t) \/ CreateRemote(w, t)
          PROVE  Owed(o)'
      <4>1. PICK c \in Copy : Wrote(w, t, c)
        BY <3>3, ProjectionWrites
      <4>2. UNCHANGED <<pointer, ack, canonical, status, hand>>
        BY <4>1 DEF Wrote, Write, vars, stateVars, worldVars, rowVars, workerVars
      <4>3. t = o
        <5> SUFFICES ASSUME t # o PROVE FALSE
          OBVIOUS
        <5>1. \A d \in Copy : content'[o][d] = content[o][d]
          BY <1>0, <4>1, WriteRecords
        <5>2. pointer[o] # 0 /\ pointer[o] \in 0..MaxCopies
          BY <1>0, <4>2 DEF Lagging, ProjectionTypeOK
        <5>3. pointer[o] \in Copy
          BY <5>2, ThingFacts DEF Copy
        <5> QED
          BY <2>2, <4>2, <5>1, <5>3 DEF Lagging
      <4>4. t = tx[w].todo[1] /\ tx[w].todo # <<>> /\ phase[w] = "dispatching"
        BY <4>1, WriteEffect
      <4>5. hand[w] # NoJob /\ tx[w].stage # "start"
        BY <4>4 DEF LeaseInv, LockedWhileRunning, SessionInv, Unbegun, Fresh
      <4>6. InTodo(w, t)
        BY <4>4, TodoFacts DEF InTodo
      <4>7. o \in Needs(w)
        BY <4>3, <4>5, <4>6 DEF SessionInv, Itinerary
      <4>8. hand[w] \in Job /\ Active(hand[w])
        BY <1>1, <4>5, HandKinds DEF HandsOwn, Active
      <4>9. hand[w].agg = o \/ hand[w].type = FullType
        <5>1. CASE ~IsFull(w)
          BY <4>5, <4>7, <5>1, HandKinds, ThingFacts DEF Needs
        <5> QED
          BY <5>1 DEF IsFull
      <4> QED
        BY <4>2, <4>8, <4>9 DEF Owed, Active
    <3>4. ASSUME NEW w \in Worker,
                 BeginUpsert(w) \/ BeginFull(w) \/ LoadProducts(w) \/ Seed(w)
          PROVE  FALSE
      BY <3>1, <3>4 DEF BeginUpsert, BeginFull, LoadProducts, Seed, stateVars, remoteVars
    <3>5. ASSUME NEW w \in Worker, ProjectionDispatch(w) PROVE FALSE
      BY <3>1, <3>5 DEF ProjectionDispatch, projVars, stateVars, remoteVars
    <3>6. ASSUME NEW t \in Thing, RemoteDelete(t) PROVE FALSE
      BY <3>1, <3>6 DEF RemoteDelete, stateVars
    <3>7. ASSUME (QueueStep /\ UNCHANGED projVars) \/ UNCHANGED pvars PROVE FALSE
      BY <3>1, <3>7 DEF pvars, projVars, stateVars, remoteVars
    <3> QED
      BY NextIsProjStep, <3>2, <3>3, <3>4, <3>5, <3>6, <3>7 DEF ProjStep, EndStep
  <2> QED
    BY <2>1, <2>2
<1> QED
  BY <1>2, <1>3

LEMMA AloneStep ==
  ASSUME LeaseInv, LeaseInv', ProjectionTypeOK, ProjectionTypeOK', RowsAreKnown, Alone,
         [ProjectionNext]_pvars
  PROVE  Alone'
<1> SUFFICES ASSUME \A j \in Job : j.type = FullType => status'[j] = "absent", NEW t \in Thing
             PROVE  live'[t] = {} \/ \E c \in Copy : live'[t] = {c}
  BY DEF Alone
<1>1. \A j \in Job : j.type = FullType => status[j] = "absent"
  BY RowsLast
<1>2. live[t] = {} \/ \E c \in Copy : live[t] = {c}
  BY <1>1 DEF Alone
<1>3. CASE live'[t] = live[t]
  BY <1>2, <1>3
<1>4. ASSUME NEW w \in Worker, NEW x \in Thing, CreateRemote(w, x)
      PROVE  live'[t] = {} \/ \E c \in Copy : live'[t] = {c}
  <2>1. hand[w] \in Job /\ status[hand[w]] # "absent"
    BY <1>4 DEF CreateRemote, Projecting, AtLock, Dispatching, LeaseInv, TypeOK,
                LockedWhileRunning, HandsHold
  <2>2. live[x] = {}
    BY <1>1, <1>4, <2>1 DEF CreateRemote, MayCreate, IsFull
  <2>3. used[x] + 1 \in Copy /\ live' = [live EXCEPT ![x] = {used[x] + 1}]
    BY <1>4, <2>2, ThingFacts DEF CreateRemote, ProjectionTypeOK, Copy
  <2> QED
    BY <1>2, <2>3 DEF ProjectionTypeOK
<1>5. ASSUME NEW x \in Thing, RemoteDelete(x)
      PROVE  live'[t] = {} \/ \E c \in Copy : live'[t] = {c}
  <2>1. PICK c \in live[x] : live' = [live EXCEPT ![x] = @ \ {c}]
    BY <1>5 DEF RemoteDelete
  <2> QED
    BY <1>2, <2>1 DEF ProjectionTypeOK
<1>6. ASSUME UNCHANGED live PROVE live'[t] = live[t]
  BY <1>6
<1>7. CASE \E w \in Worker : EndStep(w)
  BY <1>3, <1>7, EndEffect
<1> QED
  BY NextIsProjStep, <1>3, <1>4, <1>5, <1>6, <1>7
     DEF ProjStep, EndStep, BeginUpsert, BeginFull, LoadProducts, Seed, UpdateBelieved,
         AdoptDiscovered, ProjectionDispatch, pvars, projVars, remoteVars

LEMMA PeakGrows ==
  ASSUME LeaseInv, ProjectionTypeOK, [ProjectionNext]_pvars, NEW t \in Thing
  PROVE  peak'[t] >= peak[t]
<1>1. ASSUME UNCHANGED peak PROVE peak'[t] >= peak[t]
  BY <1>1, QueueAssumption DEF ProjectionTypeOK
<1>2. ASSUME NEW w \in Worker, NEW x \in Thing,
             UpdateBelieved(w, x) \/ AdoptDiscovered(w, x) \/ CreateRemote(w, x)
      PROVE  peak'[t] >= peak[t]
  BY <1>2, ProjectionWrites, WriteRecords
<1>3. CASE \E w \in Worker : EndStep(w)
  BY <1>1, <1>3, EndEffect
<1> QED
  BY NextIsProjStep, <1>1, <1>2, <1>3
     DEF ProjStep, EndStep, BeginUpsert, BeginFull, LoadProducts, Seed, RemoteDelete,
         ProjectionDispatch, pvars, projVars, remoteVars

LEMMA SettledStep ==
  ASSUME LeaseInv, LeaseInv', ProjectionTypeOK, ProjectionTypeOK', RowsAreKnown,
         \A w \in Worker : SessionInv(w), SettledReachedRemote, [ProjectionNext]_pvars
  PROVE  SettledReachedRemote'
<1> SUFFICES ASSUME NEW j \in Job, j.type \in UpsertType
             PROVE  /\ status'[j] = "COMPLETED" => peak'[j.agg] >= j.ver
                    /\ status'[j] = "SUPERSEDED" => peak'[j.agg] >= j.ver \/ FullDelivered'
  BY DEF SettledReachedRemote
<1>1. j \in EditJob /\ j.agg \in Object /\ j.agg \in Thing /\ j.ver \in Nat
  BY QueueAssumption, ThingFacts DEF Job, EditJob, PeriodicJob, ManualJob
<1>2. peak'[j.agg] >= peak[j.agg] /\ peak[j.agg] \in Nat /\ peak'[j.agg] \in Nat
  BY <1>1, PeakGrows, QueueAssumption DEF ProjectionTypeOK
<1>3. FullDelivered => FullDelivered'
  BY RowsLast DEF FullDelivered
<1>4. ASSUME status'[j] = status[j]
      PROVE  /\ status'[j] = "COMPLETED" => peak'[j.agg] >= j.ver
             /\ status'[j] = "SUPERSEDED" => peak'[j.agg] >= j.ver \/ FullDelivered'
  BY <1>1, <1>2, <1>3, <1>4 DEF SettledReachedRemote
<1>5. CASE ~\E w \in Worker : ProjectionComplete(w) /\ Complete(w)
  BY <1>4, <1>5, StatusMoves DEF Moves
<1>6. CASE \E w \in Worker : ProjectionComplete(w) /\ Complete(w)
  <2>1. PICK w \in Worker : ProjectionComplete(w) /\ Complete(w)
    BY <1>6
  <2> DEFINE h == hand[w]
  <2>2. /\ h \in Job /\ phase[w] = "applied" /\ status'[h] = "COMPLETED"
        /\ j # h => \/ status'[j] = status[j]
                    \/ /\ status[j] = "DEAD" /\ status'[j] = "SUPERSEDED"
                       /\ Retires(h, j)
    BY <2>1, CompletionMoves
  <2>3. h # NoJob /\ tx[w].stage = "run" /\ \A t \in Needs(w) : lock[t] = w
    BY <2>2, AppliedIsThorough
  <2>4. ASSUME ~IsFull(w)
        PROVE  h.agg \in Object /\ h.ver \in Nat /\ peak[h.agg] >= h.ver /\ peak[h.agg] \in Nat
    <3>1. h.agg \in Object /\ h.ver \in Nat /\ h.agg \in Thing
      BY <2>3, <2>4, HandKinds, ThingFacts
    <3>2. lock[h.agg] = w /\ tx[w].seen[h.agg] >= h.ver
      BY <2>3, <2>4 DEF Needs, SessionInv, Itinerary
    <3>3. peak[h.agg] >= tx[w].seen[h.agg]
      BY <3>1, <3>2 DEF SessionInv, Drafts, VersionSeen
    <3>4. peak[h.agg] \in Nat /\ tx[w].seen[h.agg] \in Nat
      BY <3>1, QueueAssumption DEF ProjectionTypeOK, Session
    <3> QED
      BY <3>1, <3>2, <3>3, <3>4
  <2>5. CASE j = h
    <3>1. ~IsFull(w)
      BY <2>5, QueueAssumption DEF IsFull
    <3> QED
      BY <1>1, <1>2, <2>2, <2>4, <2>5, <3>1
  <2>6. CASE j # h /\ status[j] = "DEAD" /\ status'[j] = "SUPERSEDED" /\ Retires(h, j)
    <3>1. CASE IsFull(w)
      BY <2>2, <2>6, <3>1 DEF FullDelivered, IsFull
    <3>2. CASE ~IsFull(w)
      <4>1. j.agg = h.agg /\ j.ver <= h.ver
        BY <2>6, <3>2, QueueAssumption DEF Retires, IsFull
      <4> QED
        BY <1>1, <1>2, <2>4, <2>6, <3>2, <4>1
    <3> QED
      BY <3>1, <3>2
  <2> QED
    BY <1>4, <2>2, <2>5, <2>6
<1> QED
  BY <1>5, <1>6

-----------------------------------------------------------------------------
(* The invariant, and what follows from it.                                *)

LEMMA ProjInvInit == ProjectionInit => ProjInv
<1> SUFFICES ASSUME ProjectionInit PROVE ProjInv
  OBVIOUS
<1>1. LeaseInv /\ ProjectionTypeOK
  BY TypeInit, ProjTypeInit DEF ProjectionInit
<1>2. /\ status = [j \in Job |-> "absent"] /\ hand = [w \in Worker |-> NoJob]
      /\ phase = [w \in Worker |-> "idle"] /\ canonical = [o \in Object |-> 0]
  BY DEF ProjectionInit, Init
<1>3. /\ tx = [w \in Worker |-> Fresh] /\ lock = [t \in Thing |-> Nobody]
      /\ pointer = [t \in Thing |-> 0] /\ ack = [t \in Thing |-> 0]
      /\ live = [t \in Thing |-> {}]
  BY DEF ProjectionInit
<1>4. ASSUME NEW w \in Worker PROVE SessionInv(w)
  BY <1>1, <1>2, <1>3, BlankSession, ThingFacts
<1>5. Pointers
  BY <1>2, <1>3, ThingFacts DEF Pointers
<1>6. RowsAreKnown /\ HandsOwn /\ SettledReachedRemote
  BY <1>2 DEF RowsAreKnown, HandsOwn, SettledReachedRemote
<1>7. LagIsOwed /\ Alone
  BY <1>3, ThingFacts DEF LagIsOwed, Lagging, Alone
<1> QED
  BY <1>1, <1>4, <1>5, <1>6, <1>7 DEF ProjInv, SessionInv

LEMMA ProjInvStep == ProjInv /\ [ProjectionNext]_pvars => ProjInv'
<1> SUFFICES ASSUME ProjInv, [ProjectionNext]_pvars PROVE ProjInv'
  OBVIOUS
<1>1. /\ LeaseInv /\ ProjectionTypeOK /\ RowsAreKnown /\ Pointers /\ HandsOwn /\ LagIsOwed
      /\ Alone /\ SettledReachedRemote /\ \A w \in Worker : SessionInv(w)
  BY DEF ProjInv, SessionInv
<1>2. [Next]_vars
  BY StepOfTheQueue
<1>3. LeaseInv'
  BY <1>1, <1>2, LeaseInvInductive
<1>4. ProjectionTypeOK' /\ RowsAreKnown'
  BY <1>1, <1>3, ProjTypeStep, RowsAreKnownStep
<1>5. \A w \in Worker : SessionInv(w)'
  BY <1>1, <1>3, <1>4, SessionStep
<1>6. Pointers' /\ HandsOwn'
  BY <1>1, <1>2, <1>3, <1>4, <1>5, PointersStep, HandsOwnStep
<1>7. LagIsOwed' /\ Alone' /\ SettledReachedRemote'
  BY <1>1, <1>3, <1>4, LagStep, AloneStep, SettledStep
<1> QED
  BY <1>3, <1>4, <1>5, <1>6, <1>7 DEF ProjInv, SessionInv

LEMMA ProjInvHolds == ProjectionSpec => []ProjInv
  BY ProjInvInit, ProjInvStep, PTL DEF ProjectionSpec

\* Whatever handlers, crashes and Spoolman's users do, sessions, locks, remote
\* records and projection rows keep their types.
THEOREM ProjectionTypes == ProjectionSpec => []ProjectionTypeOK
<1>1. ProjInv => ProjectionTypeOK
  BY DEF ProjInv
<1> QED
  BY <1>1, ProjInvHolds, PTL

\* A settled upsert was really shown to Spoolman: complete_job runs after the
\* handler, the handler read the row after it was queued, and a written off row
\* was overtaken by a newer one or by a full convergence.
THEOREM SettledUpsertsReachSpoolman == ProjectionSpec => []SettledReachedRemote
<1>1. ProjInv => SettledReachedRemote
  BY DEF ProjInv
<1> QED
  BY <1>1, ProjInvHolds, PTL

\* _project_filament locks vendors first and the convergence follows ORDER BY
\* id, so every path takes advisory locks along one order, and no two handlers
\* wait for each other.
THEOREM HandlersNeverDeadlock == ProjectionSpec => []NoLockCycle
<1>1. ASSUME ProjInv, NEW v \in Worker, NEW w \in Worker, v # w, AtLock(v), AtLock(w),
             lock[Head(tx[v].todo)] = w, lock[Head(tx[w].todo)] = v
      PROVE  FALSE
  <2>1. ProjectionTypeOK /\ \A u \in Worker : SessionInv(u)
    BY <1>1 DEF ProjInv, SessionInv
  <2>2. ASSUME NEW u \in Worker, AtLock(u)
        PROVE  /\ tx[u].stage # "start" /\ Head(tx[u].todo) \in Thing
               /\ Head(tx[u].todo) = tx[u].todo[1] /\ 1 \in 1..Len(tx[u].todo)
    <3>1. tx[u].todo # <<>>
      BY <2>2 DEF AtLock
    <3>2. tx[u].stage # "start"
      BY <2>1, <3>1 DEF SessionInv, Unbegun, Fresh
    <3> QED
      BY <2>1, <3>1, <3>2, TodoFacts
  <2> DEFINE s == Head(tx[v].todo)
             t == Head(tx[w].todo)
  <2>3. Before(t, s)
    BY <1>1, <2>1, <2>2 DEF SessionInv, Itinerary
  <2>4. Before(s, t)
    BY <1>1, <2>1, <2>2 DEF SessionInv, Itinerary
  <2> QED
    BY <2>3, <2>4, BeforeAsymmetric
<1>2. ProjInv => NoLockCycle
  BY <1>1 DEF NoLockCycle
<1> QED
  BY <1>2, ProjInvHolds, PTL

\* acknowledged_version is never ahead of what Spoolman shows: once nothing
\* about a product is queued, failed or in hand, an acknowledged version is the
\* one its live remote record was written from.
THEOREM AcknowledgedIsShown == ProjectionSpec => []LagIsVisible
<1>1. ASSUME ProjInv, NEW o \in Object \ tampered, overruns = 0, Quiet(o), pointer[o] # 0,
             ack[o] = canonical[o]
      PROVE  pointer[o] \in live[o] /\ content[o][pointer[o]] = canonical[o]
  <2>1. ~Owed(o)
    BY <1>1 DEF Owed, Quiet
  <2>2. ~Lagging(o)
    BY <1>1, <2>1 DEF ProjInv, LagIsOwed
  <2>3. pointer[o] \in live[o]
    BY <1>1, ThingFacts DEF ProjInv, Pointers
  <2> QED
    BY <1>1, <2>2, <2>3 DEF Lagging
<1>2. ProjInv => LagIsVisible
  BY <1>1 DEF LagIsVisible
<1> QED
  BY <1>2, ProjInvHolds, PTL

\* Until a full convergence is requested, the lock and the look-up by managed
\* UUID create each remote record once, whatever crashes and is retried.
THEOREM GranularCreatesOnce == ProjectionSpec => []GranularJobsNeverDuplicate
<1>1. ASSUME ProjInv, NEW t \in Thing, Cardinality(live[t]) > 1,
             \A j \in Job : j.type = FullType => status[j] = "absent"
      PROVE  FALSE
  <2>1. live[t] = {} \/ \E c \in Copy : live[t] = {c}
    BY <1>1 DEF ProjInv, Alone
  <2>2. Cardinality({}) = 0 /\ \A c : Cardinality({c}) = 1
    BY FS_EmptySet, FS_Singleton
  <2>3. Cardinality(live[t]) = 0 \/ Cardinality(live[t]) = 1
    BY <2>1, <2>2
  <2> QED
    BY <1>1, <2>3
<1>2. ProjInv => GranularJobsNeverDuplicate
  BY <1>1 DEF GranularJobsNeverDuplicate
<1> QED
  BY <1>2, ProjInvHolds, PTL

=============================================================================
