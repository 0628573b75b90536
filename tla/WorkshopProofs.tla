--------------------------- MODULE WorkshopProofs ---------------------------
(***************************************************************************)
(* Proofs about the slicer side, the database and what is published, for   *)
(* every number of files, steps, archives, consents, people and requests.  *)
(***************************************************************************)
EXTENDS MCWorkshop, FiniteSetTheorems, SequenceTheorems, NaturalsInduction, WellFoundedInduction, TLAPS

-----------------------------------------------------------------------------
(* CuraRecovery: the last known good configuration.                        *)

Verdicts == {"deleted_by_administrator", "no_printer_configuration", "suspected_reset",
             "existing", "new"}
CaptureInHand == [at : {"captured"}, held : SUBSET Setting, manual : BOOLEAN]
UploadInHand == [at : {"uploading"}, held : SUBSET Setting, manual : BOOLEAN,
                 verdict : Verdicts, first : BOOLEAN]
RestoreInHand == [at : {"replacing", "removing", "replaced"}, backup : SUBSET Setting]

\* What the agent and a deletion have read, and how points are numbered.
AgentShape == agent = Waiting \/ agent \in CaptureInHand \cup UploadInHand \cup RestoreInHand
RestorationShape ==
    restoration \in [status : {"none", "pending", "claimed", "failed", "succeeded"},
                     held : SUBSET Setting, point : Nat]
DeletionShape ==
    deletion = NoDeletion
    \/ deletion \in [point : Point, suppressed : SUBSET SUBSET Setting, last : BOOLEAN]
PointsNumbered ==
    /\ IsFiniteSet(points) /\ \A p \in points : p.id \in 1 .. pointsMade
    /\ \A p, q \in points : p.id = q.id => p = q

RecoveryShapes ==
    /\ RecoveryTypeOK /\ AgentShape /\ RestorationShape /\ DeletionShape /\ PointsNumbered
    /\ best \in Nat

\* Until an administrator steps in, the newest point has the most machines of all that was
\* accepted, and an upload that will be accepted has no fewer.
NewestIsBest ==
    ~operated =>
    /\ \A p \in points : ~p.manual /\ Machines(p.held) <= best
    /\ best > 0 => \E p \in NewestPoint(points) : Machines(p.held) = best
    /\ agent \in UploadInHand /\ ~agent.manual /\ Accepted =>
          /\ \A p \in NewestPoint(points) : Machines(agent.held) >= Machines(p.held)
          /\ agent.verdict = "existing" => \E p \in points : p.held = agent.held

RecoveryInv == RecoveryShapes /\ NewestIsBest

\* In a set of numbered rows that is not empty, one has the least number.
LEMMA OldestExists ==
  ASSUME NEW S, S # {}, \A p \in S : p.id \in Nat
  PROVE  \E p \in S : \A q \in S : p.id <= q.id
<1> DEFINE ids == {p.id : p \in S}
           R == OpToRel(<, Nat)
<1>1. IsWellFoundedOn(R, Nat)
  BY NatLessThanWellFounded DEF OpToRel
<1>2. \A i, j \in Nat : j < i => <<j, i>> \in R
  BY DEF OpToRel
<1>3. ids \subseteq Nat /\ ids # {}
  OBVIOUS
<1> HIDE DEF R
<1>4. \E i \in ids : \A j \in ids : ~(<<j, i>> \in R)
  <2> HIDE DEF ids
  <2> QED  BY <1>1, <1>3, WFMin
<1>5. PICK i \in ids : \A j \in ids : ~(<<j, i>> \in R)
  BY <1>4
<1>6. PICK p \in S : p.id = i
  BY <1>5
<1>7. ASSUME NEW q \in S PROVE p.id <= q.id
  <2>1. q.id \in ids /\ q.id \in Nat /\ p.id \in Nat
    OBVIOUS
  <2>2. ~(q.id < p.id)
    BY <2>1, <1>2, <1>5, <1>6
  <2> QED  BY <2>1, <2>2
<1> QED
  BY <1>6, <1>7

\* What the pruning leaves of the automatic points is within the history's limit.
LEMMA PruningBounds ==
  ASSUME NEW kept, IsFiniteSet(kept), \A p \in kept : p.id \in Nat,
         \A p, q \in kept : p.id = q.id => p = q, NEW limit \in Nat
  PROVE  Cardinality({p \in kept : Cardinality({q \in kept : q.id > p.id}) < limit}) <= limit
<1> DEFINE Newer(p) == {q \in kept : q.id > p.id}
           K == {p \in kept : Cardinality(Newer(p)) < limit}
<1>1. IsFiniteSet(K) /\ Cardinality(K) \in Nat
  BY FS_Subset, FS_CardinalityType
<1>2. ASSUME K = {} PROVE Cardinality(K) <= limit
  <2> HIDE DEF K
  <2> QED  BY <1>2, FS_EmptySet
<1>3. ASSUME K # {} PROVE Cardinality(K) <= limit
  <2>1. \A p \in K : p.id \in Nat
    OBVIOUS
  <2>2. PICK p \in K : \A q \in K : p.id <= q.id
    <3> HIDE DEF K
    <3> QED  BY <1>3, <2>1, OldestExists
  <2>3. K \ {p} \subseteq Newer(p)
    <3>1. ASSUME NEW q \in K, q # p PROVE q.id > p.id
      <4>1. q \in kept /\ p \in kept /\ q.id \in Nat /\ p.id \in Nat /\ p.id <= q.id
        BY <2>2
      <4>2. q.id # p.id
        BY <4>1, <3>1
      <4> QED  BY <4>1, <4>2
    <3> QED  BY <3>1
  <2>4. IsFiniteSet(Newer(p)) /\ Cardinality(Newer(p)) \in Nat
    BY FS_Subset, FS_CardinalityType
  <2>5. Cardinality(K \ {p}) <= Cardinality(Newer(p))
    <3> HIDE DEF K, Newer
    <3> QED  BY <2>3, <2>4, FS_Subset
  <2>6. Cardinality(K \ {p}) = Cardinality(K) - 1
    <3> HIDE DEF K
    <3> QED  BY <1>1, <2>2, FS_RemoveElement
  <2>7. Cardinality(Newer(p)) < limit
    BY <2>2
  <2> QED
    <3> HIDE DEF K, Newer
    <3> QED  BY <1>1, <2>4, <2>5, <2>6, <2>7
<1> QED
  BY <1>2, <1>3

\* The machines and profiles of what was saved are finitely many.
LEMMA HeldCounts ==
  ASSUME NEW held \in SUBSET Setting
  PROVE  Machines(held) \in Nat
<1>1. IsFiniteSet(held \cap MachineFile)
  BY RecoveryAssumption, FS_Subset
<1> QED
  BY <1>1, FS_CardinalityType DEF Machines

LEMMA RecoveryInvInit ==
  ASSUME RecoveryInit
  PROVE  RecoveryInv
<1>1. IsFiniteSet(points) /\ {p \in points : ~p.manual} = {} /\ Cardinality({}) = 0
  BY FS_EmptySet DEF RecoveryInit
<1>2. RecoveryTypeOK
  <2>1. Cardinality({p \in points : ~p.manual}) <= HistoryLimit
    <3>1. Cardinality({p \in points : ~p.manual}) = 0
      BY <1>1
    <3> QED  BY <3>1, RecoveryAssumption
  <2>2. /\ configured \subseteq Setting /\ points \subseteq Point /\ suppressed \subseteq SUBSET Setting
        /\ pointsMade \in 0 .. MaxPoints /\ capture = "none" /\ operated = FALSE
    BY RecoveryAssumption DEF RecoveryInit
  <2> QED  BY <2>1, <2>2 DEF RecoveryTypeOK
<1>3. AgentShape /\ RestorationShape /\ DeletionShape /\ PointsNumbered /\ best \in Nat
  BY <1>1 DEF RecoveryInit, AgentShape, RestorationShape, DeletionShape, PointsNumbered,
              NoRestoration
<1>4. agent \notin UploadInHand
  BY DEF RecoveryInit, UploadInHand, Waiting
<1>5. NewestIsBest
  BY <1>4 DEF NewestIsBest, RecoveryInit
<1> QED
  BY <1>2, <1>3, <1>5 DEF RecoveryInv, RecoveryShapes

\* An upload of a new point: numbers stay apart, the history stays within its limit, and the
\* new point is the newest of those that are left.
LEMMA StoredPoints ==
  ASSUME RecoveryShapes, agent \in UploadInHand, Stored
  PROVE  /\ points' \subseteq Point /\ pointsMade' \in 0 .. MaxPoints /\ PointsNumbered'
         /\ Cardinality({p \in points' : ~p.manual}) <= HistoryLimit
         /\ \A p \in points' : p \in points \/ (p.held = agent.held /\ p.manual = agent.manual)
         /\ agent.verdict = "new" /\ ~agent.manual =>
               \E p \in NewestPoint(points') : p.held = agent.held
         /\ agent.verdict # "new" => points' = points
<1>0. /\ points \subseteq Point /\ IsFiniteSet(points) /\ pointsMade \in Nat
      /\ Cardinality({p \in points : ~p.manual}) <= HistoryLimit /\ HistoryLimit \in Nat \ {0}
      /\ \A p \in points : p.id \in 1 .. pointsMade
      /\ \A p, q \in points : p.id = q.id => p = q
      /\ pointsMade \in 0 .. MaxPoints /\ MaxPoints \in Nat
  BY RecoveryAssumption DEF RecoveryShapes, RecoveryTypeOK, PointsNumbered
<1>1. CASE agent.verdict # "new"
  <2>1. UNCHANGED <<points, pointsMade>>
    BY <1>1 DEF Stored
  <2> QED
    BY <2>1, <1>0, <1>1 DEF PointsNumbered
<1>2. CASE agent.verdict = "new"
  <2>1. PICK p : p = [id |-> pointsMade + 1, held |-> agent.held, manual |-> agent.manual]
    OBVIOUS
  <2>2. /\ p \in Point /\ p.id = pointsMade + 1 /\ p.held = agent.held /\ p.manual = agent.manual
        /\ p.manual \in BOOLEAN
    BY <2>1, <1>0 DEF UploadInHand, Point
  <2>3. PICK all : all = points \cup {p}
    OBVIOUS
  <2>4. /\ pointsMade < MaxPoints /\ pointsMade' = pointsMade + 1
        /\ points' = IF agent.manual THEN all ELSE KeepNewest(all)
    BY <1>2, <2>1, <2>3 DEF Stored
  <2>5. /\ IsFiniteSet(all) /\ all \subseteq Point /\ points' \subseteq all
        /\ \A q \in all : q.id \in 1 .. (pointsMade + 1)
        /\ \A q, r \in all : q.id = r.id => q = r
    <3>1. IsFiniteSet(all)
      BY <1>0, <2>3, FS_AddElement
    <3>2. points' \subseteq all
      BY <2>4 DEF KeepNewest
    <3>3. \A q \in all : q.id \in 1 .. (pointsMade + 1)
      BY <1>0, <2>2, <2>3
    <3>4. \A q \in points : q.id # p.id
      BY <1>0, <2>2
    <3>5. \A q, r \in all : q.id = r.id => q = r
      BY <1>0, <2>3, <3>4
    <3> QED
      BY <1>0, <2>2, <2>3, <3>1, <3>2, <3>3, <3>5
  <2>6. PointsNumbered'
    <3>1. IsFiniteSet(points')
      BY <2>5, FS_Subset
    <3> QED
      BY <2>4, <2>5, <3>1 DEF PointsNumbered
  <2>7. pointsMade' \in 0 .. MaxPoints
    BY <1>0, <2>4
  <2>8. Cardinality({q \in points' : ~q.manual}) <= HistoryLimit
    <3>1. CASE agent.manual
      <4>1. {q \in points' : ~q.manual} = {q \in points : ~q.manual}
        BY <3>1, <2>2, <2>3, <2>4
      <4> QED
        BY <4>1, <1>0
    <3>2. CASE ~agent.manual
      <4>1. PICK autos : autos = {q \in all : ~q.manual}
        OBVIOUS
      <4>2. IsFiniteSet(autos)
        BY <2>5, <4>1, FS_Subset
      <4>3. \A q \in all : {r \in all : ~r.manual /\ r.id > q.id} = {r \in autos : r.id > q.id}
        BY <4>1
      <4>4. {q \in points' : ~q.manual} = {q \in autos : Cardinality({r \in autos : r.id > q.id}) < HistoryLimit}
        BY <3>2, <2>4, <4>1, <4>3 DEF KeepNewest
      <4>5. (\A q \in autos : q.id \in Nat) /\ \A q, r \in autos : q.id = r.id => q = r
        BY <2>5, <4>1
      <4> QED
        BY <4>2, <4>4, <4>5, <1>0, PruningBounds
    <3> QED
      BY <3>1, <3>2
  <2>9. ~agent.manual => p \in NewestPoint(points')
    <3> SUFFICES ASSUME ~agent.manual PROVE p \in NewestPoint(points')
      OBVIOUS
    <3>1. \A q \in all : q.id <= p.id
      BY <2>2, <2>5, <1>0
    <3>2. {q \in all : ~q.manual /\ q.id > p.id} = {}
      BY <3>1, <2>2, <2>5, <1>0
    <3>3. p \in points'
      BY <3>2, <2>3, <2>4, <1>0, FS_EmptySet DEF KeepNewest
    <3> QED
      BY <3>1, <3>3, <2>5 DEF NewestPoint
  <2> QED
    BY <1>0, <1>2, <2>2, <2>3, <2>5, <2>6, <2>7, <2>8, <2>9
<1> QED
  BY <1>1, <1>2

LEMMA RecoveryShapesStep ==
  ASSUME RecoveryShapes, [RecoveryNext]_recoveryVars
  PROVE  RecoveryShapes'
<1>0. /\ configured \subseteq Setting /\ points \subseteq Point /\ RecoveryTypeOK
      /\ AgentShape /\ RestorationShape /\ DeletionShape /\ PointsNumbered /\ best \in Nat
  BY DEF RecoveryShapes, RecoveryTypeOK
<1> USE DEF administration, store
<1>1. CASE UNCHANGED recoveryVars
  BY <1>0, <1>1 DEF recoveryVars, RecoveryShapes, RecoveryTypeOK, AgentShape, RestorationShape,
     DeletionShape, PointsNumbered
<1>2. CASE CaptureSettings
  <2>1. AgentShape'
    BY <1>0, <1>2 DEF CaptureSettings, AgentShape, CaptureInHand
  <2> QED
    BY <1>0, <1>2, <2>1 DEF CaptureSettings, RecoveryShapes, RecoveryTypeOK, RestorationShape,
       DeletionShape, PointsNumbered
<1>3. CASE ClaimCapture
  <2>1. AgentShape'
    BY <1>0, <1>3 DEF ClaimCapture, AgentShape, CaptureInHand
  <2> QED
    BY <1>0, <1>3, <2>1 DEF ClaimCapture, RecoveryShapes, RecoveryTypeOK, RestorationShape,
       DeletionShape, PointsNumbered
<1>4. CASE BeginUpload
  <2>1. agent \in CaptureInHand
    BY <1>0, <1>4 DEF BeginUpload, AgentShape, Waiting, UploadInHand, RestoreInHand
  <2>2. Verdict(agent.held, agent.manual) \in Verdicts
    BY DEF Verdict, Verdicts
  <2>3. agent' \in UploadInHand
    BY <1>4, <2>1, <2>2 DEF BeginUpload, CaptureInHand, UploadInHand
  <2> QED
    BY <1>0, <1>4, <2>3 DEF BeginUpload, RecoveryShapes, RecoveryTypeOK, AgentShape,
       RestorationShape, DeletionShape, PointsNumbered
<1>5. CASE CommitUpload
  <2>1. agent \in UploadInHand /\ agent.manual \in BOOLEAN /\ agent.held \in SUBSET Setting
    BY <1>0, <1>5 DEF CommitUpload, AgentShape, Waiting, CaptureInHand, UploadInHand, RestoreInHand
  <2>2. Stored
    BY <1>5 DEF CommitUpload
  <2>3. /\ points' \subseteq Point /\ pointsMade' \in 0 .. MaxPoints /\ PointsNumbered'
        /\ Cardinality({p \in points' : ~p.manual}) <= HistoryLimit
    BY <2>1, <2>2, StoredPoints
  <2>4. best' \in Nat
    BY <1>0, <1>5, <2>1, HeldCounts DEF CommitUpload
  <2>5. AgentShape'
    BY <1>5 DEF CommitUpload, AgentShape
  <2>6. capture' \in {"none", "pending", "claimed"} /\ operated' \in BOOLEAN
    BY <1>0, <1>5, <2>1 DEF CommitUpload, RecoveryTypeOK
  <2> QED
    BY <1>0, <1>5, <2>3, <2>4, <2>5, <2>6 DEF CommitUpload, RecoveryShapes, RecoveryTypeOK,
       RestorationShape, DeletionShape
<1>6. CASE ClaimRestoration
  <2>1. AgentShape' /\ RestorationShape'
    BY <1>0, <1>6 DEF ClaimRestoration, AgentShape, RestoreInHand, RestorationShape
  <2> QED
    BY <1>0, <1>6, <2>1 DEF ClaimRestoration, RecoveryShapes, RecoveryTypeOK,
       DeletionShape, PointsNumbered
<1>7. CASE ReplaceFiles \/ RemoveFiles
  <2>1. agent \in RestoreInHand
    BY <1>0, <1>7 DEF ReplaceFiles, RemoveFiles, AgentShape, Waiting, CaptureInHand, UploadInHand
  <2>2. agent' \in RestoreInHand
    BY <1>7, <2>1 DEF ReplaceFiles, RemoveFiles, RestoreInHand
  <2>3. configured' \subseteq Setting
    BY <1>0, <1>7 DEF ReplaceFiles, RemoveFiles, RestorationShape
  <2> QED
    BY <1>0, <1>7, <2>2, <2>3 DEF ReplaceFiles, RemoveFiles, RecoveryShapes, RecoveryTypeOK,
       AgentShape, RestorationShape, DeletionShape, PointsNumbered
<1>8. CASE RestorationFails \/ RestorationEnds
  <2>1. agent \in RestoreInHand
    BY <1>0, <1>8 DEF RestorationFails, RestorationEnds, AgentShape, Waiting, CaptureInHand,
       UploadInHand
  <2>2. configured' \subseteq Setting
    BY <1>0, <1>8, <2>1 DEF RestorationFails, RestorationEnds, RestoreInHand
  <2>3. AgentShape' /\ RestorationShape'
    BY <1>0, <1>8 DEF RestorationFails, RestorationEnds, AgentShape, RestorationShape
  <2> QED
    BY <1>0, <1>8, <2>2, <2>3 DEF RestorationFails, RestorationEnds, RecoveryShapes, RecoveryTypeOK,
       DeletionShape, PointsNumbered
<1>9. CASE AgentStops
  BY <1>0, <1>9 DEF AgentStops, RecoveryShapes, RecoveryTypeOK, AgentShape, RestorationShape,
     DeletionShape, PointsNumbered
<1>10. CASE OpenSession \/ RequestCapture \/ \E held \in SUBSET Setting : CloseSession(held)
  <2>1. UNCHANGED <<agent, restoration, deletion, points, pointsMade, suppressed, best, operated>>
    BY <1>10 DEF OpenSession, RequestCapture, CloseSession
  <2>2. AgentShape' /\ RestorationShape' /\ DeletionShape' /\ PointsNumbered'
    BY <1>0, <2>1 DEF AgentShape, RestorationShape, DeletionShape, PointsNumbered
  <2>3. configured' \subseteq Setting /\ capture' \in {"none", "pending", "claimed"}
    BY <1>0, <1>10 DEF OpenSession, RequestCapture, CloseSession, RecoveryTypeOK
  <2> QED
    BY <1>0, <2>1, <2>2, <2>3 DEF RecoveryShapes, RecoveryTypeOK
<1>11. ASSUME NEW p \in points, RequestRestoration(p) PROVE RecoveryShapes'
  <2>1. p.held \in SUBSET Setting /\ p.id \in Nat
    BY <1>0 DEF Point
  <2>2. RestorationShape'
    BY <1>11, <2>1 DEF RequestRestoration, RestorationShape
  <2> QED
    BY <1>0, <1>11, <2>2 DEF RequestRestoration, RecoveryShapes, RecoveryTypeOK, AgentShape,
       DeletionShape, PointsNumbered
<1>12. ASSUME NEW p \in points, BeginDeletion(p) PROVE RecoveryShapes'
  <2>1. p \in Point /\ p.held \in SUBSET Setting /\ suppressed \subseteq SUBSET Setting
    BY <1>0 DEF Point, RecoveryTypeOK
  <2>2. DeletionShape'
    BY <1>12, <2>1 DEF BeginDeletion, DeletionShape
  <2> QED
    BY <1>0, <1>12, <2>2 DEF BeginDeletion, RecoveryShapes, RecoveryTypeOK, AgentShape,
       RestorationShape, PointsNumbered
<1>13. CASE CommitDeletion
  <2>1. deletion.suppressed \subseteq SUBSET Setting
    BY <1>0, <1>13 DEF CommitDeletion, DeletionShape
  <2>2. points' \subseteq points /\ pointsMade' = pointsMade /\ suppressed' \subseteq SUBSET Setting
    BY <1>0, <1>13, <2>1 DEF CommitDeletion, RecoveryTypeOK
  <2>3. IsFiniteSet(points') /\ PointsNumbered'
    BY <1>0, <2>2, FS_Subset DEF PointsNumbered
  <2>4. Cardinality({p \in points' : ~p.manual}) <= HistoryLimit
    <3>1. PICK S, T : S = {p \in points : ~p.manual} /\ T = {p \in points' : ~p.manual}
      OBVIOUS
    <3>2. IsFiniteSet(S) /\ T \in SUBSET S
      BY <1>0, <2>2, <3>1, FS_Subset DEF PointsNumbered
    <3>3. Cardinality(T) <= Cardinality(S) /\ Cardinality(T) \in Nat /\ Cardinality(S) \in Nat
      BY <3>2, FS_Subset, FS_CardinalityType
    <3>4. Cardinality(S) <= HistoryLimit /\ HistoryLimit \in Nat
      BY <1>0, <3>1, RecoveryAssumption DEF RecoveryTypeOK
    <3>5. Cardinality(T) <= HistoryLimit
      BY <3>3, <3>4
    <3> QED
      BY <3>1, <3>5
  <2>5. DeletionShape'
    BY <1>13 DEF CommitDeletion, DeletionShape
  <2> QED
    BY <1>0, <1>13, <2>2, <2>3, <2>4, <2>5 DEF CommitDeletion, RecoveryShapes, RecoveryTypeOK,
       AgentShape, RestorationShape
<1> QED
  BY <1>1, <1>2, <1>3, <1>4, <1>5, <1>6, <1>7, <1>8, <1>9, <1>10, <1>11, <1>12, <1>13 DEF RecoveryNext

\* The newest and the best part only where an administrator steps in; an upload's decision
\* stays right because nobody else adds points.
LEMMA NewestIsBestStep ==
  ASSUME RecoveryInv, [RecoveryNext]_recoveryVars
  PROVE  NewestIsBest'
<1>0. /\ RecoveryShapes /\ NewestIsBest /\ AgentShape /\ points \subseteq Point /\ best \in Nat
      /\ operated \in BOOLEAN
  BY DEF RecoveryInv, RecoveryShapes, RecoveryTypeOK
<1> USE DEF administration, store
<1>1. ASSUME UNCHANGED <<points, operated, best>>, agent' = agent \/ agent' \notin UploadInHand
      PROVE  NewestIsBest'
  <2>1. CASE agent' = agent
    BY <1>0, <1>1, <2>1 DEF NewestIsBest, NewestPoint, Accepted
  <2>2. CASE agent' \notin UploadInHand
    BY <1>0, <1>1, <2>2 DEF NewestIsBest, NewestPoint
  <2> QED
    BY <1>1, <2>1, <2>2
<1>2. CASE BeginUpload
  <2>1. agent \in CaptureInHand
    BY <1>0, <1>2 DEF BeginUpload, AgentShape, Waiting, UploadInHand, RestoreInHand
  <2>2. /\ agent' = [at |-> "uploading", held |-> agent.held, manual |-> agent.manual,
                     verdict |-> Verdict(agent.held, agent.manual), first |-> points = {}]
        /\ UNCHANGED <<points, operated, best>> /\ agent.held \in SUBSET Setting
    BY <1>2, <2>1 DEF BeginUpload, CaptureInHand
  <2>3. /\ agent'.verdict = Verdict(agent.held, agent.manual) /\ agent'.held = agent.held
        /\ agent'.manual = agent.manual
    BY <2>2
  <2>4. ASSUME ~operated, ~agent.manual, Accepted'
        PROVE  /\ \A p \in NewestPoint(points) : Machines(agent.held) >= Machines(p.held)
               /\ agent'.verdict = "existing" => \E p \in points : p.held = agent.held
    <3>1. Verdict(agent.held, FALSE) \in {"new", "existing"}
          /\ agent'.verdict = Verdict(agent.held, FALSE)
      <4>1. agent.manual = FALSE
        BY <2>1, <2>4 DEF CaptureInHand
      <4> QED
        BY <2>3, <2>4, <4>1 DEF Accepted
    <3>2. \A p \in NewestPoint(points) : ~SuspectedReset(p.held, agent.held)
      BY <3>1 DEF Verdict
    <3>3. ASSUME NEW p \in NewestPoint(points) PROVE Machines(agent.held) >= Machines(p.held)
      <4>1. p.held \in SUBSET Setting
        BY <1>0 DEF NewestPoint, Point
      <4>2. Machines(p.held) \in Nat /\ Machines(agent.held) \in Nat
        BY <2>2, <4>1, HeldCounts
      <4>3. ~(Machines(agent.held) < Machines(p.held))
        BY <3>2 DEF SuspectedReset
      <4> QED
        BY <4>2, <4>3
    <3>4. Verdict(agent.held, FALSE) = "existing" => Existing(agent.held, FALSE) # {}
      BY DEF Verdict
    <3> QED
      BY <3>1, <3>3, <3>4 DEF Existing
  <2> QED
    BY <1>0, <2>2, <2>3, <2>4 DEF NewestIsBest, NewestPoint
<1>3. CASE CommitUpload
  <2>1. agent \in UploadInHand /\ agent.manual \in BOOLEAN /\ agent.held \in SUBSET Setting
    BY <1>0, <1>3 DEF CommitUpload, AgentShape, Waiting, CaptureInHand, UploadInHand, RestoreInHand
  <2>2. agent' \notin UploadInHand
    BY <1>3 DEF CommitUpload, UploadInHand, Waiting
  <2>3. PICK m : m = Machines(agent.held)
    OBVIOUS
  <2>4. /\ Stored /\ operated' = (operated \/ (agent.manual /\ Accepted))
        /\ best' = IF Accepted /\ m > best THEN m ELSE best
    BY <1>3, <2>3 DEF CommitUpload
  <2>5. /\ \A p \in points' : p \in points \/ (p.held = agent.held /\ p.manual = agent.manual)
        /\ agent.verdict = "new" /\ ~agent.manual =>
               \E p \in NewestPoint(points') : p.held = agent.held
        /\ agent.verdict # "new" => points' = points
    BY <1>0, <2>1, <2>4, StoredPoints
  <2>6. m \in Nat /\ \A p \in points : Machines(p.held) \in Nat
    BY <1>0, <2>1, <2>3, HeldCounts DEF Point
  <2> SUFFICES ASSUME ~operated'
               PROVE  /\ \A p \in points' : ~p.manual /\ Machines(p.held) <= best'
                      /\ best' > 0 => \E p \in NewestPoint(points') : Machines(p.held) = best'
    BY <2>2 DEF NewestIsBest, NewestPoint
  <2>7. /\ ~operated /\ (Accepted => ~agent.manual)
        /\ \A p \in points : ~p.manual /\ Machines(p.held) <= best
        /\ best > 0 => \E p \in NewestPoint(points) : Machines(p.held) = best
    BY <1>0, <2>1, <2>4 DEF NewestIsBest
  <2>8. CASE ~Accepted
    <3>1. points' = points /\ best' = best
      BY <2>4, <2>5, <2>8 DEF Accepted
    <3> QED
      BY <2>7, <3>1
  <2>9. CASE Accepted
    <3>1. /\ ~agent.manual /\ \A p \in NewestPoint(points) : m >= Machines(p.held)
          /\ agent.verdict = "existing" => \E p \in points : p.held = agent.held
      BY <1>0, <2>1, <2>3, <2>7, <2>9 DEF NewestIsBest
    <3>2. best > 0 => m >= best
      BY <2>7, <3>1
    <3>3. CASE agent.verdict = "existing"
      <4>1. m <= best
        BY <2>3, <2>7, <3>1, <3>3
      <4>2. points' = points /\ best' = best
        BY <1>0, <2>4, <2>5, <2>6, <3>3, <4>1
      <4> QED
        BY <2>7, <4>2
    <3>4. CASE agent.verdict = "new"
      <4>1. \A p \in points' : ~p.manual
        BY <2>5, <2>7, <3>1
      <4>2. best' >= m /\ best' >= best /\ (best' > 0 => best' = m)
        BY <1>0, <2>4, <2>6, <2>9, <3>2
      <4>3. \A p \in points' : Machines(p.held) <= best'
        BY <1>0, <2>3, <2>4, <2>5, <2>6, <2>7, <4>2
      <4> QED
        BY <2>3, <2>5, <3>1, <3>4, <4>1, <4>2, <4>3
    <3> QED
      BY <2>9, <3>3, <3>4 DEF Accepted
  <2> QED
    BY <2>8, <2>9
<1>4. CASE CommitDeletion
  BY <1>4 DEF CommitDeletion, NewestIsBest
<1>5. CASE CaptureSettings \/ ClaimCapture
  BY <1>1, <1>5 DEF CaptureSettings, ClaimCapture, UploadInHand
<1>6. CASE ClaimRestoration \/ RestorationFails \/ RestorationEnds \/ AgentStops
  BY <1>1, <1>6 DEF ClaimRestoration, RestorationFails, RestorationEnds, AgentStops, UploadInHand, Waiting
<1>7. CASE ReplaceFiles \/ RemoveFiles
  <2>1. agent \in RestoreInHand
    BY <1>0, <1>7 DEF ReplaceFiles, RemoveFiles, AgentShape, Waiting, CaptureInHand, UploadInHand
  <2>2. agent' \notin UploadInHand
    BY <1>7, <2>1 DEF ReplaceFiles, RemoveFiles, RestoreInHand, UploadInHand
  <2> QED
    BY <1>1, <1>7, <2>2 DEF ReplaceFiles, RemoveFiles
<1>8. CASE \/ OpenSession \/ RequestCapture \/ \E held \in SUBSET Setting : CloseSession(held)
           \/ \E p \in points : RequestRestoration(p) \/ BeginDeletion(p)
  BY <1>1, <1>8 DEF OpenSession, RequestCapture, CloseSession, RequestRestoration, BeginDeletion
<1>9. CASE UNCHANGED recoveryVars
  BY <1>1, <1>9 DEF recoveryVars
<1> QED
  BY <1>2, <1>3, <1>4, <1>5, <1>6, <1>7, <1>8, <1>9 DEF RecoveryNext

LEMMA RecoverySafety == RecoverySpec => []RecoveryInv
<1>1. RecoveryInit => RecoveryInv
  BY RecoveryInvInit
<1>2. RecoveryInv /\ [RecoveryNext]_recoveryVars => RecoveryInv'
  <2> SUFFICES ASSUME RecoveryInv, [RecoveryNext]_recoveryVars PROVE RecoveryInv'
    OBVIOUS
  <2>1. RecoveryShapes'
    BY RecoveryShapesStep DEF RecoveryInv
  <2>2. NewestIsBest'
    BY NewestIsBestStep
  <2> QED
    BY <2>1, <2>2 DEF RecoveryInv
<1> QED
  BY <1>1, <1>2, PTL DEF RecoverySpec

\* The recovery's variables stay well formed, and the history of automatic points within its
\* limit, for every number of files, points and requests.
THEOREM RecoveryTypes == RecoverySpec => []RecoveryTypeOK
<1>1. RecoveryInv => RecoveryTypeOK
  BY DEF RecoveryInv, RecoveryShapes
<1> QED
  BY <1>1, RecoverySafety, PTL

\* No reset, torn restore, replayed capture or turn of the bounded history loses the last
\* known good configuration (suspected_reset and the pruning of upload_cura_recovery_snapshot).
THEOREM LastGoodRemains == RecoverySpec => []KnownGoodRemains
<1>1. RecoveryInv => KnownGoodRemains
  BY DEF RecoveryInv, NewestIsBest, KnownGoodRemains, NewestPoint
<1> QED
  BY <1>1, RecoverySafety, PTL

-----------------------------------------------------------------------------
(* CuraDeployments and WorkstationAgent: what becomes of rows.             *)

\* A library row holds a library and a nozzle row a diameter.
Row == {d \in Deployment : IF d.op = "library" THEN d.content \in Library ELSE d.content \in Diameter}

\* Rows keep their place, operation and content, whatever their status becomes.
SameRows(before, after) ==
    /\ DOMAIN before \subseteq DOMAIN after
    /\ \A i \in DOMAIN before : after[i].op = before[i].op /\ after[i].content = before[i].content

\* The rows are well formed; the row in the agent's hand, and that of a completion on its
\* way, are there, and what is being written is a library.
RowInHand ==
    /\ deployments \in Seq(Row)
    /\ work.at \in {"deploying", "writing"} => work.row \in DOMAIN deployments
    /\ work.at = "writing" => IsLibrary(deployments[work.row])
    /\ delayed # Nothing => delayed.row \in DOMAIN deployments

CuraInv == CuraTypeOK /\ RowInHand

LEMMA NewRow ==
  /\ \A L \in Library : New("library", L) \in Row
  /\ \A d \in Diameter : New("nozzle", d) \in Row
BY DEF New, Row, Deployment, Status, Active

\* A function over a sequence's places that gives rows is a sequence of rows.
LEMMA RowsOverPlaces ==
  ASSUME NEW rows \in Seq(Row), NEW f, DOMAIN f = DOMAIN rows, f = [i \in DOMAIN f |-> f[i]],
         \A i \in DOMAIN rows : f[i] \in Row
  PROVE  f \in Seq(Row)
<1>1. DOMAIN rows = 1 .. Len(rows) /\ Len(rows) \in Nat
  OBVIOUS
<1> QED
  BY <1>1

LEMMA AppendedRow ==
  ASSUME NEW rows \in Seq(Row), NEW r \in Row
  PROVE  Append(rows, r) \in Seq(Row) /\ SameRows(rows, Append(rows, r))
<1>1. /\ Append(rows, r) \in Seq(Row)
      /\ \A i \in DOMAIN rows : i \in DOMAIN Append(rows, r) /\ Append(rows, r)[i] = rows[i]
  OBVIOUS
<1> QED
  BY <1>1 DEF SameRows

LEMMA UnchangedRows ==
  ASSUME NEW rows
  PROVE  SameRows(rows, rows)
BY DEF SameRows

LEMMA RowsKeptTwice ==
  ASSUME NEW r, NEW s, NEW t, SameRows(r, s), SameRows(s, t)
  PROVE  SameRows(r, t)
BY DEF SameRows

\* queue_cura_library and queue_cura_nozzle_update.
LEMMA LibraryQueued ==
  ASSUME NEW rows \in Seq(Row), NEW L \in Library \cup {NoLibrary}, NEW retry \in BOOLEAN
  PROVE  /\ QueueLibrary(rows, L, retry) \in Seq(Row)
         /\ SameRows(rows, QueueLibrary(rows, L, retry))
<1>1. CASE L = NoLibrary
  BY <1>1, UnchangedRows DEF QueueLibrary
<1>2. CASE L # NoLibrary /\ RowsOf(rows, L) = {}
  BY <1>2, NewRow, AppendedRow DEF QueueLibrary
<1>3. CASE L # NoLibrary /\ RowsOf(rows, L) # {}
  <2>1. PICK q : q = [i \in DOMAIN rows |->
            IF i \in RowsOf(rows, L) /\ Requeues(rows[i].status, retry)
            THEN New("library", L) ELSE rows[i]]
    OBVIOUS
  <2>2. QueueLibrary(rows, L, retry) = q
    BY <1>3, <2>1 DEF QueueLibrary
  <2>3. L \in Library
    BY <1>3
  <2>4. \A i \in DOMAIN rows : rows[i] \in Row
    OBVIOUS
  <2>5. \A i \in DOMAIN rows : q[i] \in Row
    BY <2>1, <2>3, <2>4, NewRow
  <2>6. q \in Seq(Row)
    BY <2>1, <2>5, RowsOverPlaces
  <2>7. ASSUME NEW i \in DOMAIN rows
        PROVE  q[i].op = rows[i].op /\ q[i].content = rows[i].content
    <3>1. CASE i \in RowsOf(rows, L) /\ Requeues(rows[i].status, retry)
      BY <2>1, <3>1 DEF RowsOf, IsLibrary, New
    <3>2. CASE ~(i \in RowsOf(rows, L) /\ Requeues(rows[i].status, retry))
      BY <2>1, <3>2
    <3> QED
      BY <3>1, <3>2
  <2> QED
    BY <2>1, <2>2, <2>6, <2>7 DEF SameRows
<1> QED
  BY <1>1, <1>2, <1>3

LEMMA NozzleQueued ==
  ASSUME NEW rows \in Seq(Row), NEW d \in Diameter
  PROVE  QueueNozzle(rows, d) \in Seq(Row) /\ SameRows(rows, QueueNozzle(rows, d))
BY UnchangedRows, NewRow, AppendedRow DEF QueueNozzle

LEMMA SameRowsIfSame ==
  ASSUME NEW rows \in Seq(Row), NEW f, DOMAIN f = DOMAIN rows, f = [i \in DOMAIN f |-> f[i]],
         \A j \in DOMAIN rows : f[j] \in Row /\ f[j].op = rows[j].op /\ f[j].content = rows[j].content
  PROVE  f \in Seq(Row) /\ SameRows(rows, f)
BY RowsOverPlaces DEF SameRows

\* A claim, a deferral, a settlement and the passing of time do not change what a row is about.
LEMMA RowClaimed ==
  ASSUME NEW rows \in Seq(Row), NEW i
  PROVE  ClaimRow(rows, i) \in Seq(Row) /\ SameRows(rows, ClaimRow(rows, i))
<1>1. \A j \in DOMAIN rows : rows[j] \in Row
  OBVIOUS
<1>2. \A r \in Row : /\ [r EXCEPT !.status = "CLAIMED", !.leased = TRUE] \in Row
                     /\ [r EXCEPT !.status = "CLAIMED", !.leased = TRUE].op = r.op
                     /\ [r EXCEPT !.status = "CLAIMED", !.leased = TRUE].content = r.content
  BY DEF Row, Deployment, Status, Active
<1>3. PICK f : f = ClaimRow(rows, i)
  OBVIOUS
<1>4. /\ DOMAIN f = DOMAIN rows /\ f = [j \in DOMAIN f |-> f[j]]
      /\ \A j \in DOMAIN rows : f[j] = IF j = i THEN [rows[j] EXCEPT !.status = "CLAIMED", !.leased = TRUE]
                                       ELSE rows[j]
  BY <1>3 DEF ClaimRow
<1>5. \A j \in DOMAIN rows : f[j] \in Row /\ f[j].op = rows[j].op /\ f[j].content = rows[j].content
  <2> SUFFICES ASSUME NEW j \in DOMAIN rows
               PROVE  f[j] \in Row /\ f[j].op = rows[j].op /\ f[j].content = rows[j].content
    OBVIOUS
  <2>1. rows[j] \in Row
    BY <1>1
  <2>2. CASE j = i
    BY <1>2, <1>4, <2>1, <2>2
  <2>3. CASE j # i
    BY <1>4, <2>1, <2>3
  <2> QED
    BY <2>2, <2>3
<1>6. f \in Seq(Row) /\ SameRows(rows, f)
  BY <1>4, <1>5, SameRowsIfSame
<1> QED
  BY <1>3, <1>6

LEMMA RowDeferred ==
  ASSUME NEW rows \in Seq(Row), NEW i
  PROVE  Defer(rows, i) \in Seq(Row) /\ SameRows(rows, Defer(rows, i))
<1>1. \A j \in DOMAIN rows : rows[j] \in Row
  OBVIOUS
<1>2. ASSUME NEW r \in Row
      PROVE  LET d == [r EXCEPT !.status = "PENDING", !.due = FALSE, !.leased = FALSE] IN
             d \in Row /\ d.op = r.op /\ d.content = r.content
  BY DEF Row, Deployment, Status, Active
<1>3. PICK f : f = Defer(rows, i)
  OBVIOUS
<1>4. /\ DOMAIN f = DOMAIN rows /\ f = [j \in DOMAIN f |-> f[j]]
      /\ \A j \in DOMAIN rows :
            f[j] = IF j = i THEN [rows[j] EXCEPT !.status = "PENDING", !.due = FALSE, !.leased = FALSE]
                   ELSE rows[j]
  BY <1>3 DEF Defer
<1>5. \A j \in DOMAIN rows : f[j] \in Row /\ f[j].op = rows[j].op /\ f[j].content = rows[j].content
  <2> SUFFICES ASSUME NEW j \in DOMAIN rows
               PROVE  f[j] \in Row /\ f[j].op = rows[j].op /\ f[j].content = rows[j].content
    OBVIOUS
  <2>1. rows[j] \in Row
    BY <1>1
  <2>2. CASE j = i
    BY <1>2, <1>4, <2>1, <2>2
  <2>3. CASE j # i
    BY <1>4, <2>1, <2>3
  <2> QED
    BY <2>2, <2>3
<1>6. f \in Seq(Row) /\ SameRows(rows, f)
  BY <1>4, <1>5, SameRowsIfSame
<1> QED
  BY <1>3, <1>6

LEMMA RowSettled ==
  ASSUME NEW rows \in Seq(Row), NEW i, NEW status \in {"SUCCEEDED", "FAILED"}
  PROVE  Settle(rows, i, status) \in Seq(Row) /\ SameRows(rows, Settle(rows, i, status))
<1>1. \A j \in DOMAIN rows : rows[j] \in Row
  OBVIOUS
<1>2. ASSUME NEW r \in Row
      PROVE  LET d == [r EXCEPT !.status = status, !.leased = FALSE] IN
             d \in Row /\ d.op = r.op /\ d.content = r.content
  BY DEF Row, Deployment, Status, Active
<1>3. PICK f : f = Settle(rows, i, status)
  OBVIOUS
<1>4. /\ DOMAIN f = DOMAIN rows /\ f = [j \in DOMAIN f |-> f[j]]
      /\ \A j \in DOMAIN rows :
            f[j] = IF j = i THEN [rows[j] EXCEPT !.status = status, !.leased = FALSE] ELSE rows[j]
  BY <1>3 DEF Settle
<1>5. \A j \in DOMAIN rows : f[j] \in Row /\ f[j].op = rows[j].op /\ f[j].content = rows[j].content
  <2> SUFFICES ASSUME NEW j \in DOMAIN rows
               PROVE  f[j] \in Row /\ f[j].op = rows[j].op /\ f[j].content = rows[j].content
    OBVIOUS
  <2>1. rows[j] \in Row
    BY <1>1
  <2>2. CASE j = i
    <3>1. f[j] = [rows[j] EXCEPT !.status = status, !.leased = FALSE]
      BY <1>4, <2>2
    <3> QED
      BY <1>2, <2>1, <3>1
  <2>3. CASE j # i
    BY <1>4, <2>1, <2>3
  <2> QED
    BY <2>2, <2>3
<1>6. f \in Seq(Row) /\ SameRows(rows, f)
  BY <1>4, <1>5, SameRowsIfSame
<1> QED
  BY <1>3, <1>6

\* So do the cancellation of the failed library rows beside one that succeeded ...
LEMMA FailedClosed ==
  ASSUME NEW rows \in Seq(Row), NEW i
  PROVE  CloseFailed(rows, i) \in Seq(Row) /\ SameRows(rows, CloseFailed(rows, i))
<1>1. \A j \in DOMAIN rows : rows[j] \in Row
  OBVIOUS
<1>2. ASSUME NEW r \in Row
      PROVE  LET d == [r EXCEPT !.status = "CANCELLED"] IN
             d \in Row /\ d.op = r.op /\ d.content = r.content
  BY DEF Row, Deployment, Status, Active
<1>3. PICK f : f = CloseFailed(rows, i)
  OBVIOUS
<1>4. /\ DOMAIN f = DOMAIN rows /\ f = [j \in DOMAIN f |-> f[j]]
      /\ \A j \in DOMAIN rows :
            f[j] = IF j # i /\ IsLibrary(rows[j]) /\ rows[j].status = "FAILED"
                   THEN [rows[j] EXCEPT !.status = "CANCELLED"] ELSE rows[j]
  BY <1>3 DEF CloseFailed
<1>5. \A j \in DOMAIN rows : f[j] \in Row /\ f[j].op = rows[j].op /\ f[j].content = rows[j].content
  BY <1>1, <1>2, <1>4
<1>6. f \in Seq(Row) /\ SameRows(rows, f)
  BY <1>4, <1>5, SameRowsIfSame
<1> QED
  BY <1>3, <1>6

\* ... and complete_cura_deployment.
LEMMA CompletionKeepsRows ==
  ASSUME deployments \in Seq(Row), desired \in Library \cup {NoLibrary}, NEW i,
         NEW outcome \in {"deferred", "SUCCEEDED", "FAILED"}
  PROVE  Completed(i, outcome) \in Seq(Row) /\ SameRows(deployments, Completed(i, outcome))
<1>1. CASE outcome = "deferred"
  <2>1. Completed(i, outcome) = Defer(deployments, i)
    BY <1>1 DEF Completed
  <2> QED
    BY <2>1, RowDeferred
<1>2. CASE outcome # "deferred"
  <2>1. PICK settled : settled = Settle(deployments, i, outcome)
    OBVIOUS
  <2>2. settled \in Seq(Row) /\ SameRows(deployments, settled)
    BY <1>2, <2>1, RowSettled
  <2>3. Completed(i, outcome) \in {settled, CloseFailed(settled, i), QueueLibrary(settled, desired, TRUE)}
    BY <1>2, <2>1 DEF Completed
  <2>4. CloseFailed(settled, i) \in Seq(Row) /\ SameRows(settled, CloseFailed(settled, i))
    BY <2>2, FailedClosed
  <2>5. /\ QueueLibrary(settled, desired, TRUE) \in Seq(Row)
        /\ SameRows(settled, QueueLibrary(settled, desired, TRUE))
    BY <2>2, LibraryQueued
  <2>6. \A rows : SameRows(settled, rows) => SameRows(deployments, rows)
    BY <2>2, RowsKeptTwice
  <2> QED
    BY <2>2, <2>3, <2>4, <2>5, <2>6
<1> QED
  BY <1>1, <1>2

\* The server's rows and settings are well formed.
ServerInv == ServerTypeOK /\ deployments \in Seq(Row)

LEMMA RowsAreDeployments == Seq(Row) \subseteq Seq(Deployment)
<1>1. Row \subseteq Deployment
  BY DEF Row
<1> QED
  BY <1>1

\* Replacing a restore by another leaves a sequence of restores.
LEMMA RestoreReplaced ==
  ASSUME NEW rows \in Seq(Restore), NEW i, NEW r, i \in DOMAIN rows => r \in Restore
  PROVE  [rows EXCEPT ![i] = r] \in Seq(Restore)
<1>1. PICK f : f = [rows EXCEPT ![i] = r]
  OBVIOUS
<1>2. DOMAIN rows = 1 .. Len(rows) /\ Len(rows) \in Nat /\ \A j \in DOMAIN rows : rows[j] \in Restore
  OBVIOUS
<1>3. f = [j \in 1 .. Len(rows) |-> f[j]] /\ \A j \in 1 .. Len(rows) : f[j] \in Restore
  BY <1>1, <1>2
<1>4. f \in Seq(Restore)
  BY <1>2, <1>3
<1> QED
  BY <1>1, <1>4

\* "Push app settings" cancels rows and changes no other part of them.
LEMMA SyncKeepsRows ==
  ASSUME ServerInv, SyncNow
  PROVE  deployments' \in Seq(Row) /\ SameRows(deployments, deployments')
<1>1. PICK queued : queued = QueueLibrary(deployments, desired, TRUE)
  OBVIOUS
<1>2. queued \in Seq(Row) /\ SameRows(deployments, queued)
  BY <1>1, LibraryQueued DEF ServerInv, ServerTypeOK
<1>3. PICK f : f = deployments'
  OBVIOUS
<1>4. /\ DOMAIN f = DOMAIN queued /\ f = [j \in DOMAIN f |-> f[j]]
      /\ \A j \in DOMAIN queued :
            f[j] = IF Superseded(queued[j]) THEN [queued[j] EXCEPT !.status = "CANCELLED"]
                   ELSE IF j \in RowsOf(queued, desired) /\ queued[j].status = "PENDING"
                   THEN [queued[j] EXCEPT !.due = TRUE] ELSE queued[j]
  BY <1>1, <1>3 DEF SyncNow
<1>5. \A r \in Row : /\ [r EXCEPT !.status = "CANCELLED"] \in Row /\ [r EXCEPT !.due = TRUE] \in Row
                     /\ [r EXCEPT !.status = "CANCELLED"].op = r.op
                     /\ [r EXCEPT !.status = "CANCELLED"].content = r.content
                     /\ [r EXCEPT !.due = TRUE].op = r.op
                     /\ [r EXCEPT !.due = TRUE].content = r.content
  BY DEF Row, Deployment, Status, Active
<1>6. \A j \in DOMAIN queued : queued[j] \in Row
  BY <1>2
<1>7. \A j \in DOMAIN queued : f[j] \in Row /\ f[j].op = queued[j].op /\ f[j].content = queued[j].content
  <2> SUFFICES ASSUME NEW j \in DOMAIN queued
               PROVE  f[j] \in Row /\ f[j].op = queued[j].op /\ f[j].content = queued[j].content
    OBVIOUS
  <2>1. queued[j] \in Row
    BY <1>6
  <2>2. \/ f[j] = [queued[j] EXCEPT !.status = "CANCELLED"]
        \/ f[j] = [queued[j] EXCEPT !.due = TRUE]
        \/ f[j] = queued[j]
    BY <1>4
  <2> QED
    BY <1>5, <2>1, <2>2
<1>8. f \in Seq(Row) /\ SameRows(queued, f)
  BY <1>2, <1>4, <1>7, SameRowsIfSame
<1> QED
  BY <1>2, <1>3, <1>8, RowsKeptTwice

\* A deferral that is over and a lease that lapsed touch nothing else of a row.
LEMMA ClocksKeepRows ==
  ASSUME ServerInv, BecomeDue \/ Lapse
  PROVE  ServerInv' /\ SameRows(deployments, deployments')
<1>1. /\ deployments \in Seq(Row) /\ restores \in Seq(Restore)
      /\ UNCHANGED <<managed, desired, canonical, reported, bucket, changes>>
  BY DEF ServerInv, ServerTypeOK, BecomeDue, Lapse
<1>2. ASSUME NEW i \in DOMAIN deployments, NEW f, DOMAIN f = DOMAIN deployments,
             f = [j \in DOMAIN f |-> f[j]],
             \/ \A j \in DOMAIN deployments :
                   f[j] = IF j = i THEN [deployments[j] EXCEPT !.due = TRUE] ELSE deployments[j]
             \/ \A j \in DOMAIN deployments :
                   f[j] = IF j = i THEN [deployments[j] EXCEPT !.leased = FALSE] ELSE deployments[j]
      PROVE  f \in Seq(Row) /\ SameRows(deployments, f)
  <2>1. \A r \in Row : LET d == [r EXCEPT !.due = TRUE] e == [r EXCEPT !.leased = FALSE] IN
           /\ d \in Row /\ d.op = r.op /\ d.content = r.content
           /\ e \in Row /\ e.op = r.op /\ e.content = r.content
    BY DEF Row, Deployment
  <2>2. \A j \in DOMAIN deployments : deployments[j] \in Row
    BY <1>1
  <2>3. \A j \in DOMAIN deployments : /\ f[j] \in Row /\ f[j].op = deployments[j].op
                                      /\ f[j].content = deployments[j].content
    <3> SUFFICES ASSUME NEW j \in DOMAIN deployments
                 PROVE  /\ f[j] \in Row /\ f[j].op = deployments[j].op
                        /\ f[j].content = deployments[j].content
      OBVIOUS
    <3>1. deployments[j] \in Row
      BY <2>2
    <3>2. \/ f[j] = [deployments[j] EXCEPT !.due = TRUE]
          \/ f[j] = [deployments[j] EXCEPT !.leased = FALSE]
          \/ f[j] = deployments[j]
      BY <1>2
    <3> QED
      BY <2>1, <3>1, <3>2
  <2> QED
    BY <1>1, <1>2, <2>3, SameRowsIfSame
<1>3. deployments' \in Seq(Row) /\ SameRows(deployments, deployments')
  <2>1. CASE UNCHANGED deployments
    BY <1>1, <2>1, UnchangedRows
  <2>2. CASE \E i \in DOMAIN deployments : \/ deployments' = [deployments EXCEPT ![i].due = TRUE]
                                           \/ deployments' = [deployments EXCEPT ![i].leased = FALSE]
    <3>1. PICK i \in DOMAIN deployments : \/ deployments' = [deployments EXCEPT ![i].due = TRUE]
                                          \/ deployments' = [deployments EXCEPT ![i].leased = FALSE]
      BY <2>2
    <3>2. PICK f : f = deployments'
      OBVIOUS
    <3>3. /\ DOMAIN f = DOMAIN deployments /\ f = [j \in DOMAIN f |-> f[j]]
          /\ \/ \A j \in DOMAIN deployments :
                   f[j] = IF j = i THEN [deployments[j] EXCEPT !.due = TRUE] ELSE deployments[j]
             \/ \A j \in DOMAIN deployments :
                   f[j] = IF j = i THEN [deployments[j] EXCEPT !.leased = FALSE] ELSE deployments[j]
      BY <3>1, <3>2
    <3> QED
      <4>1. f \in Seq(Row) /\ SameRows(deployments, f)
        BY <1>2, <3>3
      <4> QED
        BY <3>2, <4>1
  <2> QED
    BY <2>1, <2>2 DEF BecomeDue, Lapse
<1>4. restores' \in Seq(Restore)
  <2>1. CASE UNCHANGED restores
    BY <1>1, <2>1
  <2>2. CASE \E i \in DOMAIN restores : \/ restores' = [restores EXCEPT ![i].due = TRUE]
                                        \/ restores' = [restores EXCEPT ![i].leased = FALSE]
    <3>1. \A r \in Restore : [r EXCEPT !.due = TRUE] \in Restore /\ [r EXCEPT !.leased = FALSE] \in Restore
      BY DEF Restore
    <3>2. PICK i \in DOMAIN restores : \/ restores' = [restores EXCEPT ![i].due = TRUE]
                                       \/ restores' = [restores EXCEPT ![i].leased = FALSE]
      BY <2>2
    <3>3. restores[i] \in Restore
      BY <1>1
    <3>4. \/ restores' = [restores EXCEPT ![i] = [restores[i] EXCEPT !.due = TRUE]]
          \/ restores' = [restores EXCEPT ![i] = [restores[i] EXCEPT !.leased = FALSE]]
      BY <3>2
    <3> QED
      <4>1. PICK r \in Restore : restores' = [restores EXCEPT ![i] = r]
        BY <3>1, <3>3, <3>4
      <4> QED
        BY <1>1, <4>1, RestoreReplaced
  <2> QED
    BY <2>1, <2>2 DEF BecomeDue, Lapse
<1> QED
  BY <1>1, <1>3, <1>4, RowsAreDeployments DEF ServerInv, ServerTypeOK

LEMMA PeopleKeepRows ==
  ASSUME ServerInv, PeopleStep \/ TimeStep
  PROVE  ServerInv' /\ SameRows(deployments, deployments')
<1>0. /\ deployments \in Seq(Row) /\ restores \in Seq(Restore) /\ ServerTypeOK
      /\ managed \in BOOLEAN /\ desired \in Library \cup {NoLibrary} /\ canonical \in Diameter
      /\ reported \in [Installation -> Diameter] /\ bucket \subseteq [Installation -> Diameter]
      /\ changes \in 0 .. MaxChanges /\ MaxChanges \in Nat
  BY DeploymentsAssumption DEF ServerInv, ServerTypeOK
<1>1. ASSUME NEW L \in Library \cup {NoLibrary}
      PROVE  /\ QueueLibrary(deployments, L, TRUE) \in Seq(Row)
             /\ SameRows(deployments, QueueLibrary(deployments, L, TRUE))
  BY <1>0, LibraryQueued
<1>2. Change => changes' \in 0 .. MaxChanges
  BY <1>0 DEF Change
<1>3. ASSUME NEW L \in Library, PublishSettings(L)
      PROVE  ServerInv' /\ SameRows(deployments, deployments')
  <2>1. deployments' \in Seq(Row) /\ SameRows(deployments, deployments')
    BY <1>0, <1>1, <1>3, UnchangedRows DEF PublishSettings, WhenManaged
  <2> QED
    BY <1>0, <1>2, <1>3, <2>1, RowsAreDeployments DEF PublishSettings, ServerInv, ServerTypeOK
<1>4. ASSUME NEW d \in Diameter, InstallNozzle(d)
      PROVE  ServerInv' /\ SameRows(deployments, deployments')
  <2>1. deployments' \in Seq(Row) /\ SameRows(deployments, deployments')
    BY <1>0, <1>4, NozzleQueued, UnchangedRows DEF InstallNozzle, WhenManaged
  <2> QED
    BY <1>0, <1>2, <1>4, <2>1, RowsAreDeployments DEF InstallNozzle, ServerInv, ServerTypeOK
<1>5. CASE EnableManagement \/ DisableManagement \/ DeployProfile
  <2>1. deployments' \in Seq(Row) /\ SameRows(deployments, deployments')
    BY <1>0, <1>1, <1>5, UnchangedRows DEF EnableManagement, DisableManagement, DeployProfile
  <2> QED
    BY <1>0, <1>2, <1>5, <2>1, RowsAreDeployments
    DEF EnableManagement, DisableManagement, DeployProfile, ServerInv, ServerTypeOK
<1>6. CASE SyncNow
  BY <1>0, <1>2, <1>6, SyncKeepsRows, RowsAreDeployments DEF SyncNow, ServerInv, ServerTypeOK
<1>7. ASSUME NEW b \in BOOLEAN, RequestRestore(b)
      PROVE  ServerInv' /\ SameRows(deployments, deployments')
  <2>1. [status |-> "PENDING", due |-> TRUE, leased |-> FALSE, initialize |-> b] \in Restore
    BY DEF Restore, Status, Active
  <2>2. restores' \in Seq(Restore)
    BY <1>0, <1>7, <2>1 DEF RequestRestore
  <2> QED
    BY <1>0, <1>2, <1>7, <2>2, RowsAreDeployments, UnchangedRows DEF RequestRestore, ServerInv, ServerTypeOK
<1>8. CASE NextBucket
  BY <1>0, <1>8, RowsAreDeployments, UnchangedRows DEF NextBucket, ServerInv, ServerTypeOK
<1> QED
  BY <1>3, <1>4, <1>5, <1>6, <1>7, <1>8, ClocksKeepRows DEF PeopleStep, TimeStep

LEMMA HeartbeatKeepsRows ==
  ASSUME ServerInv, NEW seen \in Seen, Heartbeat(seen)
  PROVE  ServerInv' /\ SameRows(deployments, deployments')
<1>0. /\ deployments \in Seq(Row) /\ ServerTypeOK
      /\ managed \in BOOLEAN /\ desired \in Library \cup {NoLibrary} /\ canonical \in Diameter
      /\ bucket \subseteq [Installation -> Diameter]
      /\ seen.diameters \in [Installation -> Diameter] /\ seen.unmanaged \in BOOLEAN
  BY DEF ServerInv, ServerTypeOK, Seen
<1>1. PICK nozzled : nozzled = IF DriftQueues(seen.diameters)
                               THEN QueueNozzle(deployments, canonical) ELSE deployments
  OBVIOUS
<1>2. SameRows(deployments, deployments)
  BY UnchangedRows
<1>3. nozzled \in Seq(Row) /\ SameRows(deployments, nozzled)
  BY <1>0, <1>1, <1>2, NozzleQueued
<1>4. PICK q : q = QueueLibrary(nozzled, desired, FALSE)
  OBVIOUS
<1>5. q \in Seq(Row) /\ SameRows(nozzled, q)
  BY <1>0, <1>3, <1>4, LibraryQueued
<1>6. SameRows(deployments, q)
  BY <1>3, <1>5, RowsKeptTwice
<1>7. /\ deployments' \in {deployments, nozzled, q}
      /\ bucket' \in {bucket, bucket \cup {seen.diameters}}
      /\ managed' \in BOOLEAN /\ reported' = seen.diameters
      /\ UNCHANGED <<desired, canonical, restores, changes>>
  BY <1>0, <1>1, <1>4 DEF Heartbeat
<1>8. deployments' \in Seq(Row) /\ SameRows(deployments, deployments')
  BY <1>0, <1>2, <1>3, <1>5, <1>6, <1>7
<1> QED
  BY <1>0, <1>7, <1>8, RowsAreDeployments DEF ServerInv, ServerTypeOK

LEMMA CompletionsKeepRows ==
  ASSUME ServerInv, NEW i, NEW outcome \in {"deferred", "SUCCEEDED", "FAILED"},
         CompleteDeployment(i, outcome) \/ CompleteRestore(i, outcome)
  PROVE  ServerInv' /\ SameRows(deployments, deployments')
<1>0. /\ deployments \in Seq(Row) /\ restores \in Seq(Restore) /\ ServerTypeOK
      /\ managed \in BOOLEAN /\ desired \in Library \cup {NoLibrary} /\ canonical \in Diameter
  BY DEF ServerInv, ServerTypeOK
<1>1. CASE CompleteDeployment(i, outcome)
  <2>1. deployments' \in Seq(Row) /\ SameRows(deployments, deployments')
    BY <1>0, <1>1, CompletionKeepsRows, UnchangedRows DEF CompleteDeployment
  <2> QED
    BY <1>0, <1>1, <2>1, RowsAreDeployments DEF CompleteDeployment, ServerInv, ServerTypeOK
<1>2. CASE CompleteRestore(i, outcome)
  <2>1. CASE restores[i].status # "CLAIMED"
    BY <1>0, <1>2, <2>1, UnchangedRows DEF CompleteRestore, ServerInv, ServerTypeOK
  <2>2. CASE restores[i].status = "CLAIMED"
    <3>1. PICK nozzled : nozzled = QueueNozzle(deployments, canonical)
      OBVIOUS
    <3>2. nozzled \in Seq(Row) /\ SameRows(deployments, nozzled)
      BY <1>0, <3>1, NozzleQueued
    <3>3. PICK q : q = QueueLibrary(nozzled, desired, TRUE)
      OBVIOUS
    <3>4. q \in Seq(Row) /\ SameRows(nozzled, q)
      BY <1>0, <3>2, <3>3, LibraryQueued
    <3>5. SameRows(deployments, q)
      BY <3>2, <3>4, RowsKeptTwice
    <3>6. deployments' \in Seq(Row) /\ SameRows(deployments, deployments')
      <4>1. deployments' \in {deployments, q}
        BY <1>2, <2>2, <3>1, <3>3 DEF CompleteRestore
      <4> QED
        BY <1>0, <3>4, <3>5, <4>1, UnchangedRows
    <3>7. restores' \in Seq(Restore)
      <4>1. \A r \in Restore : /\ [r EXCEPT !.status = "PENDING", !.due = FALSE, !.leased = FALSE] \in Restore
                               /\ [r EXCEPT !.status = "SUCCEEDED", !.leased = FALSE] \in Restore
                               /\ [r EXCEPT !.status = "FAILED", !.leased = FALSE] \in Restore
        BY DEF Restore, Status, Active
      <4>2. Defer(restores, i) \in Seq(Restore)
        <5>1. i \in DOMAIN restores =>
                 [restores[i] EXCEPT !.status = "PENDING", !.due = FALSE, !.leased = FALSE] \in Restore
          <6>1. i \in DOMAIN restores => restores[i] \in Restore
            BY <1>0
          <6> QED
            BY <4>1, <6>1
        <5>2. Defer(restores, i) =
                 [restores EXCEPT ![i] = [restores[i] EXCEPT !.status = "PENDING", !.due = FALSE,
                                                             !.leased = FALSE]]
          BY DEF Defer
        <5> QED
          BY <1>0, <5>1, <5>2, RestoreReplaced
      <4>3. ASSUME NEW status \in {"SUCCEEDED", "FAILED"} PROVE Settle(restores, i, status) \in Seq(Restore)
        <5>1. i \in DOMAIN restores => [restores[i] EXCEPT !.status = status, !.leased = FALSE] \in Restore
          <6>1. i \in DOMAIN restores => restores[i] \in Restore
            BY <1>0
          <6> QED
            BY <4>1, <6>1
        <5>2. Settle(restores, i, status) =
                 [restores EXCEPT ![i] = [restores[i] EXCEPT !.status = status, !.leased = FALSE]]
          BY DEF Settle
        <5> QED
          BY <1>0, <5>1, <5>2, RestoreReplaced
      <4>4. restores' = IF outcome = "deferred" THEN Defer(restores, i) ELSE Settle(restores, i, outcome)
        BY <1>2, <2>2 DEF CompleteRestore
      <4> QED
        BY <4>2, <4>3, <4>4
    <3>8. managed' \in BOOLEAN
      BY <1>2, <2>2 DEF CompleteRestore
    <3>9. UNCHANGED <<desired, canonical, reported, bucket, changes>>
      BY <1>2 DEF CompleteRestore
    <3> QED
      BY <1>0, <3>6, <3>7, <3>8, <3>9, RowsAreDeployments DEF ServerInv, ServerTypeOK
  <2> QED
    BY <2>1, <2>2
<1> QED
  BY <1>1, <1>2

-----------------------------------------------------------------------------
(* What the agent does to the directories.                                 *)

LEMMA DirectoryMoves ==
  ASSUME NEW d \in Directory
  PROVE  /\ \A f \in File, c \in Content : [d EXCEPT !.files[f] = c] \in Directory
         /\ \A L \in Library \cup {NoLibrary} : [d EXCEPT !.manifest = L] \in Directory
         /\ \A w \in Diameter : [d EXCEPT !.files["machine"] = NoLibrary, !.diameter = w] \in Directory
         /\ \A w \in Diameter : [d EXCEPT !.diameter = w, !.files["machine"] = NoLibrary] \in Directory
         /\ \A zip \in Files \X (Library \cup {NoLibrary}) : PutBack(d, zip) \in Directory
         /\ Saved(d) \in Files \X (Library \cup {NoLibrary})
         /\ Verified(d) \in Library \cup {NoLibrary}
<1>0. d.files \in [File -> Content] /\ d.manifest \in Library \cup {NoLibrary} /\ d.diameter \in Diameter
  BY DEF Directory, Files
<1>1. \A f \in File, c \in Content : [d.files EXCEPT ![f] = c] \in Files
  BY <1>0 DEF Files
<1>2. "machine" \in File /\ NoLibrary \in Content
  BY DEF File, Content
<1>3. \A f \in File, c \in Content : [d EXCEPT !.files[f] = c] \in Directory
  BY <1>1 DEF Directory
<1>4. \A w \in Diameter : /\ [d EXCEPT !.files["machine"] = NoLibrary, !.diameter = w] \in Directory
                          /\ [d EXCEPT !.diameter = w, !.files["machine"] = NoLibrary] \in Directory
  BY <1>1, <1>2 DEF Directory
<1>5. \A L \in Library \cup {NoLibrary} : [d EXCEPT !.manifest = L] \in Directory
  BY DEF Directory
<1>6. \A zip \in Files \X (Library \cup {NoLibrary}) : PutBack(d, zip) \in Directory
  BY DEF Directory, PutBack
<1>7. Saved(d) \in Files \X (Library \cup {NoLibrary})
  BY <1>0 DEF Saved, Files
<1>8. Verified(d) \in Library \cup {NoLibrary}
  BY <1>0 DEF Verified
<1> QED
  BY <1>3, <1>4, <1>5, <1>6, <1>7, <1>8

\* A recovery puts back machine files, quality profiles and the extruder's diameter.
LEMMA DirectoryRestored ==
  ASSUME NEW d \in Directory, NEW q \in {CleanedProfiles, Own}, NEW w \in Diameter
  PROVE  [d EXCEPT !.files["machine"] = NoLibrary, !.files["quality"] = q, !.diameter = w] \in Directory
<1>1. d.files \in Files
  BY DEF Directory
<1>2. "machine" \in File /\ "quality" \in File /\ NoLibrary \in Content /\ q \in Content
  BY DEF File, Content, CleanedProfiles
<1>3. [d.files EXCEPT !["machine"] = NoLibrary, !["quality"] = q] \in Files
  BY <1>1, <1>2 DEF Files
<1>4. [d EXCEPT !.files["machine"] = NoLibrary, !.files["quality"] = q, !.diameter = w]
      = [d EXCEPT !.files = [d.files EXCEPT !["machine"] = NoLibrary, !["quality"] = q], !.diameter = w]
  OBVIOUS
<1> QED
  BY <1>3, <1>4 DEF Directory

LEMMA CuraInvInit ==
  ASSUME CuraInit
  PROVE  CuraInv
<1>1. deployments \in Seq(Row) /\ deployments \in Seq(Deployment) /\ restores \in Seq(Restore)
  BY DEF CuraInit, ServerInit
<1>2. ServerTypeOK
  <2>1. reported \in [Installation -> Diameter] /\ bucket \subseteq [Installation -> Diameter]
    BY DeploymentsAssumption DEF CuraInit, ServerInit
  <2>2. /\ managed = FALSE /\ desired \in Library \cup {NoLibrary} /\ canonical \in Diameter
        /\ changes \in 0 .. MaxChanges
    BY DeploymentsAssumption DEF CuraInit, ServerInit
  <2> QED
    BY <1>1, <2>1, <2>2 DEF ServerTypeOK
<1>3. \A c \in {NoLibrary, Own} : [files |-> [f \in File |-> c], manifest |-> NoLibrary,
                                   diameter |-> FirstDiameter] \in Directory
  BY DeploymentsAssumption DEF Directory, Files, Content
<1>4. disk \in [Installation -> Directory]
  BY <1>3 DEF CuraInit, AgentInit
<1>5. work \in Work /\ work.at = "idle" /\ delayed = Nothing
  BY DEF CuraInit, AgentInit, Work, Idle
<1>6. CuraTypeOK
  <2>1. original = Nothing /\ cura = FALSE /\ mishaps \in 0 .. MaxMishaps
    BY AgentAssumption DEF CuraInit, AgentInit
  <2> QED
    BY <1>2, <1>4, <1>5, <2>1 DEF CuraTypeOK
<1> QED
  BY <1>1, <1>5, <1>6 DEF CuraInv, RowInHand

\* What the agent has read, by where it is.
LEMMA WorkShapes ==
  ASSUME work \in Work
  PROVE  /\ work.at = "seen" => work.running \in BOOLEAN /\ work.seen \in Seen
         /\ work.at \in {"restores", "deployments"} =>
               /\ work.running \in BOOLEAN
               /\ work \in [at : {"restores", "deployments"}, running : BOOLEAN]
         /\ work.at \in {"restoring", "restored"} => 
               work \in [at : {"restoring", "restored"}, running : BOOLEAN, row : Nat]
         /\ work.at = "deploying" => 
               work \in [at : {"deploying"}, running : BOOLEAN, row : Nat,
                         todo : SUBSET Installation, applied : BOOLEAN]
         /\ work.at = "writing" => 
               work \in [at : {"writing"}, running : BOOLEAN, row : Nat, todo : SUBSET Installation,
                         applied : BOOLEAN, on : Installation, left : SUBSET File,
                         zip : Files \X (Library \cup {NoLibrary})]
BY DEF Work, Idle

\* Whatever the rows become, those in hand and on their way stay there and what they are.
LEMMA HandKeepsRow ==
  ASSUME RowInHand, deployments' \in Seq(Row), SameRows(deployments, deployments'),
         delayed' \in {delayed, Nothing},
         \/ work' = work
         \/ work'.at \notin {"deploying", "writing"}
         \/ work.at \in {"deploying", "writing"} /\ work'.at = "deploying" /\ work'.row = work.row
         \/ work.at = "writing" /\ work'.at = "writing" /\ work'.row = work.row
  PROVE  RowInHand'
BY DEF RowInHand, SameRows, IsLibrary

\* Every step keeps the invariant.
LEMMA CuraStep ==
  ASSUME CuraInv, [CuraNext]_vars
  PROVE  CuraInv'
<1>0. /\ ServerInv /\ RowInHand /\ disk \in [Installation -> Directory]
      /\ original \in [Installation -> Directory] \cup {Nothing} /\ cura \in BOOLEAN
      /\ work \in Work /\ mishaps \in 0 .. MaxMishaps /\ MaxMishaps \in Nat
      /\ deployments \in Seq(Row) /\ restores \in Seq(Restore) /\ CuraTypeOK
      /\ delayed \in [row : Nat, outcome : {"deferred", "SUCCEEDED", "FAILED"}] \cup {Nothing}
  BY AgentAssumption DEF CuraInv, CuraTypeOK, ServerInv, ServerTypeOK, RowInHand
<1>1. Mishap => mishaps' \in 0 .. MaxMishaps
  BY <1>0 DEF Mishap
<1>2. SameRows(deployments, deployments)
  BY UnchangedRows
<1>3. ASSUME ServerInv', SameRows(deployments, deployments'),
             disk' \in [Installation -> Directory], original' \in {original, disk, Nothing},
             cura' \in BOOLEAN, work' \in Work, mishaps' \in 0 .. MaxMishaps, delayed' \in {delayed, Nothing},
             \/ work' = work
             \/ work'.at \notin {"deploying", "writing"}
             \/ work.at \in {"deploying", "writing"} /\ work'.at = "deploying" /\ work'.row = work.row
             \/ work.at = "writing" /\ work'.at = "writing" /\ work'.row = work.row
      PROVE  CuraInv'
  <2>1. RowInHand'
    BY <1>0, <1>3, HandKeepsRow DEF ServerInv
  <2> QED
    BY <1>0, <1>3, <2>1 DEF CuraInv, CuraTypeOK, ServerInv
<1>4. UNCHANGED serverVars => ServerInv' /\ SameRows(deployments, deployments')
  BY <1>0, <1>2 DEF serverVars, ServerInv, ServerTypeOK
<1>5. Idle \in Work /\ Idle.at = "idle"
  BY DEF Work, Idle
<1>6. \A i \in Installation : disk[i] \in Directory
  BY <1>0
<1>7. CASE UNCHANGED vars
  BY <1>0, <1>3, <1>4, <1>7 DEF vars, agentVars
<1>8. CASE (PeopleStep \/ TimeStep) /\ UNCHANGED agentVars
  BY <1>0, <1>3, <1>8, PeopleKeepRows DEF agentVars
<1>9. CASE Discover
  <2>1. Discovered(Installation) \in Seen
    <3>1. \A i \in Installation : Verified(disk[i]) \in Library \cup {NoLibrary} /\ disk[i].diameter \in Diameter
      BY <1>6, DirectoryMoves DEF Directory
    <3> QED
      BY <3>1 DEF Discovered, Seen, LinkedDiameter
  <2>2. work' \in Work /\ work'.at = "seen"
    BY <1>0, <1>9, <2>1 DEF Discover, Work
  <2> QED
    BY <1>0, <1>3, <1>4, <1>9, <2>2 DEF Discover
<1>10. CASE SendHeartbeat
  <2>1. work.running \in BOOLEAN /\ work.seen \in Seen
    BY <1>0, <1>10, WorkShapes DEF SendHeartbeat
  <2>2. ServerInv' /\ SameRows(deployments, deployments')
    BY <1>0, <1>10, <2>1, HeartbeatKeepsRows DEF SendHeartbeat
  <2>3. work' \in Work /\ work'.at = "restores"
    BY <1>10, <2>1 DEF SendHeartbeat, Work
  <2> QED
    BY <1>0, <1>3, <1>10, <2>2, <2>3 DEF SendHeartbeat
<1>11. CASE ClaimRestore
  <2>1. work.running \in BOOLEAN /\ work \in [at : {"restores", "deployments"}, running : BOOLEAN]
    BY <1>0, <1>11, WorkShapes DEF ClaimRestore
  <2>2. /\ UNCHANGED <<managed, desired, canonical, reported, bucket, deployments, changes,
                      disk, original, cura, mishaps, delayed>>
    BY <1>11 DEF ClaimRestore
  <2>3. CASE NextRow(restores) = {}
    <3>1. work' = [work EXCEPT !.at = "deployments"] /\ UNCHANGED restores
      BY <1>11, <2>3 DEF ClaimRestore
    <3>2. work' \in Work /\ work'.at = "deployments"
      BY <2>1, <3>1 DEF Work
    <3>3. ServerInv' /\ SameRows(deployments, deployments')
      BY <1>4, <2>2, <3>1 DEF serverVars
    <3> QED
      BY <1>0, <1>3, <2>2, <3>2, <3>3
  <2>4. CASE NextRow(restores) # {}
    <3>1. PICK i \in NextRow(restores) :
             /\ restores' = ClaimRow(restores, i)
             /\ work' = [at |-> "restoring", running |-> work.running, row |-> i]
      BY <1>11, <2>4 DEF ClaimRestore
    <3>2. i \in DOMAIN restores /\ i \in Nat /\ restores[i] \in Restore
      BY <1>0 DEF NextRow
    <3>3. [restores[i] EXCEPT !.status = "CLAIMED", !.leased = TRUE] \in Restore
      BY <3>2 DEF Restore, Status, Active
    <3>4. restores' = [restores EXCEPT ![i] = [restores[i] EXCEPT !.status = "CLAIMED", !.leased = TRUE]]
      BY <3>1 DEF ClaimRow
    <3>5. restores' \in Seq(Restore)
      BY <1>0, <3>3, <3>4, RestoreReplaced
    <3>6. work' \in Work /\ work'.at = "restoring"
      BY <2>1, <3>1, <3>2 DEF Work
    <3>7. ServerInv' /\ SameRows(deployments, deployments')
      BY <1>0, <1>2, <2>2, <3>5 DEF ServerInv, ServerTypeOK
    <3> QED
      BY <1>0, <1>3, <2>2, <3>6, <3>7
  <2> QED
    BY <2>3, <2>4
<1>12. CASE ClaimDeployment
  <2>1. work.running \in BOOLEAN
    BY <1>0, <1>12, WorkShapes DEF ClaimDeployment
  <2>2. UNCHANGED <<managed, desired, canonical, reported, bucket, restores, changes, disk, cura, mishaps, delayed>>
    BY <1>12 DEF ClaimDeployment
  <2>3. CASE NextRow(deployments) = {}
    <3>1. work' = Idle /\ UNCHANGED <<deployments, original>>
      BY <1>12, <2>3 DEF ClaimDeployment
    <3>2. ServerInv' /\ SameRows(deployments, deployments')
      BY <1>4, <2>2, <3>1 DEF serverVars
    <3> QED
      BY <1>0, <1>3, <1>5, <2>2, <3>1, <3>2
  <2>4. CASE NextRow(deployments) # {}
    <3>1. PICK i \in NextRow(deployments) :
             /\ deployments' = ClaimRow(deployments, i)
             /\ work' = [at |-> "deploying", running |-> work.running, row |-> i,
                         todo |-> Installation, applied |-> FALSE]
             /\ original' = IF deployments[i].status = "PENDING" /\ IsLibrary(deployments[i])
                            THEN disk ELSE original
      BY <1>12, <2>4 DEF ClaimDeployment
    <3>2. i \in DOMAIN deployments /\ i \in Nat
      BY <1>0 DEF NextRow
    <3>3. deployments' \in Seq(Row) /\ SameRows(deployments, deployments')
      BY <1>0, <3>1, RowClaimed
    <3>4. work' \in Work /\ work'.at = "deploying" /\ work'.row = i
      BY <2>1, <3>1, <3>2 DEF Work
    <3>5. ServerInv'
      BY <1>0, <2>2, <3>3, RowsAreDeployments DEF ServerInv, ServerTypeOK
    <3>6. RowInHand'
      BY <1>0, <2>2, <3>2, <3>3, <3>4 DEF RowInHand, SameRows
    <3>7. original' \in [Installation -> Directory] \cup {Nothing}
      BY <1>0, <3>1
    <3> QED
      BY <1>0, <2>2, <3>4, <3>5, <3>6, <3>7 DEF CuraInv, CuraTypeOK, ServerInv
  <2> QED
    BY <2>3, <2>4
<1>13. CASE ApplyRestore
  <2>1. work \in [at : {"restoring", "restored"}, running : BOOLEAN, row : Nat]
    BY <1>0, <1>13, WorkShapes DEF ApplyRestore
  <2>2. work' \in Work /\ work'.at = "restored"
    BY <1>13, <2>1 DEF ApplyRestore, Work
  <2>3. PICK i \in Installation, d \in Diameter, q \in {CleanedProfiles, Own} :
           disk' = [disk EXCEPT ![i].files["machine"] = NoLibrary, ![i].files["quality"] = q,
                                ![i].diameter = d]
    BY <1>13 DEF ApplyRestore
  <2>4. disk' = [disk EXCEPT ![i] = [disk[i] EXCEPT !.files["machine"] = NoLibrary,
                                                    !.files["quality"] = q, !.diameter = d]]
    BY <1>0, <2>3
  <2>5. disk' \in [Installation -> Directory]
    BY <1>0, <1>6, <2>4, DirectoryRestored
  <2> QED
    BY <1>0, <1>3, <1>4, <1>13, <2>2, <2>5 DEF ApplyRestore
<1>14. CASE ReportRestore
  <2>1. PICK outcome \in {"deferred", "SUCCEEDED", "FAILED"} : CompleteRestore(work.row, outcome)
    BY <1>14 DEF ReportRestore
  <2>2. ServerInv' /\ SameRows(deployments, deployments')
    BY <1>0, <2>1, CompletionsKeepRows
  <2>3. mishaps' \in 0 .. MaxMishaps
    BY <1>0, <1>1, <1>14 DEF ReportRestore
  <2> QED
    BY <1>0, <1>3, <1>5, <1>14, <2>2, <2>3 DEF ReportRestore
<1> DEFINE AtWork == work \in [at : {"deploying"}, running : BOOLEAN, row : Nat,
                               todo : SUBSET Installation, applied : BOOLEAN]
<1>15. CASE AlreadyCurrent \/ SkipInstallation
  <2>1. AtWork
    BY <1>0, <1>15, WorkShapes DEF AlreadyCurrent, SkipInstallation, Deploying
  <2>2. PICK i \in work.todo : \/ work' = [work EXCEPT !.todo = @ \ {i}, !.applied = TRUE]
                               \/ work' = [work EXCEPT !.todo = @ \ {i}]
    BY <1>15 DEF AlreadyCurrent, SkipInstallation
  <2>3. work' \in Work /\ work'.at = "deploying" /\ work'.row = work.row /\ work.at = "deploying"
    <3>1. /\ work.at = "deploying" /\ work.running \in BOOLEAN /\ work.row \in Nat
          /\ work.todo \ {i} \in SUBSET Installation
      BY <2>1
    <3>2. work' \in [at : {"deploying"}, running : BOOLEAN, row : Nat,
                     todo : SUBSET Installation, applied : BOOLEAN] /\ work'.row = work.row
      BY <2>1, <2>2, <3>1
    <3> QED
      BY <3>1, <3>2 DEF Work
  <2>4. mishaps' \in 0 .. MaxMishaps /\ UNCHANGED <<serverVars, disk, original, cura, delayed>>
    BY <1>0, <1>1, <1>15 DEF AlreadyCurrent, SkipInstallation
  <2> QED
    BY <1>0, <1>3, <1>4, <2>3, <2>4
<1>16. CASE BeginInstall
  <2>1. AtWork /\ IsLibrary(deployments[work.row])
    BY <1>0, <1>16, WorkShapes DEF BeginInstall, Deploying, IsLibrary
  <2>2. PICK i \in work.todo :
           work' = [at |-> "writing", running |-> FALSE, row |-> work.row,
                    todo |-> work.todo \ {i}, applied |-> work.applied,
                    on |-> i, left |-> File, zip |-> Saved(disk[i])]
    BY <1>16 DEF BeginInstall
  <2>3. Saved(disk[i]) \in Files \X (Library \cup {NoLibrary}) /\ i \in Installation
    BY <1>6, <2>1, DirectoryMoves
  <2>4. work' \in Work /\ work'.at = "writing" /\ work'.row = work.row
    BY <2>1, <2>2, <2>3 DEF Work
  <2>5. UNCHANGED <<serverVars, disk, original, cura, mishaps, delayed>>
    BY <1>16 DEF BeginInstall
  <2>6. RowInHand'
    BY <1>0, <2>1, <2>4, <2>5 DEF RowInHand, serverVars
  <2> QED
    BY <1>0, <1>4, <2>4, <2>5, <2>6 DEF CuraInv, CuraTypeOK, ServerInv
<1> DEFINE Writing == work \in [at : {"writing"}, running : BOOLEAN, row : Nat, todo : SUBSET Installation,
                                applied : BOOLEAN, on : Installation, left : SUBSET File,
                                zip : Files \X (Library \cup {NoLibrary})]
<1>17. CASE WriteFile
  <2>1. Writing
    BY <1>0, <1>17, WorkShapes DEF WriteFile
  <2>2. NextFile \in File
    BY <1>17, <2>1 DEF WriteFile, NextFile, File
  <2>3. deployments[work.row].content \in Library
    BY <1>0, <1>17 DEF WriteFile, RowInHand, IsLibrary, Row
  <2>4. Rendered(deployments[work.row].content)[NextFile] \in Content
    BY <2>2, <2>3 DEF Rendered, CleanedProfiles, Content
  <2>5. disk' = [disk EXCEPT ![work.on] = [disk[work.on] EXCEPT !.files[NextFile] =
                    Rendered(deployments[work.row].content)[NextFile]]]
    BY <1>17 DEF WriteFile
  <2>6. disk' \in [Installation -> Directory]
    BY <1>0, <1>6, <2>1, <2>2, <2>4, <2>5, DirectoryMoves
  <2>7. work' \in Work /\ work'.at = "writing" /\ work'.row = work.row /\ work.at = "writing"
    BY <1>17, <2>1 DEF WriteFile, Work
  <2> QED
    BY <1>0, <1>3, <1>4, <1>17, <2>6, <2>7 DEF WriteFile
<1>18. CASE WriteManifest \/ WriteFails
  <2>1. Writing
    BY <1>0, <1>18, WorkShapes DEF WriteManifest, WriteFails
  <2>2. deployments[work.row].content \in Library
    BY <1>0, <2>1 DEF RowInHand, IsLibrary, Row
  <2>3. PICK d \in Directory : disk' = [disk EXCEPT ![work.on] = d]
    <3>1. CASE WriteManifest
      <4>1. disk' = [disk EXCEPT ![work.on] =
                        [disk[work.on] EXCEPT !.manifest = deployments[work.row].content]]
        BY <3>1 DEF WriteManifest
      <4> QED
        BY <1>6, <2>1, <2>2, <4>1, DirectoryMoves
    <3>2. CASE WriteFails
      BY <1>6, <2>1, <3>2, DirectoryMoves DEF WriteFails
    <3> QED
      BY <1>18, <3>1, <3>2
  <2>4. disk' \in [Installation -> Directory]
    BY <1>0, <2>3
  <2>5. work' = Resume(TRUE) \/ work' = Resume(work.applied)
    BY <1>18 DEF WriteManifest, WriteFails
  <2>6. work' \in Work /\ work'.at = "deploying" /\ work'.row = work.row /\ work.at = "writing"
    <3>1. /\ work.at = "writing" /\ work.applied \in BOOLEAN /\ work.row \in Nat
          /\ work.todo \in SUBSET Installation
      BY <2>1
    <3>2. work' \in [at : {"deploying"}, running : BOOLEAN, row : Nat,
                     todo : SUBSET Installation, applied : BOOLEAN] /\ work'.row = work.row
      <4>1. PICK b \in BOOLEAN : work' = Resume(b)
        BY <2>5, <3>1
      <4>2. PICK todo \in SUBSET Installation, row \in Nat : todo = work.todo /\ row = work.row
        BY <3>1
      <4>3. work' = [at |-> "deploying", running |-> FALSE, row |-> row, todo |-> todo, applied |-> b]
        BY <4>1, <4>2 DEF Resume
      <4> QED
        BY <4>2, <4>3
    <3> QED
      BY <3>1, <3>2 DEF Work
  <2>7. mishaps' \in 0 .. MaxMishaps /\ UNCHANGED <<serverVars, original, cura, delayed>>
    BY <1>0, <1>1, <1>18 DEF WriteManifest, WriteFails
  <2> QED
    BY <1>0, <1>3, <1>4, <2>4, <2>6, <2>7
<1>19. CASE SetNozzle
  <2>1. AtWork /\ deployments[work.row].op = "nozzle"
    BY <1>0, <1>19, WorkShapes DEF SetNozzle, Deploying
  <2>2. PICK w : w = deployments[work.row].content
    OBVIOUS
  <2>3. w \in Diameter
    BY <1>0, <2>1, <2>2 DEF RowInHand, Row
  <2>4. PICK i \in work.todo :
           /\ disk' = IF disk[i].diameter = w THEN disk
                      ELSE [disk EXCEPT ![i].diameter = w, ![i].files["machine"] = NoLibrary]
           /\ work' = [work EXCEPT !.todo = @ \ {i}, !.applied = TRUE]
    BY <1>19, <2>2 DEF SetNozzle
  <2>5. [disk EXCEPT ![i].diameter = w, ![i].files["machine"] = NoLibrary]
        = [disk EXCEPT ![i] = [disk[i] EXCEPT !.diameter = w, !.files["machine"] = NoLibrary]]
    BY <1>0, <2>1
  <2>6. i \in Installation /\ [disk[i] EXCEPT !.diameter = w, !.files["machine"] = NoLibrary] \in Directory
    BY <1>6, <2>1, <2>3, DirectoryMoves
  <2>7. disk' \in [Installation -> Directory]
    BY <1>0, <2>4, <2>5, <2>6
  <2>8. work' \in Work /\ work'.at = "deploying" /\ work'.row = work.row /\ work.at = "deploying"
    BY <2>1, <2>4 DEF Work
  <2> QED
    BY <1>0, <1>3, <1>4, <1>19, <2>7, <2>8 DEF SetNozzle
<1> DEFINE Outcomes == {"deferred", "SUCCEEDED", "FAILED"}
<1>20. CASE Report
  <2>1. Outcome \in Outcomes
    BY DEF Outcome
  <2>2. ServerInv' /\ SameRows(deployments, deployments')
    BY <1>0, <1>20, <2>1, CompletionsKeepRows DEF Report
  <2> QED
    BY <1>0, <1>3, <1>5, <1>20, <2>2 DEF Report
<1>21. CASE ReportTimesOut
  <2>1. Outcome \in Outcomes
    BY DEF Outcome
  <2>2. /\ work.row \in DOMAIN deployments /\ work.row \in Nat
        /\ delayed' = [row |-> work.row, outcome |-> Outcome] /\ work' = Idle
        /\ UNCHANGED <<serverVars, disk, original, cura>>
    BY <1>0, <1>21 DEF ReportTimesOut, Finished, RowInHand
  <2>3. delayed' \in [row : Nat, outcome : Outcomes] /\ delayed'.row \in DOMAIN deployments
    BY <2>1, <2>2
  <2>4. RowInHand'
    BY <1>0, <1>5, <2>2, <2>3 DEF RowInHand, serverVars
  <2>5. mishaps' \in 0 .. MaxMishaps
    BY <1>1, <1>21 DEF ReportTimesOut
  <2> QED
    BY <1>0, <1>4, <1>5, <2>2, <2>3, <2>4, <2>5 DEF CuraInv, CuraTypeOK, ServerInv
<1>22. CASE DelayedReport
  <2>1. delayed.outcome \in Outcomes
    BY <1>0, <1>22 DEF DelayedReport
  <2>2. ServerInv' /\ SameRows(deployments, deployments')
    BY <1>0, <1>22, <2>1, CompletionsKeepRows DEF DelayedReport
  <2> QED
    BY <1>0, <1>3, <1>22, <2>2 DEF DelayedReport
<1>23. CASE Stop
  BY <1>0, <1>1, <1>3, <1>4, <1>5, <1>23 DEF Stop
<1>24. CASE OpenCura \/ CloseCura
  BY <1>0, <1>1, <1>3, <1>4, <1>24 DEF OpenCura, CloseCura
<1>25. CASE EditInCura
  <2>1. PICK i \in Installation :
          \/ \E f \in {"material", "quality"} : disk' = [disk EXCEPT ![i].files[f] = Own]
          \/ \E d \in Diameter :
                disk' = [disk EXCEPT ![i].files["machine"] = NoLibrary, ![i].diameter = d]
    BY <1>25 DEF EditInCura
  <2>2. CASE \E f \in {"material", "quality"} : disk' = [disk EXCEPT ![i].files[f] = Own]
    <3>1. PICK f \in {"material", "quality"} : disk' = [disk EXCEPT ![i].files[f] = Own]
      BY <2>2
    <3>2. disk' = [disk EXCEPT ![i] = [disk[i] EXCEPT !.files[f] = Own]] /\ f \in File /\ Own \in Content
      BY <3>1 DEF File, Content
    <3> QED
      <4>1. disk' \in [Installation -> Directory]
        BY <1>0, <1>6, <3>2, DirectoryMoves
      <4> QED
        BY <1>0, <1>1, <1>3, <1>4, <1>25, <4>1 DEF EditInCura
  <2>3. CASE \E d \in Diameter :
                disk' = [disk EXCEPT ![i].files["machine"] = NoLibrary, ![i].diameter = d]
    <3>1. PICK d \in Diameter : disk' = [disk EXCEPT ![i].files["machine"] = NoLibrary, ![i].diameter = d]
      BY <2>3
    <3>2. disk' = [disk EXCEPT ![i] = [disk[i] EXCEPT !.files["machine"] = NoLibrary, !.diameter = d]]
      BY <1>0, <3>1
    <3>3. disk' \in [Installation -> Directory]
      BY <1>0, <1>6, <3>2, DirectoryMoves
    <3> QED
      BY <1>0, <1>1, <1>3, <1>4, <1>25, <3>3 DEF EditInCura
  <2> QED
    BY <2>1, <2>2, <2>3
<1> QED
  BY <1>7, <1>8, <1>9, <1>10, <1>11, <1>12, <1>13, <1>14, <1>15, <1>16, <1>17, <1>18, <1>19, <1>20,
     <1>21, <1>22, <1>23, <1>24, <1>25 DEF CuraNext, AgentStep, Trouble

LEMMA CuraSafety == CuraSpec => []CuraInv
<1>1. CuraInit => CuraInv
  BY CuraInvInit
<1>2. CuraInv /\ [CuraNext]_vars => CuraInv'
  BY CuraStep
<1> QED
  BY <1>1, <1>2, PTL DEF CuraSpec

\* The rows, the agent's files and what it has in hand stay well formed.
THEOREM CuraTypes == CuraSpec => []CuraTypeOK
<1>1. CuraInv => CuraTypeOK
  BY DEF CuraInv
<1> QED
  BY <1>1, CuraSafety, PTL

-----------------------------------------------------------------------------
(* OperatorAlerts: an alert that comes back is unread.                     *)

Readership == [Key -> SUBSET Person]
Plant == [offline : BOOLEAN, dead : BOOLEAN, spool : {"fine", "low", "empty", "archived"},
          prints : 0 .. MeshDueAfterPrints, aged : BOOLEAN]
Evaluations == [next : 1 .. 6, found : SUBSET Key, deleted : Readership, before : Readership]

AlertShapes ==
    /\ plant \in Plant /\ alerts \in [Key -> {"none", "active", "resolved"}] /\ readers \in Readership
    /\ Evaluating => evaluation \in Evaluations
    /\ \A k \in Key : alerts[k] = "none" => readers[k] = {}

\* Who had read an alert when the evaluation began still has when the evaluation gets there;
\* of an alert that it will raise, it deletes what all of them had read.
ReadersInHand ==
    Evaluating => \A k \in Key :
        /\ evaluation.before[k] \subseteq readers[k]
        /\ k \in evaluation.found /\ alerts[k] # "active" => evaluation.before[k] \subseteq evaluation.deleted[k]

AlertsInv == AlertShapes /\ ReadersInHand

LEMMA FiveCategories ==
  /\ DOMAIN Category = 1 .. 5 /\ \A c \in 1 .. 5 : Category[c] \subseteq Key
BY DEF Category, Key

LEMMA AlertsInvInit ==
  ASSUME AlertsInit
  PROVE  AlertsInv
<1>1. plant \in Plant
  BY AlertsAssumption DEF AlertsInit, Plant
<1>2. alerts = [k \in Key |-> "none"] /\ readers = [k \in Key |-> {}] /\ evaluation = NoEvaluation
  BY DEF AlertsInit
<1> QED
  BY <1>1, <1>2 DEF AlertsInv, AlertShapes, ReadersInHand, Evaluating, Readership

LEMMA AlertsInvStep ==
  ASSUME AlertsInv, [AlertsNext]_alertVars
  PROVE  /\ AlertsInv'
         /\ \A k \in Key : alerts[k] # "active" /\ alerts'[k] = "active"
                              => readers'[k] \cap evaluation.before[k] = {}
<1>0. /\ plant \in Plant /\ alerts \in [Key -> {"none", "active", "resolved"}] /\ readers \in Readership
      /\ Evaluating => evaluation \in Evaluations
      /\ \A k \in Key : alerts[k] = "none" => readers[k] = {}
      /\ ReadersInHand
  BY DEF AlertsInv, AlertShapes
<1>1. ASSUME plant' \in Plant, UNCHANGED <<alerts, readers, evaluation>>
      PROVE  /\ AlertsInv'
             /\ \A k \in Key : ~(alerts[k] # "active" /\ alerts'[k] = "active")
  BY <1>0, <1>1 DEF AlertsInv, AlertShapes, ReadersInHand, Evaluating
<1>2. CASE UNCHANGED alertVars
  BY <1>0, <1>1, <1>2 DEF alertVars
<1>3. ASSUME NEW p \in Plant, PlantBecomes(p)
      PROVE  plant' \in Plant /\ UNCHANGED <<alerts, readers, evaluation>>
  BY <1>3 DEF PlantBecomes
<1>4. CASE PrinterReach \/ JobGivenUp \/ DaysPass \/ MeshCalibrated
  <2>1. /\ [plant EXCEPT !.offline = ~@] \in Plant /\ [plant EXCEPT !.dead = ~@] \in Plant
        /\ [plant EXCEPT !.aged = TRUE] \in Plant /\ [plant EXCEPT !.prints = 0, !.aged = FALSE] \in Plant
    <3>1. 0 \in 0 .. MeshDueAfterPrints /\ plant.offline \in BOOLEAN /\ plant.dead \in BOOLEAN
      BY <1>0, AlertsAssumption DEF Plant
    <3>2. [plant EXCEPT !.offline = ~@] \in Plant
      BY <1>0, <3>1 DEF Plant
    <3>3. [plant EXCEPT !.dead = ~@] \in Plant
      BY <1>0, <3>1 DEF Plant
    <3>4. [plant EXCEPT !.aged = TRUE] \in Plant
      BY <1>0 DEF Plant
    <3>5. [plant EXCEPT !.prints = 0, !.aged = FALSE] \in Plant
      BY <1>0, <3>1 DEF Plant
    <3> QED
      BY <3>2, <3>3, <3>4, <3>5
  <2> QED
    BY <1>1, <1>3, <1>4, <2>1 DEF PrinterReach, JobGivenUp, DaysPass, MeshCalibrated
<1>5. CASE PrintCompletes
  <2>1. plant.prints < MeshDueAfterPrints => [plant EXCEPT !.prints = @ + 1] \in Plant
    BY <1>0, AlertsAssumption DEF Plant
  <2> QED
    BY <1>1, <1>3, <1>5, <2>1 DEF PrintCompletes
<1>6. CASE \E s \in {"fine", "low", "empty", "archived"} : SpoolBecomes(s)
  <2>1. \A s \in {"fine", "low", "empty", "archived"} : [plant EXCEPT !.spool = s] \in Plant
    BY <1>0 DEF Plant
  <2> QED
    BY <1>1, <1>3, <1>6, <2>1 DEF SpoolBecomes
<1>7. CASE \/ \E o \in {"library", "nozzle", "capture"} : QueueDeployment(o)
           \/ \E i \in DOMAIN deploys, status \in {"FAILED", "SUCCEEDED"} : DeploymentEnds(i, status)
  BY <1>0, <1>1, <1>7 DEF QueueDeployment, DeploymentEnds
<1>8. CASE BeginEvaluation
  <2>1. PICK e : e = evaluation'
    OBVIOUS
  <2>2. e = [next |-> 1, found |-> {}, deleted |-> [k \in Key |-> {}], before |-> readers]
    BY <1>8, <2>1 DEF BeginEvaluation
  <2>3. e \in Evaluations /\ \A k \in Key : e.before[k] \subseteq readers[k] /\ k \notin e.found
    BY <1>0, <2>2 DEF Evaluations, Readership
  <2> QED
    BY <1>0, <1>8, <2>1, <2>3 DEF BeginEvaluation, AlertsInv, AlertShapes, ReadersInHand, Evaluating
<1>9. CASE EvaluateCategory
  <2>1. evaluation \in Evaluations /\ evaluation.next \in 1 .. 5
    BY <1>0, <1>9, FiveCategories DEF EvaluateCategory
  <2>2. PICK holding : holding = {k \in Category[evaluation.next] : Holding(k)}
    OBVIOUS
  <2>3. holding \subseteq Key
    BY <2>1, <2>2, FiveCategories
  <2>4. PICK e : e = evaluation'
    OBVIOUS
  <2>5. e = [evaluation EXCEPT !.next = @ + 1, !.found = @ \cup holding,
                !.deleted = [k \in Key |-> IF k \in holding THEN Outdated(k) ELSE @[k]]]
    BY <1>9, <2>2, <2>4 DEF EvaluateCategory
  <2>6. PICK deleted : deleted = [k \in Key |-> IF k \in holding THEN Outdated(k)
                                                ELSE evaluation.deleted[k]]
    OBVIOUS
  <2>7. deleted \in Readership
    BY <1>0, <2>1, <2>6 DEF Evaluations, Readership, Outdated
  <2>8. /\ e.next = evaluation.next + 1 /\ e.found = evaluation.found \cup holding
        /\ e.deleted = deleted /\ e.before = evaluation.before /\ e \in Evaluations
    <3>1. /\ evaluation.next + 1 \in 1 .. 6 /\ evaluation.found \cup holding \in SUBSET Key
          /\ evaluation.before \in Readership
      BY <2>1, <2>3 DEF Evaluations
    <3>2. e = [next |-> evaluation.next + 1, found |-> evaluation.found \cup holding,
               deleted |-> deleted, before |-> evaluation.before]
      BY <2>1, <2>5, <2>6 DEF Evaluations
    <3> QED
      BY <2>7, <3>1, <3>2 DEF Evaluations
  <2>9. UNCHANGED <<plant, deploys, alerts, readers, alertOps>> /\ Evaluating
    BY <1>9 DEF EvaluateCategory
  <2>10. ASSUME NEW k \in Key
         PROVE  /\ e.before[k] \subseteq readers[k]
                /\ k \in e.found /\ alerts[k] # "active" => e.before[k] \subseteq e.deleted[k]
    <3>1. evaluation.before[k] \subseteq readers[k]
      BY <1>0, <2>9 DEF ReadersInHand
    <3>2. CASE k \in holding
      BY <2>6, <2>8, <3>1, <3>2 DEF Outdated
    <3>3. CASE k \notin holding
      BY <1>0, <2>6, <2>8, <2>9, <3>1, <3>3 DEF ReadersInHand
    <3> QED
      BY <3>2, <3>3
  <2> QED
    BY <1>0, <2>4, <2>8, <2>9, <2>10 DEF AlertsInv, AlertShapes, ReadersInHand
<1>10. CASE FinishEvaluation
  <2>1. evaluation \in Evaluations /\ Evaluating
    BY <1>0, <1>10 DEF FinishEvaluation
  <2>2. /\ alerts' = [k \in Key |-> IF k \in evaluation.found THEN "active" ELSE Cleared(k)]
        /\ readers' = [k \in Key |-> readers[k] \ evaluation.deleted[k]]
        /\ evaluation' = NoEvaluation /\ UNCHANGED plant
    BY <1>10 DEF FinishEvaluation
  <2>3. alerts' \in [Key -> {"none", "active", "resolved"}] /\ readers' \in Readership
    BY <1>0, <2>2 DEF Cleared, Readership
  <2>4. \A k \in Key : alerts'[k] = "none" => readers'[k] = {}
    BY <1>0, <2>2 DEF Cleared
  <2>5. ASSUME NEW k \in Key, alerts[k] # "active", alerts'[k] = "active"
        PROVE  readers'[k] \cap evaluation.before[k] = {}
    <3>1. k \in evaluation.found
      BY <2>2, <2>5 DEF Cleared
    <3>2. evaluation.before[k] \subseteq evaluation.deleted[k]
      BY <1>0, <2>1, <2>5, <3>1 DEF ReadersInHand
    <3> QED
      BY <2>2, <3>2
  <2> QED
    BY <1>0, <2>2, <2>3, <2>4, <2>5 DEF AlertsInv, AlertShapes, ReadersInHand, Evaluating
<1>11. CASE EvaluationDies
  BY <1>0, <1>11 DEF EvaluationDies, AlertsInv, AlertShapes, ReadersInHand, Evaluating
<1>12. ASSUME NEW p \in Person, NEW keys \in SUBSET Key, \A k \in keys : alerts[k] # "none",
              ReadAlerts(p, keys)
       PROVE  /\ AlertsInv'
              /\ \A k \in Key : ~(alerts[k] # "active" /\ alerts'[k] = "active")
  <2>1. /\ readers' = [k \in Key |-> IF k \in keys THEN readers[k] \cup {p} ELSE readers[k]]
        /\ UNCHANGED <<plant, deploys, alerts, evaluation, alertOps>>
    BY <1>12 DEF ReadAlerts
  <2>2. readers' \in Readership /\ \A k \in Key : readers[k] \subseteq readers'[k]
    BY <1>0, <2>1 DEF Readership
  <2>3. \A k \in Key : alerts[k] = "none" => readers'[k] = {}
    BY <1>0, <1>12, <2>1
  <2> QED
    BY <1>0, <2>1, <2>2, <2>3 DEF AlertsInv, AlertShapes, ReadersInHand, Evaluating
<1>13. CASE \E p \in Person : MarkAllRead(p) \/ \E k \in Key : MarkRead(p, k)
  <2>1. PICK p \in Person : MarkAllRead(p) \/ \E k \in Key : MarkRead(p, k)
    BY <1>13
  <2>2. \E keys \in SUBSET Key : (\A k \in keys : alerts[k] # "none") /\ ReadAlerts(p, keys)
    <3>1. CASE MarkAllRead(p)
      BY <3>1 DEF MarkAllRead
    <3>2. CASE \E k \in Key : MarkRead(p, k)
      <4>1. PICK k \in Key : MarkRead(p, k)
        BY <3>2
      <4>2. {k} \in SUBSET Key /\ (\A l \in {k} : alerts[l] # "none") /\ ReadAlerts(p, {k})
        BY <4>1 DEF MarkRead
      <4> QED
        BY <4>2
    <3> QED
      BY <2>1, <3>1, <3>2
  <2> QED
    BY <1>12, <2>2
<1> QED
  BY <1>2, <1>4, <1>5, <1>6, <1>7, <1>8, <1>9, <1>10, <1>11, <1>13 DEF AlertsNext, EvaluationStep

LEMMA AlertsSafety == AlertsSpec => []AlertsInv
<1>1. AlertsInit => AlertsInv
  BY AlertsInvInit
<1>2. AlertsInv /\ [AlertsNext]_alertVars => AlertsInv'
  BY AlertsInvStep
<1> QED
  BY <1>1, <1>2, PTL DEF AlertsSpec

\* The alerts and their read states stay well formed; one never raised has no readers.
THEOREM AlertsTypes == AlertsSpec => []AlertsTypeOK
<1>1. AlertsInv => AlertsTypeOK
  BY DEF AlertsInv, AlertShapes, AlertsTypeOK, Plant, Evaluations, Readership
<1> QED
  BY <1>1, AlertsSafety, PTL

\* A condition that comes back is unread by everybody who had read an earlier occurrence
\* when the evaluation that noticed began (upsert_notification), for any number of people.
THEOREM RecurrencesAreUnread == AlertsSpec => RecurrenceIsUnread
<1> DEFINE Act == \A k \in Key : alerts[k] # "active" /\ alerts'[k] = "active"
                      => readers'[k] \cap evaluation.before[k] = {}
<1>1. AlertsInv /\ [AlertsNext]_alertVars => [Act]_alertVars
  BY AlertsInvStep
<1> QED
  BY <1>1, AlertsSafety, PTL DEF AlertsSpec, RecurrenceIsUnread

-----------------------------------------------------------------------------
(* Calibrations: what a template takes was reviewed.                        *)

\* Suggestions are of the session's version or an earlier one, and have its results as long
\* as the version is the same.
SuggestionsFit ==
    suggested # NoReview =>
        /\ suggested.of \in 1 .. session.version
        /\ suggested.of = session.version => suggested.results = Combined(steps)

\* A completed step is not older than a repetition.
CalibrationInv ==
    /\ CalibrationTypeOK
    /\ \A k \in Step : steps[k].status = "completed" => k \notin outdated
    /\ SuggestionsFit

LEMMA TouchedSession ==
  ASSUME CalibrationTypeOK, NEW status \in SessionStatus, Touched(status)
  PROVE  /\ session' \in [status : SessionStatus, version : 1 .. MaxVersion]
         /\ session'.version = session.version + 1 /\ session.version \in Nat
BY CalibrationAssumption DEF CalibrationTypeOK, Touched

LEMMA CalibrationInvStep ==
  ASSUME CalibrationInv, [CalibrationNext]_calibrationVars
  PROVE  CalibrationInv'
<1>0. /\ CalibrationTypeOK /\ steps \in [Step -> StepRow] /\ forms \subseteq Step /\ outdated \subseteq Step
      /\ \A k \in Step : steps[k].status = "completed" => k \notin outdated
      /\ session # NoSession => session \in [status : SessionStatus, version : 1 .. MaxVersion]
      /\ listed # NoSession => /\ listed \in [status : SessionStatus, version : 1 .. MaxVersion]
                               /\ listed.version <= session.version
      /\ suggested # NoReview => suggested.of \in 1 .. session.version
      /\ SuggestionsFit
  BY DEF CalibrationInv, CalibrationTypeOK, SuggestionsFit
<1>1. NewSteps \in [Step -> StepRow] /\ \A k \in Step : NewSteps[k].status # "completed"
  BY DEF NewSteps, StepRow, StepStatus
\* A handler that touches the session outdates every list and all suggestions.
<1>2. ASSUME NEW status \in SessionStatus, session # NoSession, Touched(status),
             listed' = listed, suggested' = suggested, steps' \in [Step -> StepRow], forms' \subseteq Step,
             outdated' \subseteq Step, \A k \in Step : steps'[k].status = "completed" => k \notin outdated'
      PROVE  CalibrationInv'
  <2>1. /\ session' \in [status : SessionStatus, version : 1 .. MaxVersion]
        /\ session'.version = session.version + 1 /\ session.version \in Nat
    BY <1>0, <1>2, TouchedSession
  <2>2. listed' # NoSession => /\ listed' \in [status : SessionStatus, version : 1 .. MaxVersion]
                               /\ listed'.version <= session'.version
    BY <1>0, <1>2, <2>1
  <2>3. suggested' # NoReview => /\ suggested'.of \in 1 .. session'.version
                                 /\ suggested'.of # session'.version
    BY <1>0, <1>2, <2>1
  <2>4. SuggestionsFit'
    BY <2>3 DEF SuggestionsFit
  <2> QED
    BY <1>2, <2>1, <2>2, <2>4 DEF CalibrationInv, CalibrationTypeOK
<1>3. CASE CreateCalibration
  <2>1. session' \in [status : SessionStatus, version : 1 .. MaxVersion]
    BY <1>3, CalibrationAssumption DEF CreateCalibration, SessionStatus
  <2>2. /\ steps' = NewSteps /\ outdated' = {} /\ forms' = {} /\ listed' = NoSession
        /\ suggested' = NoReview
    BY <1>3 DEF CreateCalibration
  <2> QED
    BY <1>1, <2>1, <2>2 DEF CalibrationInv, CalibrationTypeOK, SuggestionsFit
<1>4. CASE ListCalibrations
  <2>1. UNCHANGED <<session, steps, outdated>> /\ forms' \subseteq Step
    BY <1>4 DEF ListCalibrations
  <2>2. session # NoSession /\ (listed' = listed \/ listed' = session)
        /\ (suggested' = suggested \/ suggested' = NoReview)
    BY <1>4 DEF ListCalibrations, pageVars
  <2>3. Combined(steps)' = Combined(steps)
    BY <2>1 DEF Combined
  <2>4. SuggestionsFit'
    BY <1>0, <2>1, <2>2, <2>3 DEF SuggestionsFit
  <2>5. listed' # NoSession => /\ listed' \in [status : SessionStatus, version : 1 .. MaxVersion]
                               /\ listed'.version <= session'.version
    BY <1>0, <2>1, <2>2
  <2> QED
    BY <1>0, <2>1, <2>4, <2>5 DEF CalibrationInv, CalibrationTypeOK
<1>5. CASE Review
  <2>1. /\ UNCHANGED <<session, steps, forms, listed, outdated>> /\ session # NoSession
        /\ suggested' = [of |-> session.version, results |-> Combined(steps)]
    BY <1>5 DEF Review
  <2>2. Combined(steps)' = Combined(steps) /\ session.version \in 1 .. session.version
    BY <1>0, <2>1 DEF Combined
  <2>3. suggested'.of = session.version /\ suggested'.results = Combined(steps)
    BY <2>1
  <2>4. SuggestionsFit'
    BY <2>1, <2>2, <2>3 DEF SuggestionsFit
  <2> QED
    BY <1>0, <2>1, <2>4 DEF CalibrationInv, CalibrationTypeOK
<1>6. CASE ApplyToTemplate \/ \E override \in BOOLEAN : ApplyToProfile(override)
  BY <1>0, <1>2, <1>6 DEF ApplyToTemplate, ApplyToProfile, pageVars, SessionStatus
<1>7. CASE DeleteCalibration
  BY <1>0, <1>1, <1>7 DEF DeleteCalibration, CalibrationInv, CalibrationTypeOK, SuggestionsFit
<1>8. ASSUME NEW k \in Step, StartStep(k) PROVE CalibrationInv'
  <2>1. /\ session # NoSession /\ Touched(session.status) /\ session.status \in SessionStatus
        /\ UNCHANGED <<listed, suggested, outdated>> /\ forms' \subseteq Step
    BY <1>0, <1>8 DEF StartStep, pageVars
  <2>2. steps' = [steps EXCEPT ![k].status = "in_progress"]
    BY <1>8 DEF StartStep
  <2>3. \A r \in StepRow : /\ [r EXCEPT !.status = "in_progress"] \in StepRow
                           /\ [r EXCEPT !.status = "in_progress"].status = "in_progress"
    BY DEF StepRow, StepStatus
  <2>4. /\ steps' \in [Step -> StepRow]
        /\ \A j \in Step : steps'[j].status = "completed" => steps[j].status = "completed"
    BY <1>0, <2>2, <2>3
  <2> QED
    BY <1>0, <1>2, <2>1, <2>4
<1>9. ASSUME NEW k \in Step, NEW r \in Measured \cup {Unmeasured}, NEW complete \in BOOLEAN,
             NEW repeat \in BOOLEAN, UpdateStepResult(k, r, complete, repeat)
      PROVE  CalibrationInv'
  <2>1. PICK invalidated : invalidated = IF repeat THEN Invalidated(steps, k) ELSE {}
    OBVIOUS
  <2>2. PICK after : after = IF complete THEN "completed"
                 ELSE IF (IF repeat THEN "in_progress" ELSE steps[k].status) = "not_started"
                 THEN "in_progress" ELSE (IF repeat THEN "in_progress" ELSE steps[k].status)
    OBVIOUS
  <2>3. PICK rows : rows = [j \in Step |-> IF j = k THEN [status |-> after, result |-> r]
                                ELSE IF j \in invalidated THEN [steps[j] EXCEPT !.status = "needs_review"]
                                ELSE steps[j]]
    OBVIOUS
  <2>4. /\ session # NoSession /\ Touched(IF Complete(rows) THEN "ready" ELSE "in_progress")
        /\ steps' = rows /\ forms' \subseteq Step /\ UNCHANGED <<listed, suggested>>
        /\ outdated' = (outdated \cup (IF repeat THEN {j \in Step : j > k} ELSE {})) \ {k}
    BY <1>0, <1>9, <2>1, <2>2, <2>3 DEF UpdateStepResult, pageVars
  <2>5. after \in StepStatus
    <3>1. steps[k].status \in StepStatus
      BY <1>0 DEF StepRow
    <3> QED
      BY <2>2, <3>1 DEF StepStatus
  <2>6. \A s \in StepRow : /\ [s EXCEPT !.status = "needs_review"] \in StepRow
                           /\ [s EXCEPT !.status = "needs_review"].status = "needs_review"
    BY DEF StepRow, StepStatus
  <2>7. [status |-> after, result |-> r] \in StepRow
    BY <2>5 DEF StepRow
  <2>8. steps' \in [Step -> StepRow]
    BY <1>0, <2>3, <2>4, <2>6, <2>7
  <2>9. ASSUME NEW j \in Step, steps'[j].status = "completed" PROVE j \notin outdated'
    <3>1. CASE j = k
      BY <2>4, <3>1
    <3>2. CASE j # k
      <4>1. j \notin invalidated /\ steps[j].status = "completed"
        BY <1>0, <2>3, <2>4, <2>6, <2>9, <3>2
      <4>2. j \notin outdated
        BY <1>0, <4>1
      <4>3. repeat => ~(j > k)
        BY <2>1, <4>1 DEF Invalidated
      <4> QED
        BY <2>4, <4>2, <4>3
    <3> QED
      BY <3>1, <3>2
  <2>10. outdated' \subseteq Step
    BY <1>0, <2>4
  <2> QED
    BY <1>2, <2>4, <2>8, <2>9, <2>10 DEF SessionStatus
<1>10. CASE UNCHANGED calibrationVars
  BY <1>0, <1>10 DEF calibrationVars, pageVars, CalibrationInv, CalibrationTypeOK, SuggestionsFit, Combined
<1> QED
  BY <1>3, <1>4, <1>5, <1>6, <1>7, <1>8, <1>9, <1>10 DEF CalibrationNext

LEMMA CalibrationSafety == CalibrationSpec => []CalibrationInv
<1>1. CalibrationInit => CalibrationInv
  BY DEF CalibrationInit, CalibrationInv, CalibrationTypeOK, SuggestionsFit, NewSteps, StepRow, StepStatus
<1>2. CalibrationInv /\ [CalibrationNext]_calibrationVars => CalibrationInv'
  BY CalibrationInvStep
<1> QED
  BY <1>1, <1>2, PTL DEF CalibrationSpec

\* A session, its steps and its pages stay well formed.
THEOREM CalibrationTypes == CalibrationSpec => []CalibrationTypeOK
<1>1. CalibrationInv => CalibrationTypeOK
  BY DEF CalibrationInv
<1> QED
  BY <1>1, CalibrationSafety, PTL

\* The settings of a whole template change only to results none of which is older than the
\* repetition of an earlier step, and to the reviewed ones unless the page lists a later
\* version than it reviewed (apply_calibration_template_settings, invalidated_statuses), for
\* any number of steps and whichever are mandatory.
THEOREM TemplatesTakeReviewed == CalibrationSpec => TemplateTakesReviewed
<1> DEFINE Act == ApplyToTemplate => /\ \A k \in DOMAIN Combined(steps) : k \notin outdated
                                     /\ \/ Combined(steps) = suggested.results
                                        \/ listed.version > suggested.of
<1>1. CalibrationInv /\ [CalibrationNext]_calibrationVars => [Act]_calibrationVars
  <2> SUFFICES ASSUME CalibrationInv, ApplyToTemplate
               PROVE  /\ \A k \in DOMAIN Combined(steps) : k \notin outdated
                      /\ \/ Combined(steps) = suggested.results
                         \/ listed.version > suggested.of
    OBVIOUS
  <2>1. /\ suggested # NoReview /\ session # NoSession /\ listed.version = session.version
        /\ session.version \in Nat
    BY DEF CalibrationInv, CalibrationTypeOK, ApplyToTemplate, ListIsCurrent
  <2>2. /\ suggested.of \in 1 .. session.version
        /\ suggested.of = session.version => suggested.results = Combined(steps)
    BY <2>1 DEF CalibrationInv, SuggestionsFit
  <2>3. DOMAIN Combined(steps) = {j \in Step : steps[j].status = "completed"}
    BY DEF Combined
  <2>4. \A k \in DOMAIN Combined(steps) : k \notin outdated
    BY <2>3 DEF CalibrationInv
  <2> QED
    BY <2>1, <2>2, <2>4
<1> QED
  BY <1>1, CalibrationSafety, PTL DEF CalibrationSpec, TemplateTakesReviewed

-----------------------------------------------------------------------------
(* DatabaseBackups: a restore loses nothing.                               *)

BackupShapes ==
    /\ BackupTypeOK /\ contents \in 1 .. MaxContent /\ DOMAIN task = {"worker", "web"}
    /\ \A a \in archives : a.content \in 0 .. MaxContent

\* While the command runs the services are stopped, and stopped services prune nothing.
StoppedIsIdle == (command # "none" => ~services) /\ (~services => lock = Nobody)

\* Once the safety archive is made, what the database contains is in an archive that no
\* retention removes; once the dump is restored, the content is the requested one.
CommandHolds ==
    /\ command = "saved" => \E a \in archives : a.kind # "automatic" /\ a.content = content
    /\ command \in {"restored", "revoked"} => \E a \in Requested : a.content = content

BackupInv == BackupShapes /\ StoppedIsIdle /\ CommandHolds

LEMMA NewArchiveShape ==
  ASSUME BackupShapes, NEW kind \in {"automatic", "manual"}, Created(kind)
  PROVE  /\ archives' \subseteq Archive /\ made' \in 0 .. MaxArchives /\ archives \subseteq archives'
         /\ (\A a \in archives' : a.content \in 0 .. MaxContent)
         /\ \E a \in archives' : a.kind = kind /\ a.content = content
<1>1. NewArchive(kind) \in Archive /\ NewArchive(kind).kind = kind /\ NewArchive(kind).content = content
  BY BackupAssumption DEF BackupShapes, BackupTypeOK, NewArchive, Archive
<1> QED
  BY <1>1, BackupAssumption DEF BackupShapes, BackupTypeOK, Created

\* Only tasks under way, and saving a policy, remove archives.
LEMMA PrunedArchives ==
  ASSUME NEW set, NEW count
  PROVE  Pruned(set, count) \subseteq set
BY DEF Pruned

LEMMA BackupInvInit ==
  ASSUME BackupInit
  PROVE  BackupInv
<1>1. DOMAIN Free = {"worker", "web"} /\ \A who \in DOMAIN Free : Free[who].phase = "none"
  BY DEF Free, NoTask
<1>2. content \in 0 .. MaxContent /\ contents \in 1 .. MaxContent /\ made \in 0 .. MaxArchives
  BY BackupAssumption DEF BackupInit
<1>3. BackupTypeOK
  BY <1>1, <1>2, BackupAssumption DEF BackupInit, BackupTypeOK, Phases
<1> QED
  BY <1>1, <1>2, <1>3 DEF BackupInit, BackupInv, BackupShapes, StoppedIsIdle, CommandHolds

LEMMA BackupInvStep ==
  ASSUME BackupInv, [BackupNext]_backupVars
  PROVE  BackupInv'
<1>0. /\ BackupShapes /\ BackupTypeOK /\ StoppedIsIdle /\ CommandHolds
      /\ {services, due, backoff} \subseteq BOOLEAN /\ archives \subseteq Archive
      /\ content \in 0 .. MaxContent /\ made \in 0 .. MaxArchives /\ command \in Phases
      /\ lock \in {Nobody, "worker", "web"} /\ contents \in 1 .. MaxContent
      /\ \A who \in {"worker", "web"} : (task[who].phase # "none") = (lock = who)
      /\ DOMAIN task = {"worker", "web"} /\ \A a \in archives : a.content \in 0 .. MaxContent
      /\ MaxContent \in Nat \ {0} /\ MaxArchives \in Nat /\ Nobody \notin {"worker", "web"}
  BY BackupAssumption DEF BackupInv, BackupShapes, BackupTypeOK
<1> USE DEF operation
\* What a step may leave of the tasks and their lock.
<1> DEFINE TasksOK == /\ lock' \in {Nobody, "worker", "web"} /\ DOMAIN task' = {"worker", "web"}
                      /\ \A who \in {"worker", "web"} : (task'[who].phase # "none") = (lock' = who)
                      /\ {due', backoff'} \subseteq BOOLEAN
           ContentOK == /\ content' \in 0 .. MaxContent /\ contents' \in 1 .. MaxContent
                        /\ made' \in 0 .. MaxArchives /\ archives' \subseteq Archive
                        /\ \A a \in archives' : a.content \in 0 .. MaxContent
<1>1. ASSUME TasksOK, ContentOK, services' \in BOOLEAN, command' \in Phases, StoppedIsIdle', CommandHolds'
      PROVE  BackupInv'
  BY <1>1 DEF BackupInv, BackupShapes, BackupTypeOK
<1>2. UNCHANGED operation => TasksOK
  BY <1>0
<1>3. UNCHANGED <<content, contents, archives, made>> => ContentOK
  BY <1>0
<1>4. ASSUME UNCHANGED <<services, command>>, services \/ lock' = Nobody PROVE StoppedIsIdle'
  BY <1>0, <1>4 DEF StoppedIsIdle
<1>5. ASSUME command' \in {"none", "checked"} \/ UNCHANGED <<content, archives, pending, command>>
      PROVE  CommandHolds'
  BY <1>0, <1>5 DEF CommandHolds, Requested
\* Of a step of the services, which run only while no command does.
<1>6. ASSUME services, UNCHANGED <<services, command>>, TasksOK, ContentOK
      PROVE  BackupInv'
  <2>1. command = "none"
    BY <1>0, <1>6 DEF StoppedIsIdle
  <2> QED
    BY <1>0, <1>1, <1>4, <1>5, <1>6, <2>1
\* Of a step that touches neither what there is nor the command.
<1>7. ASSUME UNCHANGED <<services, command, content, contents, archives, made, pending>>, TasksOK,
             services \/ lock' = Nobody
      PROVE  BackupInv'
  BY <1>0, <1>1, <1>3, <1>4, <1>5, <1>7
<1>8. CASE UNCHANGED backupVars
  BY <1>0, <1>2, <1>7, <1>8 DEF backupVars, StoppedIsIdle
<1>9. CASE Commit
  <2>1. ContentOK
    BY <1>0, <1>9 DEF Commit
  <2> QED
    BY <1>0, <1>2, <1>6, <1>9, <2>1 DEF Commit
<1>10. CASE IntervalEnds \/ RetryComes
  <2>1. TasksOK
    BY <1>0, <1>10 DEF IntervalEnds, RetryComes
  <2> QED
    BY <1>0, <1>7, <1>10, <2>1 DEF IntervalEnds, RetryComes, StoppedIsIdle
<1>11. CASE \E state \in {"none", "fresh", "unconfirmed", "left"} : PrintChanges(state)
  BY <1>0, <1>2, <1>7, <1>11 DEF PrintChanges, StoppedIsIdle
<1>12. ASSUME NEW who \in {"worker", "web"}, NEW t, task' = [task EXCEPT ![who] = t],
              (t.phase # "none" /\ lock' = who) \/ (t.phase = "none" /\ lock' = Nobody),
              lock \in {Nobody, who}, {due', backoff'} \subseteq BOOLEAN
       PROVE  TasksOK
  <2>1. DOMAIN task' = {"worker", "web"} /\ task'[who] = t
        /\ \A w \in {"worker", "web"} \ {who} : task'[w] = task[w]
    BY <1>0, <1>12
  <2>2. \A w \in {"worker", "web"} \ {who} : ~(task[w].phase # "none")
    BY <1>0, <1>12
  <2>3. ASSUME NEW w \in {"worker", "web"} PROVE (task'[w].phase # "none") = (lock' = w)
    <3>1. CASE w = who
      BY <1>0, <1>12, <2>1, <3>1
    <3>2. CASE w # who
      BY <1>0, <1>12, <2>1, <2>2, <3>2
    <3> QED
      BY <3>1, <3>2
  <2> QED
    BY <1>12, <2>1, <2>3
<1>13. ASSUME NEW who \in {"worker", "web"}, NEW retention, Started(who, retention),
             UNCHANGED <<services, content, contents, archives, made, policy, due, backoff, print,
                         pending, command>>
      PROVE  BackupInv'
  <2>1. PICK t : t = [phase |-> "dump", retention |-> retention]
    OBVIOUS
  <2>2. /\ t.phase # "none" /\ lock' = who /\ lock = Nobody /\ services
        /\ task' = [task EXCEPT ![who] = t]
    BY <1>13, <2>1 DEF Started
  <2>3. TasksOK
    BY <1>0, <1>12, <1>13, <2>2
  <2> QED
    BY <1>7, <1>13, <2>2, <2>3
<1>14. CASE WorkerBackup \/ OperatorBackup
  BY <1>13, <1>14 DEF WorkerBackup, OperatorBackup
\* A task holds the lock, so that the services run.
<1>15. ASSUME NEW who \in {"worker", "web"}, task[who].phase # "none"
       PROVE  lock = who /\ services
  BY <1>0, <1>15 DEF StoppedIsIdle
<1>16. ASSUME NEW who \in {"worker", "web"}, Dump(who) PROVE BackupInv'
  <2>1. PICK t : t = [phase |-> "prune",
                      retention |-> IF who = "worker" THEN task[who].retention ELSE policy.retention]
    OBVIOUS
  <2>2. /\ task' = [task EXCEPT ![who] = t] /\ t.phase # "none" /\ lock' = lock
        /\ {due', backoff'} \subseteq BOOLEAN /\ task[who].phase # "none"
        /\ UNCHANGED <<services, command, content, contents>>
    <3>1. task' = [task EXCEPT ![who] = t]
      BY <1>0, <1>16, <2>1 DEF Dump
    <3> QED
      BY <1>0, <1>16, <2>1, <3>1 DEF Dump
  <2>3. lock = who /\ services
    BY <1>15, <2>2
  <2>4. TasksOK
    BY <1>0, <1>12, <2>2, <2>3
  <2>5. \E kind \in {"automatic", "manual"} : Created(kind)
    BY <1>16 DEF Dump
  <2>6. ContentOK
    BY <1>0, <2>2, <2>5, NewArchiveShape
  <2> QED
    BY <1>6, <2>2, <2>3, <2>4, <2>6
<1>17. ASSUME NEW who \in {"worker", "web"}, BackupFails(who) \/ Prune(who) PROVE BackupInv'
  <2>1. /\ task' = [task EXCEPT ![who] = NoTask] /\ NoTask.phase = "none" /\ lock' = Nobody
        /\ {due', backoff'} \subseteq BOOLEAN /\ task[who].phase # "none"
        /\ UNCHANGED <<services, command, content, contents, made>> /\ archives' \subseteq archives
    BY <1>0, <1>17, PrunedArchives DEF BackupFails, Prune, Ended, NoTask
  <2>2. lock = who /\ services
    BY <1>15, <2>1
  <2>3. TasksOK
    BY <1>0, <1>12, <2>1, <2>2
  <2>4. ContentOK
    BY <1>0, <2>1
  <2> QED
    BY <1>6, <2>1, <2>2, <2>3, <2>4
<1>18. ASSUME NEW enabled \in BOOLEAN, NEW r \in Retention, SavePolicy(enabled, r) PROVE BackupInv'
  <2>1. archives' \subseteq archives
    BY <1>18, PrunedArchives DEF SavePolicy
  <2>2. ContentOK
    BY <1>0, <1>18, <2>1 DEF SavePolicy
  <2> QED
    BY <1>2, <1>6, <1>18, <2>2 DEF SavePolicy
<1>19. CASE BackupNow
  <2>1. /\ archives' \subseteq Archive /\ made' \in 0 .. MaxArchives /\ archives \subseteq archives'
        /\ \A a \in archives' : a.content \in 0 .. MaxContent
    BY <1>0, <1>19, NewArchiveShape DEF BackupNow
  <2>2. ContentOK /\ TasksOK
    BY <1>0, <1>19, <2>1 DEF BackupNow
  <2>3. CommandHolds'
    BY <1>0, <1>19, <2>1 DEF BackupNow, CommandHolds, Requested
  <2> QED
    BY <1>0, <1>1, <1>4, <1>19, <2>2, <2>3 DEF BackupNow, StoppedIsIdle
<1>20. ASSUME NEW copy \in Foreign, Import(copy) PROVE BackupInv'
  <2>1. copy.id \in Nat /\ copy.content = 0 /\ copy.newer \in BOOLEAN
    <3>1. PICK k \in {0, 1} : copy = [id |-> 1000 + k, content |-> 0, newer |-> k = 1]
      BY DEF Foreign
    <3>2. copy.newer = (k = 1)
      BY <3>1, ZenonT(60)
    <3> QED
      BY <3>1, <3>2
  <2>2. [id |-> copy.id, kind |-> "imported", content |-> copy.content, newer |-> copy.newer] \in Archive
    BY <2>1 DEF Archive
  <2>3. ContentOK
    BY <1>0, <1>20, <2>1, <2>2 DEF Import
  <2> QED
    BY <1>2, <1>6, <1>20, <2>3 DEF Import
<1>21. CASE CancelRestore \/ \E a \in archives : PrepareRestore(a)
  BY <1>2, <1>3, <1>6, <1>21 DEF CancelRestore, PrepareRestore
<1>22. CASE StopServices
  <2>1. TasksOK
    BY <1>0, <1>22 DEF StopServices, Free, NoTask
  <2>2. command = "none" /\ StoppedIsIdle'
    BY <1>0, <1>22 DEF StopServices, StoppedIsIdle
  <2> QED
    BY <1>0, <1>1, <1>3, <1>5, <1>22, <2>1, <2>2 DEF StopServices
<1>23. CASE StartServices
  <2>1. StoppedIsIdle'
    BY <1>0, <1>23 DEF StartServices, StoppedIsIdle
  <2> QED
    BY <1>0, <1>1, <1>2, <1>3, <1>5, <1>23, <2>1 DEF StartServices
<1>24. CASE BeginRestore \/ CommandDies
  <2>1. StoppedIsIdle' /\ command' \in {"none", "checked"} /\ command' \in Phases
    BY <1>0, <1>24 DEF BeginRestore, CommandDies, Moves, StoppedIsIdle, Phases
  <2> QED
    BY <1>0, <1>1, <1>2, <1>3, <1>5, <1>24, <2>1 DEF BeginRestore, CommandDies
<1>25. CASE SaveFirst
  <2>1. Created("manual") /\ command' = "saved" /\ ~services
        /\ UNCHANGED <<services, content, contents, due, lock, task, pending>> /\ backoff' = FALSE
    BY <1>25 DEF SaveFirst, SafetyArchive, Moves
  <2>2. /\ archives' \subseteq Archive /\ made' \in 0 .. MaxArchives
        /\ \A a \in archives' : a.content \in 0 .. MaxContent
        /\ \E a \in archives' : a.kind = "manual" /\ a.content = content
    BY <1>0, <2>1, NewArchiveShape
  <2>3. TasksOK /\ ContentOK
    BY <1>0, <2>1, <2>2
  <2>4. CommandHolds'
    BY <2>1, <2>2 DEF CommandHolds
  <2>5. StoppedIsIdle'
    BY <1>0, <2>1 DEF StoppedIsIdle
  <2> QED
    BY <1>0, <1>1, <2>1, <2>3, <2>4, <2>5 DEF Phases
<1>26. CASE RestoreDump
  <2>1. /\ command = "saved" /\ command' = "restored" /\ ~services
        /\ content' \in {a.content : a \in Requested}
        /\ UNCHANGED <<services, contents, archives, made, pending, lock, task, due, backoff>>
    BY <1>26 DEF RestoreDump, Moves
  <2>2. PICK a \in Requested : content' = a.content
    BY <2>1
  <2>3. ContentOK
    BY <1>0, <2>1, <2>2 DEF Requested
  <2>4. CommandHolds'
    BY <2>1, <2>2 DEF CommandHolds, Requested
  <2>5. StoppedIsIdle' /\ TasksOK
    BY <1>0, <2>1 DEF StoppedIsIdle
  <2> QED
    BY <1>0, <1>1, <2>1, <2>3, <2>4, <2>5 DEF Phases
<1>27. CASE Revoke
  <2>1. /\ command = "restored" /\ command' = "revoked"
        /\ UNCHANGED <<services, content, contents, archives, made, pending, lock, task, due, backoff>>
    BY <1>27 DEF Revoke, Moves
  <2>2. CommandHolds' /\ StoppedIsIdle'
    BY <1>0, <2>1 DEF CommandHolds, StoppedIsIdle, Requested
  <2> QED
    BY <1>0, <1>1, <1>2, <1>3, <2>1, <2>2 DEF Phases
<1>28. CASE EndRestore
  <2>1. /\ command = "revoked" /\ command' = "none"
        /\ UNCHANGED <<services, content, contents, archives, made, lock, task, due, backoff>>
    BY <1>28 DEF EndRestore, RequestDone, Moves
  <2>2. StoppedIsIdle'
    BY <1>0, <2>1 DEF StoppedIsIdle
  <2> QED
    BY <1>0, <1>1, <1>2, <1>3, <1>5, <2>1, <2>2 DEF Phases
<1> QED
  BY <1>8, <1>9, <1>10, <1>11, <1>14, <1>16, <1>17, <1>18, <1>19, <1>20, <1>21, <1>22, <1>23, <1>24,
     <1>25, <1>26, <1>27, <1>28 DEF BackupNext

LEMMA BackupSafety == BackupSpec => []BackupInv
<1>1. BackupInit => BackupInv
  BY BackupInvInit
<1>2. BackupInv /\ [BackupNext]_backupVars => BackupInv'
  BY BackupInvStep
<1> QED
  BY <1>1, <1>2, PTL DEF BackupSpec

\* Archives, tasks and the command's progress stay well formed.
THEOREM BackupTypes == BackupSpec => []BackupTypeOK
<1>1. BackupInv => BackupTypeOK
  BY DEF BackupInv, BackupShapes
<1> QED
  BY <1>1, BackupSafety, PTL

\* What a restore replaces is in an archive that no retention removes, and a request is only
\* withdrawn by the command once it is carried out (restore_pending_backup), for any number
\* of archives, retentions and deaths of the command.
THEOREM RestoreIsSafe == BackupSpec => RestoresLoseNothing
<1> DEFINE Act == /\ command = "saved" /\ command' = "restored" =>
                        \E a \in archives : a.kind # "automatic" /\ a.content = content
                  /\ ~services /\ pending' # pending => content \in {a.content : a \in Requested}
<1>1. BackupInv /\ [BackupNext]_backupVars => [Act]_backupVars
  <2> SUFFICES ASSUME BackupInv, BackupNext PROVE Act
    OBVIOUS
  <2>1. command = "saved" => \E a \in archives : a.kind # "automatic" /\ a.content = content
    BY DEF BackupInv, CommandHolds
  <2>2. ASSUME ~services, pending' # pending PROVE EndRestore
    <3>1. \A who \in {"worker", "web"} : Dump(who) \/ BackupFails(who) \/ Prune(who) => pending' = pending
      BY DEF Dump, BackupFails, Prune
    <3>2. ~\E a \in archives : PrepareRestore(a)
      BY <2>2 DEF PrepareRestore
    <3>3. ~CancelRestore
      BY <2>2 DEF CancelRestore
    <3> QED
      BY <2>2, <3>1, <3>2, <3>3 DEF BackupNext, Commit, IntervalEnds, RetryComes, PrintChanges, WorkerBackup,
         OperatorBackup, BackupNow, SavePolicy, Import, StopServices, StartServices, BeginRestore,
         SaveFirst, RestoreDump, Revoke, CommandDies
  <2>3. EndRestore => \E a \in Requested : a.content = content
    BY DEF EndRestore, RequestDone, Moves, BackupInv, CommandHolds
  <2> QED
    BY <2>1, <2>2, <2>3
<1> QED
  BY <1>1, BackupSafety, PTL DEF BackupSpec, RestoresLoseNothing

-----------------------------------------------------------------------------
(* GooglePublication: consents and the published workbook.                 *)

Holder == Tombstones \cup {Browser} \cup {Completion(n) : n \in 1 .. MaxConsents}
Connection == [grant : 0 .. MaxConsents, asked : 0 .. MaxConsents, made : 0 .. MaxConsents,
               holder : Holder, requested : BOOLEAN, workbook : BOOLEAN,
               fingerprint : Exported \cup {Unpublished}, delayed : BOOLEAN]
Publication == [at : {"reading", "staging", "staged", "answered"}, content : Exported,
                clears : BOOLEAN, workbook : BOOLEAN]

PublicationShapes ==
    /\ exported \in Exported /\ google \in Connection
    /\ exchanges \subseteq 1 .. MaxConsents
    /\ drive \in [count : 0 .. 1, holds : Exported \cup {Unpublished, Tampered}]
    /\ pass = NoPass \/ pass \in Publication

\* A consent that is asked for, or that an exchange still answers for, is newer than the
\* newest that was revoked.
ConsentsAreNew ==
    /\ superseded \in 0 .. google.made
    /\ google.asked # 0 => google.asked > superseded
    /\ \A n \in 1 .. MaxConsents : google.holder = Completion(n) => n > superseded

\* A workbook that is recorded, that a pass has found or that holds something is there.
WorkbookExists ==
    /\ google.workbook \/ drive.holds # Unpublished => drive.count = 1
    /\ pass # NoPass => /\ pass.at # "reading" => pass.workbook
                        /\ pass.workbook => drive.count = 1

PublicationInv == PublicationShapes /\ ConsentsAreNew /\ WorkbookExists

LEMMA ConnectionUpdates ==
  ASSUME NEW g \in Connection, NEW k \in 0 .. MaxConsents, NEW h \in Holder
  PROVE  /\ [g EXCEPT !.asked = k, !.holder = h] \in Connection
         /\ [g EXCEPT !.made = k, !.asked = k, !.holder = h] \in Connection
         /\ [g EXCEPT !.grant = k, !.holder = h, !.delayed = FALSE, !.fingerprint = Unpublished,
                      !.requested = TRUE] \in Connection
         /\ [g EXCEPT !.grant = k, !.asked = k, !.holder = h, !.requested = FALSE] \in Connection
         /\ [g EXCEPT !.delayed = FALSE] \in Connection
<1> QED
  BY DEF Connection

LEMMA PublicationInvInit == PublicationInit => PublicationInv
<1> SUFFICES ASSUME PublicationInit PROVE PublicationInv
  OBVIOUS
<1>1. MaxConsents \in Nat
  BY PublicationAssumption
<1>2. <<"none", 0>> \in Holder
  BY DEF Holder, Tombstones
<1>3. google \in Connection
  BY <1>1, <1>2 DEF PublicationInit, Connection
<1>4. PublicationShapes
  BY <1>3 DEF PublicationInit, PublicationShapes
<1>5. ConsentsAreNew
  BY DEF PublicationInit, ConsentsAreNew, Completion
<1>6. WorkbookExists
  BY DEF PublicationInit, WorkbookExists
<1> QED
  BY <1>4, <1>5, <1>6 DEF PublicationInv

LEMMA PublicationInvStep == PublicationInv /\ [PublicationNext]_googleVars => PublicationInv'
<1> SUFFICES ASSUME PublicationInv, [PublicationNext]_googleVars PROVE PublicationInv'
  OBVIOUS
<1> USE DEF PublicationInv
<1>0. MaxConsents \in Nat
  BY PublicationAssumption
<1>1. exported \in Exported /\ google \in Connection /\ exchanges \subseteq 1 .. MaxConsents
  BY DEF PublicationShapes
<1>2. drive.count \in 0 .. 1 /\ drive = [count |-> drive.count, holds |-> drive.holds]
  BY DEF PublicationShapes
<1>3. drive.holds \in Exported \cup {Unpublished, Tampered}
  BY DEF PublicationShapes
<1>4. google.made \in 0 .. MaxConsents /\ google.asked \in 0 .. MaxConsents
  BY <1>1 DEF Connection
\* What the connection's routes leave.
<1>5. ASSUME UNCHANGED <<exported, drive, pass>>, exchanges' \subseteq 1 .. MaxConsents,
             google' \in Connection, google'.workbook = google.workbook, ConsentsAreNew'
      PROVE PublicationInv'
  BY <1>5 DEF PublicationShapes, WorkbookExists
\* What a publication leaves.
<1>6. ASSUME UNCHANGED <<exported, exchanges, superseded>>, google' \in Connection,
             google'.made = google.made, google'.asked = google.asked, google'.holder = google.holder,
             drive' \in [count : 0 .. 1, holds : Exported \cup {Unpublished, Tampered}],
             pass' = NoPass \/ pass' \in Publication, WorkbookExists'
      PROVE PublicationInv'
  BY <1>6 DEF PublicationShapes, ConsentsAreNew
<1>7. CASE UNCHANGED googleVars
  BY <1>7 DEF googleVars, PublicationShapes, ConsentsAreNew, WorkbookExists
<1>8. ASSUME NEW c \in Exported, ExportedChanges(c) PROVE PublicationInv'
  BY <1>8 DEF ExportedChanges, PublicationShapes, ConsentsAreNew, WorkbookExists
<1>9. CASE PrintBegins \/ PrintFinishes \/ IntervalPasses
  BY <1>9 DEF PrintBegins, PrintFinishes, IntervalPasses, PublicationShapes, ConsentsAreNew, WorkbookExists
<1>10. CASE DelayPasses
  <2>1. google' \in Connection
    BY <1>1, <1>10 DEF DelayPasses, Connection
  <2> QED
    BY <1>1, <1>6, <1>10, <2>1 DEF DelayPasses, PublicationShapes, WorkbookExists, world, Connection
<1>11. CASE WorkbookIsEdited
  <2>1. drive' = [count |-> 1, holds |-> Tampered]
    BY <1>2, <1>11 DEF WorkbookIsEdited
  <2> QED
    BY <1>1, <1>6, <1>11, <2>1 DEF WorkbookIsEdited, PublicationShapes, WorkbookExists, world
<1>12. CASE Connect
  <2>1. google.made + 1 \in 1 .. MaxConsents
    BY <1>0, <1>4, <1>12 DEF Connect
  <2>2. Browser \in Holder /\ \A n \in Nat : Browser # Completion(n)
    BY DEF Holder, Browser, Completion
  <2>3. google' \in Connection /\ google'.workbook = google.workbook /\ google'.holder = Browser
        /\ google'.made = google.made + 1 /\ google'.asked = google.made + 1
    <3>1. PICK k \in 0 .. MaxConsents : k = google.made + 1
      BY <2>1
    <3>2. PICK h \in Holder : h = Browser
      BY <2>2
    <3>3. google' = [google EXCEPT !.made = k, !.asked = k, !.holder = h]
      BY <1>12, <3>1, <3>2 DEF Connect
    <3>4. google' \in Connection
      BY <1>1, <3>3, ConnectionUpdates
    <3> QED
      BY <1>1, <3>1, <3>2, <3>3, <3>4 DEF Connection
  <2>4. ConsentsAreNew'
    BY <1>4, <1>12, <2>2, <2>3 DEF Connect, ConsentsAreNew
  <2> QED
    BY <1>1, <1>5, <1>12, <2>3, <2>4 DEF Connect, world
<1>13. CASE Consume
  <2>1. google.asked \in 1 .. MaxConsents /\ google.asked > superseded
    BY <1>4, <1>13 DEF Consume, ConsentsAreNew
  <2>2. Completion(google.asked) \in Holder
    BY <2>1 DEF Holder
  <2>3. google' \in Connection /\ google'.workbook = google.workbook /\ google'.made = google.made
        /\ google'.asked = 0 /\ google'.holder = Completion(google.asked)
    <3>1. PICK h \in Holder : h = Completion(google.asked)
      BY <2>2
    <3>2. google' = [google EXCEPT !.asked = 0, !.holder = h]
      BY <1>13, <3>1 DEF Consume
    <3>3. google' \in Connection
      <4>1. 0 \in 0 .. MaxConsents /\ google \in Connection
        BY <1>0, <1>1
      <4>2. [google EXCEPT !.asked = 0, !.holder = h] \in Connection
        BY <4>1, ConnectionUpdates
      <4> QED
        BY <3>2, <4>2
    <3> QED
      BY <1>1, <3>1, <3>2, <3>3 DEF Connection
  <2>4. \A n \in 1 .. MaxConsents : Completion(google.asked) = Completion(n) => n > superseded
    BY <2>1 DEF Completion
  <2>5. ConsentsAreNew'
    BY <1>13, <2>3, <2>4 DEF Consume, ConsentsAreNew
  <2> QED
    BY <1>1, <1>5, <1>13, <2>1, <2>3, <2>5 DEF Consume, world
<1>14. ASSUME NEW n \in exchanges, StoreGrant(n) PROVE PublicationInv'
  <2>0. n \in 1 .. MaxConsents
    BY <1>1
  <2>1. <<"none", 0>> \in Holder /\ \A k \in Nat : <<"none", 0>> # Completion(k)
    BY DEF Holder, Tombstones, Completion
  <2>2. CASE StillCurrent(n)
    <3>1. google' \in Connection /\ google'.workbook = google.workbook /\ google'.made = google.made
          /\ google'.asked = google.asked /\ google'.holder = <<"none", 0>>
      <4>1. PICK h \in Holder : h = <<"none", 0>>
        BY <2>1
      <4>2. google' = [google EXCEPT !.grant = n, !.holder = h, !.delayed = FALSE,
                                     !.fingerprint = Unpublished, !.requested = TRUE]
        BY <1>14, <2>2, <4>1 DEF StoreGrant
      <4>3. google' \in Connection
        <5>1. n \in 0 .. MaxConsents /\ google \in Connection
          BY <1>0, <1>1, <2>0
        <5>2. [google EXCEPT !.grant = n, !.holder = h, !.delayed = FALSE,
                             !.fingerprint = Unpublished, !.requested = TRUE] \in Connection
          BY <5>1, ConnectionUpdates
        <5> QED
          BY <4>2, <5>2
      <4> QED
        BY <1>1, <4>1, <4>2, <4>3 DEF Connection
    <3>2. ConsentsAreNew'
      BY <1>14, <2>1, <3>1 DEF StoreGrant, ConsentsAreNew
    <3> QED
      BY <1>1, <1>5, <1>14, <3>1, <3>2 DEF StoreGrant, world
  <2>3. CASE ~StillCurrent(n)
    BY <1>1, <1>5, <1>14, <2>3 DEF StoreGrant, world, ConsentsAreNew
  <2> QED
    BY <2>2, <2>3
<1>15. ASSUME NEW n \in exchanges, ExchangeFails(n) PROVE PublicationInv'
  BY <1>1, <1>5, <1>15 DEF ExchangeFails, world, ConsentsAreNew
<1>16. CASE Disconnect \/ Setup
  <2>1. {<<"disconnected", 0>>, <<"setup_changed", 0>>} \subseteq Holder
        /\ \A k \in Nat : <<"disconnected", 0>> # Completion(k) /\ <<"setup_changed", 0>> # Completion(k)
    BY DEF Holder, Tombstones, Completion
  <2>2. google' \in Connection /\ google'.workbook = google.workbook /\ google'.made = google.made
        /\ google'.asked = 0 /\ google'.holder \in {<<"disconnected", 0>>, <<"setup_changed", 0>>}
    <3>1. PICK h \in Holder : /\ h \in {<<"disconnected", 0>>, <<"setup_changed", 0>>}
                              /\ Disconnect => h = <<"disconnected", 0>>
                              /\ ~Disconnect => h = <<"setup_changed", 0>>
      BY <2>1
    <3>2. PICK g : g = [google EXCEPT !.grant = 0, !.asked = 0, !.holder = h, !.requested = FALSE]
      OBVIOUS
    <3>3. g \in Connection
      <4>1. 0 \in 0 .. MaxConsents /\ google \in Connection
        BY <1>0, <1>1
      <4>2. [google EXCEPT !.grant = 0, !.asked = 0, !.holder = h, !.requested = FALSE] \in Connection
        BY <4>1, ConnectionUpdates
      <4> QED
        BY <3>2, <4>2
    <3>4. google' = g \/ google' = [g EXCEPT !.delayed = FALSE]
      BY <1>16, <3>1, <3>2 DEF Disconnect, Setup, Forgotten
    <3>5. google' \in Connection
      <4>1. [g EXCEPT !.delayed = FALSE] \in Connection
        BY <3>3 DEF Connection
      <4> QED
        BY <3>3, <3>4, <4>1
    <3> QED
      BY <1>1, <3>1, <3>2, <3>4, <3>5 DEF Connection
  <2>3. ConsentsAreNew'
    BY <1>4, <1>16, <2>1, <2>2 DEF Disconnect, Setup, ConsentsAreNew
  <2> QED
    BY <1>1, <1>5, <1>16, <2>2, <2>3 DEF Disconnect, Setup, world
<1>17. CASE SyncWorkbook
  <2>1. google' \in Connection
    BY <1>1, <1>17 DEF SyncWorkbook, Connection
  <2> QED
    BY <1>1, <1>5, <1>17, <2>1 DEF SyncWorkbook, world, ConsentsAreNew, Connection
<1>18. ASSUME NEW forced \in BOOLEAN, BeginPass(forced) PROVE PublicationInv'
  <2>1. google' \in Connection /\ google'.workbook = google.workbook /\ google'.made = google.made
        /\ google'.asked = google.asked /\ google'.holder = google.holder
    BY <1>1, <1>18 DEF BeginPass, Connection
  <2>2. pass' = NoPass \/ (pass' \in Publication /\ pass'.at = "reading" /\ pass'.workbook = google.workbook)
    BY <1>1, <1>18 DEF BeginPass, Connection, Publication, LockIsFree
  <2>3. WorkbookExists'
    BY <1>18, <2>1, <2>2 DEF BeginPass, WorkbookExists
  <2> QED
    BY <1>1, <1>6, <1>18, <2>1, <2>2, <2>3 DEF BeginPass, world, PublicationShapes
<1>19. CASE FindWorkbook
  <2>1. pass \in Publication /\ pass' \in Publication /\ pass'.workbook = TRUE
    BY <1>19 DEF FindWorkbook, PublicationShapes, Publication
  <2>2. drive' = [count |-> 1, holds |-> drive.holds]
    BY <1>2, <1>19 DEF FindWorkbook, WorkbookExists
  <2> QED
    BY <1>1, <1>3, <1>6, <1>19, <2>1, <2>2 DEF FindWorkbook, world, WorkbookExists
<1>20. CASE StageTabs
  <2>1. pass' \in Publication /\ pass'.workbook = pass.workbook
    BY <1>20 DEF StageTabs, PublicationShapes, Publication
  <2> QED
    BY <1>1, <1>6, <1>20, <2>1 DEF StageTabs, world, WorkbookExists, PublicationShapes
<1>21. CASE ReplaceTabs
  <2>1. pass' \in Publication /\ pass'.workbook = pass.workbook /\ pass.content \in Exported
    BY <1>21 DEF ReplaceTabs, PublicationShapes, Publication
  <2>2. drive' = [count |-> 1, holds |-> pass.content]
    BY <1>2, <1>21 DEF ReplaceTabs, WorkbookExists
  <2> QED
    <3>1. WorkbookExists'
      BY <1>21, <2>1, <2>2 DEF ReplaceTabs, WorkbookExists
    <3>2. drive' \in [count : 0 .. 1, holds : Exported \cup {Unpublished, Tampered}]
      BY <2>1, <2>2
    <3> QED
      BY <1>1, <1>6, <1>21, <2>1, <3>1, <3>2 DEF ReplaceTabs, world
<1>22. CASE CommitPass
  <2>1. pass.content \in Exported /\ drive.count = 1
    BY <1>22 DEF CommitPass, PublicationShapes, Publication, WorkbookExists
  <2>2. (google.requested /\ ~pass.clears) \in BOOLEAN
    OBVIOUS
  <2>3. PICK kept \in BOOLEAN : kept = (google.requested /\ ~pass.clears)
    BY <2>2, Zenon
  <2>4. google' = [google EXCEPT !.fingerprint = pass.content, !.workbook = TRUE, !.delayed = FALSE,
                                 !.requested = kept]
    BY <1>22, <2>3 DEF CommitPass
  <2>5. google' \in Connection /\ google'.made = google.made
        /\ google'.asked = google.asked /\ google'.holder = google.holder
    BY <1>1, <2>1, <2>4 DEF Connection
  <2> QED
    BY <1>1, <1>6, <1>22, <2>1, <2>5 DEF CommitPass, WorkbookExists, PublicationShapes
<1>23. ASSUME NEW applied \in BOOLEAN, PassFails(applied) PROVE PublicationInv'
  <2>1. pass \in Publication /\ pass' = NoPass
    BY <1>23 DEF PassFails, PublicationShapes
  <2>2. google' \in Connection /\ google'.workbook = pass.workbook /\ google'.made = google.made
        /\ google'.asked = google.asked /\ google'.holder = google.holder
    BY <1>1, <1>23, <2>1 DEF PassFails, Connection, Publication
  <2>3. \/ drive' = drive
        \/ drive' = [drive EXCEPT !.holds = pass.content] /\ pass.at = "staged"
        \/ drive' = [drive EXCEPT !.count = 1]
    BY <1>23 DEF PassFails
  <2>4. pass.content \in Exported
    BY <2>1 DEF Publication
  <2>5. drive' \in [count : 0 .. 1, holds : Exported \cup {Unpublished, Tampered}]
        /\ (pass.workbook \/ drive'.holds # Unpublished => drive'.count = 1)
    BY <1>2, <1>3, <1>23, <2>3, <2>4 DEF WorkbookExists, PassFails
  <2> QED
    BY <1>6, <1>23, <2>1, <2>2, <2>5 DEF PassFails, WorkbookExists, world
<1>24. CASE PassDies
  BY <1>1, <1>6, <1>24 DEF PassDies, WorkbookExists, PublicationShapes, world
<1> QED
  BY <1>7, <1>8, <1>9, <1>10, <1>11, <1>12, <1>13, <1>14, <1>15, <1>16, <1>17, <1>18, <1>19, <1>20,
     <1>21, <1>22, <1>23, <1>24 DEF PublicationNext, TimePasses, PassStep

LEMMA PublicationSafety == PublicationSpec => []PublicationInv
<1>1. PublicationInit => PublicationInv
  BY PublicationInvInit
<1>2. PublicationInv /\ [PublicationNext]_googleVars => PublicationInv'
  BY PublicationInvStep
<1> QED
  BY <1>1, <1>2, PTL DEF PublicationSpec

\* Connection, exchanges, workbook and publication stay well formed, and there is one
\* workbook wherever something was published (find_or_create).
THEOREM PublicationTypes == PublicationSpec => []PublicationTypeOK
<1>1. PublicationInv => PublicationTypeOK
  BY DEF PublicationInv, PublicationShapes, Connection, Holder, WorkbookExists, PublicationTypeOK
<1> QED
  BY <1>1, PublicationSafety, PTL

\* No exchange stores a grant that a later connect, disconnect or setup revoked
\* (complete_authorization), whatever order any number of consents and exchanges end in.
THEOREM ConsentsStayRevoked == PublicationSpec => OnlyCurrentConsent
<1> DEFINE Act == google'.grant \notin {0, google.grant} => google'.grant > superseded
<1>1. PublicationInv /\ [PublicationNext]_googleVars => [Act]_googleVars
  <2> SUFFICES ASSUME PublicationInv, PublicationNext, google'.grant \notin {0, google.grant}
               PROVE google'.grant > superseded
    OBVIOUS
  <2>1. google \in Connection
    BY DEF PublicationInv, PublicationShapes
  <2>2. PICK n \in exchanges : StoreGrant(n)
    <3>1. PassStep \/ TimePasses \/ PrintBegins \/ Connect \/ Consume \/ SyncWorkbook \/ PassDies
          => google'.grant = google.grant
      BY <2>1 DEF PassStep, BeginPass, FindWorkbook, StageTabs, ReplaceTabs, CommitPass, TimePasses,
         PrintFinishes, IntervalPasses, DelayPasses, PrintBegins, Connect, Consume, SyncWorkbook,
         PassDies, Connection
    <3>2. Disconnect \/ Setup => google'.grant = 0
      BY <2>1 DEF Disconnect, Setup, Forgotten, Connection
    <3>3. (\E c \in Exported : ExportedChanges(c)) \/ WorkbookIsEdited
          \/ (\E n \in exchanges : ExchangeFails(n)) => google'.grant = google.grant
      BY DEF ExportedChanges, WorkbookIsEdited, ExchangeFails, world
    <3>4. (\E applied \in BOOLEAN : PassFails(applied)) => google'.grant = google.grant
      BY <2>1 DEF PassFails, Connection
    <3> QED
      BY <3>1, <3>2, <3>3, <3>4 DEF PublicationNext
  <2>3. StillCurrent(n) /\ google'.grant = n
    BY <2>1, <2>2 DEF StoreGrant, Connection
  <2>4. n \in 1 .. MaxConsents
    BY DEF PublicationInv, PublicationShapes
  <2> QED
    BY <2>3, <2>4 DEF StillCurrent, PublicationInv, ConsentsAreNew
<1> QED
  BY <1>1, PublicationSafety, PTL DEF PublicationSpec, OnlyCurrentConsent

-----------------------------------------------------------------------------
(* MaterialSettings: material types, templates and profiles.               *)

Choice == [name : Material, live : BOOLEAN]
Rename == [id : Nat, before : Material]
InUse(base) == base \in Nat \X Nat /\ base[1] \in DOMAIN templates

SaveShape(s) ==
    /\ s.t \in DOMAIN templates /\ s.value \in Value /\ s.material \in Material /\ s.nozzle \in Nozzle
    /\ s.sources \subseteq DOMAIN snapshots /\ s.left \subseteq DOMAIN snapshots

RebaseShape ==
    /\ rebase = [product |-> rebase.product, row |-> rebase.row, target |-> rebase.target,
                 locked |-> rebase.locked, plan |-> rebase.plan]
    /\ rebase.product \in Product /\ rebase.target \in DOMAIN templates
    /\ rebase.row \in DOMAIN snapshots /\ snapshots[rebase.row].product = rebase.product
    /\ DOMAIN rebase.plan \subseteq DOMAIN snapshots
    /\ \A i \in DOMAIN rebase.plan : InUse(rebase.plan[i])
    /\ DOMAIN rebase.plan # {} => rebase.row \in DOMAIN rebase.plan

SettingsShapes ==
    /\ catalog \in Seq(Choice) /\ renames \in Seq(Rename)
    /\ \A k \in DOMAIN renames : renames[k].id \in DOMAIN catalog
    /\ templates \in Seq(Template)
    /\ snapshots \in Seq(Snapshot) /\ \A i \in DOMAIN snapshots : InUse(snapshots[i].base)
    /\ products \in [Product -> [material : Material, source : Nat \X Nat]]
    /\ \A q \in Product : InUse(products[q].source)
    /\ \A s \in saves : SaveShape(s)
    /\ ownSave # NoWork => ownSave.source \in DOMAIN snapshots /\ ownSave.value \in Value
    /\ rebase # NoWork => RebaseShape
    /\ calibration # NoWork => /\ calibration.product \in Product /\ calibration.nozzle \in Nozzle
                               /\ InUse(calibration.base)
    /\ settingsEdits \in Nat

\* The template's row is locked by one save at a time, and what only a save with the types'
\* lock may change is as it was read.
SavesHoldTemplates ==
    /\ \A s, u \in saves : s.t = u.t => s = u
    /\ \A s \in saves : s.kind # "direct" => s.material = templates[s.t].material

SameScope(rows, i, j) == rows[i].product = rows[j].product /\ rows[i].nozzle = rows[j].nozzle
CurrentRow(rows, i) ==
    /\ i \in DOMAIN rows /\ rows[i].published
    /\ \A j \in DOMAIN rows : SameScope(rows, i, j) /\ rows[j].published => j <= i

\* A save that no change of template was under way beside of copies rows of its template, no
\* product of theirs is being changed, and where it will add, no change is current yet.
SavesStand ==
    /\ \A s \in saves : \A j \in s.left : \A i \in DOMAIN snapshots :
          i < j /\ SameScope(snapshots, i, j) => i \in s.left
    /\ \A s \in saves : ~s.amid => \A i \in s.sources :
          /\ snapshots[i].base[1] = s.t
          /\ rebase # NoWork => rebase.product # snapshots[i].product
          /\ \A k \in DOMAIN snapshots :
                /\ CurrentRow(snapshots, k) /\ snapshots[k].by = "rebase"
                /\ snapshots[k].product = snapshots[i].product /\ snapshots[k].nozzle = s.nozzle
                => snapshots[k].base[1] = s.t

SettingsInv == SettingsShapes /\ SavesHoldTemplates /\ SavesStand /\ ChoicesCoverTemplates

LEMMA FirstOf ==
  ASSUME NEW S, S # {}, S \subseteq Nat
  PROVE  \E k \in S : \A l \in S : k <= l
<1> DEFINE R == OpToRel(<, Nat)
<1>1. IsWellFoundedOn(R, Nat)
  BY NatLessThanWellFounded DEF OpToRel
<1>2. \A i, j \in Nat : j < i => <<j, i>> \in R
  BY DEF OpToRel
<1> HIDE DEF R
<1>3. PICK i \in S : \A j \in S : ~(<<j, i>> \in R)
  BY <1>1, WFMin
<1>4. ASSUME NEW j \in S PROVE i <= j
  <2>1. ~(j < i) /\ i \in Nat /\ j \in Nat
    BY <1>2, <1>3
  <2> QED
    BY <2>1
<1> QED
  BY <1>4

LEMMA LastOf ==
  ASSUME NEW n \in Nat, NEW S, S # {}, S \subseteq 1 .. n
  PROVE  \E i \in S : \A j \in S : j <= i
<1> DEFINE D == {n - j : j \in S}
<1>1. D # {}
  OBVIOUS
<1>6. \A j \in S : j \in 1 .. n /\ n - j \in Nat
  OBVIOUS
<1>0. D \subseteq Nat
  BY <1>6
<1>2. PICK d \in D : \A e \in D : d <= e
  <2> HIDE DEF D
  <2> QED
    BY <1>0, <1>1, FirstOf
<1>3. PICK i \in S : d = n - i
  BY <1>2
<1>4. \A j \in S : n - j \in D
  OBVIOUS
<1>5. \A j \in S : d <= n - j
  BY <1>2, <1>4
<1> QED
  BY <1>3, <1>5

LEMMA InSomeOrder ==
  ASSUME NEW S, IsFiniteSet(S)
  PROVE  /\ SetToSeq(S) \in Seq(S)
         /\ \A x \in S : \E j \in DOMAIN SetToSeq(S) : SetToSeq(S)[j] = x
<1>1. Cardinality(S) \in Nat /\ ExistsBijection(1 .. Cardinality(S), S)
  BY FS_CardinalityType
<1>2. \E f \in [1 .. Cardinality(S) -> S] : IsInjective(f)
  BY <1>1 DEF ExistsBijection, Bijection, Injection
<1>3. SetToSeq(S) \in [1 .. Cardinality(S) -> S] /\ IsInjective(SetToSeq(S))
  BY <1>2 DEF SetToSeq
<1>4. SetToSeq(S) \in Surjection(1 .. Cardinality(S), S)
  <2>1. SetToSeq(S) \in Injection(1 .. Cardinality(S), S)
    BY <1>3 DEF Injection
  <2>2. Cardinality(1 .. Cardinality(S)) = Cardinality(S)
    BY <1>1, FS_Interval
  <2> QED
    BY <2>1, <2>2, FS_Injection
<1>5. \A x \in S : \E j \in 1 .. Cardinality(S) : SetToSeq(S)[j] = x
  BY <1>4 DEF Surjection
<1> QED
  BY <1>1, <1>3, <1>5

LEMMA FiniteImage ==
  ASSUME NEW f, IsFiniteSet(DOMAIN f)
  PROVE  IsFiniteSet({f[i] : i \in DOMAIN f})
<1> DEFINE T == {f[i] : i \in DOMAIN f}
           g == [i \in DOMAIN f |-> f[i]]
<1>1. g \in Surjection(DOMAIN f, T)
  BY DEF Surjection
<1> QED
  <2> HIDE DEF g
  <2> QED
    BY <1>1, FS_Surjection

\* Rows appended to rows stand behind them.
LEMMA AppendedRows ==
  ASSUME NEW R, NEW rows \in Seq(R), NEW new \in SUBSET R, IsFiniteSet(new)
  PROVE  /\ Appended(rows, new) \in Seq(R)
         /\ DOMAIN rows \subseteq DOMAIN Appended(rows, new)
         /\ \A i \in DOMAIN rows : Appended(rows, new)[i] = rows[i]
         /\ \A j \in DOMAIN Appended(rows, new) \ DOMAIN rows :
               Appended(rows, new)[j] \in new /\ \A i \in DOMAIN rows : i < j
         /\ \A x \in new : \E j \in DOMAIN Appended(rows, new) \ DOMAIN rows : Appended(rows, new)[j] = x
<1>1. SetToSeq(new) \in Seq(new) /\ \A x \in new : \E j \in DOMAIN SetToSeq(new) : SetToSeq(new)[j] = x
  BY InSomeOrder
<1>2. PICK t \in Seq(new) : t = SetToSeq(new) /\ \A x \in new : \E j \in DOMAIN t : t[j] = x
  BY <1>1
<1>3. t \in Seq(R)
  BY <1>2
<1>4. Appended(rows, new) = rows \o t
  BY <1>2 DEF Appended
<1>5. rows \o t \in Seq(R) /\ Len(rows \o t) = Len(rows) + Len(t)
      /\ \A i \in 1 .. Len(rows) + Len(t) :
            (rows \o t)[i] = IF i <= Len(rows) THEN rows[i] ELSE t[i - Len(rows)]
  BY <1>3
<1>6. \A i \in 1 .. Len(t) : t[i] \in new
  BY <1>2
<1>7. DOMAIN rows = 1 .. Len(rows) /\ DOMAIN (rows \o t) = 1 .. Len(rows) + Len(t)
      /\ Len(rows) \in Nat /\ Len(t) \in Nat
  BY <1>3, <1>5
<1>8. ASSUME NEW x \in new
      PROVE  \E j \in DOMAIN (rows \o t) \ DOMAIN rows : (rows \o t)[j] = x
  <2>1. PICK k \in 1 .. Len(t) : t[k] = x
    BY <1>2
  <2>2. Len(rows) + k \in DOMAIN (rows \o t) \ DOMAIN rows /\ (rows \o t)[Len(rows) + k] = t[k]
    BY <1>5, <1>7, <2>1
  <2> QED
    BY <2>1, <2>2
<1>9. /\ DOMAIN rows \subseteq DOMAIN (rows \o t)
      /\ \A i \in DOMAIN rows : (rows \o t)[i] = rows[i]
  BY <1>5, <1>7
<1>10. \A j \in DOMAIN (rows \o t) \ DOMAIN rows :
          (rows \o t)[j] \in new /\ \A i \in DOMAIN rows : i < j
  <2>1. ASSUME NEW j \in DOMAIN (rows \o t) \ DOMAIN rows
        PROVE  j - Len(rows) \in 1 .. Len(t) /\ (rows \o t)[j] = t[j - Len(rows)] /\ j > Len(rows)
    BY <1>5, <1>7
  <2> QED
    BY <1>6, <1>7, <2>1
<1> QED
  BY <1>4, <1>5, <1>8, <1>9, <1>10

\* What a step may do with the profiles' rows: it appends, and takes rows that are published
\* out of a scope from the oldest on.
Adds(old, new, Allowed) ==
    /\ DOMAIN old \subseteq DOMAIN new
    /\ \A i \in DOMAIN old :
          /\ new[i].product = old[i].product /\ new[i].nozzle = old[i].nozzle
          /\ new[i].base = old[i].base /\ new[i].by = old[i].by
          /\ new[i].published => old[i].published
    /\ \A j \in DOMAIN new \ DOMAIN old : new[j] \in Allowed /\ \A i \in DOMAIN old : i < j
    /\ \A i, j \in DOMAIN old :
          i < j /\ SameScope(old, i, j) /\ old[j].published /\ new[i].published => new[j].published

LEMMA CurrentsThin ==
  ASSUME NEW R, NEW old \in Seq(R), NEW new, NEW Allowed, Adds(old, new, Allowed),
         NEW i \in DOMAIN old, CurrentRow(new, i)
  PROVE  CurrentRow(old, i)
<1>1. DOMAIN old \subseteq Nat
  OBVIOUS
<1>2. old[i].published
  BY DEF Adds, CurrentRow
<1>3. ASSUME NEW j \in DOMAIN old, SameScope(old, i, j), old[j].published PROVE j <= i
  <2>1. SUFFICES ASSUME i < j PROVE FALSE
    BY <1>1
  <2>2. new[j].published /\ SameScope(new, i, j) /\ j \in DOMAIN new
    BY <1>3, <2>1 DEF Adds, SameScope, CurrentRow
  <2>3. j <= i
    BY <2>2 DEF CurrentRow
  <2> QED
    BY <1>1, <2>1, <2>3
<1> QED
  BY <1>2, <1>3 DEF CurrentRow

LEMMA AppendAdds ==
  ASSUME NEW R, NEW rows \in Seq(R), NEW r \in R
  PROVE  Append(rows, r) \in Seq(R) /\ Adds(rows, Append(rows, r), {r})
<1>1. /\ Append(rows, r) \in Seq(R) /\ DOMAIN rows = 1 .. Len(rows) /\ Len(rows) \in Nat
      /\ DOMAIN Append(rows, r) = 1 .. Len(rows) + 1
      /\ \A i \in DOMAIN rows : Append(rows, r)[i] = rows[i]
      /\ Append(rows, r)[Len(rows) + 1] = r
  OBVIOUS
<1> QED
  BY <1>1 DEF Adds, SameScope

LEMMA CurrentsAre ==
  ASSUME snapshots \in Seq(Snapshot), NEW i
  PROVE  /\ i \in Currents <=> CurrentRow(snapshots, i)
         /\ CurrentRow(snapshots, i) => i \in Current(snapshots[i].product, snapshots[i].nozzle)
<1>1. ASSUME NEW k \in DOMAIN snapshots
      PROVE  snapshots[k].product \in Product /\ snapshots[k].nozzle \in Nozzle
  <2>1. snapshots[k] \in Snapshot
    OBVIOUS
  <2> QED
    BY <2>1 DEF Snapshot
<1>2. ASSUME NEW q \in Product, NEW n \in Nozzle, i \in Current(q, n) PROVE CurrentRow(snapshots, i)
  BY <1>2 DEF Current, Rows, Newest, CurrentRow, SameScope
<1>3. ASSUME CurrentRow(snapshots, i) PROVE i \in Current(snapshots[i].product, snapshots[i].nozzle)
  BY <1>3 DEF Current, Rows, Newest, CurrentRow, SameScope
<1>4. CurrentRow(snapshots, i) => i \in DOMAIN snapshots
  BY DEF CurrentRow
<1>5. i \in Currents => CurrentRow(snapshots, i)
  BY <1>2 DEF Currents
<1>6. CurrentRow(snapshots, i) => i \in Currents
  BY <1>1, <1>3, <1>4 DEF Currents
<1> QED
  BY <1>3, <1>5, <1>6

Lengthened(old, new) == DOMAIN old \subseteq DOMAIN new /\ \A i \in DOMAIN old : new[i] = old[i]
IsNamed(c, name) == \E id \in DOMAIN c : c[id].live /\ c[id].name = name
AddedAreOf(old, new, m) == \A t \in DOMAIN new \ DOMAIN old : new[t].material = m

\* remember_material_type: choices are added, and the name is one of them unless it was
\* deleted and nobody asked for it.
LEMMA NameRemembered ==
  ASSUME catalog \in Seq(Choice), NEW name \in Material, NEW explicit \in BOOLEAN,
         NEW c, c = Remembered(name, explicit)
  PROVE  /\ c \in Seq(Choice) /\ Lengthened(catalog, c)
         /\ explicit \/ Live(name) \/ ~WasDeleted(name) => IsNamed(c, name)
<1> USE DEF Lengthened, IsNamed
<1>1. CASE c = catalog
  BY <1>1 DEF Remembered, Live
<1>2. CASE c = Append(catalog, [name |-> name, live |-> TRUE])
  <2>1. [name |-> name, live |-> TRUE] \in Choice
    BY DEF Choice
  <2>2. PICK r \in Choice : r = [name |-> name, live |-> TRUE]
    BY <2>1
  <2>3. /\ Append(catalog, r) \in Seq(Choice) /\ DOMAIN catalog \subseteq DOMAIN Append(catalog, r)
        /\ \A id \in DOMAIN catalog : Append(catalog, r)[id] = catalog[id]
        /\ Len(catalog) + 1 \in DOMAIN Append(catalog, r) /\ Append(catalog, r)[Len(catalog) + 1] = r
    OBVIOUS
  <2>4. r.live /\ r.name = name
    BY <2>2
  <2> QED
    BY <1>2, <2>2, <2>3, <2>4
<1> QED
  BY <1>1, <1>2 DEF Remembered

LEMMA TemplateAdded ==
  ASSUME templates \in Seq(Template), NEW m \in Material, NEW n \in Nozzle,
         NEW T, T = Append(templates, NewTemplate(m, n))
  PROVE  T \in Seq(Template) /\ Lengthened(templates, T) /\ AddedAreOf(templates, T, m)
<1> USE DEF Lengthened, AddedAreOf
<1>1. <<Seeded>> \in Seq(Value) \ {<<>>}
  BY SettingsAssumption
<1>2. NewTemplate(m, n) \in Template /\ NewTemplate(m, n).material = m
  BY <1>1 DEF NewTemplate, Template
<1>3. PICK r \in Template : r = NewTemplate(m, n)
  BY <1>2
<1>4. /\ Append(templates, r) \in Seq(Template)
      /\ DOMAIN templates = 1 .. Len(templates) /\ DOMAIN Append(templates, r) = 1 .. Len(templates) + 1
      /\ \A t \in DOMAIN templates : Append(templates, r)[t] = templates[t]
      /\ Len(templates) \in Nat /\ Append(templates, r)[Len(templates) + 1] = r
  OBVIOUS
<1> QED
  BY <1>2, <1>3, <1>4

\* A family whose deletion is not remembered is named, and by a choice if it was renamed
\* (seeded_material_type_name).
LEMMA SeedsLivingName ==
  ASSUME SettingsShapes, NEW name \in Material, SeededName(name) # NoName
  PROVE  /\ SeededName(name) \in Material
         /\ Live(SeededName(name)) \/ ~WasDeleted(SeededName(name))
         /\ \/ Live(SeededName(name))
            \/ SeededName(name) = name /\ \A k \in DOMAIN renames : renames[k].before # name
<1>1. CASE RenamesOf(name) # {}
  <2>1. RenamesOf(name) \subseteq Nat
    BY DEF SettingsShapes, RenamesOf
  <2>2. \E k \in RenamesOf(name) : \A l \in RenamesOf(name) : k <= l
    BY <1>1, <2>1, FirstOf
  <2>3. FirstRename(name) \in RenamesOf(name)
    BY <2>2 DEF FirstRename
  <2>4. PICK k \in RenamesOf(name) : k = FirstRename(name)
    BY <2>3
  <2>5. renames[k].id \in DOMAIN catalog
    BY DEF SettingsShapes, RenamesOf
  <2>6. SeededName(name) = IF catalog[renames[k].id].live THEN catalog[renames[k].id].name ELSE NoName
    BY <1>1, <2>4 DEF SeededName
  <2>7. catalog[renames[k].id].live /\ SeededName(name) = catalog[renames[k].id].name
    BY <2>6
  <2>8. catalog[renames[k].id] \in Choice
    BY <2>5 DEF SettingsShapes
  <2> QED
    BY <2>5, <2>7, <2>8 DEF Live, Choice
<1>2. CASE RenamesOf(name) = {}
  <2>1. SeededName(name) = name /\ (Live(name) \/ ~WasDeleted(name))
    BY <1>2 DEF SeededName
  <2> QED
    BY <1>2, <2>1 DEF RenamesOf
<1> QED
  BY <1>1, <1>2

\* A material type that the seeding may name a template of.
Sown(m) ==
    \E name \in {Family} \cup CopiedFamily :
        m = SeededName(name) /\ SeededName(name) # NoName

LEMMA SownNames ==
  ASSUME SettingsShapes, NEW m, Sown(m)
  PROVE  /\ m \in Material
         /\ Live(m) \/ ~WasDeleted(m)
         /\ Live(m) \/ \A k \in DOMAIN renames : renames[k].before # m
<1>1. PICK name \in {Family} \cup CopiedFamily : m = SeededName(name) /\ SeededName(name) # NoName
  BY DEF Sown
<1>2. name \in Material
  BY SettingsAssumption
<1> QED
  BY <1>1, <1>2, SeedsLivingName

\* The copies of templates are templates of families that derive from theirs.
LEMMA CopiesAre ==
  ASSUME NEW rows \in Seq(Template), SettingsShapes
  PROVE  /\ Copies(rows) \in SUBSET Template /\ IsFiniteSet(Copies(rows))
         /\ \A c \in Copies(rows) : Sown(c.material)
<1> DEFINE P == {p \in Bases(rows) \X CopiedFamily : Missing(rows, p[2], rows[p[1]].nozzle)}
           f == [p \in P |-> Copied(rows[p[1]], p[2])]
<1>1. ASSUME NEW p \in P
      PROVE  Copied(rows[p[1]], p[2]) \in Template /\ Sown(Copied(rows[p[1]], p[2]).material)
  <2>1. PICK b \in DOMAIN rows, name \in CopiedFamily : p = <<b, name>> /\ SeededName(name) # NoName
    BY DEF Bases, Missing
  <2>2. PICK base \in Template : base = rows[b]
    OBVIOUS
  <2>3. Sown(SeededName(name)) /\ SeededName(name) \in Material
    BY <2>1, SownNames DEF Sown
  <2>4. PICK r \in Seq(Value) \ {<<>>} : r = base.revisions
    BY DEF Template
  <2>5. <<Last(r)>> \in Seq(Value) \ {<<>>}
    <3>1. Len(r) \in 1 .. Len(r)
      BY <2>4, EmptySeq
    <3>2. r[Len(r)] \in Value
      BY <3>1
    <3> QED
      BY <3>2 DEF Last
  <2>6. PICK c : c = Copied(base, SeededName(name))
    OBVIOUS
  <2>7. Copied(base, name) = [base EXCEPT !.material = SeededName(name), !.revisions = <<Last(r)>>]
    BY <2>4 DEF Copied
  <2>8. Copied(base, name) \in Template /\ Copied(base, name).material = SeededName(name)
    BY <2>3, <2>5, <2>7 DEF Template
  <2> QED
    BY <2>1, <2>2, <2>3, <2>8
<1>2. Copies(rows) = {Copied(rows[p[1]], p[2]) : p \in P}
  BY DEF Copies
<1>3. IsFiniteSet(P)
  <2>1. DOMAIN rows = 1 .. Len(rows) /\ Len(rows) \in Nat
    OBVIOUS
  <2>2. IsFiniteSet(DOMAIN rows)
    BY <2>1, FS_Interval
  <2>3. IsFiniteSet(Bases(rows))
    BY <2>2, FS_Subset DEF Bases
  <2>4. IsFiniteSet(Bases(rows) \X CopiedFamily)
    BY <2>3, FS_Product, SettingsAssumption
  <2> QED
    BY <2>4, FS_Subset
<1>4. IsFiniteSet(Copies(rows))
  <2> HIDE DEF P
  <2>1. DOMAIN f = P /\ \A p \in P : f[p] = Copied(rows[p[1]], p[2])
    OBVIOUS
  <2>2. Copies(rows) = {f[p] : p \in DOMAIN f}
    BY <1>2, <2>1
  <2> HIDE DEF f
  <2> QED
    BY <1>3, <2>1, <2>2, FiniteImage
<1> HIDE DEF P
<1> QED
  BY <1>1, <1>2, <1>4

\* What the seeding leaves: more templates, whose types are among the choices, and more
\* choices, of names that were none before.
LEMMA SeedingAdds ==
  ASSUME SettingsInv, Seed
  PROVE  /\ templates' \in Seq(Template) /\ Lengthened(templates, templates')
         /\ \A t \in DOMAIN templates' \ DOMAIN templates : IsNamed(catalog', templates'[t].material)
         /\ catalog' \in Seq(Choice) /\ Lengthened(catalog, catalog')
         /\ \A id \in DOMAIN catalog' \ DOMAIN catalog :
               LET m == catalog'[id].name IN Sown(m) /\ ~Live(m) /\ ~WasDeleted(m)
<1>1. templates \in Seq(Template) /\ catalog \in Seq(Choice) /\ SettingsShapes
  BY DEF SettingsInv, SettingsShapes
<1>2. PICK W : W = WithFamily
  OBVIOUS
<1>3. /\ W \in Seq(Template) /\ Lengthened(templates, W)
      /\ \A t \in DOMAIN W \ DOMAIN templates : Sown(W[t].material)
  <2>1. CASE Missing(templates, Family, SeedNozzle)
    <3>1. W = Append(templates, NewTemplate(SeededName(Family), SeedNozzle))
      BY <1>2, <2>1 DEF WithFamily
    <3>2. Sown(SeededName(Family)) /\ SeedNozzle \in Nozzle
      BY <2>1, SettingsAssumption DEF Missing, Sown
    <3>3. PICK m \in Material : m = SeededName(Family)
      BY <1>1, <3>2, SownNames
    <3>4. W \in Seq(Template) /\ Lengthened(templates, W) /\ AddedAreOf(templates, W, m)
      BY <1>1, <3>1, <3>2, <3>3, TemplateAdded
    <3> QED
      BY <3>2, <3>3, <3>4 DEF AddedAreOf
  <2>2. CASE ~Missing(templates, Family, SeedNozzle)
    BY <1>1, <1>2, <2>2 DEF WithFamily, Lengthened
  <2> QED
    BY <2>1, <2>2
<1>4. PICK C \in SUBSET Template : C = Copies(W) /\ IsFiniteSet(C) /\ \A c \in C : Sown(c.material)
  BY <1>1, <1>3, CopiesAre
<1>5. PICK T : T = Appended(W, C)
  OBVIOUS
<1>6. /\ T \in Seq(Template) /\ Lengthened(W, T)
      /\ \A t \in DOMAIN T \ DOMAIN W : Sown(T[t].material)
  BY <1>3, <1>4, <1>5, AppendedRows DEF Lengthened
<1>7. /\ Lengthened(templates, T)
      /\ \A t \in DOMAIN T \ DOMAIN templates : Sown(T[t].material)
  BY <1>3, <1>6 DEF Lengthened
<1> DEFINE N == {T[t].material : t \in DOMAIN T \ DOMAIN templates}
           M == {m \in N : ~Live(m) /\ ~WasDeleted(m)}
           Added == {[name |-> m, live |-> TRUE] : m \in M}
<1>8. templates' = T /\ catalog' = Appended(catalog, Added)
  BY <1>2, <1>4, <1>5 DEF Seed, RememberedAll
<1>9. \A m \in N : Sown(m) /\ m \in Material
  BY <1>1, <1>7, SownNames
<1>10. IsFiniteSet(M)
  <2> DEFINE f == [t \in DOMAIN T \ DOMAIN templates |-> T[t].material]
  <2>1. DOMAIN T = 1 .. Len(T) /\ Len(T) \in Nat
    BY <1>6
  <2>2. IsFiniteSet(DOMAIN T)
    BY <2>1, FS_Interval
  <2>3. IsFiniteSet(DOMAIN f)
    BY <2>2, FS_Subset
  <2>4. N = {f[t] : t \in DOMAIN f}
    OBVIOUS
  <2> HIDE DEF f
  <2>5. IsFiniteSet(N)
    BY <2>3, <2>4, FiniteImage
  <2> HIDE DEF N
  <2> QED
    BY <2>5, FS_Subset
<1> HIDE DEF N
<1>11. Added \in SUBSET Choice /\ IsFiniteSet(Added)
  <2> DEFINE f == [m \in M |-> [name |-> m, live |-> TRUE]]
  <2>1. \A m \in M : [name |-> m, live |-> TRUE] \in Choice
    BY <1>9 DEF Choice
  <2> HIDE DEF M
  <2>2. DOMAIN f = M /\ Added = {f[m] : m \in DOMAIN f}
    OBVIOUS
  <2> HIDE DEF f, Added
  <2>3. IsFiniteSet(Added)
    BY <1>10, <2>2, FiniteImage
  <2> QED
    BY <2>1, <2>3 DEF Added
<1>12. PICK chosen \in SUBSET Choice : chosen = Added /\ IsFiniteSet(chosen)
  BY <1>11
<1>13. /\ Appended(catalog, chosen) \in Seq(Choice) /\ Lengthened(catalog, Appended(catalog, chosen))
       /\ \A id \in DOMAIN Appended(catalog, chosen) \ DOMAIN catalog : Appended(catalog, chosen)[id] \in chosen
       /\ \A c \in chosen : \E id \in DOMAIN Appended(catalog, chosen) : Appended(catalog, chosen)[id] = c
  <2>1. /\ Appended(catalog, chosen) \in Seq(Choice)
        /\ DOMAIN catalog \subseteq DOMAIN Appended(catalog, chosen)
        /\ \A id \in DOMAIN catalog : Appended(catalog, chosen)[id] = catalog[id]
        /\ \A id \in DOMAIN Appended(catalog, chosen) \ DOMAIN catalog : Appended(catalog, chosen)[id] \in chosen
        /\ \A x \in chosen : \E id \in DOMAIN Appended(catalog, chosen) \ DOMAIN catalog :
                             Appended(catalog, chosen)[id] = x
    <3> HIDE DEF Added
    <3> QED
      BY <1>1, <1>12, AppendedRows
  <2> QED
    BY <2>1 DEF Lengthened
<1>14. catalog' = Appended(catalog, chosen)
  BY <1>8, <1>12
<1>15. ASSUME NEW id \in DOMAIN catalog' \ DOMAIN catalog
       PROVE  /\ Sown(catalog'[id].name)
              /\ ~Live(catalog'[id].name) /\ ~WasDeleted(catalog'[id].name)
  <2>1. catalog'[id] \in chosen
    BY <1>13, <1>14
  <2>2. PICK m \in M : catalog'[id] = [name |-> m, live |-> TRUE]
    BY <1>12, <2>1
  <2>3. catalog'[id].name = m
    BY <2>2
  <2> QED
    BY <1>9, <2>3
<1>16. ASSUME NEW m \in N PROVE IsNamed(catalog', m)
  <2>1. CASE Live(m)
    BY <1>13, <1>14, <2>1 DEF Live, IsNamed, Lengthened
  <2>2. CASE ~Live(m)
    <3>1. m \in M
      BY <1>1, <1>9, <2>2, SownNames
    <3>2. PICK c \in chosen : c = [name |-> m, live |-> TRUE]
      BY <1>12, <3>1
    <3>3. PICK id \in DOMAIN catalog' : catalog'[id] = c
      BY <1>13, <1>14, <3>2
    <3> QED
      BY <3>2, <3>3 DEF IsNamed
  <2> QED
    BY <2>1, <2>2
<1>17. \A t \in DOMAIN T \ DOMAIN templates : T[t].material \in N
  BY DEF N
<1> HIDE DEF M, Added
<1> QED
  BY <1>6, <1>7, <1>8, <1>13, <1>14, <1>15, <1>16, <1>17

\* What an operation on templates and types leaves to show.
LEMMA CatalogSteps ==
  ASSUME SettingsInv, UNCHANGED <<snapshots, saves, ownSave, rebase, calibration>>,
         catalog' \in Seq(Choice), renames' \in Seq(Rename),
         \A k \in DOMAIN renames' : renames'[k].id \in DOMAIN catalog',
         templates' \in Seq(Template), DOMAIN templates \subseteq DOMAIN templates',
         products' \in [Product -> [material : Material, source : Nat \X Nat]],
         \A q \in Product : products'[q].source = products[q].source,
         \A s \in saves : s.kind # "direct" => templates'[s.t].material = templates[s.t].material,
         settingsEdits' \in Nat, ChoicesCoverTemplates'
  PROVE  SettingsInv'
<1>1. SettingsShapes'
  <2>1. \A b : InUse(b) => InUse(b)'
    BY DEF InUse
  <2>2. (\A i \in DOMAIN snapshots : InUse(snapshots[i].base))'
    BY <2>1 DEF SettingsInv, SettingsShapes
  <2>3. (\A q \in Product : InUse(products[q].source))'
    BY <2>1 DEF SettingsInv, SettingsShapes, InUse
  <2>4. (\A s \in saves : SaveShape(s))'
    BY DEF SettingsInv, SettingsShapes, SaveShape
  <2>5. (rebase # NoWork => RebaseShape)'
    BY <2>1 DEF SettingsInv, SettingsShapes, RebaseShape
  <2>6. (calibration # NoWork => /\ calibration.product \in Product /\ calibration.nozzle \in Nozzle
                                 /\ InUse(calibration.base))'
    BY <2>1 DEF SettingsInv, SettingsShapes
  <2>7. snapshots' \in Seq(Snapshot)
    BY DEF SettingsInv, SettingsShapes
  <2>8. (ownSave # NoWork => ownSave.source \in DOMAIN snapshots /\ ownSave.value \in Value)'
    BY DEF SettingsInv, SettingsShapes
  <2> QED
    BY <2>2, <2>3, <2>4, <2>5, <2>6, <2>7, <2>8 DEF SettingsShapes
<1>2. SavesHoldTemplates'
  BY DEF SettingsInv, SavesHoldTemplates
<1>3. SavesStand'
  BY DEF SettingsInv, SavesStand
<1> QED
  BY <1>1, <1>2, <1>3 DEF SettingsInv

LEMMA TemplateChanged ==
  ASSUME templates \in Seq(Template), NEW t \in DOMAIN templates, NEW r \in Template,
         NEW T, T = [templates EXCEPT ![t] = r]
  PROVE  /\ T \in Seq(Template) /\ DOMAIN T = DOMAIN templates /\ T[t] = r
         /\ \A u \in DOMAIN templates : u # t => T[u] = templates[u]
<1> QED
  OBVIOUS

LEMMA CatalogInvSteps ==
  ASSUME SettingsInv
  PROVE  /\ \A m \in Material, n \in Nozzle : CreateTemplate(m, n) => SettingsInv'
         /\ \A t \in DOMAIN templates, m \in Material, active \in BOOLEAN :
               UpdateTemplate(t, m, active) => SettingsInv'
         /\ \A t \in DOMAIN templates : DeleteTemplate(t) => SettingsInv'
         /\ \A m \in Material : CreateType(m) => SettingsInv'
         /\ \A id \in DOMAIN catalog : DeleteType(id) => SettingsInv'
         /\ \A id \in DOMAIN catalog, m \in Material : RenameType(id, m) => SettingsInv'
         /\ Seed => SettingsInv'
<1>1. /\ catalog \in Seq(Choice) /\ renames \in Seq(Rename) /\ templates \in Seq(Template)
      /\ \A k \in DOMAIN renames : renames[k].id \in DOMAIN catalog
      /\ products \in [Product -> [material : Material, source : Nat \X Nat]]
      /\ \A t \in DOMAIN templates : templates[t].active =>
            \E id \in DOMAIN catalog : catalog[id].live /\ catalog[id].name = templates[t].material
      /\ \A s \in saves : s.t \in DOMAIN templates
      /\ settingsEdits \in Nat
  BY DEF SettingsInv, SettingsShapes, SaveShape, ChoicesCoverTemplates, Live
<1>2. Edit => settingsEdits' \in Nat
  BY <1>1 DEF Edit
<1>3. ASSUME NEW m \in Material, NEW n \in Nozzle, CreateTemplate(m, n) PROVE SettingsInv'
  <2>1. /\ templates' \in Seq(Template) /\ DOMAIN templates \subseteq DOMAIN templates'
        /\ \A t \in DOMAIN templates : templates'[t] = templates[t]
        /\ \A t \in DOMAIN templates' \ DOMAIN templates : templates'[t].material = m
    <3>1. templates' = Append(templates, NewTemplate(m, n))
      BY <1>3 DEF CreateTemplate
    <3>2. PICK T : T = Append(templates, NewTemplate(m, n))
      OBVIOUS
    <3>3. T \in Seq(Template) /\ Lengthened(templates, T) /\ AddedAreOf(templates, T, m)
      BY <1>1, <1>3, <3>2, TemplateAdded
    <3> QED
      BY <3>1, <3>2, <3>3 DEF Lengthened, AddedAreOf
  <2>2. /\ catalog' \in Seq(Choice) /\ DOMAIN catalog \subseteq DOMAIN catalog'
        /\ \A id \in DOMAIN catalog : catalog'[id] = catalog[id]
        /\ \E id \in DOMAIN catalog' : catalog'[id].live /\ catalog'[id].name = m
    <3>1. PICK c : c = Remembered(m, TRUE)
      OBVIOUS
    <3>2. catalog' = c
      BY <1>3, <3>1 DEF CreateTemplate
    <3>3. TRUE \in BOOLEAN
      OBVIOUS
    <3>4. /\ c \in Seq(Choice) /\ Lengthened(catalog, c)
          /\ TRUE \/ Live(m) \/ ~WasDeleted(m) => IsNamed(c, m)
      BY <1>1, <1>3, <3>1, <3>3, NameRemembered
    <3> QED
      BY <3>2, <3>4 DEF Lengthened, IsNamed
  <2>3. ChoicesCoverTemplates'
    <3> SUFFICES ASSUME NEW u \in DOMAIN templates', templates'[u].active
                 PROVE  \E k \in DOMAIN catalog' : catalog'[k].live /\ catalog'[k].name = templates'[u].material
      BY DEF ChoicesCoverTemplates, Live
    <3>1. CASE u \in DOMAIN templates
      <4>1. templates[u].active /\ templates'[u] = templates[u]
        BY <2>1, <3>1
      <4>2. \E k \in DOMAIN catalog : catalog[k].live /\ catalog[k].name = templates[u].material
        BY <1>1, <3>1, <4>1 DEF ChoicesCoverTemplates, Live
      <4> QED
        BY <2>1, <2>2, <3>1, <4>1, <4>2
    <3>2. CASE u \notin DOMAIN templates
      BY <2>1, <2>2, <3>2
    <3> QED
      BY <3>1, <3>2
  <2> QED
    BY <1>1, <1>2, <1>3, <2>1, <2>2, <2>3, CatalogSteps DEF CreateTemplate
<1>4. ASSUME NEW t \in DOMAIN templates, NEW m \in Material, NEW active \in BOOLEAN,
             UpdateTemplate(t, m, active)
      PROVE  SettingsInv'
  <2>1. PICK r : r = [templates[t] EXCEPT !.material = m, !.active = active]
    OBVIOUS
  <2>2. templates[t] \in Template
    BY <1>1
  <2>3. r \in Template /\ r.material = m /\ r.active = active
    BY <2>1, <2>2 DEF Template
  <2>4. templates' = [templates EXCEPT ![t] = r]
    BY <1>4, <2>1 DEF UpdateTemplate
  <2>5. /\ templates' \in Seq(Template) /\ DOMAIN templates' = DOMAIN templates /\ templates'[t] = r
        /\ \A u \in DOMAIN templates : u # t => templates'[u] = templates[u]
    BY <1>1, <2>3, <2>4, TemplateChanged
  <2>6. /\ catalog' \in Seq(Choice) /\ DOMAIN catalog \subseteq DOMAIN catalog'
        /\ \A id \in DOMAIN catalog : catalog'[id] = catalog[id]
        /\ active => \E id \in DOMAIN catalog' : catalog'[id].live /\ catalog'[id].name = m
    <3>1. PICK c : c = Remembered(m, active)
      OBVIOUS
    <3>2. catalog' = c
      BY <1>4, <3>1 DEF UpdateTemplate
    <3>3. active \in BOOLEAN
      OBVIOUS
    <3>4. /\ c \in Seq(Choice) /\ Lengthened(catalog, c)
          /\ active \/ Live(m) \/ ~WasDeleted(m) => IsNamed(c, m)
      BY <1>1, <1>4, <3>1, <3>3, NameRemembered
    <3> QED
      BY <3>2, <3>4 DEF Lengthened, IsNamed
  <2>7. ChoicesCoverTemplates'
    <3> SUFFICES ASSUME NEW u \in DOMAIN templates, templates'[u].active
                 PROVE  \E k \in DOMAIN catalog' : catalog'[k].live /\ catalog'[k].name = templates'[u].material
      BY <2>5 DEF ChoicesCoverTemplates, Live
    <3>1. CASE u = t
      BY <2>3, <2>5, <2>6, <3>1
    <3>2. CASE u # t
      <4>1. \E k \in DOMAIN catalog : catalog[k].live /\ catalog[k].name = templates[u].material
        BY <1>1, <2>5, <3>2 DEF ChoicesCoverTemplates, Live
      <4> QED
        BY <2>5, <2>6, <3>2, <4>1
    <3> QED
      BY <3>1, <3>2
  <2>8. \A s \in saves : s.t # t
    BY <1>4 DEF UpdateTemplate, RowFree
  <2> QED
    BY <1>1, <1>2, <1>4, <2>5, <2>6, <2>7, <2>8, CatalogSteps DEF UpdateTemplate
<1>5. ASSUME NEW t \in DOMAIN templates, DeleteTemplate(t) PROVE SettingsInv'
  <2>1. PICK r : r = [templates[t] EXCEPT !.active = FALSE]
    OBVIOUS
  <2>2. templates[t] \in Template
    BY <1>1
  <2>3. r \in Template /\ r.material = templates[t].material /\ ~r.active
    BY <2>1, <2>2 DEF Template
  <2>4. templates' = [templates EXCEPT ![t] = r]
    BY <1>5, <2>1 DEF DeleteTemplate
  <2>5. /\ templates' \in Seq(Template) /\ DOMAIN templates' = DOMAIN templates /\ templates'[t] = r
        /\ \A u \in DOMAIN templates : u # t => templates'[u] = templates[u]
    BY <1>1, <2>3, <2>4, TemplateChanged
  <2>6. ChoicesCoverTemplates'
    BY <1>1, <1>5, <2>3, <2>5 DEF DeleteTemplate, ChoicesCoverTemplates, Live
  <2> QED
    BY <1>1, <1>2, <1>5, <2>3, <2>5, <2>6, CatalogSteps DEF DeleteTemplate
<1>6. ASSUME NEW m \in Material, CreateType(m) PROVE SettingsInv'
  <2>1. /\ catalog' \in Seq(Choice) /\ DOMAIN catalog \subseteq DOMAIN catalog'
        /\ \A id \in DOMAIN catalog : catalog'[id] = catalog[id]
    <3>1. PICK c : c = Remembered(m, TRUE)
      OBVIOUS
    <3>2. catalog' = c
      BY <1>6, <3>1 DEF CreateType
    <3>3. TRUE \in BOOLEAN
      OBVIOUS
    <3>4. /\ c \in Seq(Choice) /\ Lengthened(catalog, c)
          /\ TRUE \/ Live(m) \/ ~WasDeleted(m) => IsNamed(c, m)
      BY <1>1, <1>6, <3>1, <3>3, NameRemembered
    <3> QED
      BY <3>2, <3>4 DEF Lengthened, IsNamed
  <2>2. ChoicesCoverTemplates'
    <3>1. templates' = templates
      BY <1>6 DEF CreateType
    <3> SUFFICES ASSUME NEW u \in DOMAIN templates', templates'[u].active
                 PROVE  \E k \in DOMAIN catalog' : catalog'[k].live /\ catalog'[k].name = templates'[u].material
      BY DEF ChoicesCoverTemplates, Live
    <3>2. \E k \in DOMAIN catalog : catalog[k].live /\ catalog[k].name = templates[u].material
      BY <1>1, <3>1 DEF ChoicesCoverTemplates, Live
    <3> QED
      BY <2>1, <3>1, <3>2
  <2> QED
    BY <1>1, <1>2, <1>6, <2>1, <2>2, CatalogSteps DEF CreateType
<1>7. ASSUME NEW id \in DOMAIN catalog, DeleteType(id) PROVE SettingsInv'
  <2>1. PICK c : c = [catalog[id] EXCEPT !.live = FALSE]
    OBVIOUS
  <2>2. catalog[id] \in Choice
    BY <1>1
  <2>3. c \in Choice
    BY <2>1, <2>2 DEF Choice
  <2>4. catalog' = [catalog EXCEPT ![id] = c]
    BY <1>7, <2>1 DEF DeleteType
  <2>5. /\ catalog' \in Seq(Choice) /\ DOMAIN catalog' = DOMAIN catalog
        /\ \A k \in DOMAIN catalog : k # id => catalog'[k] = catalog[k]
    BY <1>1, <2>3, <2>4
  <2>6. \A t \in DOMAIN templates : templates[t].active => templates[t].material # catalog[id].name
    BY <1>7 DEF DeleteType, Unused
  <2>7. ChoicesCoverTemplates'
    BY <1>1, <1>7, <2>5, <2>6 DEF DeleteType, ChoicesCoverTemplates, Live
  <2> QED
    BY <1>1, <1>2, <1>7, <2>5, <2>7, CatalogSteps DEF DeleteType
<1>8. ASSUME NEW id \in DOMAIN catalog, NEW m \in Material, RenameType(id, m) PROVE SettingsInv'
  <2>1. PICK old : old = catalog[id].name
    OBVIOUS
  <2>2. catalog[id] \in Choice /\ old \in Material /\ id \in Nat
    <3>1. catalog[id] \in Choice /\ id \in Nat
      BY <1>1
    <3> QED
      BY <2>1, <3>1 DEF Choice
  <2>3. /\ saves = {} /\ Edit /\ catalog[id].live
        /\ catalog' = [catalog EXCEPT ![id].name = m]
        /\ renames' = Append(renames, [id |-> id, before |-> old])
        /\ templates' = [t \in DOMAIN templates |->
                            IF templates[t].material = old THEN [templates[t] EXCEPT !.material = m]
                            ELSE templates[t]]
        /\ products' = [q \in Product |-> IF products[q].material = old
                                          THEN [products[q] EXCEPT !.material = m] ELSE products[q]]
        /\ UNCHANGED <<snapshots, saves, ownSave, rebase, calibration>>
    BY <1>8, <2>1 DEF RenameType
  <2>4. PICK c : c = [catalog[id] EXCEPT !.name = m]
    OBVIOUS
  <2>5. c \in Choice /\ c.name = m /\ c.live
    BY <2>2, <2>3, <2>4 DEF Choice
  <2>6. catalog' = [catalog EXCEPT ![id] = c]
    BY <2>3, <2>4
  <2>7. /\ catalog' \in Seq(Choice) /\ DOMAIN catalog' = DOMAIN catalog /\ catalog'[id] = c
        /\ \A k \in DOMAIN catalog : k # id => catalog'[k] = catalog[k]
    BY <1>1, <2>5, <2>6
  <2>8. /\ renames' \in Seq(Rename) /\ \A k \in DOMAIN renames' : renames'[k].id \in DOMAIN catalog'
    <3>1. PICK e : e = [id |-> id, before |-> old]
      OBVIOUS
    <3>2. e \in Rename /\ e.id = id
      BY <2>2, <3>1 DEF Rename
    <3>3. /\ Append(renames, e) \in Seq(Rename)
          /\ DOMAIN Append(renames, e) = 1 .. Len(renames) + 1 /\ DOMAIN renames = 1 .. Len(renames)
          /\ \A k \in DOMAIN renames : Append(renames, e)[k] = renames[k]
          /\ Len(renames) \in Nat /\ Append(renames, e)[Len(renames) + 1] = e
      BY <1>1, <3>2
    <3> QED
      BY <1>1, <2>3, <2>7, <3>1, <3>2, <3>3
  <2>9. /\ templates' \in Seq(Template) /\ DOMAIN templates' = DOMAIN templates
        /\ \A t \in DOMAIN templates : /\ templates'[t].active = templates[t].active
                                       /\ templates'[t].material = IF templates[t].material = old
                                                                   THEN m ELSE templates[t].material
    <3>1. ASSUME NEW r \in Template
          PROVE  /\ [r EXCEPT !.material = m] \in Template /\ [r EXCEPT !.material = m].material = m
                 /\ [r EXCEPT !.material = m].active = r.active
      BY DEF Template
    <3>2. \A t \in DOMAIN templates : templates[t] \in Template
      BY <1>1
    <3>3. /\ DOMAIN templates' = DOMAIN templates
          /\ \A t \in DOMAIN templates : templates'[t] = IF templates[t].material = old
                                             THEN [templates[t] EXCEPT !.material = m] ELSE templates[t]
      BY <2>3
    <3>4. templates' \in Seq(Template)
      <4>1. DOMAIN templates = 1 .. Len(templates) /\ Len(templates) \in Nat
        BY <1>1
      <4>2. \A t \in 1 .. Len(templates) : templates'[t] \in Template
        BY <3>1, <3>2, <3>3, <4>1
      <4>3. templates' \in [1 .. Len(templates) -> Template]
        BY <2>3, <4>1, <4>2
      <4> QED
        BY <4>1, <4>3
    <3>5. ASSUME NEW t \in DOMAIN templates
          PROVE  /\ templates'[t].active = templates[t].active
                 /\ templates'[t].material = IF templates[t].material = old
                                             THEN m ELSE templates[t].material
      <4>1. PICK r \in Template : r = templates[t]
        BY <3>2
      <4>2. templates'[t] = IF r.material = old THEN [r EXCEPT !.material = m] ELSE r
        BY <3>3, <4>1
      <4>3. [r EXCEPT !.material = m].material = m /\ [r EXCEPT !.material = m].active = r.active
        BY <3>1
      <4> QED
        BY <4>1, <4>2, <4>3
    <3> QED
      BY <3>3, <3>4, <3>5
  <2>10. /\ products' \in [Product -> [material : Material, source : Nat \X Nat]]
         /\ \A q \in Product : products'[q].source = products[q].source
    <3>1. \A p \in [material : Material, source : Nat \X Nat] :
             /\ [p EXCEPT !.material = m] \in [material : Material, source : Nat \X Nat]
             /\ [p EXCEPT !.material = m].source = p.source
      OBVIOUS
    <3> QED
      BY <1>1, <2>3, <3>1
  <2>11. ChoicesCoverTemplates'
    <3> SUFFICES ASSUME NEW t \in DOMAIN templates, templates[t].active
                 PROVE  \E k \in DOMAIN catalog : catalog'[k].live /\ catalog'[k].name = templates'[t].material
      BY <2>7, <2>9 DEF ChoicesCoverTemplates, Live
    <3>1. CASE templates[t].material = old
      BY <2>5, <2>7, <2>9, <3>1
    <3>2. CASE templates[t].material # old
      BY <1>1, <2>1, <2>7, <2>9, <3>2
    <3> QED
      BY <3>1, <3>2
  <2> QED
    BY <1>2, <2>3, <2>7, <2>8, <2>9, <2>10, <2>11, CatalogSteps
<1>9. ASSUME Seed PROVE SettingsInv'
  <2>1. UNCHANGED <<renames, snapshots, products, saves, ownSave, rebase, calibration, settingsEdits>>
    BY <1>9 DEF Seed
  <2>2. /\ templates' \in Seq(Template) /\ DOMAIN templates \subseteq DOMAIN templates'
        /\ \A t \in DOMAIN templates : templates'[t] = templates[t]
        /\ \A t \in DOMAIN templates' \ DOMAIN templates : IsNamed(catalog', templates'[t].material)
        /\ catalog' \in Seq(Choice) /\ DOMAIN catalog \subseteq DOMAIN catalog'
        /\ \A id \in DOMAIN catalog : catalog'[id] = catalog[id]
    BY <1>9, SeedingAdds DEF Lengthened
  <2>3. ChoicesCoverTemplates'
    <3> SUFFICES ASSUME NEW t \in DOMAIN templates', templates'[t].active
                 PROVE  IsNamed(catalog', templates'[t].material)
      BY DEF ChoicesCoverTemplates, Live, IsNamed
    <3>1. CASE t \in DOMAIN templates
      <4>1. templates[t].active /\ templates'[t] = templates[t]
        BY <2>2, <3>1
      <4>2. PICK id \in DOMAIN catalog : catalog[id].live /\ catalog[id].name = templates[t].material
        BY <1>1, <3>1, <4>1
      <4>3. id \in DOMAIN catalog' /\ catalog'[id] = catalog[id]
        BY <2>2
      <4> QED
        BY <4>1, <4>2, <4>3 DEF IsNamed
    <3>2. CASE t \notin DOMAIN templates
      BY <2>2, <3>2
    <3> QED
      BY <3>1, <3>2
  <2> QED
    BY <1>1, <2>1, <2>2, <2>3, CatalogSteps
<1> QED
  BY <1>3, <1>4, <1>5, <1>6, <1>7, <1>8, <1>9

\* What a step that adds to the profiles' rows leaves to show.
LEMMA RowsAdded ==
  ASSUME SettingsInv, NEW Allowed, Adds(snapshots, snapshots', Allowed),
         snapshots' \in Seq(Snapshot), \A r \in Allowed : InUse(r.base),
         \A r \in Allowed : r.by = "rebase" =>
            \A s \in saves : ~s.amid => \A i \in s.sources : r.product # snapshots[i].product,
         saves' \subseteq saves, rebase' \in {rebase, NoWork}, ownSave' \in {ownSave, NoWork},
         UNCHANGED <<calibration, renames>>,
         catalog' \in Seq(Choice), DOMAIN catalog \subseteq DOMAIN catalog',
         templates' \in Seq(Template), DOMAIN templates' = DOMAIN templates,
         products' \in [Product -> [material : Material, source : Nat \X Nat]],
         \A q \in Product : InUse(products'[q].source),
         \A s \in saves' : s.kind # "direct" => templates'[s.t].material = templates[s.t].material,
         settingsEdits' \in Nat, ChoicesCoverTemplates'
  PROVE  SettingsInv'
<1>1. \A b : InUse(b)' <=> InUse(b)
  BY DEF InUse
<1>2. DOMAIN snapshots \subseteq DOMAIN snapshots'
  BY DEF Adds
<1>3. (\A i \in DOMAIN snapshots : InUse(snapshots[i].base))'
  <2> SUFFICES ASSUME NEW i \in DOMAIN snapshots' PROVE InUse(snapshots'[i].base)
    BY <1>1
  <2>1. CASE i \in DOMAIN snapshots
    BY <2>1 DEF Adds, SettingsInv, SettingsShapes
  <2>2. CASE i \notin DOMAIN snapshots
    BY <2>2 DEF Adds
  <2> QED
    BY <2>1, <2>2
<1>4. (\A q \in Product : InUse(products[q].source))'
  BY <1>1 DEF InUse
<1>5. (\A s \in saves : SaveShape(s))'
  BY <1>2 DEF SettingsInv, SettingsShapes, SaveShape
<1>6. (rebase # NoWork => RebaseShape)'
  <2> SUFFICES ASSUME rebase' # NoWork PROVE RebaseShape'
    OBVIOUS
  <2>1. rebase' = rebase /\ RebaseShape
    BY DEF SettingsInv, SettingsShapes
  <2>2. snapshots'[rebase.row].product = snapshots[rebase.row].product
    BY <2>1 DEF RebaseShape, Adds
  <2> QED
    BY <1>1, <1>2, <2>1, <2>2 DEF RebaseShape
<1>7. (calibration # NoWork => /\ calibration.product \in Product /\ calibration.nozzle \in Nozzle
                               /\ InUse(calibration.base))'
  BY <1>1 DEF SettingsInv, SettingsShapes
<1>8. (ownSave # NoWork => ownSave.source \in DOMAIN snapshots /\ ownSave.value \in Value)'
  BY <1>2 DEF SettingsInv, SettingsShapes
<1>9. renames' \in Seq(Rename) /\ (\A k \in DOMAIN renames : renames[k].id \in DOMAIN catalog)'
  BY DEF SettingsInv, SettingsShapes
<1>10. SettingsShapes'
  BY <1>3, <1>4, <1>5, <1>6, <1>7, <1>8, <1>9 DEF SettingsShapes
<1>11. SavesHoldTemplates'
  BY DEF SettingsInv, SavesHoldTemplates
<1>12. SavesStand'
  <2>1. ASSUME NEW s \in saves', NEW j \in s.left, NEW i \in DOMAIN snapshots', i < j,
               SameScope(snapshots', i, j)
        PROVE  i \in s.left
    <3>1. s \in saves /\ j \in DOMAIN snapshots
      BY <2>1 DEF SettingsInv, SettingsShapes, SaveShape
    <3>2. j \in Nat /\ i \in Nat
      BY <3>1, <2>1 DEF SettingsInv, SettingsShapes
    <3>3. i \in DOMAIN snapshots
      BY <2>1, <3>1, <3>2 DEF Adds
    <3>4. SameScope(snapshots, i, j)
      BY <2>1, <3>1, <3>3 DEF Adds, SameScope
    <3> QED
      BY <2>1, <3>1, <3>3, <3>4 DEF SettingsInv, SavesStand
  <2>2. ASSUME NEW s \in saves', ~s.amid, NEW i \in s.sources
        PROVE  /\ snapshots'[i].base[1] = s.t
               /\ rebase' # NoWork => rebase'.product # snapshots'[i].product
               /\ \A k \in DOMAIN snapshots' :
                     /\ CurrentRow(snapshots', k) /\ snapshots'[k].by = "rebase"
                     /\ snapshots'[k].product = snapshots'[i].product /\ snapshots'[k].nozzle = s.nozzle
                     => snapshots'[k].base[1] = s.t
    <3>1. s \in saves /\ i \in DOMAIN snapshots
      BY <2>2 DEF SettingsInv, SettingsShapes, SaveShape
    <3>2. snapshots'[i].base = snapshots[i].base /\ snapshots'[i].product = snapshots[i].product
      BY <3>1 DEF Adds
    <3>3. snapshots[i].base[1] = s.t /\ (rebase # NoWork => rebase.product # snapshots[i].product)
      BY <2>2, <3>1 DEF SettingsInv, SavesStand
    <3>5. \A k \in DOMAIN snapshots :
             /\ CurrentRow(snapshots, k) /\ snapshots[k].by = "rebase"
             /\ snapshots[k].product = snapshots[i].product /\ snapshots[k].nozzle = s.nozzle
             => snapshots[k].base[1] = s.t
      BY <2>2, <3>1 DEF SettingsInv, SavesStand
    <3>4. ASSUME NEW k \in DOMAIN snapshots', CurrentRow(snapshots', k), snapshots'[k].by = "rebase",
                 snapshots'[k].product = snapshots[i].product, snapshots'[k].nozzle = s.nozzle
          PROVE  snapshots'[k].base[1] = s.t
      <4>1. CASE k \in DOMAIN snapshots
        <5>1. CurrentRow(snapshots, k)
          BY <3>4, <4>1, CurrentsThin DEF SettingsInv, SettingsShapes
        <5>2. /\ snapshots[k].by = "rebase" /\ snapshots[k].product = snapshots[i].product
              /\ snapshots[k].nozzle = s.nozzle /\ snapshots'[k].base = snapshots[k].base
          BY <3>4, <4>1 DEF Adds
        <5> QED
          BY <3>5, <4>1, <5>1, <5>2
      <4>2. CASE k \notin DOMAIN snapshots
        BY <2>2, <3>1, <3>4, <4>2 DEF Adds
      <4> QED
        BY <4>1, <4>2
    <3> QED
      BY <3>2, <3>3, <3>4
  <2> QED
    BY <2>1, <2>2 DEF SavesStand
<1> QED
  BY <1>10, <1>11, <1>12 DEF SettingsInv

Kinds == {"direct", "revision", "calibrated"}

LEMMA SaveBegins ==
  ASSUME SettingsInv, NEW t \in DOMAIN templates, NEW kind \in Kinds, NEW v \in Value,
         NEW m \in Material, NEW n \in Nozzle, BeginSave(t, kind, v, m, n),
         calibration' = calibration, settingsEdits' \in Nat
  PROVE  SettingsInv'
<1>1. snapshots \in Seq(Snapshot)
  BY DEF SettingsInv, SettingsShapes
<1>2. PICK linked : linked = Linked(t, templates[t].nozzle)
  OBVIOUS
<1>3. PICK also : also = IF n # templates[t].nozzle THEN Linked(t, n) ELSE {}
  OBVIOUS
<1>4. PICK gone : gone = IF n # templates[t].nozzle
                         THEN UNION {Rows(q, templates[t].nozzle) : q \in {snapshots[i].product : i \in linked}}
                         ELSE {}
  OBVIOUS
<1>5. PICK s : s = [t |-> t, kind |-> kind, value |-> v, material |-> m, nozzle |-> n,
                    amid |-> rebase # NoWork, sources |-> linked \cup also, left |-> gone]
  OBVIOUS
<1>6. /\ RowFree(t) /\ saves' = saves \cup {s}
      /\ kind # "direct" => m = templates[t].material
      /\ n # templates[t].nozzle => \A i \in linked : Current(snapshots[i].product, n) = {}
      /\ UNCHANGED <<catalog, renames, templates, snapshots, products, ownSave, rebase>>
  BY <1>2, <1>3, <1>4, <1>5 DEF BeginSave
<1>7. \A i \in Currents : CurrentRow(snapshots, i)
  BY <1>1, CurrentsAre
<1>8. \A i \in linked : /\ i \in DOMAIN snapshots /\ CurrentRow(snapshots, i)
                        /\ snapshots[i].nozzle = templates[t].nozzle /\ snapshots[i].base[1] = t
  BY <1>2, <1>7 DEF Linked, CurrentRow
<1>9. \A i \in also : /\ i \in DOMAIN snapshots /\ CurrentRow(snapshots, i)
                      /\ snapshots[i].nozzle = n /\ snapshots[i].base[1] = t
  BY <1>3, <1>7 DEF Linked, CurrentRow
<1>10. /\ gone \subseteq DOMAIN snapshots
       /\ \A j \in gone : \A i \in DOMAIN snapshots : SameScope(snapshots, i, j) => i \in gone
  BY <1>4 DEF Rows, SameScope
<1>11. SaveShape(s)
  BY <1>5, <1>8, <1>9, <1>10 DEF SaveShape
<1>12. SettingsShapes'
  <2>1. \A u : SaveShape(u)' <=> SaveShape(u)
    BY <1>6 DEF SaveShape
  <2>2. \A u \in saves' : SaveShape(u)
    BY <1>6, <1>11 DEF SettingsInv, SettingsShapes
  <2> QED
    BY <1>6, <2>1, <2>2 DEF SettingsInv, SettingsShapes, InUse, RebaseShape
<1>13. SavesHoldTemplates'
  <2>1. \A u \in saves : u.t # t
    BY <1>6 DEF RowFree
  <2>2. s.t = t /\ s.kind = kind /\ s.material = m
    BY <1>5
  <2> QED
    BY <1>6, <2>1, <2>2 DEF SettingsInv, SavesHoldTemplates
<1>14. SavesStand'
  <2>1. s.left = gone /\ s.sources = linked \cup also /\ s.nozzle = n /\ s.t = t
        /\ (~s.amid => rebase = NoWork)
    BY <1>5
  <2>2. ASSUME NEW i \in s.sources, NEW k \in DOMAIN snapshots, CurrentRow(snapshots, k),
               snapshots[k].product = snapshots[i].product, snapshots[k].nozzle = n
        PROVE  snapshots[k].base[1] = t
    <3>1. CASE snapshots[i].nozzle = n
      <4>1. CurrentRow(snapshots, i) /\ snapshots[i].base[1] = t /\ i \in DOMAIN snapshots
        BY <1>8, <1>9, <2>1, <2>2
      <4>2. i \in Nat /\ k \in Nat
        BY <1>1, <4>1, <2>2
      <4>3. i <= k /\ k <= i
        BY <2>2, <3>1, <4>1 DEF CurrentRow, SameScope
      <4> QED
        BY <4>1, <4>2, <4>3
    <3>2. CASE snapshots[i].nozzle # n
      <4>1. i \in linked /\ n # templates[t].nozzle
        BY <1>8, <1>9, <2>1, <2>2, <3>2
      <4>2. k \in Current(snapshots[k].product, snapshots[k].nozzle)
        BY <1>1, <2>2, CurrentsAre
      <4> QED
        BY <1>6, <2>2, <4>1, <4>2
    <3> QED
      BY <3>1, <3>2
  <2>3. \A i \in s.sources : snapshots[i].base[1] = t
    BY <1>8, <1>9, <2>1
  <2>4. ASSUME NEW u \in saves
        PROVE  /\ \A j \in u.left : \A i \in DOMAIN snapshots :
                     i < j /\ SameScope(snapshots, i, j) => i \in u.left
               /\ ~u.amid => \A i \in u.sources :
                     /\ snapshots[i].base[1] = u.t
                     /\ rebase # NoWork => rebase.product # snapshots[i].product
                     /\ \A k \in DOMAIN snapshots :
                           /\ CurrentRow(snapshots, k) /\ snapshots[k].by = "rebase"
                           /\ snapshots[k].product = snapshots[i].product /\ snapshots[k].nozzle = u.nozzle
                           => snapshots[k].base[1] = u.t
    BY DEF SettingsInv, SavesStand
  <2>5. snapshots' = snapshots /\ rebase' = rebase
    BY <1>6
  <2>6. \A j \in s.left : \A i \in DOMAIN snapshots : i < j /\ SameScope(snapshots, i, j) => i \in s.left
    BY <1>10, <2>1
  <2>7. ~s.amid => \A i \in s.sources :
                     /\ snapshots[i].base[1] = s.t
                     /\ rebase # NoWork => rebase.product # snapshots[i].product
                     /\ \A k \in DOMAIN snapshots :
                           /\ CurrentRow(snapshots, k) /\ snapshots[k].by = "rebase"
                           /\ snapshots[k].product = snapshots[i].product /\ snapshots[k].nozzle = s.nozzle
                           => snapshots[k].base[1] = s.t
    BY <2>1, <2>2, <2>3
  <2>8. \A u \in saves' : u \in saves \/ u = s
    BY <1>6
  <2> QED
    BY <2>4, <2>5, <2>6, <2>7, <2>8 DEF SavesStand
<1>15. ChoicesCoverTemplates'
  BY <1>6 DEF SettingsInv, ChoicesCoverTemplates, Live
<1> QED
  BY <1>12, <1>13, <1>14, <1>15 DEF SettingsInv

\* The product's settings, saved alone: one row is appended.
LEMMA OwnRowAdded ==
  ASSUME SettingsInv, NEW q \in Product, NEW n \in Nozzle, NEW b, InUse(b),
         NEW o \in Value \cup {Inherit}, NEW r, r = Snap(q, n, b, o, "own"),
         snapshots' = Append(snapshots, r), ownSave' \in {ownSave, NoWork},
         UNCHANGED <<catalog, renames, templates, products, saves, rebase, calibration>>,
         settingsEdits' \in Nat
  PROVE  SettingsInv'
<1>1. r \in Snapshot /\ r.base = b /\ r.by = "own"
  BY DEF Snap, Sparse, Snapshot, InUse
<1>2. snapshots \in Seq(Snapshot)
  BY DEF SettingsInv, SettingsShapes
<1>3. snapshots' \in Seq(Snapshot) /\ Adds(snapshots, snapshots', {r})
  BY <1>1, <1>2, AppendAdds
<1>4. PICK Allowed : Allowed = {r}
  OBVIOUS
<1>5. /\ catalog' \in Seq(Choice) /\ templates' \in Seq(Template)
      /\ products' \in [Product -> [material : Material, source : Nat \X Nat]]
      /\ \A p \in Product : InUse(products'[p].source)
  BY DEF SettingsInv, SettingsShapes
<1>6. ChoicesCoverTemplates'
  BY DEF SettingsInv, ChoicesCoverTemplates, Live
<1>7. /\ Adds(snapshots, snapshots', Allowed) /\ \A a \in Allowed : InUse(a.base)
      /\ \A a \in Allowed : a.by # "rebase"
  BY <1>1, <1>3, <1>4
<1> QED
  BY <1>3, <1>5, <1>6, <1>7, RowsAdded

LEMMA OwnSteps ==
  ASSUME SettingsInv
  PROVE  /\ \A i \in DOMAIN snapshots, v \in Value, checked \in BOOLEAN :
               BeginOwnSave(i, v, checked) => SettingsInv'
         /\ \A collides \in BOOLEAN : CommitOwnSave(collides) => SettingsInv'
         /\ \A q \in Product, t \in DOMAIN templates : \A r \in DOMAIN templates[t].revisions :
               /\ CreateFromTemplate(q, <<t, r>>) => SettingsInv'
               /\ \A v \in Value : CreateProfile(q, <<t, r>>, v) => SettingsInv'
         /\ \A i \in DOMAIN snapshots : \A r \in DOMAIN templates[snapshots[i].base[1]].revisions :
               ConfirmBase(i, r) => SettingsInv'
         /\ \A q \in Product, n \in Nozzle : StartCalibration(q, n) => SettingsInv'
         /\ \A v \in Value : ApplyCalibration(v) => SettingsInv'
<1>1. /\ snapshots \in Seq(Snapshot) /\ templates \in Seq(Template)
      /\ \A i \in DOMAIN snapshots : InUse(snapshots[i].base)
      /\ \A q \in Product : InUse(products[q].source)
      /\ settingsEdits \in Nat
  BY DEF SettingsInv, SettingsShapes
<1>2. Edit => settingsEdits' \in Nat
  BY <1>1 DEF Edit
<1>3. ASSUME NEW i \in DOMAIN snapshots
      PROVE  /\ snapshots[i].product \in Product /\ snapshots[i].nozzle \in Nozzle
             /\ snapshots[i].override \in Value \cup {Inherit}
  <2>1. snapshots[i] \in Snapshot
    BY <1>1
  <2> QED
    BY <2>1 DEF Snapshot
<1>4. ASSUME NEW t \in DOMAIN templates
      PROVE  templates[t].nozzle \in Nozzle /\ \A r \in DOMAIN templates[t].revisions : InUse(<<t, r>>)
  <2>1. templates[t] \in Template /\ t \in Nat
    BY <1>1
  <2>2. templates[t].nozzle \in Nozzle /\ templates[t].revisions \in Seq(Value)
    BY <2>1 DEF Template
  <2>3. DOMAIN templates[t].revisions \subseteq Nat
    BY <2>2
  <2> QED
    BY <2>1, <2>2, <2>3 DEF InUse
\* A step that changes no row, template or save.
<1>5. ASSUME UNCHANGED <<catalog, renames, templates, snapshots, products, saves, rebase>>,
             settingsEdits' \in Nat,
             (ownSave # NoWork => ownSave.source \in DOMAIN snapshots /\ ownSave.value \in Value)',
             (calibration # NoWork => /\ calibration.product \in Product /\ calibration.nozzle \in Nozzle
                                      /\ InUse(calibration.base))'
      PROVE  SettingsInv'
  <2>1. SettingsShapes'
    BY <1>5 DEF SettingsInv, SettingsShapes, InUse, SaveShape, RebaseShape
  <2> QED
    BY <1>5, <2>1 DEF SettingsInv, SavesHoldTemplates, SavesStand, ChoicesCoverTemplates, Live
<1>6. ASSUME NEW i \in DOMAIN snapshots, NEW v \in Value, NEW checked \in BOOLEAN,
             BeginOwnSave(i, v, checked)
      PROVE  SettingsInv'
  <2>1. ownSave'.source = i /\ ownSave'.value = v
    BY <1>6 DEF BeginOwnSave
  <2> QED
    BY <1>2, <1>5, <1>6, <2>1 DEF BeginOwnSave, SettingsInv, SettingsShapes, InUse
<1>7. ASSUME NEW collides \in BOOLEAN, CommitOwnSave(collides) PROVE SettingsInv'
  <2>1. CASE collides
    BY <1>1, <1>5, <1>7, <2>1 DEF CommitOwnSave, SettingsInv, SettingsShapes, InUse
  <2>2. CASE ~collides
    <3>1. PICK i \in DOMAIN snapshots : i = ownSave.source
      BY <1>7 DEF CommitOwnSave, SettingsInv, SettingsShapes
    <3>2. PICK v \in Value : v = ownSave.value
      BY <1>7 DEF CommitOwnSave, SettingsInv, SettingsShapes
    <3>3. PICK r : r = Snap(snapshots[i].product, snapshots[i].nozzle, snapshots[i].base, v, "own")
      OBVIOUS
    <3>4. snapshots' = Append(snapshots, r) /\ ownSave' = NoWork
          /\ UNCHANGED <<catalog, renames, templates, products, saves, rebase, calibration, settingsEdits>>
      BY <1>7, <2>2, <3>1, <3>2, <3>3 DEF CommitOwnSave
    <3> QED
      BY <1>1, <1>3, <3>3, <3>4, OwnRowAdded
  <2> QED
    BY <2>1, <2>2
<1>8. ASSUME NEW q \in Product, NEW t \in DOMAIN templates, NEW r \in DOMAIN templates[t].revisions,
             NEW v \in Value \cup {Inherit}, Owned(q, <<t, r>>, v)
      PROVE  SettingsInv'
  <2>1. PICK b : b = <<t, r>>
    OBVIOUS
  <2>2. InUse(b) /\ b[1] = t
    BY <1>4, <2>1
  <2>3. PICK s : s = Snap(q, templates[t].nozzle, b, v, "own")
    OBVIOUS
  <2>4. snapshots' = Append(snapshots, s) /\ Edit
        /\ UNCHANGED <<catalog, renames, templates, products, saves, ownSave, rebase, calibration>>
    BY <1>8, <2>1, <2>2, <2>3 DEF Owned
  <2> QED
    BY <1>2, <1>4, <1>8, <2>2, <2>3, <2>4, OwnRowAdded
<1>9. ASSUME NEW i \in DOMAIN snapshots, NEW r \in DOMAIN templates[snapshots[i].base[1]].revisions,
             ConfirmBase(i, r)
      PROVE  SettingsInv'
  <2>1. PICK b : b = <<snapshots[i].base[1], r>>
    OBVIOUS
  <2>2. InUse(b)
    BY <1>1, <1>4, <2>1 DEF InUse
  <2>3. PICK s : s = Snap(snapshots[i].product, snapshots[i].nozzle, b, snapshots[i].override, "own")
    OBVIOUS
  <2>4. snapshots' = Append(snapshots, s) /\ Edit
        /\ UNCHANGED <<catalog, renames, templates, products, saves, ownSave, rebase, calibration>>
    BY <1>9, <2>1, <2>3 DEF ConfirmBase
  <2> QED
    BY <1>2, <1>3, <2>2, <2>3, <2>4, OwnRowAdded
<1>10. ASSUME NEW q \in Product, NEW n \in Nozzle, StartCalibration(q, n) PROVE SettingsInv'
  <2>0. PICK c : c = CHOOSE i \in Newest(Rows(q, n)) : TRUE
    BY Zenon
  <2>1. PICK b : b = IF Rows(q, n) = {} THEN products[q].source ELSE snapshots[c].base
    OBVIOUS
  <2>2. InUse(b)
    <3>1. CASE Rows(q, n) = {}
      BY <1>1, <2>1, <3>1
    <3>2. CASE Rows(q, n) # {}
      <4>1. Rows(q, n) \subseteq 1 .. Len(snapshots) /\ Len(snapshots) \in Nat
            /\ DOMAIN snapshots = 1 .. Len(snapshots)
        BY <1>1 DEF Rows
      <4>2. \E i \in Rows(q, n) : \A j \in Rows(q, n) : j <= i
        BY <3>2, <4>1, LastOf
      <4>3. PICK i \in Newest(Rows(q, n)) : i = (CHOOSE k \in Newest(Rows(q, n)) : TRUE)
        BY <4>2 DEF Newest
      <4>4. i \in DOMAIN snapshots
        BY <4>1 DEF Newest
      <4>5. b = snapshots[i].base
        BY <2>0, <2>1, <3>2, <4>3
      <4> QED
        BY <1>1, <4>4, <4>5
    <3> QED
      BY <3>1, <3>2
  <2>3. calibration' = [product |-> q, nozzle |-> n, base |-> b]
    BY <1>10, <2>0, <2>1 DEF StartCalibration
  <2>4. calibration'.product = q /\ calibration'.nozzle = n /\ calibration'.base = b
    BY <2>3
  <2>5. InUse(b)'
    BY <1>10, <2>2 DEF StartCalibration, InUse
  <2> QED
    BY <1>2, <1>5, <1>10, <2>4, <2>5 DEF StartCalibration, SettingsInv, SettingsShapes
<1>11. ASSUME NEW v \in Value, ApplyCalibration(v) PROVE SettingsInv'
  <2>1. calibration.product \in Product /\ calibration.nozzle \in Nozzle /\ InUse(calibration.base)
    BY <1>11 DEF ApplyCalibration, SettingsInv, SettingsShapes
  <2>2. PICK s : s = Snap(calibration.product, calibration.nozzle, calibration.base, v, "own")
    OBVIOUS
  <2>3. snapshots' = Append(snapshots, s) /\ Edit
        /\ UNCHANGED <<catalog, renames, templates, products, saves, ownSave, rebase, calibration>>
    BY <1>11, <2>2 DEF ApplyCalibration
  <2> QED
    BY <1>2, <1>11, <2>1, <2>2, <2>3, OwnRowAdded
<1>12. ASSUME NEW q \in Product, NEW t \in DOMAIN templates, NEW r \in DOMAIN templates[t].revisions
       PROVE  /\ CreateFromTemplate(q, <<t, r>>) => SettingsInv'
              /\ \A v \in Value : CreateProfile(q, <<t, r>>, v) => SettingsInv'
  BY <1>8 DEF CreateFromTemplate, CreateProfile
<1> QED
  BY <1>6, <1>7, <1>9, <1>10, <1>11, <1>12

LEMMA SaveSteps ==
  ASSUME SettingsInv
  PROVE  /\ \A t \in DOMAIN templates, v \in Value, m \in Material, n \in Nozzle :
               SaveTemplate(t, v, m, n) => SettingsInv'
         /\ \A t \in DOMAIN templates, v \in Value :
               /\ CreateRevision(t, v) => SettingsInv'
               /\ ImportOver(t, v) => SettingsInv'
         /\ \A v \in Value : CalibrateTemplate(v) => SettingsInv'
         /\ \A s \in saves : SaveFails(s) => SettingsInv'
<1>1. Edit => settingsEdits' \in Nat
  BY DEF Edit, SettingsInv, SettingsShapes
<1>2. ASSUME NEW t \in DOMAIN templates
      PROVE  templates[t].material \in Material /\ templates[t].nozzle \in Nozzle
  <2>1. templates[t] \in Template
    BY DEF SettingsInv, SettingsShapes
  <2> QED
    BY <2>1 DEF Template
<1>3. ASSUME NEW t \in DOMAIN templates, NEW v \in Value, NEW m \in Material, NEW n \in Nozzle,
             SaveTemplate(t, v, m, n)
      PROVE  SettingsInv'
  BY <1>1, <1>3, SaveBegins DEF SaveTemplate, Kinds
<1>4. ASSUME NEW t \in DOMAIN templates, NEW v \in Value, CreateRevision(t, v) PROVE SettingsInv'
  BY <1>1, <1>2, <1>4, SaveBegins DEF CreateRevision, Kinds
<1>5. ASSUME NEW t \in DOMAIN templates, NEW v \in Value, ImportOver(t, v) PROVE SettingsInv'
  BY <1>1, <1>2, <1>5, SaveBegins DEF ImportOver, Kinds
<1>6. ASSUME NEW v \in Value, CalibrateTemplate(v) PROVE SettingsInv'
  <2>1. PICK t \in DOMAIN templates : t = calibration.base[1]
    BY <1>6 DEF CalibrateTemplate, SettingsInv, SettingsShapes, InUse
  <2>2. BeginSave(t, "calibrated", v, templates[t].material, templates[t].nozzle)
        /\ Edit /\ calibration' = calibration
    BY <1>6, <2>1 DEF CalibrateTemplate
  <2> QED
    BY <1>1, <1>2, <2>2, SaveBegins DEF Kinds
<1>7. ASSUME NEW s \in saves, SaveFails(s) PROVE SettingsInv'
  <2>1. /\ saves' \subseteq saves
        /\ UNCHANGED <<catalog, renames, templates, snapshots, products, ownSave, rebase, calibration,
                       settingsEdits>>
    BY <1>7 DEF SaveFails
  <2>2. SettingsShapes'
    BY <2>1 DEF SettingsInv, SettingsShapes, InUse, SaveShape, RebaseShape
  <2> QED
    BY <2>1, <2>2 DEF SettingsInv, SavesHoldTemplates, SavesStand, ChoicesCoverTemplates, Live
<1> QED
  BY <1>3, <1>4, <1>5, <1>6, <1>7

\* A template's rows are added for whoever inherits from it, below a new revision.
LEMMA SaveCommits ==
  ASSUME SettingsInv, NEW s \in saves, CommitSave(s)
  PROVE  /\ SettingsInv'
         /\ \A j \in DOMAIN snapshots' \ DOMAIN snapshots : \E k \in s.sources :
               /\ snapshots'[j].product = snapshots[k].product /\ snapshots'[j].nozzle = s.nozzle
               /\ snapshots'[j].base[1] = s.t
<1>1. /\ snapshots \in Seq(Snapshot) /\ templates \in Seq(Template) /\ catalog \in Seq(Choice)
      /\ products \in [Product -> [material : Material, source : Nat \X Nat]]
      /\ \A q \in Product : InUse(products[q].source)
      /\ \A i \in DOMAIN snapshots : InUse(snapshots[i].base)
      /\ settingsEdits \in Nat
  BY DEF SettingsInv, SettingsShapes
<1>2. /\ s.t \in DOMAIN templates /\ s.value \in Value /\ s.material \in Material /\ s.nozzle \in Nozzle
      /\ s.sources \subseteq DOMAIN snapshots /\ s.left \subseteq DOMAIN snapshots
  BY DEF SettingsInv, SettingsShapes, SaveShape
<1>3. /\ templates[s.t].revisions \in Seq(Value) /\ templates[s.t].active \in BOOLEAN
      /\ templates[s.t].material \in Material
  <2>1. templates[s.t] \in Template
    BY <1>1, <1>2
  <2> QED
    BY <2>1 DEF Template
<1>4. PICK base : base = <<s.t, Len(templates[s.t].revisions) + 1>>
  OBVIOUS
<1>5. InUse(base) /\ base[1] = s.t
  BY <1>1, <1>2, <1>3, <1>4 DEF InUse
<1>6. PICK T : T = [templates[s.t] EXCEPT !.revisions = Append(@, s.value), !.material = s.material,
                                          !.nozzle = s.nozzle]
  OBVIOUS
<1>7. T \in Template /\ T.material = s.material /\ T.active = templates[s.t].active
  <2>1. Append(templates[s.t].revisions, s.value) \in Seq(Value) \ {<<>>}
    BY <1>2, <1>3
  <2>2. templates[s.t] \in Template
    BY <1>1, <1>2
  <2> QED
    BY <1>2, <1>6, <2>1, <2>2 DEF Template
<1>8. templates' = [templates EXCEPT ![s.t] = T]
  BY <1>1, <1>2, <1>6 DEF CommitSave
<1>9. /\ templates' \in Seq(Template) /\ DOMAIN templates' = DOMAIN templates /\ templates'[s.t] = T
      /\ \A u \in DOMAIN templates : u # s.t => templates'[u] = templates[u]
  BY <1>1, <1>2, <1>7, <1>8, TemplateChanged
<1>10. PICK kept : kept = [i \in DOMAIN snapshots |->
              IF i \in s.left THEN [snapshots[i] EXCEPT !.published = FALSE] ELSE snapshots[i]]
  OBVIOUS
<1>11. PICK f : f = [i \in s.sources |->
              [product |-> snapshots[i].product, nozzle |-> s.nozzle, base |-> base,
               override |-> Reapplied(i, s), published |-> TRUE, by |-> "template"]]
  OBVIOUS
<1>12. PICK new : new = {f[i] : i \in DOMAIN f}
  OBVIOUS
<1>13. snapshots' = Appended(kept, new)
  <2>1. new = {[product |-> snapshots[i].product, nozzle |-> s.nozzle, base |-> base,
                override |-> Reapplied(i, s), published |-> TRUE, by |-> "template"] : i \in s.sources}
    BY <1>11, <1>12
  <2> QED
    BY <1>4, <1>10, <2>1 DEF CommitSave
<1>14. ASSUME NEW i \in DOMAIN snapshots
       PROVE  /\ snapshots[i].product \in Product /\ snapshots[i].override \in Value \cup {Inherit}
              /\ [snapshots[i] EXCEPT !.published = FALSE] \in Snapshot
              /\ [snapshots[i] EXCEPT !.published = FALSE].product = snapshots[i].product
              /\ [snapshots[i] EXCEPT !.published = FALSE].nozzle = snapshots[i].nozzle
              /\ [snapshots[i] EXCEPT !.published = FALSE].base = snapshots[i].base
              /\ [snapshots[i] EXCEPT !.published = FALSE].by = snapshots[i].by
              /\ ~[snapshots[i] EXCEPT !.published = FALSE].published
  <2>1. snapshots[i] \in Snapshot
    BY <1>1
  <2> QED
    BY <2>1 DEF Snapshot
<1>15. ASSUME NEW i \in s.sources
       PROVE  f[i] \in Snapshot /\ f[i].base = base /\ f[i].by = "template"
  <2>1. i \in DOMAIN snapshots
    BY <1>2
  <2>2. Reapplied(i, s) \in Value \cup {Inherit}
    BY <1>14, <2>1 DEF Reapplied, Sparse
  <2>3. base \in Nat \X Nat
    BY <1>5 DEF InUse
  <2> QED
    BY <1>2, <1>11, <1>14, <2>1, <2>2, <2>3 DEF Snapshot
<1>16. new \in SUBSET Snapshot /\ \A r \in new : r.base = base /\ r.by = "template"
  <2>1. DOMAIN f = s.sources
    BY <1>11
  <2> QED
    BY <1>12, <1>15, <2>1
<1>17. IsFiniteSet(new)
  <2>1. DOMAIN snapshots = 1 .. Len(snapshots) /\ Len(snapshots) \in Nat
    BY <1>1
  <2>3. IsFiniteSet(1 .. Len(snapshots)) /\ s.sources \subseteq 1 .. Len(snapshots)
    BY <1>2, <2>1, FS_Interval
  <2>2. IsFiniteSet(s.sources)
    BY <2>3, FS_Subset
  <2> QED
    BY <1>11, <1>12, <2>2, FiniteImage
<1>18. kept \in Seq(Snapshot) /\ DOMAIN kept = DOMAIN snapshots
  <2>1. \A i \in DOMAIN snapshots : kept[i] \in Snapshot
    BY <1>1, <1>10, <1>14
  <2>2. DOMAIN kept = 1 .. Len(snapshots) /\ DOMAIN snapshots = 1 .. Len(snapshots) /\ Len(snapshots) \in Nat
    BY <1>1, <1>10
  <2>3. kept = [i \in 1 .. Len(snapshots) |-> kept[i]]
    BY <1>10, <2>2
  <2> QED
    BY <2>1, <2>2, <2>3
<1>19. /\ snapshots' \in Seq(Snapshot) /\ DOMAIN kept \subseteq DOMAIN snapshots'
       /\ \A i \in DOMAIN kept : snapshots'[i] = kept[i]
       /\ \A j \in DOMAIN snapshots' \ DOMAIN kept :
             snapshots'[j] \in new /\ \A i \in DOMAIN kept : i < j
  BY <1>13, <1>16, <1>17, <1>18, AppendedRows
<1>20. \A j \in s.left : \A i \in DOMAIN snapshots :
          i < j /\ SameScope(snapshots, i, j) => i \in s.left
  BY DEF SettingsInv, SavesStand
<1>21. Adds(snapshots, snapshots', new)
  <2>1. ASSUME NEW i \in DOMAIN snapshots
        PROVE  /\ snapshots'[i].product = snapshots[i].product
               /\ snapshots'[i].nozzle = snapshots[i].nozzle
               /\ snapshots'[i].base = snapshots[i].base /\ snapshots'[i].by = snapshots[i].by
               /\ snapshots'[i].published => snapshots[i].published
               /\ i \in s.left => ~snapshots'[i].published
               /\ i \notin s.left => snapshots'[i].published = snapshots[i].published
    <3>1. snapshots'[i] = IF i \in s.left THEN [snapshots[i] EXCEPT !.published = FALSE]
                          ELSE snapshots[i]
      BY <1>10, <1>18, <1>19
    <3> QED
      BY <1>14, <3>1
  <2>2. ASSUME NEW i \in DOMAIN snapshots, NEW j \in DOMAIN snapshots, i < j,
               SameScope(snapshots, i, j), snapshots[j].published, snapshots'[i].published
        PROVE  snapshots'[j].published
    BY <1>20, <2>1, <2>2
  <2> QED
    BY <1>18, <1>19, <2>1, <2>2 DEF Adds
<1>22. /\ products' \in [Product -> [material : Material, source : Nat \X Nat]]
       /\ \A q \in Product : InUse(products'[q].source)
  <2>1. products' = [q \in Product |-> IF products[q].source[1] = s.t
                                       THEN [products[q] EXCEPT !.source = base] ELSE products[q]]
    BY <1>4 DEF CommitSave
  <2>2. base \in Nat \X Nat
    BY <1>5 DEF InUse
  <2>3. ASSUME NEW q \in Product
        PROVE  /\ [products[q] EXCEPT !.source = base] \in [material : Material, source : Nat \X Nat]
               /\ [products[q] EXCEPT !.source = base].source = base
    <3>1. products[q] \in [material : Material, source : Nat \X Nat]
      BY <1>1
    <3> QED
      BY <2>2, <3>1
  <2> QED
    BY <1>1, <1>5, <2>1, <2>3
<1>23. /\ catalog' \in Seq(Choice) /\ Lengthened(catalog, catalog')
       /\ s.kind = "direct" /\ templates[s.t].active => IsNamed(catalog', s.material)
  <2>1. CASE s.kind = "direct"
    <3>1. catalog' = Remembered(s.material, templates[s.t].active)
      BY <2>1 DEF CommitSave
    <3>2. PICK c : c = catalog'
      OBVIOUS
    <3>3. PICK explicit \in BOOLEAN : explicit = templates[s.t].active
      BY <1>3
    <3> QED
      BY <1>1, <1>2, <3>1, <3>2, <3>3, NameRemembered
  <2>2. CASE s.kind # "direct"
    BY <1>1, <2>2 DEF CommitSave, Lengthened
  <2> QED
    BY <2>1, <2>2
<1>24. ChoicesCoverTemplates'
  <2>1. ASSUME NEW name, Live(name) PROVE IsNamed(catalog', name)
    BY <1>23, <2>1 DEF Live, Lengthened, IsNamed
  <2>2. ASSUME NEW u \in DOMAIN templates, templates'[u].active
        PROVE  IsNamed(catalog', templates'[u].material)
    <3>1. CASE u # s.t
      BY <1>9, <2>1, <2>2, <3>1 DEF SettingsInv, ChoicesCoverTemplates
    <3>2. CASE u = s.t /\ s.kind = "direct"
      BY <1>7, <1>9, <1>23, <2>2, <3>2
    <3>3. CASE u = s.t /\ s.kind # "direct"
      <4>1. s.material = templates[s.t].material
        BY <3>3 DEF SettingsInv, SavesHoldTemplates
      <4>2. Live(templates[s.t].material)
        BY <1>2, <1>7, <1>9, <2>2, <3>3 DEF SettingsInv, ChoicesCoverTemplates
      <4> QED
        BY <1>7, <1>9, <2>1, <3>3, <4>1, <4>2
    <3> QED
      BY <3>1, <3>2, <3>3
  <2> QED
    BY <1>9, <2>2 DEF ChoicesCoverTemplates, Live, IsNamed
<1>25. \A u \in saves' : u.kind # "direct" => templates'[u.t].material = templates[u.t].material
  <2>1. ASSUME NEW u \in saves' PROVE u.t \in DOMAIN templates /\ u.t # s.t
    <3>1. u \in saves /\ u # s
      BY DEF CommitSave
    <3> QED
      BY <3>1 DEF SettingsInv, SettingsShapes, SaveShape, SavesHoldTemplates
  <2> QED
    BY <1>9, <2>1
<1>26. /\ saves' \subseteq saves /\ rebase' = rebase /\ ownSave' = ownSave
       /\ UNCHANGED <<calibration, renames>> /\ settingsEdits' \in Nat
  BY <1>1 DEF CommitSave
<1>27. (\A r \in new : InUse(r.base)) /\ (\A r \in new : r.by # "rebase")
  BY <1>5, <1>16
<1>28. DOMAIN catalog \subseteq DOMAIN catalog'
  BY <1>23 DEF Lengthened
<1>29. SettingsInv'
  BY <1>9, <1>19, <1>21, <1>22, <1>23, <1>24, <1>25, <1>26, <1>27, <1>28, RowsAdded
<1>30. ASSUME NEW j \in DOMAIN snapshots' \ DOMAIN snapshots
       PROVE  \E k \in s.sources :
               /\ snapshots'[j].product = snapshots[k].product /\ snapshots'[j].nozzle = s.nozzle
               /\ snapshots'[j].base[1] = s.t
  <2>1. snapshots'[j] \in new
    BY <1>18, <1>19
  <2>2. PICK k \in s.sources : snapshots'[j] = f[k]
    BY <1>11, <1>12, <2>1
  <2>3. f[k].product = snapshots[k].product /\ f[k].nozzle = s.nozzle /\ f[k].base = base
    BY <1>11
  <2> QED
    BY <1>5, <2>2, <2>3
<1> QED
  BY <1>29, <1>30

\* A step that changes no row, template or choice.
LEMMA RebaseChanged ==
  ASSUME SettingsInv, (rebase # NoWork => RebaseShape)',
         UNCHANGED <<catalog, renames, templates, snapshots, products, saves, ownSave, calibration>>,
         settingsEdits' \in Nat,
         \A s \in saves : ~s.amid => \A i \in s.sources :
            rebase' # NoWork => rebase'.product # snapshots[i].product
  PROVE  SettingsInv'
<1>1. SettingsShapes'
  BY DEF SettingsInv, SettingsShapes, InUse, SaveShape
<1>2. SavesStand'
  BY DEF SettingsInv, SavesStand
<1> QED
  BY <1>1, <1>2 DEF SettingsInv, SavesHoldTemplates, ChoicesCoverTemplates, Live

LEMMA RebaseSteps ==
  ASSUME SettingsInv
  PROVE  /\ \A i \in DOMAIN snapshots, t \in DOMAIN templates : BeginRebase(i, t) => SettingsInv'
         /\ PlanRebase => SettingsInv'
         /\ CommitRebase => SettingsInv'
         /\ RebaseFails => SettingsInv'
<1>1. /\ snapshots \in Seq(Snapshot) /\ templates \in Seq(Template) /\ catalog \in Seq(Choice)
      /\ products \in [Product -> [material : Material, source : Nat \X Nat]]
      /\ \A q \in Product : InUse(products[q].source)
      /\ settingsEdits \in Nat
      /\ rebase # NoWork => RebaseShape
  BY DEF SettingsInv, SettingsShapes
<1>2. ASSUME NEW i \in DOMAIN snapshots
      PROVE  /\ snapshots[i].product \in Product /\ snapshots[i].nozzle \in Nozzle
             /\ snapshots[i].override \in Value \cup {Inherit}
  <2>1. snapshots[i] \in Snapshot
    BY <1>1
  <2> QED
    BY <2>1 DEF Snapshot
<1>3. ASSUME NEW i \in DOMAIN snapshots, NEW t \in DOMAIN templates, BeginRebase(i, t)
      PROVE  SettingsInv'
  <2>1. PICK q : q = snapshots[i].product
    OBVIOUS
  <2>2. PICK locked : locked = {u \in DOMAIN templates : templates[u].material = templates[t].material}
                \cup {snapshots[j].base[1] : j \in {k \in DOMAIN snapshots : snapshots[k].product = q}}
    OBVIOUS
  <2>3. /\ Edit /\ TypesFree /\ \A u \in locked : RowFree(u)
        /\ rebase' = [product |-> q, row |-> i, target |-> t, locked |-> locked, plan |-> <<>>]
        /\ UNCHANGED <<catalog, renames, templates, snapshots, products, saves, ownSave, calibration>>
    BY <1>3, <2>1, <2>2 DEF BeginRebase
  <2>4. RebaseShape'
    <3>1. /\ rebase'.product = q /\ rebase'.row = i /\ rebase'.target = t /\ rebase'.locked = locked
          /\ rebase'.plan = <<>> /\ DOMAIN rebase'.plan = {}
      BY <2>3
    <3> QED
      BY <1>2, <2>1, <2>3, <3>1 DEF RebaseShape
  <2>5. ASSUME NEW s \in saves, ~s.amid, NEW j \in s.sources
        PROVE  rebase'.product # snapshots[j].product
    <3>1. j \in DOMAIN snapshots /\ snapshots[j].base[1] = s.t
      BY <2>5 DEF SettingsInv, SettingsShapes, SaveShape, SavesStand
    <3>2. snapshots[j].product = q => RowFree(s.t)
      BY <2>2, <2>3, <3>1
    <3> QED
      BY <2>3, <3>2 DEF RowFree
  <2> QED
    BY <1>1, <2>3, <2>4, <2>5, RebaseChanged DEF Edit
<1>4. ASSUME PlanRebase PROVE SettingsInv'
  <2>1. PICK q, i, t : q = rebase.product /\ i = rebase.row /\ t = rebase.target
    OBVIOUS
  <2>2. /\ RebaseShape /\ q \in Product /\ t \in DOMAIN templates
        /\ i \in DOMAIN snapshots /\ snapshots[i].product = q
    BY <1>1, <1>4, <2>1 DEF PlanRebase, RebaseShape
  <2>3. PICK moved : moved = IF templates[t].material = products[q].material THEN {i}
                             ELSE {j \in Currents : snapshots[j].product = q}
    OBVIOUS
  <2>4. PICK target : target = [j \in moved |-> CHOOSE u \in Matching(j, t) : TRUE]
    OBVIOUS
  <2>5. PICK plan : plan = [j \in moved |-> Latest(target[j])]
    OBVIOUS
  <2>6. /\ i \in Currents /\ \A j \in moved : Cardinality(Matching(j, t)) = 1
        /\ UNCHANGED <<catalog, renames, templates, snapshots, products, saves, ownSave, calibration,
                       settingsEdits>>
    BY <1>4, <2>1, <2>3 DEF PlanRebase
  <2>7. rebase' = [rebase EXCEPT !.plan = plan]
    <3>1. plan = [j \in moved |-> Latest(CHOOSE u \in Matching(j, t) : TRUE)]
      BY <2>4, <2>5
    <3> QED
      BY <1>4, <2>1, <2>3, <3>1 DEF PlanRebase
  <2>8. moved \subseteq DOMAIN snapshots /\ i \in moved
    <3>1. \A j \in Currents : j \in DOMAIN snapshots
      BY <1>1, CurrentsAre DEF CurrentRow
    <3> QED
      BY <2>2, <2>3, <2>6, <3>1
  <2>9. ASSUME NEW j \in moved PROVE InUse(plan[j])
    <3>1. Matching(j, t) # {}
      BY <2>6, FS_EmptySet
    <3>2. target[j] \in Matching(j, t)
      BY <2>4, <3>1
    <3>3. target[j] \in DOMAIN templates
      BY <2>2, <3>2 DEF Matching
    <3>4. templates[target[j]] \in Template /\ target[j] \in Nat
      BY <1>1, <3>3
    <3>5. Len(templates[target[j]].revisions) \in Nat
      BY <3>4 DEF Template
    <3> QED
      BY <2>5, <3>3, <3>4, <3>5 DEF Latest, InUse
  <2>10. /\ rebase'.product = q /\ rebase'.row = i /\ rebase'.target = t /\ rebase'.plan = plan
         /\ rebase' = [product |-> q, row |-> i, target |-> t, locked |-> rebase'.locked, plan |-> plan]
    BY <2>1, <2>2, <2>7 DEF RebaseShape
  <2>11. RebaseShape'
    BY <2>2, <2>5, <2>6, <2>8, <2>9, <2>10 DEF RebaseShape, InUse
  <2>12. \A s \in saves : ~s.amid => \A j \in s.sources : q # snapshots[j].product
    BY <1>4, <2>1 DEF PlanRebase, SettingsInv, SavesStand
  <2> QED
    BY <1>1, <2>6, <2>10, <2>11, <2>12, RebaseChanged
<1>5. ASSUME CommitRebase PROVE SettingsInv'
  <2>1. PICK q : q = rebase.product
    OBVIOUS
  <2>2. PICK plan : plan = rebase.plan
    OBVIOUS
  <2>3. /\ q \in Product /\ DOMAIN plan \subseteq DOMAIN snapshots /\ \A i \in DOMAIN plan : InUse(plan[i])
        /\ rebase.row \in DOMAIN plan /\ rebase.target \in DOMAIN templates
    BY <1>1, <1>5, <2>1, <2>2 DEF CommitRebase, Held, RebaseShape
  <2>4. PICK f : f = [i \in DOMAIN plan |->
                        Snap(q, snapshots[i].nozzle, plan[i], snapshots[i].override, "rebase")]
    OBVIOUS
  <2>5. PICK new : new = {f[i] : i \in DOMAIN f}
    OBVIOUS
  <2>6. snapshots' = Appended(snapshots, new)
    <3>1. new = {Snap(q, snapshots[i].nozzle, plan[i], snapshots[i].override, "rebase") : i \in DOMAIN plan}
      BY <2>4, <2>5
    <3> QED
      BY <1>5, <2>1, <2>2, <3>1 DEF CommitRebase
  <2>7. ASSUME NEW i \in DOMAIN plan
        PROVE  f[i] \in Snapshot /\ InUse(f[i].base) /\ f[i].product = q
    <3>1. PICK r : r = Snap(q, snapshots[i].nozzle, plan[i], snapshots[i].override, "rebase")
      OBVIOUS
    <3>2. r \in Snapshot /\ r.base = plan[i] /\ r.product = q
      BY <1>2, <2>3, <3>1 DEF Snap, Sparse, Snapshot, InUse
    <3> QED
      BY <2>3, <2>4, <3>1, <3>2
  <2>8. new \in SUBSET Snapshot /\ \A r \in new : InUse(r.base) /\ r.product = q
    BY <2>4, <2>5, <2>7
  <2>9. IsFiniteSet(new)
    <3>1. DOMAIN snapshots = 1 .. Len(snapshots) /\ Len(snapshots) \in Nat
      BY <1>1
    <3>2. IsFiniteSet(1 .. Len(snapshots)) /\ DOMAIN plan \subseteq 1 .. Len(snapshots)
      BY <2>3, <3>1, FS_Interval
    <3>3. IsFiniteSet(DOMAIN plan)
      BY <3>2, FS_Subset
    <3> QED
      BY <2>4, <2>5, <3>3, FiniteImage
  <2>10. /\ snapshots' \in Seq(Snapshot) /\ DOMAIN snapshots \subseteq DOMAIN snapshots'
         /\ \A i \in DOMAIN snapshots : snapshots'[i] = snapshots[i]
         /\ \A j \in DOMAIN snapshots' \ DOMAIN snapshots :
               snapshots'[j] \in new /\ \A i \in DOMAIN snapshots : i < j
    BY <1>1, <2>6, <2>8, <2>9, AppendedRows
  <2>11. Adds(snapshots, snapshots', new)
    BY <2>10 DEF Adds
  <2>12. \A s \in saves : ~s.amid => \A i \in s.sources : q # snapshots[i].product
    BY <1>5, <2>1 DEF CommitRebase, SettingsInv, SavesStand
  <2>13. /\ products' \in [Product -> [material : Material, source : Nat \X Nat]]
         /\ \A p \in Product : InUse(products'[p].source)
    <3>1. PICK r : r = [material |-> templates[rebase.target].material, source |-> plan[rebase.row]]
      OBVIOUS
    <3>2. products' = [products EXCEPT ![q] = r]
      BY <1>5, <2>1, <2>2, <3>1 DEF CommitRebase
    <3>3. templates[rebase.target] \in Template
      BY <1>1, <2>3
    <3>4. r \in [material : Material, source : Nat \X Nat] /\ InUse(r.source)
      BY <2>3, <3>1, <3>3 DEF Template, InUse
    <3> QED
      BY <1>1, <2>3, <3>2, <3>4
  <2>14. /\ saves' = saves /\ rebase' = NoWork /\ ownSave' = ownSave /\ settingsEdits' \in Nat
         /\ UNCHANGED <<calibration, renames, catalog, templates>>
    BY <1>1, <1>5 DEF CommitRebase
  <2>15. ChoicesCoverTemplates'
    BY <2>14 DEF SettingsInv, ChoicesCoverTemplates, Live
  <2>16. \A r \in new : InUse(r.base)
    BY <2>8
  <2>17. \A r \in new : r.by = "rebase" =>
            \A s \in saves : ~s.amid => \A i \in s.sources : r.product # snapshots[i].product
    BY <2>8, <2>12
  <2>18. /\ catalog' \in Seq(Choice) /\ templates' \in Seq(Template)
         /\ DOMAIN catalog \subseteq DOMAIN catalog' /\ DOMAIN templates' = DOMAIN templates
         /\ saves' \subseteq saves /\ rebase' \in {rebase, NoWork} /\ ownSave' \in {ownSave, NoWork}
         /\ \A s \in saves' : s.kind # "direct" => templates'[s.t].material = templates[s.t].material
    BY <1>1, <2>14
  <2> QED
    BY <2>10, <2>11, <2>13, <2>14, <2>15, <2>16, <2>17, <2>18, RowsAdded
<1>6. ASSUME RebaseFails PROVE SettingsInv'
  BY <1>1, <1>6, RebaseChanged DEF RebaseFails
<1> QED
  BY <1>3, <1>4, <1>5, <1>6

LEMMA SettingsStep ==
  ASSUME SettingsInv, [SettingsNext]_settingsVars
  PROVE  SettingsInv'
<1>1. CASE UNCHANGED settingsVars
  <2>1. UNCHANGED <<catalog, renames, templates, snapshots, products, saves, ownSave, rebase,
                    calibration, settingsEdits>>
    BY <1>1 DEF settingsVars
  <2>2. SettingsShapes'
    BY <2>1 DEF SettingsInv, SettingsShapes, InUse, SaveShape, RebaseShape
  <2> QED
    BY <2>1, <2>2 DEF SettingsInv, SavesHoldTemplates, SavesStand, ChoicesCoverTemplates, Live
<1>2. CASE SettingsNext
  <2>1. ASSUME NEW t \in DOMAIN templates, TemplateWriters(t) PROVE SettingsInv'
    BY <2>1, SaveSteps, CatalogInvSteps, RebaseSteps, OwnSteps DEF TemplateWriters
  <2> QED
    BY <1>2, <2>1, SaveSteps, CatalogInvSteps, RebaseSteps, OwnSteps, SaveCommits DEF SettingsNext
<1> QED
  BY <1>1, <1>2

LEMMA SettingsStarts == SettingsInit => SettingsInv
<1> SUFFICES ASSUME SettingsInit PROVE SettingsInv
  OBVIOUS
<1>1. /\ templates = FirstTemplates /\ products = FirstProducts /\ templates \in Seq(Template)
      /\ products \in [Product -> [material : Material, source : Nat \X Nat]]
      /\ \A q \in Product : products[q].source[1] \in DOMAIN templates
      /\ IsFiniteSet(Product)
      /\ renames = <<>> /\ saves = {} /\ ownSave = NoWork /\ rebase = NoWork
      /\ calibration = NoWork /\ settingsEdits = 0
  BY SettingsAssumption DEF SettingsInit
<1>2. ASSUME NEW t \in DOMAIN templates
      PROVE  templates[t].material \in Material /\ templates[t].nozzle \in Nozzle
  <2>1. templates[t] \in Template
    BY <1>1
  <2> QED
    BY <2>1 DEF Template
<1>3. \A q \in Product : InUse(products[q].source)
  BY <1>1 DEF InUse
<1>4. catalog \in Seq(Choice) /\ DOMAIN catalog = DOMAIN templates
      /\ \A t \in DOMAIN templates : catalog[t].live /\ catalog[t].name = templates[t].material
  <2>1. catalog = [i \in DOMAIN templates |-> [name |-> templates[i].material, live |-> TRUE]]
    BY <1>1 DEF SettingsInit
  <2>2. DOMAIN templates = 1 .. Len(templates) /\ Len(templates) \in Nat
    BY <1>1
  <2>3. \A t \in DOMAIN templates : [name |-> templates[t].material, live |-> TRUE] \in Choice
    BY <1>2 DEF Choice
  <2> QED
    BY <2>1, <2>2, <2>3
<1>5. PICK f : f = [q \in Product |->
            [product |-> q, nozzle |-> templates[products[q].source[1]].nozzle,
             base |-> products[q].source, override |-> Inherit, published |-> TRUE, by |-> "own"]]
  OBVIOUS
<1>6. PICK rows : rows = {f[q] : q \in DOMAIN f}
  OBVIOUS
<1>7. snapshots = SetToSeq(rows)
  <2>1. rows = {[product |-> q, nozzle |-> templates[products[q].source[1]].nozzle,
                 base |-> products[q].source, override |-> Inherit,
                 published |-> TRUE, by |-> "own"] : q \in Product}
    BY <1>5, <1>6
  <2> QED
    BY <2>1 DEF SettingsInit
<1>8. ASSUME NEW q \in Product PROVE f[q] \in Snapshot /\ InUse(f[q].base)
  BY <1>1, <1>2, <1>3, <1>5 DEF Snapshot, InUse
<1>9. rows \in SUBSET Snapshot /\ (\A r \in rows : InUse(r.base)) /\ IsFiniteSet(rows)
  <2>0. IsFiniteSet(DOMAIN f)
    BY <1>1, <1>5
  <2>1. IsFiniteSet(rows)
    BY <1>6, <2>0, FiniteImage
  <2> QED
    BY <1>5, <1>6, <1>8, <2>1
<1>10. snapshots \in Seq(rows)
  BY <1>7, <1>9, InSomeOrder
<1>11. snapshots \in Seq(Snapshot) /\ \A i \in DOMAIN snapshots : InUse(snapshots[i].base)
  BY <1>9, <1>10
<1>12. renames \in Seq(Rename) /\ DOMAIN renames = {}
  BY <1>1
<1>13. SettingsShapes
  BY <1>1, <1>3, <1>4, <1>11, <1>12 DEF SettingsShapes
<1>14. ChoicesCoverTemplates
  BY <1>4 DEF ChoicesCoverTemplates, Live
<1> QED
  BY <1>1, <1>13, <1>14 DEF SettingsInv, SavesHoldTemplates, SavesStand

LEMMA SettingsSafety == SettingsSpec => []SettingsInv
<1> QED
  BY SettingsStarts, SettingsStep, PTL DEF SettingsSpec

LEMMA SettingsInvTypes == SettingsInv => SettingsTypeOK
<1> SUFFICES ASSUME SettingsInv PROVE SettingsTypeOK
  OBVIOUS
<1>1. ASSUME NEW id \in DOMAIN catalog
      PROVE  catalog[id].name \in Material /\ catalog[id].live \in BOOLEAN
  <2>1. catalog[id] \in Choice
    BY DEF SettingsInv, SettingsShapes
  <2> QED
    BY <2>1 DEF Choice
<1>2. \A s \in saves : s.sources \cup s.left \subseteq DOMAIN snapshots
  BY DEF SettingsInv, SettingsShapes, SaveShape
<1> QED
  BY <1>1, <1>2 DEF SettingsInv, SettingsShapes, RebaseShape, SettingsTypeOK

\* Every name, template, row and reference of material types, templates and profiles is of
\* its kind, with any number of operators, saves and changes of template at once.
THEOREM SettingsTypes == SettingsSpec => []SettingsTypeOK
<1> QED
  BY SettingsSafety, SettingsInvTypes, PTL

\* Whatever renames, deletions, saves, imports and seeding overlap, the material type of an
\* active template is among the choices.
THEOREM ChoicesStayComplete == SettingsSpec => []ChoicesCoverTemplates
<1>1. SettingsInv => ChoicesCoverTemplates
  BY DEF SettingsInv
<1> QED
  BY <1>1, SettingsSafety, PTL

\* The seeding at every poll adds a family to the choices, the configured one or one that
\* derives from a template, only if no operator has ever renamed or deleted it.
THEOREM SeedingStaysOut == SettingsSpec => SeedingKeepsOut
<1>1. ASSUME SettingsInv, [SettingsNext]_settingsVars, NEW id \in DOMAIN catalog' \ DOMAIN catalog,
             settingsEdits' = settingsEdits, saves' = saves
      PROVE  /\ \A old \in DOMAIN catalog : catalog[old].name # catalog'[id].name
             /\ \A k \in DOMAIN renames : renames[k].before # catalog'[id].name
  <2>1. catalog \in Seq(Choice) /\ settingsEdits \in Nat
    BY <1>1 DEF SettingsInv, SettingsShapes
  <2>2. catalog' # catalog /\ ~Edit
    BY <1>1, <2>1 DEF Edit
  <2>3. \A s \in saves : ~CommitSave(s)
    BY <1>1 DEF CommitSave
  <2>4. Seed
    <3>1. ASSUME NEW t \in DOMAIN templates PROVE ~TemplateWriters(t)
      BY <2>2 DEF TemplateWriters, SaveTemplate, CreateRevision, ImportOver, UpdateTemplate,
                  DeleteTemplate, BeginRebase, CreateFromTemplate, CreateProfile, Owned
    <3>2. /\ \A m \in Material, n \in Nozzle : ~CreateTemplate(m, n)
          /\ \A m \in Material : ~CreateType(m)
          /\ \A k \in DOMAIN catalog : ~DeleteType(k) /\ \A m \in Material : ~RenameType(k, m)
          /\ \A i \in DOMAIN snapshots, v \in Value, checked \in BOOLEAN : ~BeginOwnSave(i, v, checked)
          /\ \A i \in DOMAIN snapshots : \A r \in DOMAIN templates[snapshots[i].base[1]].revisions :
                ~ConfirmBase(i, r)
          /\ \A q \in Product, n \in Nozzle : ~StartCalibration(q, n)
          /\ \A v \in Value : ~ApplyCalibration(v) /\ ~CalibrateTemplate(v)
      BY <2>2 DEF CreateTemplate, CreateType, DeleteType, RenameType, BeginOwnSave, ConfirmBase,
                  StartCalibration, ApplyCalibration, CalibrateTemplate
    <3>3. /\ \A s \in saves : ~SaveFails(s)
          /\ \A collides \in BOOLEAN : ~CommitOwnSave(collides)
          /\ ~PlanRebase /\ ~CommitRebase /\ ~RebaseFails
      BY <2>2 DEF SaveFails, CommitOwnSave, PlanRebase, CommitRebase, RebaseFails
    <3>4. ~UNCHANGED settingsVars
      BY <2>2 DEF settingsVars
    <3> QED
      BY <1>1, <2>3, <3>1, <3>2, <3>3, <3>4 DEF SettingsNext
  <2>5. LET m == catalog'[id].name IN Sown(m) /\ ~Live(m) /\ ~WasDeleted(m)
    BY <1>1, <2>4, SeedingAdds
  <2>6. \A k \in DOMAIN renames : renames[k].before # catalog'[id].name
    BY <1>1, <2>5, SownNames DEF SettingsInv
  <2> QED
    BY <2>5, <2>6 DEF Live, WasDeleted
<1>2. SettingsInv /\ [SettingsNext]_settingsVars
      => [settingsEdits' = settingsEdits /\ saves' = saves
          => \A id \in DOMAIN catalog' \ DOMAIN catalog :
                /\ \A old \in DOMAIN catalog : catalog[old].name # catalog'[id].name
                /\ \A k \in DOMAIN renames : renames[k].before # catalog'[id].name]_settingsVars
  BY <1>1
<1> QED
  BY <1>2, SettingsSafety, PTL DEF SettingsSpec, SeedingKeepsOut

\* A product that was moved to another template is not taken back by the copying of rows
\* in a save of the template it left.
THEOREM ChangesStand == SettingsSpec => RebaseStands
<1>1. ASSUME SettingsInv, [SettingsNext]_settingsVars, NEW s \in saves \ saves', NEW i \in Currents,
             NEW j \in DOMAIN snapshots' \ DOMAIN snapshots,
             ~s.amid, snapshots[i].by = "rebase", snapshots'[j].by = "template",
             <<snapshots'[j].product, snapshots'[j].nozzle>>
             = <<snapshots[i].product, snapshots[i].nozzle>>
      PROVE  snapshots'[j].base[1] = snapshots[i].base[1]
  <2>1. ~(saves \subseteq saves') /\ snapshots' # snapshots
    BY <1>1
  <2>2. \E u \in saves : CommitSave(u)
    <3>0. \A t, kind, v, m, n : ~BeginSave(t, kind, v, m, n)
      BY <2>1 DEF BeginSave
    <3>1. ASSUME NEW t \in DOMAIN templates PROVE ~TemplateWriters(t)
      BY <2>1, <3>0 DEF TemplateWriters, SaveTemplate, CreateRevision, ImportOver, UpdateTemplate,
                  DeleteTemplate, BeginRebase, CreateFromTemplate, CreateProfile, Owned
    <3>2. /\ \A m \in Material, n \in Nozzle : ~CreateTemplate(m, n)
          /\ \A m \in Material : ~CreateType(m)
          /\ \A id \in DOMAIN catalog : ~DeleteType(id) /\ \A m \in Material : ~RenameType(id, m)
          /\ \A k \in DOMAIN snapshots, v \in Value, checked \in BOOLEAN : ~BeginOwnSave(k, v, checked)
          /\ \A k \in DOMAIN snapshots : \A r \in DOMAIN templates[snapshots[k].base[1]].revisions :
                ~ConfirmBase(k, r)
          /\ \A q \in Product, n \in Nozzle : ~StartCalibration(q, n)
          /\ \A v \in Value : ~ApplyCalibration(v) /\ ~CalibrateTemplate(v)
      BY <2>1, <3>0 DEF CreateTemplate, CreateType, DeleteType, RenameType, BeginOwnSave, ConfirmBase,
                  StartCalibration, ApplyCalibration, CalibrateTemplate
    <3>3. /\ \A u \in saves : ~SaveFails(u)
          /\ \A collides \in BOOLEAN : ~CommitOwnSave(collides)
          /\ ~PlanRebase /\ ~CommitRebase /\ ~RebaseFails /\ ~Seed
      BY <2>1 DEF SaveFails, CommitOwnSave, PlanRebase, CommitRebase, RebaseFails, Seed
    <3>4. ~UNCHANGED settingsVars
      BY <2>1 DEF settingsVars
    <3> QED
      BY <1>1, <3>1, <3>2, <3>3, <3>4 DEF SettingsNext
  <2>3. CommitSave(s) /\ s \in saves
    <3>1. PICK u \in saves : CommitSave(u)
      BY <2>2
    <3>2. saves' = saves \ {u}
      BY <3>1 DEF CommitSave
    <3> QED
      BY <1>1, <3>1, <3>2
  <2>4. PICK k \in s.sources :
           /\ snapshots'[j].product = snapshots[k].product /\ snapshots'[j].nozzle = s.nozzle
           /\ snapshots'[j].base[1] = s.t
    BY <1>1, <2>3, SaveCommits
  <2>5. CurrentRow(snapshots, i) /\ i \in DOMAIN snapshots
    BY <1>1, CurrentsAre DEF SettingsInv, SettingsShapes, CurrentRow
  <2>6. snapshots[i].product = snapshots[k].product /\ snapshots[i].nozzle = s.nozzle
    BY <1>1, <2>4
  <2>7. snapshots[i].base[1] = s.t
    BY <1>1, <2>3, <2>5, <2>6 DEF SettingsInv, SavesStand
  <2> QED
    BY <2>4, <2>7
<1>2. ASSUME SettingsInv, [SettingsNext]_settingsVars
      PROVE  \A s \in saves \ saves' : \A i \in Currents : \A j \in DOMAIN snapshots' \ DOMAIN snapshots :
                /\ ~s.amid /\ snapshots[i].by = "rebase" /\ snapshots'[j].by = "template"
                /\ <<snapshots'[j].product, snapshots'[j].nozzle>>
                   = <<snapshots[i].product, snapshots[i].nozzle>>
                => snapshots'[j].base[1] = snapshots[i].base[1]
  BY <1>1, <1>2
<1> QED
  BY <1>2, SettingsSafety, PTL DEF SettingsSpec, RebaseStands

-----------------------------------------------------------------------------
(* MCWorkshop: the parts side by side.                                     *)

WorkshopInv ==
    /\ CuraInv /\ SettingsInv /\ CalibrationInv /\ BackupInv /\ RecoveryInv /\ PublicationInv
    /\ AlertsInv

LEMMA WorkshopStarts == WorkshopInit => WorkshopInv
<1> SUFFICES ASSUME WorkshopInit PROVE WorkshopInv
  OBVIOUS
<1>1. /\ CuraInit /\ SettingsInit /\ CalibrationInit /\ BackupInit /\ RecoveryInit
      /\ PublicationInit /\ AlertsInit
  BY DEF WorkshopInit
<1>2. CalibrationInv
  BY <1>1 DEF CalibrationInit, CalibrationInv, CalibrationTypeOK, SuggestionsFit, NewSteps, StepRow, StepStatus
<1> QED
  BY <1>1, <1>2, CuraInvInit, SettingsStarts, BackupInvInit, RecoveryInvInit, PublicationInvInit,
     AlertsInvInit DEF WorkshopInv

LEMMA WorkshopStep ==
  ASSUME WorkshopInv, [WorkshopNext]_workshopVars
  PROVE  WorkshopInv'
<1>1. /\ [CuraNext]_vars /\ [SettingsNext]_settingsVars /\ [CalibrationNext]_calibrationVars
      /\ [BackupNext]_backupVars /\ [RecoveryNext]_recoveryVars /\ [PublicationNext]_googleVars
      /\ [AlertsNext]_alertVars
  <2>1. CASE UNCHANGED workshopVars
    BY <2>1 DEF workshopVars
  <2>2. CASE WorkshopNext
    BY <2>2 DEF WorkshopNext, besideCura
  <2> QED
    BY <2>1, <2>2
<1>2. RecoveryInv'
  BY <1>1, RecoveryShapesStep, NewestIsBestStep DEF WorkshopInv, RecoveryInv
<1> QED
  BY <1>1, <1>2, CuraStep, SettingsStep, CalibrationInvStep, BackupInvStep, PublicationInvStep,
     AlertsInvStep DEF WorkshopInv

\* The seven modules run side by side, as the run does, keep the types of all.
THEOREM WorkshopTypes == WorkshopSpec => []WorkshopTypeOK
<1>1. WorkshopInv => WorkshopTypeOK
  <2> SUFFICES ASSUME WorkshopInv PROVE WorkshopTypeOK
    OBVIOUS
  <2>1. CuraTypeOK /\ SettingsTypeOK /\ CalibrationTypeOK
    BY SettingsInvTypes DEF WorkshopInv, CuraInv, CalibrationInv
  <2>2. BackupTypeOK /\ RecoveryTypeOK
    BY DEF WorkshopInv, BackupInv, BackupShapes, RecoveryInv, RecoveryShapes
  <2>3. PublicationTypeOK
    BY DEF WorkshopInv, PublicationInv, PublicationShapes, Connection, Holder, WorkbookExists,
           PublicationTypeOK
  <2>4. AlertsTypeOK
    BY DEF WorkshopInv, AlertsInv, AlertShapes, AlertsTypeOK, Plant, Evaluations, Readership
  <2> QED
    BY <2>1, <2>2, <2>3, <2>4 DEF WorkshopTypeOK
<1> QED
  BY <1>1, WorkshopStarts, WorkshopStep, PTL DEF WorkshopSpec
=============================================================================
