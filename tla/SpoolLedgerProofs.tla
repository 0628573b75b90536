------------------------- MODULE SpoolLedgerProofs -------------------------
(***************************************************************************)
(* Proofs about SpoolLedger, for every number of dispatchers, every        *)
(* capacity and set of tares, and every number of weighings, edits, prints *)
(* and grams extruded.                                                     *)
(***************************************************************************)
EXTENDS SpoolLedger, SequenceTheorems, TLAPS

\* Every step is one of the actions, named here once for the case splits.
Step ==
    \/ \E gross \in Nat : Weigh(gross)
    \/ \E t \in Tare, v \in Mass \cup {Keep}, shelve \in BOOLEAN : UpdateSpool(t, v, shelve)
    \/ Load
    \/ Unload
    \/ StartPrint
    \/ Extrude
    \/ EndPrint
    \/ Capture
    \/ NeverCaptured
    \/ Observe
    \/ ObserveFails
    \/ ApplyTerminal
    \/ \E w \in Worker : BeginCreate(w)
    \/ \E w \in Worker : FinishCreate(w)
    \/ \E w \in Worker : BeginAdjust(w)
    \/ \E w \in Worker : FinishAdjust(w)
    \/ \E w \in Worker : AdjustFails(w)
    \/ \E w \in Worker : BeginReconcile(w)
    \/ \E w \in Worker : ImportUsage(w)
    \/ \E w \in Worker : ImportClashes(w)
    \/ \E w \in Worker : ImportNothing(w)
    \/ AdjustNothing
    \/ RetryCorrection

LEMMA NextIsStep == TypeOK /\ Next => Step
  <1> SUFFICES ASSUME TypeOK, Next PROVE Step
    OBVIOUS
  <1>1. Mass \cup {Capacity + t : t \in Tare} \subseteq Nat
    BY LedgerAssumption DEF Mass
  <1>2. {archived, FALSE} \subseteq BOOLEAN
    BY DEF TypeOK
  <1> QED
    BY <1>1, <1>2 DEF Next, Step

\* Spoolman has a record of every spool that can be printed from.
RemoteKnown ==
    /\ loaded => linked
    /\ linked => remote # NoRecord
    /\ print.stage = "running" => loaded

\* An observer pass loads balances that agree, so what it writes agrees.
ObserverAgrees == observer # Nothing => observer.expected = observer.effective

LedgerInv == TypeOK /\ RemoteKnown /\ BalancesAgree /\ ObserverAgrees

LEMMA InitInv == Init => LedgerInv
  <1> SUFFICES ASSUME Init PROVE LedgerInv
    OBVIOUS
  <1>1. expected \in Mass /\ effective \in Mass /\ 0 \in Mass /\ tare \in Nat
    BY LedgerAssumption DEF Init, Mass
  <1>2. /\ reading \in Nat \cup {NoReading}
        /\ {loaded, archived, linked, late, blurred} \subseteq BOOLEAN
        /\ corrections \in Seq({"open", "dead", "done"})
    <2>1. reading \in Nat \cup {NoReading}
      BY <1>1, LedgerAssumption DEF Init
    <2>2. {loaded, archived, linked, late, blurred} \subseteq BOOLEAN
      BY DEF Init
    <2>3. corrections \in Seq({"open", "dead", "done"})
      BY DEF Init
    <2> QED
      BY <2>1, <2>2, <2>3
  <1>3. task \in [Worker -> Task \cup {Nothing}] /\ observer \in LoadedSpool \cup {Nothing}
    BY DEF Init
  <1>4. print \in PrintState
    BY <1>1 DEF Init, NoPrint, PrintState
  <1>5. spent \in 0..MaxSpent /\ statements \in 0..MaxStatements /\ prints \in 0..MaxPrints
    BY LedgerAssumption DEF Init
  <1>6. OrderOK
    BY DEF Init, OrderOK
  <1>7. TypeOK
    BY <1>1, <1>2, <1>3, <1>4, <1>5, <1>6, LedgerAssumption DEF TypeOK, Init
  <1>8. RemoteKnown /\ BalancesAgree /\ ObserverAgrees
    BY DEF Init, NoPrint, RemoteKnown, BalancesAgree, ObserverAgrees
  <1> QED
    BY <1>7, <1>8 DEF LedgerInv

\* What a handler carries from its read to its write.
LEMMA TaskFacts ==
  ASSUME TypeOK, NEW w \in Worker, task[w] # Nothing
  PROVE  /\ task[w].job \in {"create", "adjust"} => task[w].mass \in Mass
         /\ task[w].job = "create" => task[w].version \in Nat
         /\ task[w].job = "adjust" => task[w].for \in Nat
         /\ task[w].job = "reconcile" => task[w].mass \in Mass \cup {NoRecord}
  BY DEF TypeOK, Task

LEMMA TaskMass ==
  ASSUME TypeOK, NEW w \in Worker, task[w] # Nothing, task[w].mass # NoRecord
  PROVE  task[w].mass \in Nat
  BY LedgerAssumption DEF TypeOK, Task, Mass

\* Balances are nonnegative integers.
LEMMA MassFacts ==
  /\ Mass \subseteq Nat
  /\ NoRecord \notin Mass
  /\ Keep \notin Mass
  /\ 0 \in Mass
  BY LedgerAssumption DEF Mass
\* The status of one correction changes.
LEMMA Settled ==
  ASSUME TypeOK, NEW i, NEW s \in {"open", "dead", "done"},
         corrections' = [corrections EXCEPT ![i] = s]
  PROVE  /\ corrections' \in Seq({"open", "dead", "done"})
         /\ Len(corrections') = Len(corrections)
  <1>1. corrections \in Seq({"open", "dead", "done"})
    BY DEF TypeOK
  <1>2. CASE i \in 1..Len(corrections)
    BY <1>1, <1>2, ExceptSeq
  <1>3. CASE i \notin 1..Len(corrections)
    <2>1. i \notin DOMAIN corrections
      BY <1>1, <1>3
    <2>2. corrections' = corrections
      BY <1>1, <2>1
    <2> QED
      BY <1>1, <2>2
  <1> QED
    BY <1>2, <1>3

LEMMA NonNegativeFacts ==
  /\ \A n \in Int : NonNegative(n) \in Nat
  /\ \A n \in Int, m \in Mass : n <= m => NonNegative(n) \in Mass
  BY LedgerAssumption DEF NonNegative, Mass

\* Versions only grow, and stay numbers when they are counted anew.
LEMMA ArchivedFacts ==
  ASSUME NEW v \in Nat, NEW was, NEW left, NEW on
  PROVE  Archived(v, was, left, on) \in Nat
  BY DEF Archived

LEMMA VersionsKeep ==
  ASSUME NEW v \in Nat, NEW h \in Nat, Versions(v, h)
  PROVE  version' \in Nat /\ top' \in Nat
  <1>1. NonNegative(h - v) \in Nat
    BY NonNegativeFacts
  <1> QED
    BY <1>1 DEF Versions

LEMMA ChangedKeeps ==
  ASSUME OrderOK, NEW v \in Nat, Changed(v), Len(corrections') = Len(corrections)
  PROVE  OrderOK'
  BY VersionsKeep DEF Changed, OrderOK

LEMMA CorrectKeeps ==
  ASSUME TypeOK, NEW v \in Nat, Correct(v)
  PROVE  OrderOK' /\ corrections' \in Seq({"open", "dead", "done"})
  <1>1. corrections \in Seq({"open", "dead", "done"}) /\ OrderOK
    BY DEF TypeOK
  <1>2. /\ corrections' \in Seq({"open", "dead", "done"})
        /\ Len(corrections') = Len(corrections) + 1 /\ Len(corrections) \in Nat
    BY <1>1 DEF Correct
  <1>3. version' \in Nat /\ top' \in Nat
    <2> DEFINE h == IF v < top THEN top ELSE v
    <2>1. h \in Nat /\ Versions(v, h)
      BY <1>1 DEF Correct, OrderOK
    <2> HIDE DEF h
    <2> QED
      BY <2>1, VersionsKeep
  <1>4. latest' \in 0..Len(corrections')
    BY <1>1, <1>2 DEF Correct, OrderOK
  <1> QED
    BY <1>2, <1>3, <1>4 DEF OrderOK

LEMMA LeastFacts ==
  \A m \in Mass, n \in Nat : Least(m, n) \in Mass
  BY LedgerAssumption DEF Least, Mass

LEMMA PrintFacts ==
  /\ NoPrint \in PrintState /\ NoPrint.stage = "none"
  /\ [NoPrint EXCEPT !.stage = "running"] \in PrintState
  /\ \A p \in PrintState, m \in Mass :
        LET c == [p EXCEPT !.captured = TRUE, !.start = m, !.shift = 0] IN
        c \in PrintState /\ c.stage = p.stage
  <1>1. NoPrint \in PrintState /\ NoPrint.stage = "none"
    BY MassFacts DEF NoPrint, PrintState
  <1>2. [NoPrint EXCEPT !.stage = "running"] \in PrintState
    BY <1>1 DEF PrintState
  <1>3. ASSUME NEW p \in PrintState, NEW m \in Mass
        PROVE  LET c == [p EXCEPT !.captured = TRUE, !.start = m, !.shift = 0] IN
               c \in PrintState /\ c.stage = p.stage
    <2> DEFINE a == [p EXCEPT !.captured = TRUE]
               b == [a EXCEPT !.start = m]
    <2>1. a \in PrintState /\ a.stage = p.stage
      BY DEF PrintState
    <2> HIDE DEF a
    <2>2. b \in PrintState /\ b.stage = p.stage
      BY <2>1 DEF PrintState
    <2> HIDE DEF b
    <2>3. [b EXCEPT !.shift = 0] \in PrintState /\ [b EXCEPT !.shift = 0].stage = p.stage
      BY <2>2 DEF PrintState
    <2> QED
      BY <2>3 DEF a, b
  <1> QED
    BY <1>1, <1>2, <1>3

LEMMA RestateCounts ==
  ASSUME LedgerInv, Restate
  PROVE  statements' \in 0..MaxStatements
  <1>1. statements \in 0..MaxStatements
    BY DEF LedgerInv, TypeOK
  <1> QED
    BY <1>1, LedgerAssumption DEF Restate

\* The larger actions keep the invariant, one lemma for each.
LEMMA WeighKeeps ==
  ASSUME LedgerInv, NEW gross \in Nat, Weigh(gross)
  PROVE  LedgerInv'
  <1>1. /\ expected' \in Mass /\ effective' = expected'
        /\ reading' \in Nat /\ adjusted' = 0
    BY DEF Weigh
  <1>2. archived' \in BOOLEAN
    BY DEF Weigh, ArchiveEmpty
  <1>3. statements' \in 0..MaxStatements
    BY RestateCounts DEF Weigh
  <1>4. corrections' \in Seq({"open", "dead", "done"}) /\ OrderOK'
    <2>1. version + 1 \in Nat
      BY DEF LedgerInv, TypeOK, OrderOK
    <2> QED
      BY <2>1, ArchivedFacts, CorrectKeeps DEF Weigh, LedgerInv
  <1>5. observer' \in LoadedSpool \cup {Nothing} /\ ObserverAgrees'
    BY DEF Weigh, LoadedSpool, ObserverAgrees, LedgerInv, TypeOK
  <1>6. UNCHANGED <<tare, usageKeys, loaded, linked, remote, task, print, spent, late, prints>>
        /\ blurred' \in BOOLEAN
    BY DEF Weigh, remoteVars
  <1> QED
    BY <1>1, <1>2, <1>3, <1>4, <1>5, <1>6 DEF LedgerInv, TypeOK, RemoteKnown, BalancesAgree, ObserverAgrees

LEMMA RecalculatedFacts ==
  ASSUME LedgerInv, NEW t \in Tare
  PROVE  /\ Recalculated(t) \in Nat
         /\ reading = NoReading => Recalculated(t) = effective
  <1>1. effective \in Nat /\ adjusted \in Int /\ t \in Int /\ reading \in Nat \cup {NoReading}
    BY MassFacts, LedgerAssumption DEF LedgerInv, TypeOK
  <1>2. reading \in Nat => reading - t + adjusted \in Int
    BY <1>1
  <1> QED
    BY <1>1, <1>2, NonNegativeFacts DEF Recalculated

LEMMA UpdateKeeps ==
  ASSUME LedgerInv, NEW t \in Tare, NEW v \in Mass \cup {Keep}, NEW shelve \in BOOLEAN,
         UpdateSpool(t, v, shelve)
  PROVE  LedgerInv'
  <1> DEFINE base == Recalculated(t)
             left == IF v = Keep THEN base ELSE v
  <1>1. base \in Nat /\ (reading = NoReading => base = effective)
    BY RecalculatedFacts
  <1> HIDE DEF base
  <1>2. left \in Nat
    BY <1>1, MassFacts
  <1>3. left <= Capacity
    BY DEF UpdateSpool, base
  <1>4. left \in Mass
    BY <1>2, <1>3, LedgerAssumption DEF Mass
  <1>5. effective' = left /\ expected' = IF reading = NoReading /\ left = base THEN expected ELSE left
    BY DEF UpdateSpool, base
  <1>6. effective' \in Mass /\ expected' = effective'
    BY <1>1, <1>4, <1>5 DEF LedgerInv, BalancesAgree
  <1>7. adjusted' \in Int
    <2>1. adjusted' = IF reading = NoReading THEN 0 ELSE adjusted + (left - base)
      BY DEF UpdateSpool, Record, Counted, base
    <2> QED
      BY <1>1, <1>2, <2>1 DEF LedgerInv, TypeOK
  <1>8. archived' \in BOOLEAN /\ blurred' \in BOOLEAN
    BY DEF UpdateSpool, ArchiveEmpty
  <1>9. print' \in PrintState /\ print'.stage = print.stage
    <2>1. print \in PrintState /\ effective \in Nat
      BY MassFacts DEF LedgerInv, TypeOK
    <2>2. print' = [print EXCEPT !.shift = IF print.captured THEN @ + base - effective ELSE 0]
      BY DEF UpdateSpool, base
    <2> QED
      BY <1>1, <2>1, <2>2 DEF PrintState
  <1>10. corrections' \in Seq({"open", "dead", "done"}) /\ OrderOK'
    <2> DEFINE after == Archived(version + 1, shelve, left, loaded)
    <2>1. after \in Nat
      <3>1. version + 1 \in Nat
        BY DEF LedgerInv, TypeOK, OrderOK
      <3> QED
        BY <3>1, ArchivedFacts
    <2>2. Correct(after) \/ (Changed(after) /\ UNCHANGED corrections)
      BY ONLY UpdateSpool(t, v, shelve) DEF UpdateSpool, base
    <2> HIDE DEF after
    <2> QED
      BY <2>1, <2>2, CorrectKeeps, ChangedKeeps DEF LedgerInv, TypeOK
  <1>11. statements' \in 0..MaxStatements
    BY RestateCounts DEF UpdateSpool
  <1>12. UNCHANGED <<reading, usageKeys, loaded, linked, remote, task, observer,
                     spent, late, prints>>
         /\ tare' = t
    BY DEF UpdateSpool, remoteVars
  <1> QED
    BY <1>6, <1>7, <1>8, <1>9, <1>10, <1>11, <1>12
    DEF LedgerInv, TypeOK, RemoteKnown, BalancesAgree, ObserverAgrees

LEMMA ExtrudeKeeps ==
  ASSUME LedgerInv, Extrude
  PROVE  LedgerInv'
  <1>1. print' \in PrintState /\ print'.stage = print.stage
    <2>1. print \in PrintState /\ print' = [print EXCEPT !.used = @ + 1]
      BY DEF Extrude, LedgerInv, TypeOK
    <2> QED
      BY <2>1 DEF PrintState
  <1>2. remote \in Mass
    BY DEF Extrude, LedgerInv, TypeOK, RemoteKnown
  <1>3. remote' \in Mass
    BY <1>2, MassFacts, NonNegativeFacts DEF Extrude
  <1>4. spent' \in 0..MaxSpent
    BY LedgerAssumption DEF Extrude, LedgerInv, TypeOK
  <1>5. UNCHANGED <<expected, effective, reading, tare, adjusted, usageKeys, loaded, archived,
                    linked, corrections, task, observer, late, blurred, statements, prints>>
        /\ UNCHANGED <<version, latest, top>>
    BY DEF Extrude, balance, basis, shelf, counts
  <1> QED
    BY <1>1, <1>3, <1>4, <1>5, MassFacts DEF OrderOK, LedgerInv, TypeOK, RemoteKnown, BalancesAgree, ObserverAgrees

LEMMA ApplyTerminalKeeps ==
  ASSUME LedgerInv, ApplyTerminal
  PROVE  LedgerInv'
  <1> DEFINE target == NonNegative(print.start + print.shift - print.used)
             left == Corrected(observer.effective, target)
  <1>1. observer.effective \in Mass /\ observer.expected = observer.effective
    BY DEF ApplyTerminal, LedgerInv, TypeOK, ObserverAgrees, LoadedSpool
  <1>2. print.start + print.shift - print.used \in Int
    <2>1. print.start \in Nat /\ print.shift \in Int /\ print.used \in Nat
      BY MassFacts DEF LedgerInv, TypeOK, PrintState
    <2> QED
      BY <2>1
  <1>3. target \in Nat /\ left \in Mass
    BY <1>1, <1>2, NonNegativeFacts, LeastFacts DEF Corrected
  <1>4. print' \in PrintState /\ print'.stage = "none" /\ observer' = Nothing
    BY PrintFacts DEF ApplyTerminal
  <1>5. UNCHANGED <<reading, tare, loaded, spent, late, usageKeys, linked, remote, task,
                    statements, prints>>
    BY DEF ApplyTerminal, balance, basis, past, remoteVars, counts
  <1>6. CASE print.used = 0
    <2>1. UNCHANGED <<expected, effective, adjusted, archived, corrections, blurred>>
          /\ Changed(version)
      BY <1>6 DEF ApplyTerminal, balance, basis, past
    <2>2. OrderOK'
      BY <2>1, ChangedKeeps DEF LedgerInv, TypeOK, OrderOK
    <2> QED
      BY <1>4, <1>5, <2>1, <2>2 DEF LedgerInv, TypeOK, RemoteKnown, BalancesAgree, ObserverAgrees
  <1>7. CASE print.used # 0
    <2>1. /\ expected' = IF left = observer.expected THEN expected ELSE left
          /\ effective' = IF left = observer.effective THEN effective ELSE left
      BY <1>1, <1>7 DEF ApplyTerminal, CorrectedExpected
    <2>2. adjusted' \in {0, adjusted + (left - observer.effective), adjusted}
      BY <1>7 DEF ApplyTerminal, Record
    <2>3. adjusted' \in Int
      <3>1. adjusted \in Int /\ left \in Int /\ observer.effective \in Int
        <4>1. adjusted \in Int
          BY DEF LedgerInv, TypeOK
        <4>2. \A m \in Mass : m \in Int
          BY MassFacts
        <4> QED
          BY <1>1, <1>3, <4>1, <4>2
      <3>2. \A a, l, e \in Int : a + (l - e) \in Int
        OBVIOUS
      <3> HIDE DEF left
      <3>3. adjusted + (left - observer.effective) \in Int
        BY <3>1, <3>2
      <3> QED
        BY <2>2, <3>1, <3>3
    <2>4. corrections' \in Seq({"open", "dead", "done"}) /\ OrderOK'
      <3> DEFINE after == Archived(observer.version + 1, observer.archived, left, observer.loaded)
      <3>1. observer.version + 1 \in Nat
        BY DEF ApplyTerminal, LedgerInv, TypeOK, LoadedSpool
      <3>2. after \in Nat
        BY <3>1, ArchivedFacts
      <3>3. Correct(after)
        BY <1>7 DEF ApplyTerminal
      <3> HIDE DEF after
      <3> QED
        BY <3>2, <3>3, CorrectKeeps DEF LedgerInv
    <2>5. archived' \in BOOLEAN /\ blurred' \in BOOLEAN
      BY <1>7 DEF ApplyTerminal
    <2>6. expected' \in Mass /\ effective' \in Mass /\ expected' = effective'
      BY <1>1, <1>3, <2>1 DEF LedgerInv, TypeOK, BalancesAgree
    <2> QED
      BY <1>4, <1>5, <2>3, <2>4, <2>5, <2>6 DEF LedgerInv, TypeOK, RemoteKnown, BalancesAgree, ObserverAgrees
  <1> QED
    BY <1>6, <1>7

LEMMA ImportKeeps ==
  ASSUME LedgerInv, NEW w \in Worker, ImportUsage(w)
  PROVE  LedgerInv'
  <1>1. task[w].mass \in Mass
    BY TaskFacts DEF ImportUsage, Idle, Imports, LedgerInv
  <1>2. expected \in Mass /\ expected = effective
    BY DEF LedgerInv, TypeOK, BalancesAgree
  <1>3. expected' = task[w].mass /\ effective' = NonNegative(effective + (task[w].mass - expected))
    BY DEF ImportUsage
  <1>4. effective + (task[w].mass - expected) = task[w].mass
    BY <1>1, <1>2, MassFacts
  <1>5. effective' = task[w].mass
    <2>1. \A n \in Nat : NonNegative(n) = n
      BY DEF NonNegative
    <2>2. effective' = NonNegative(task[w].mass) /\ task[w].mass \in Nat
      BY <1>1, <1>3, <1>4, MassFacts
    <2> QED
      BY <2>1, <2>2
  <1>6. usageKeys' \subseteq Mass \X Mass
    BY <1>1, <1>2 DEF ImportUsage, UsageKey, LedgerInv, TypeOK
  <1>7. adjusted' \in Int
    <2>1. adjusted' = IF reading = NoReading THEN 0 ELSE adjusted + (task[w].mass - expected)
      BY DEF ImportUsage, Record
    <2> QED
      BY <1>1, <1>2, <2>1, MassFacts DEF LedgerInv, TypeOK
  <1>8. archived' \in BOOLEAN
    BY DEF ImportUsage, ArchiveEmpty
  <1>9. task' \in [Worker -> Task \cup {Nothing}]
    BY DEF ImportUsage, Finish, LedgerInv, TypeOK
  <1>10. UNCHANGED <<reading, tare, loaded, linked, remote, corrections, print, observer,
                     spent, late, blurred, statements, prints>>
    BY DEF ImportUsage, remoteVars, counts
  <1>11. OrderOK'
    <2>1. version + 1 \in Nat /\ OrderOK
      BY DEF LedgerInv, TypeOK, OrderOK
    <2> QED
      BY <1>10, <2>1, ArchivedFacts, ChangedKeeps DEF ImportUsage
  <1> QED
    BY <1>1, <1>3, <1>5, <1>6, <1>7, <1>8, <1>9, <1>10, <1>11
    DEF LedgerInv, TypeOK, RemoteKnown, BalancesAgree, ObserverAgrees

\* The types, and the agreement of the two balances that keeps an import
\* within the spool's capacity, are kept by every step.
LEMMA NextInv == LedgerInv /\ [Next]_vars => LedgerInv'
  <1> SUFFICES ASSUME LedgerInv, [Next]_vars PROVE LedgerInv'
    OBVIOUS
  <1>1. CASE \E gross \in Nat : Weigh(gross)
    BY <1>1, WeighKeeps
  <1>2. CASE \E t \in Tare, v \in Mass \cup {Keep}, shelve \in BOOLEAN : UpdateSpool(t, v, shelve)
    BY <1>2, UpdateKeeps
  <1>6. CASE Extrude
    BY <1>6, ExtrudeKeeps
  <1>12. CASE ApplyTerminal
    BY <1>12, ApplyTerminalKeeps
  <1>19. CASE \E w \in Worker : ImportUsage(w)
    BY <1>19, ImportKeeps
  <1>25. OrderOK /\ version \in Nat /\ version + 1 \in Nat
    BY DEF LedgerInv, TypeOK, OrderOK
  <1>26. UNCHANGED <<version, latest, top>> /\ Len(corrections') = Len(corrections) => OrderOK'
    BY <1>25 DEF OrderOK
  <1> USE MassFacts, LedgerAssumption
      DEF LedgerInv, TypeOK, RemoteKnown, BalancesAgree, ObserverAgrees,
          balance, basis, shelf, remoteVars, past, counts
  <1>3. CASE Load
    <2>1. OrderOK'
      BY <1>3, <1>25, ChangedKeeps DEF Load
    <2> QED
      BY <1>3, <2>1 DEF Load
  <1>4. CASE Unload
    <2>1. OrderOK'
      BY <1>4, <1>25, ArchivedFacts, ChangedKeeps DEF Unload
    <2> QED
      BY <1>4, <2>1 DEF Unload, ArchiveEmpty
  <1>5. CASE StartPrint
    <2>1. print' \in PrintState /\ loaded
      BY <1>5, PrintFacts DEF StartPrint
    <2>2. prints' \in 0..MaxPrints
      BY <1>5 DEF StartPrint
    <2> QED
      BY <1>5, <1>26, <2>1, <2>2 DEF StartPrint
  <1>7. CASE EndPrint
    BY <1>7, <1>26 DEF EndPrint, PrintState
  <1>8. CASE Capture
    <2>1. print' = [print EXCEPT !.captured = TRUE, !.start = effective, !.shift = 0]
      BY <1>8 DEF Capture
    <2>2. print' \in PrintState /\ print'.stage = print.stage
      BY <2>1, PrintFacts
    <2>3. late' \in BOOLEAN
      BY <1>8 DEF Capture
    <2> QED
      BY <1>8, <1>26, <2>2, <2>3 DEF Capture
  <1>9. CASE NeverCaptured
    BY <1>9, <1>26, PrintFacts DEF NeverCaptured
  <1>10. CASE Observe
    <2>1. observer' \in LoadedSpool
      BY <1>10, <1>25 DEF Observe, LoadedSpool
    <2> QED
      BY <1>10, <1>26, <2>1 DEF Observe
  <1>11. CASE ObserveFails
    <2>1. OrderOK'
      BY <1>11, <1>25, ChangedKeeps DEF ObserveFails
    <2> QED
      BY <1>11, <2>1 DEF ObserveFails
  <1>13. CASE \E w \in Worker : BeginCreate(w)
    <2>1. PICK w \in Worker : BeginCreate(w)
      BY <1>13
    <2>2. task' \in [Worker -> Task \cup {Nothing}]
      BY <1>25, <2>1 DEF BeginCreate, Task
    <2> QED
      BY <1>26, <2>1, <2>2 DEF BeginCreate
  <1>14. CASE \E w \in Worker : BeginAdjust(w)
    <2>1. PICK w \in Worker : BeginAdjust(w)
      BY <1>14
    <2>2. task' \in [Worker -> Task \cup {Nothing}]
      BY <1>25, <2>1 DEF BeginAdjust, Task
    <2> QED
      BY <1>26, <2>1, <2>2 DEF BeginAdjust
  <1>15. CASE \E w \in Worker : BeginReconcile(w)
    <2>1. PICK w \in Worker : BeginReconcile(w)
      BY <1>15
    <2>2. task' \in [Worker -> Task \cup {Nothing}]
      BY <1>25, <2>1 DEF BeginReconcile, Task
    <2> QED
      BY <1>26, <2>1, <2>2 DEF BeginReconcile
  <1>16. CASE \E w \in Worker : FinishCreate(w)
    <2>1. PICK w \in Worker : FinishCreate(w)
      BY <1>16
    <2>2. task' \in [Worker -> Task \cup {Nothing}]
      BY <2>1 DEF FinishCreate, Finish
    <2>3. remote' \in Mass /\ linked' \in BOOLEAN
      BY <2>1, TaskFacts DEF FinishCreate, Idle
    <2>4. linked => linked'
      BY <2>1 DEF FinishCreate
    <2>5. OrderOK'
      <3>1. task[w].version \in Nat
        BY <2>1, TaskFacts DEF FinishCreate, Idle
      <3>2. task[w].version + 1 \in Nat
        BY <3>1
      <3> QED
        BY <1>25, <2>1, <3>2, ChangedKeeps DEF FinishCreate
    <2> QED
      BY <2>1, <2>2, <2>3, <2>4, <2>5 DEF FinishCreate
  <1>17. CASE \E w \in Worker : FinishAdjust(w)
    <2>1. PICK w \in Worker : FinishAdjust(w)
      BY <1>17
    <2>2. task' \in [Worker -> Task \cup {Nothing}]
      BY <2>1 DEF FinishAdjust, Finish
    <2>3. corrections' \in Seq({"open", "dead", "done"}) /\ Len(corrections') = Len(corrections)
      <3>1. PICK s \in {"done", "dead"} : corrections' = [corrections EXCEPT ![task[w].for] = s]
        BY <2>1 DEF FinishAdjust
      <3> QED
        BY <3>1, Settled
    <2>4. remote' \in Mass
      BY <2>1, TaskFacts DEF FinishAdjust, Idle
    <2> QED
      BY <1>26, <2>1, <2>2, <2>3, <2>4 DEF FinishAdjust
  <1>18. CASE \E w \in Worker : AdjustFails(w)
    <2>1. PICK w \in Worker : AdjustFails(w)
      BY <1>18
    <2>2. task' \in [Worker -> Task \cup {Nothing}]
      BY <2>1 DEF AdjustFails, Finish
    <2>3. corrections' \in Seq({"open", "dead", "done"}) /\ Len(corrections') = Len(corrections)
      BY <2>1, Settled DEF AdjustFails
    <2> QED
      BY <1>26, <2>1, <2>2, <2>3 DEF AdjustFails
  <1>20. CASE \E w \in Worker : ImportClashes(w)
    <2>1. task' \in [Worker -> Task \cup {Nothing}]
      BY <1>20 DEF ImportClashes, Finish
    <2>2. OrderOK'
      BY <1>20, <1>26 DEF ImportClashes
    <2>3. UNCHANGED <<expected, effective, reading, tare, adjusted, usageKeys, loaded, archived,
                      linked, remote, corrections, print, observer, spent, late, blurred,
                      statements, prints>>
      BY <1>20 DEF ImportClashes
    <2> QED
      BY <2>1, <2>2, <2>3
  <1>21. CASE \E w \in Worker : ImportNothing(w)
    <2>1. OrderOK'
      BY <1>21, <1>25, ArchivedFacts, ChangedKeeps DEF ImportNothing, ArchiveExisting
    <2>2. task' \in [Worker -> Task \cup {Nothing}] /\ archived' \in BOOLEAN
      BY <1>21 DEF ImportNothing, Finish, ArchiveExisting, ArchiveEmpty
    <2> QED
      BY <1>21, <2>1, <2>2 DEF ImportNothing
  <1>22. CASE AdjustNothing
    <2>1. corrections' \in Seq({"open", "dead", "done"}) /\ Len(corrections') = Len(corrections)
      BY <1>22, Settled DEF AdjustNothing
    <2> QED
      BY <1>22, <1>26, <2>1 DEF AdjustNothing
  <1>23. CASE RetryCorrection
    <2>1. corrections' \in Seq({"open", "dead", "done"}) /\ Len(corrections') = Len(corrections)
      BY <1>23, Settled DEF RetryCorrection
    <2> QED
      BY <1>23, <1>26, <2>1 DEF RetryCorrection
  <1>24. CASE UNCHANGED vars
    BY <1>24, <1>26 DEF vars
  <1> QED
    BY NextIsStep, <1>1, <1>2, <1>3, <1>4, <1>5, <1>6, <1>7, <1>8, <1>9, <1>10, <1>11, <1>12, <1>13, <1>14,
       <1>15, <1>16, <1>17, <1>18, <1>19, <1>20, <1>21, <1>22, <1>23, <1>24 DEF Step

LEMMA Invariance == Safety => []LedgerInv
  BY InitInv, NextInv, PTL DEF Safety

\* Types, for every run: among them that no balance leaves 0..Capacity and
\* that a printed spool has a record in Spoolman.
THEOREM TypeSafety == Safety => []TypeOK
  <1>1. LedgerInv => TypeOK
    BY DEF LedgerInv
  <1> QED
    BY Invariance, <1>1, PTL

\* The expected and the effective balance agree whoever moves them: weighing,
\* edit, import, or a finished print that works on a stale object.
THEOREM BalancesNeverPart == Safety => []BalancesAgree
  <1>1. LedgerInv => BalancesAgree
    BY DEF LedgerInv
  <1> QED
    BY Invariance, <1>1, PTL

-----------------------------------------------------------------------------
(* The evidence behind a balance.                                          *)

\* The four actions that move a balance.
BalanceStep ==
    \/ \E gross \in Nat : Weigh(gross)
    \/ \E t \in Tare, v \in Mass \cup {Keep}, shelve \in BOOLEAN : UpdateSpool(t, v, shelve)
    \/ ApplyTerminal
    \/ \E w \in Worker : ImportUsage(w)

LEMMA Bystanders ==
    Step => BalanceStep \/ UNCHANGED <<expected, effective, reading, tare, adjusted, blurred>>
  <1> SUFFICES ASSUME Step
               PROVE  BalanceStep \/ UNCHANGED <<balance, basis, blurred>>
    BY DEF balance, basis
  <1>1. CASE Load
    BY <1>1 DEF Load, past
  <1>2. CASE Unload
    BY <1>2 DEF Unload, past
  <1>3. CASE StartPrint
    BY <1>3 DEF StartPrint, past
  <1>4. CASE Extrude
    BY <1>4 DEF Extrude, past
  <1>5. CASE EndPrint
    BY <1>5 DEF EndPrint, past
  <1>6. CASE Capture
    BY <1>6 DEF Capture, past
  <1>7. CASE NeverCaptured
    BY <1>7 DEF NeverCaptured, past
  <1>8. CASE Observe
    BY <1>8 DEF Observe, past
  <1>9. CASE ObserveFails
    BY <1>9 DEF ObserveFails, past
  <1>10. CASE AdjustNothing
    BY <1>10 DEF AdjustNothing, past
  <1>11. CASE RetryCorrection
    BY <1>11 DEF RetryCorrection, past
  <1>12. CASE \E w \in Worker : BeginCreate(w)
    BY <1>12 DEF BeginCreate, past
  <1>13. CASE \E w \in Worker : FinishCreate(w)
    BY <1>13 DEF FinishCreate, past
  <1>14. CASE \E w \in Worker : BeginAdjust(w)
    BY <1>14 DEF BeginAdjust, past
  <1>15. CASE \E w \in Worker : FinishAdjust(w)
    BY <1>15 DEF FinishAdjust, past
  <1>16. CASE \E w \in Worker : AdjustFails(w)
    BY <1>16 DEF AdjustFails, past
  <1>17. CASE \E w \in Worker : BeginReconcile(w)
    BY <1>17 DEF BeginReconcile, past
  <1>18. CASE \E w \in Worker : ImportClashes(w)
    BY <1>18 DEF ImportClashes, past
  <1>19. CASE \E w \in Worker : ImportNothing(w)
    BY <1>19 DEF ImportNothing, past
  <1> QED
    BY <1>1, <1>2, <1>3, <1>4, <1>5, <1>6, <1>7, <1>8, <1>9, <1>10,
       <1>11, <1>12, <1>13, <1>14, <1>15, <1>16, <1>17, <1>18, <1>19
    DEF Step, BalanceStep

\* The inductive form of BasisExplainsBalance: no clamp was needed since the
\* evidence was last blurred.
BasisInv == reading # NoReading /\ ~blurred => effective = reading - tare + adjusted

BasisFull == LedgerInv /\ BasisInv

LEMMA BasisInit == Init => BasisInv
  <1> SUFFICES ASSUME Init, reading # NoReading PROVE effective = reading - tare + adjusted
    BY DEF BasisInv
  <1>1. Capacity \in Int /\ tare \in Int
    BY LedgerAssumption DEF Init
  <1>2. reading = Capacity + tare /\ effective = Capacity /\ adjusted = 0
    BY DEF Init
  <1> QED
    BY <1>1, <1>2

LEMMA BasisNumbers ==
  ASSUME LedgerInv
  PROVE  /\ effective \in Nat /\ expected = effective /\ tare \in Nat /\ adjusted \in Int
         /\ reading # NoReading => reading \in Nat
  BY MassFacts, LedgerAssumption DEF LedgerInv, TypeOK, BalancesAgree

LEMMA NextNumbers ==
  ASSUME LedgerInv'
  PROVE  effective' \in Int
  BY MassFacts DEF LedgerInv, TypeOK

LEMMA BasisNext == BasisFull /\ [Next]_vars => BasisInv'
  <1> SUFFICES ASSUME LedgerInv, BasisInv, [Next]_vars,
                      reading' # NoReading, ~blurred'
               PROVE  effective' = reading' - tare' + adjusted'
    BY DEF BasisFull, BasisInv
  <1>1. ASSUME NEW gross \in Nat, Weigh(gross)
        PROVE  effective' = reading' - tare' + adjusted'
    <2>1. reading' = gross /\ tare' = tare /\ adjusted' = 0 /\ effective' = gross - tare
      BY <1>1 DEF Weigh
    <2> QED
      BY <2>1, BasisNumbers
  <1>2. ASSUME NEW t \in Tare, NEW v \in Mass \cup {Keep}, NEW shelve \in BOOLEAN,
               UpdateSpool(t, v, shelve)
        PROVE  effective' = reading' - tare' + adjusted'
    <2> DEFINE base == Recalculated(t)
    <2>1. /\ reading' = reading /\ tare' = t /\ reading # NoReading
          /\ ~(reading - t + adjusted < 0)
      BY <1>2 DEF UpdateSpool
    <2>2. t \in Int /\ reading \in Nat
      BY <2>1, BasisNumbers, LedgerAssumption
    <2>3. base = reading - t + adjusted
      <3>1. base = NonNegative(reading - t + adjusted)
        BY <2>1 DEF Recalculated
      <3> QED
        BY <2>1, <3>1 DEF NonNegative
    <2>4. adjusted' = adjusted + (effective' - base)
      BY <1>2, <2>1 DEF UpdateSpool, Record, Counted
    <2> HIDE DEF base
    <2>5. effective' \in Int
      BY <1>2, UpdateKeeps, NextNumbers
    <2> QED
      BY <2>1, <2>2, <2>3, <2>4, <2>5, BasisNumbers
  <1>3. CASE ApplyTerminal
    <2>1. CASE print.used = 0
      <3>1. UNCHANGED <<effective, reading, tare, adjusted, blurred>>
        BY <1>3, <2>1 DEF ApplyTerminal, balance, basis, past
      <3> QED
        BY <3>1 DEF BasisInv
    <2>2. CASE print.used # 0
      <3> DEFINE left == Corrected(observer.effective,
                                   NonNegative(print.start + print.shift - print.used))
      <3>1. ~blurred /\ ~observer.weighed /\ observer.effective = effective
        BY <1>3, <2>2 DEF ApplyTerminal
      <3>2. reading' = reading /\ tare' = tare /\ reading # NoReading
        BY <1>3, <2>2 DEF ApplyTerminal
      <3>3. effective' = left /\ adjusted' = adjusted + (left - effective)
        BY <1>3, <2>2, <3>1, <3>2 DEF ApplyTerminal, Record
      <3>4. effective' \in Int
        BY <1>3, ApplyTerminalKeeps, NextNumbers
      <3>5. effective = reading - tare + adjusted
        BY <3>1, <3>2 DEF BasisInv
      <3> HIDE DEF left
      <3> QED
        BY <3>2, <3>3, <3>4, <3>5, BasisNumbers
    <2> QED
      BY <2>1, <2>2
  <1>4. ASSUME NEW w \in Worker, ImportUsage(w)
        PROVE  effective' = reading' - tare' + adjusted'
    <2>1. reading' = reading /\ tare' = tare /\ ~blurred /\ reading # NoReading
      BY <1>4 DEF ImportUsage
    <2>2. expected' = task[w].mass /\ adjusted' = adjusted + (task[w].mass - expected)
      BY <1>4, <2>1 DEF ImportUsage, Record
    <2>3. expected' \in Nat /\ effective' = expected'
      BY <1>4, ImportKeeps, MassFacts DEF LedgerInv, TypeOK, BalancesAgree
    <2>4. effective = reading - tare + adjusted
      BY <2>1 DEF BasisInv
    <2> QED
      BY <2>1, <2>2, <2>3, <2>4, BasisNumbers
  <1>5. CASE UNCHANGED <<expected, effective, reading, tare, adjusted, blurred>>
    BY <1>5 DEF BasisInv
  <1>6. CASE UNCHANGED vars
    BY <1>6, <1>5 DEF vars, balance, basis, past
  <1> QED
    BY NextIsStep, Bystanders, <1>1, <1>2, <1>3, <1>4, <1>5, <1>6 DEF BalanceStep, LedgerInv

\* Whatever sequence of weighings, tare changes, edits, imports and prints led
\* to it, an unblurred balance is what spool_mass_basis would recalculate, so
\* an edit that changes nothing changes nothing.
THEOREM BalanceIsExplained == Safety => []BasisExplainsBalance
  <1>1. Init => BasisFull
    BY InitInv, BasisInit DEF BasisFull
  <1>2. BasisFull /\ [Next]_vars => BasisFull'
    BY NextInv, BasisNext DEF BasisFull
  <1>3. BasisFull => BasisExplainsBalance
    <2> SUFFICES ASSUME BasisFull, reading # NoReading, ~blurred
                 PROVE  effective = NonNegative(reading - tare + adjusted)
      BY DEF BasisExplainsBalance
    <2>1. effective = reading - tare + adjusted /\ effective \in Nat
      BY BasisNumbers DEF BasisFull, BasisInv
    <2> QED
      BY <2>1 DEF NonNegative
  <1> QED
    BY <1>1, <1>2, <1>3, PTL DEF Safety

-----------------------------------------------------------------------------
(* Filament is taken off once.                                             *)

LEMMA CountNumbers ==
  ASSUME LedgerInv
  PROVE  /\ statements \in Nat /\ spent \in Nat /\ Capacity \in Nat
         /\ print.start \in Nat /\ print.used \in Nat
  <1>1. statements \in 0..MaxStatements /\ spent \in 0..MaxSpent
    BY DEF LedgerInv, TypeOK
  <1>2. print.start \in Nat /\ print.used \in Nat
    BY MassFacts DEF LedgerInv, TypeOK, PrintState
  <1> QED
    BY <1>1, <1>2, LedgerAssumption

\* An observer pass under way is about the print it saw the end of.
PassFollowsPrint == observer # Nothing => print.stage = "ended" /\ print.captured

\* No record, and nothing anybody has read and may still write, is below what
\* is left on the spool; and a segment's start less its use is not either.
Covered ==
    /\ effective >= Capacity - spent
    /\ remote # NoRecord => remote >= Capacity - spent
    /\ \A w \in Worker :
          task[w] # Nothing /\ task[w].mass # NoRecord => task[w].mass >= Capacity - spent
    /\ print.captured =>
          print.shift = 0 /\ print.start - print.used >= Capacity - spent
    /\ observer # Nothing => observer.effective >= Capacity - spent

NothingBelow == statements = 0 /\ ~late => Covered

CountInv == LedgerInv /\ PassFollowsPrint /\ NothingBelow

LEMMA PassInit == Init => PassFollowsPrint /\ NothingBelow
  <1> SUFFICES ASSUME Init PROVE PassFollowsPrint /\ NothingBelow
    OBVIOUS
  <1>1. Capacity >= Capacity - 0
    BY LedgerAssumption
  <1> QED
    BY <1>1 DEF Init, NoPrint, PassFollowsPrint, NothingBelow, Covered

LEMMA PassNext == LedgerInv /\ PassFollowsPrint /\ [Next]_vars => PassFollowsPrint'
  <1> SUFFICES ASSUME LedgerInv, PassFollowsPrint, [Next]_vars PROVE PassFollowsPrint'
    OBVIOUS
  <1>0. print \in PrintState
    BY DEF LedgerInv, TypeOK
  <1> USE DEF PassFollowsPrint
  <1>1. CASE \E gross \in Nat : Weigh(gross)
    BY <1>0, <1>1 DEF Weigh
  <1>2. CASE \E t \in Tare, v \in Mass \cup {Keep}, shelve \in BOOLEAN : UpdateSpool(t, v, shelve)
    BY <1>0, <1>2 DEF UpdateSpool, PrintState
  <1>3. CASE Load
    BY <1>0, <1>3 DEF Load
  <1>4. CASE Unload
    BY <1>0, <1>4 DEF Unload
  <1>5. CASE StartPrint
    BY <1>0, <1>5 DEF StartPrint, NoPrint
  <1>6. CASE Extrude
    BY <1>0, <1>6 DEF Extrude, PrintState
  <1>7. CASE EndPrint
    BY <1>0, <1>7 DEF EndPrint, PrintState
  <1>8. CASE Capture
    BY <1>0, <1>8 DEF Capture, PrintState
  <1>9. CASE NeverCaptured
    BY <1>0, <1>9 DEF NeverCaptured, NoPrint
  <1>10. CASE Observe
    BY <1>0, <1>10 DEF Observe
  <1>11. CASE ObserveFails
    BY <1>0, <1>11 DEF ObserveFails
  <1>12. CASE ApplyTerminal
    BY <1>0, <1>12 DEF ApplyTerminal, NoPrint
  <1>13. CASE AdjustNothing
    BY <1>0, <1>13 DEF AdjustNothing
  <1>14. CASE RetryCorrection
    BY <1>0, <1>14 DEF RetryCorrection
  <1>15. CASE \E w \in Worker : BeginCreate(w)
    BY <1>0, <1>15 DEF BeginCreate
  <1>16. CASE \E w \in Worker : FinishCreate(w)
    BY <1>0, <1>16 DEF FinishCreate
  <1>17. CASE \E w \in Worker : BeginAdjust(w)
    BY <1>0, <1>17 DEF BeginAdjust
  <1>18. CASE \E w \in Worker : FinishAdjust(w)
    BY <1>0, <1>18 DEF FinishAdjust
  <1>19. CASE \E w \in Worker : AdjustFails(w)
    BY <1>0, <1>19 DEF AdjustFails
  <1>20. CASE \E w \in Worker : BeginReconcile(w)
    BY <1>0, <1>20 DEF BeginReconcile
  <1>21. CASE \E w \in Worker : ImportUsage(w)
    BY <1>0, <1>21 DEF ImportUsage
  <1>22. CASE \E w \in Worker : ImportClashes(w)
    BY <1>0, <1>22 DEF ImportClashes
  <1>23. CASE \E w \in Worker : ImportNothing(w)
    BY <1>0, <1>23 DEF ImportNothing
  <1>24. CASE UNCHANGED vars
    BY <1>24 DEF vars
  <1> QED
    BY NextIsStep, <1>1, <1>2, <1>3, <1>4, <1>5, <1>6, <1>7, <1>8, <1>9, <1>10, <1>11,
       <1>12, <1>13, <1>14, <1>15, <1>16, <1>17, <1>18, <1>19, <1>20, <1>21, <1>22, <1>23, <1>24
    DEF Step, LedgerInv

\* Steps that read or write neither masses nor the print's figures.
Quiet ==
    UNCHANGED <<effective, remote, task, print, observer, spent>>

LEMMA QuietKeeps == Covered /\ Quiet => Covered'
  BY DEF Covered, Quiet

LEMMA IdleKeeps ==
  ASSUME LedgerInv, Covered, NEW w \in Worker, task' = [task EXCEPT ![w] = Nothing],
         UNCHANGED <<effective, remote, print, observer, spent>>
  PROVE  Covered'
  <1>1. task \in [Worker -> Task \cup {Nothing}]
    BY DEF LedgerInv, TypeOK
  <1> QED
    BY <1>1 DEF Covered

\* A handler that starts reads the balance or Spoolman's, and both are covered.
LEMMA ReadKeeps ==
  ASSUME LedgerInv, Covered, NEW w \in Worker, NEW x,
         task' = [task EXCEPT ![w] = x], x.mass \in {effective, remote},
         UNCHANGED <<effective, remote, print, observer, spent>>
  PROVE  Covered'
  <1>1. task \in [Worker -> Task \cup {Nothing}]
    BY DEF LedgerInv, TypeOK
  <1>2. x.mass # NoRecord => x.mass >= Capacity - spent
    BY DEF Covered
  <1> QED
    BY <1>1, <1>2 DEF Covered

LEMMA ExtrudeCovers ==
  ASSUME LedgerInv, Covered, Extrude
  PROVE  Covered'
  <1>1. /\ spent' = spent + 1 /\ print'.used = print.used + 1 /\ remote' = NonNegative(remote - 1)
        /\ print'.captured = print.captured /\ print'.start = print.start
        /\ print'.shift = print.shift
        /\ UNCHANGED <<effective, task, observer>>
    BY DEF Extrude, balance, LedgerInv, TypeOK, PrintState
  <1>2. remote \in Nat /\ remote # NoRecord
    BY MassFacts DEF Extrude, LedgerInv, TypeOK, RemoteKnown
  <1>3. effective \in Nat /\ Capacity \in Nat /\ spent \in Nat
    BY BasisNumbers, CountNumbers
  <1>4. effective' >= Capacity - spent'
    BY <1>1, <1>3 DEF Covered
  <1>5. remote' >= Capacity - spent'
    BY <1>1, <1>2, <1>3 DEF Covered, NonNegative
  <1>6. ASSUME NEW w \in Worker, task'[w] # Nothing, task'[w].mass # NoRecord
        PROVE  task'[w].mass >= Capacity - spent'
    <2>1. task[w].mass \in Nat
      BY <1>1, <1>6, TaskMass DEF LedgerInv
    <2>2. task[w].mass >= Capacity - spent
      BY <1>1, <1>6 DEF Covered
    <2> QED
      BY <1>1, <1>3, <2>1, <2>2
  <1>7. print'.captured => print'.shift = 0 /\ print'.start - print'.used >= Capacity - spent'
    BY <1>1, <1>3, CountNumbers DEF Covered
  <1>8. observer' # Nothing => observer'.effective >= Capacity - spent'
    <2>1. observer # Nothing => observer.effective \in Nat
      BY MassFacts DEF LedgerInv, TypeOK, LoadedSpool
    <2> QED
      BY <1>1, <1>3, <2>1 DEF Covered
  <1> QED
    BY <1>4, <1>5, <1>6, <1>7, <1>8 DEF Covered

LEMMA ApplyTerminalCovers ==
  ASSUME LedgerInv, PassFollowsPrint, Covered, ApplyTerminal
  PROVE  Covered'
  <1> DEFINE target == NonNegative(print.start + print.shift - print.used)
             left == Corrected(observer.effective, target)
  <1>1. /\ observer # Nothing /\ print' = NoPrint /\ observer' = Nothing
        /\ UNCHANGED <<remote, task, spent>>
    BY DEF ApplyTerminal, remoteVars, past
  <1>2. effective' >= Capacity - spent
    <2>1. CASE print.used = 0
      BY <2>1 DEF ApplyTerminal, Covered, balance
    <2>2. CASE print.used # 0
      <3>1. effective' = IF left = observer.effective THEN effective ELSE left
        BY <2>2 DEF ApplyTerminal
      <3>2. print.shift = 0 /\ print.start - print.used >= Capacity - spent
        BY <1>1 DEF Covered, PassFollowsPrint
      <3>3. target >= Capacity - spent
        BY <3>2, CountNumbers DEF NonNegative
      <3>4. observer.effective >= Capacity - spent
        BY <1>1 DEF Covered
      <3>5. left >= Capacity - spent
        BY <3>3, <3>4 DEF Corrected, Least
      <3> QED
        BY <3>1, <3>5 DEF Covered
    <2> QED
      BY <2>1, <2>2
  <1> QED
    BY <1>1, <1>2 DEF Covered, NoPrint

LEMMA ImportCovers ==
  ASSUME LedgerInv, Covered, NEW w \in Worker, ImportUsage(w)
  PROVE  Covered'
  <1>1. task[w] # Nothing /\ task[w].mass # NoRecord
    BY DEF ImportUsage, Idle, Imports
  <1>2. expected' = task[w].mass /\ UNCHANGED <<remote, print, observer, spent>>
    BY DEF ImportUsage, remoteVars
  <1>3. expected' = effective'
    BY ImportKeeps DEF LedgerInv, BalancesAgree
  <1>4. effective' >= Capacity - spent
    BY <1>1, <1>2, <1>3 DEF Covered
  <1>5. task' = [task EXCEPT ![w] = Nothing] /\ task \in [Worker -> Task \cup {Nothing}]
    BY DEF ImportUsage, Finish, LedgerInv, TypeOK
  <1> QED
    BY <1>2, <1>4, <1>5 DEF Covered

\* FinishCreate and FinishAdjust write what their handler read.
LEMMA WriteCovers ==
  ASSUME LedgerInv, Covered, NEW w \in Worker, task[w] # Nothing,
         task[w].mass # NoRecord, remote' \in {remote, task[w].mass},
         task' = [task EXCEPT ![w] = Nothing],
         UNCHANGED <<effective, print, observer, spent>>
  PROVE  Covered'
  <1>1. task \in [Worker -> Task \cup {Nothing}]
    BY DEF LedgerInv, TypeOK
  <1>2. remote' # NoRecord => remote' >= Capacity - spent
    BY DEF Covered
  <1> QED
    BY <1>1, <1>2 DEF Covered

\* A print captured before its first gram starts from a covered balance.
LEMMA CaptureCovers ==
  ASSUME LedgerInv, Covered, Capture, ~late'
  PROVE  Covered'
  <1>1. print.used = 0
    <2>1. ~(print.used > 0)
      BY DEF Capture
    <2> QED
      BY <2>1, CountNumbers
  <1>2. /\ print'.captured /\ print'.start = effective /\ print'.shift = 0
        /\ print'.used = print.used
        /\ UNCHANGED <<effective, remote, task, observer, spent>>
    BY DEF Capture, balance, remoteVars, LedgerInv, TypeOK, PrintState
  <1>3. print'.start - print'.used >= Capacity - spent'
    BY <1>1, <1>2, BasisNumbers, CountNumbers DEF Covered
  <1> QED
    BY <1>2, <1>3 DEF Covered

LEMMA CoveredNext ==
  ASSUME LedgerInv, PassFollowsPrint, Covered, [Next]_vars, statements' = 0, ~late'
  PROVE  Covered'
  <1>1. ASSUME Restate PROVE FALSE
    BY <1>1, CountNumbers DEF Restate
  <1>2. CASE \E gross \in Nat : Weigh(gross)
    BY <1>1, <1>2 DEF Weigh
  <1>3. CASE \E t \in Tare, v \in Mass \cup {Keep}, shelve \in BOOLEAN : UpdateSpool(t, v, shelve)
    BY <1>1, <1>3 DEF UpdateSpool
  <1>4. CASE Load \/ Unload \/ AdjustNothing \/ RetryCorrection \/ UNCHANGED vars
    <2>1. Quiet
      BY <1>4
      DEF Load, Unload, AdjustNothing, RetryCorrection, vars, balance, remoteVars, past, Quiet
    <2> QED
      BY <2>1, QuietKeeps
  <1>5. CASE StartPrint \/ NeverCaptured
    <2>1. /\ ~print'.captured
          /\ UNCHANGED <<effective, remote, task, observer, spent>>
      BY <1>5 DEF StartPrint, NeverCaptured, NoPrint, balance, remoteVars, past
    <2> QED
      BY <2>1 DEF Covered
  <1>6. CASE Extrude
    BY <1>6, ExtrudeCovers
  <1>7. CASE EndPrint
    <2>1. /\ print'.captured = print.captured /\ print'.shift = print.shift
          /\ print'.start = print.start /\ print'.used = print.used
          /\ UNCHANGED <<effective, remote, task, observer, spent>>
      BY <1>7 DEF EndPrint, balance, remoteVars, past, LedgerInv, TypeOK, PrintState
    <2> QED
      BY <2>1 DEF Covered
  <1>8. CASE Capture
    BY <1>8, CaptureCovers
  <1>9. CASE Observe
    <2>1. /\ observer'.effective = effective
          /\ UNCHANGED <<effective, remote, task, print, spent>>
      BY <1>9 DEF Observe, balance, remoteVars, past
    <2> QED
      BY <2>1 DEF Covered
  <1>10. CASE ObserveFails
    BY <1>10 DEF ObserveFails, balance, remoteVars, past, Covered
  <1>11. CASE ApplyTerminal
    BY <1>11, ApplyTerminalCovers
  <1>12. CASE \E w \in Worker : BeginCreate(w)
    <2>1. PICK w \in Worker : BeginCreate(w)
      BY <1>12
    <2> QED
      BY <2>1, ReadKeeps DEF BeginCreate, balance, remoteVars, past
  <1>13. CASE \E w \in Worker : BeginAdjust(w)
    <2>1. PICK w \in Worker : BeginAdjust(w)
      BY <1>13
    <2>2. PICK i \in DOMAIN corrections :
             task' = [task EXCEPT ![w] = [job |-> "adjust", for |-> i, mass |-> effective]]
      BY <2>1 DEF BeginAdjust
    <2> QED
      BY <2>1, <2>2, ReadKeeps DEF BeginAdjust, balance, remoteVars, past
  <1>14. CASE \E w \in Worker : BeginReconcile(w)
    <2>1. PICK w \in Worker : BeginReconcile(w)
      BY <1>14
    <2> QED
      BY <2>1, ReadKeeps DEF BeginReconcile, balance, remoteVars, past
  <1>15. CASE \E w \in Worker : FinishCreate(w)
    <2>1. PICK w \in Worker : FinishCreate(w)
      BY <1>15
    <2>2. task[w] # Nothing /\ task[w].mass # NoRecord
      BY <2>1, TaskFacts, MassFacts DEF FinishCreate, Idle, LedgerInv
    <2> QED
      BY <2>1, <2>2, WriteCovers DEF FinishCreate, Finish, balance, past
  <1>16. CASE \E w \in Worker : FinishAdjust(w)
    <2>1. PICK w \in Worker : FinishAdjust(w)
      BY <1>16
    <2>2. task[w] # Nothing /\ task[w].mass # NoRecord
      BY <2>1, TaskFacts, MassFacts DEF FinishAdjust, Idle, LedgerInv
    <2> QED
      BY <2>1, <2>2, WriteCovers DEF FinishAdjust, Finish, balance, past
  <1>17. CASE \E w \in Worker : AdjustFails(w)
    BY <1>17, IdleKeeps DEF AdjustFails, Finish, balance, remoteVars, past
  <1>18. CASE \E w \in Worker : ImportUsage(w)
    BY <1>18, ImportCovers
  <1>19. CASE \E w \in Worker : ImportClashes(w) \/ ImportNothing(w)
    BY <1>19, IdleKeeps DEF ImportClashes, ImportNothing, Finish, balance, remoteVars, past
  <1> QED
    BY NextIsStep, <1>2, <1>3, <1>4, <1>5, <1>6, <1>7, <1>8, <1>9, <1>10, <1>11,
       <1>12, <1>13, <1>14, <1>15, <1>16, <1>17, <1>18, <1>19
    DEF Step, LedgerInv

\* The history of restatements and late captures is never unwritten.
LEMMA HistoryGrows ==
  ASSUME LedgerInv, [Next]_vars
  PROVE  /\ statements' = statements \/ statements' = statements + 1
         /\ late => late'
  <1>1. CASE \E gross \in Nat : Weigh(gross)
    BY <1>1 DEF Weigh, Restate
  <1>2. CASE \E t \in Tare, v \in Mass \cup {Keep}, shelve \in BOOLEAN : UpdateSpool(t, v, shelve)
    BY <1>2 DEF UpdateSpool, Restate
  <1>3. CASE Load
    BY <1>3 DEF Load, counts, past
  <1>4. CASE Unload
    BY <1>4 DEF Unload, counts, past
  <1>5. CASE StartPrint
    BY <1>5 DEF StartPrint, counts, past
  <1>6. CASE Extrude
    BY <1>6 DEF Extrude, counts, past
  <1>7. CASE EndPrint
    BY <1>7 DEF EndPrint, counts, past
  <1>8. CASE Capture
    BY <1>8 DEF Capture, counts, past
  <1>9. CASE NeverCaptured
    BY <1>9 DEF NeverCaptured, counts, past
  <1>10. CASE Observe
    BY <1>10 DEF Observe, counts, past
  <1>11. CASE ObserveFails
    BY <1>11 DEF ObserveFails, counts, past
  <1>12. CASE ApplyTerminal
    BY <1>12 DEF ApplyTerminal, counts, past
  <1>13. CASE AdjustNothing
    BY <1>13 DEF AdjustNothing, counts, past
  <1>14. CASE RetryCorrection
    BY <1>14 DEF RetryCorrection, counts, past
  <1>15. CASE \E w \in Worker : BeginCreate(w)
    BY <1>15 DEF BeginCreate, counts, past
  <1>16. CASE \E w \in Worker : FinishCreate(w)
    BY <1>16 DEF FinishCreate, counts, past
  <1>17. CASE \E w \in Worker : BeginAdjust(w)
    BY <1>17 DEF BeginAdjust, counts, past
  <1>18. CASE \E w \in Worker : FinishAdjust(w)
    BY <1>18 DEF FinishAdjust, counts, past
  <1>19. CASE \E w \in Worker : AdjustFails(w)
    BY <1>19 DEF AdjustFails, counts, past
  <1>20. CASE \E w \in Worker : BeginReconcile(w)
    BY <1>20 DEF BeginReconcile, counts, past
  <1>21. CASE \E w \in Worker : ImportUsage(w)
    BY <1>21 DEF ImportUsage, counts, past
  <1>22. CASE \E w \in Worker : ImportClashes(w)
    BY <1>22 DEF ImportClashes, counts, past
  <1>23. CASE \E w \in Worker : ImportNothing(w)
    BY <1>23 DEF ImportNothing, counts, past
  <1>24. CASE UNCHANGED vars
    BY <1>24 DEF vars, counts, past
  <1> QED
    BY NextIsStep, <1>1, <1>2, <1>3, <1>4, <1>5, <1>6, <1>7, <1>8, <1>9, <1>10, <1>11,
       <1>12, <1>13, <1>14, <1>15, <1>16, <1>17, <1>18, <1>19, <1>20, <1>21, <1>22, <1>23, <1>24
    DEF Step, LedgerInv

LEMMA BelowNext == CountInv /\ [Next]_vars => NothingBelow'
  <1> SUFFICES ASSUME CountInv, [Next]_vars, statements' = 0, ~late'
               PROVE  Covered'
    BY DEF NothingBelow
  <1>1. statements = 0
    <2>1. statements' = statements \/ statements' = statements + 1
      BY HistoryGrows DEF CountInv
    <2> QED
      BY <2>1, CountNumbers DEF CountInv
  <1>2. ~late
    BY HistoryGrows DEF CountInv
  <1> QED
    BY <1>1, <1>2, CoveredNext DEF CountInv, NothingBelow

\* While nobody restates the balance and every print is captured before its
\* first gram, what the printer used is never subtracted twice, neither by two
\* imports, nor by an import and the job's total, nor by an old listing.
THEOREM UsageIsCountedOnce == Safety => []UsageCountedOnce
  <1>1. Init => CountInv
    BY InitInv, PassInit DEF CountInv
  <1>2. CountInv /\ [Next]_vars => CountInv'
    BY NextInv, PassNext, BelowNext DEF CountInv
  <1>3. CountInv => UsageCountedOnce
    BY DEF CountInv, NothingBelow, Covered, UsageCountedOnce
  <1> QED
    BY <1>1, <1>2, <1>3, PTL DEF Safety

=============================================================================
