---------------------------- MODULE PrinterProofs ----------------------------
(***************************************************************************)
(* Proofs about the other printer modules and about the five together, for *)
(* every number of sides, rolls, nozzles, printers, commands and faults.   *)
(***************************************************************************)
EXTENDS MCPrinters, PhysicalSpoolProofs, SequenceTheorems, NaturalsInduction, WellFoundedInduction, TLAPS

-----------------------------------------------------------------------------
(* PrintStart: the types.                                                  *)

StartPhases == {"idle", "inspecting", "selecting", "changing", "checking_weight",
                "insufficient_filament", "error"}
HoldState == [phase : StartPhases, pending : BOOLEAN, checked : BOOLEAN, sequence : Nat,
              overridden : BOOLEAN]

\* StartTypeOK with the fields of the hold that it does not name.
StartInv == StartTypeOK /\ hold \in HoldState

\* Every answer of the worker and every way on leaves a well-formed hold.
LEMMA HoldMoves ==
  ASSUME NEW h \in HoldState
  PROVE  /\ Continued(h) \in HoldState /\ SpoolChecked(h) \in HoldState
         /\ Dropped(h) \in HoldState /\ ~Dropped(h).pending
         /\ \A phase \in StartPhases : [h EXCEPT !.phase = phase] \in HoldState
         /\ [h EXCEPT !.checked = TRUE] \in HoldState
         /\ [h EXCEPT !.checked = TRUE, !.overridden = TRUE] \in HoldState
<1>1. \A phase \in StartPhases : [h EXCEPT !.phase = phase] \in HoldState
  BY DEF HoldState
<1>2. Continued(h) \in HoldState
  BY DEF Continued, HoldState, StartPhases
<1>3. SpoolChecked(h) \in HoldState
  BY <1>1, <1>2 DEF SpoolChecked, StartPhases
<1>4. Dropped(h) \in HoldState /\ ~Dropped(h).pending
  BY DEF Dropped, HoldState, StartPhases
<1>5. /\ [h EXCEPT !.checked = TRUE] \in HoldState
      /\ [h EXCEPT !.checked = TRUE, !.overridden = TRUE] \in HoldState
  BY DEF HoldState
<1> QED
  BY <1>1, <1>2, <1>3, <1>4, <1>5

\* The file is held exactly while the start is pending, whatever is answered.
LEMMA HeldType ==
  ASSUME StartInv, NEW h \in HoldState, Held(h),
         UNCHANGED <<slice, side, known>>, mounted' \in Roll
  PROVE  StartInv'
<1>1. h.pending \in BOOLEAN /\ h.phase \in StartPhases
  BY DEF HoldState
<1> QED
  BY <1>1 DEF StartInv, StartTypeOK, Held, StartPhases

LEMMA StartInvStep ==
  ASSUME StartInv, [StartNext]_startVars
  PROVE  StartInv'
<1>0. hold \in HoldState /\ mounted \in Roll /\ hold.sequence \in Nat
  BY DEF StartInv, StartTypeOK, HoldState
<1>1. CASE StartPrint
  <2> DEFINE h == [phase |-> "inspecting", pending |-> TRUE, checked |-> FALSE,
                   sequence |-> hold.sequence + 1, overridden |-> FALSE]
  <2>1. h \in HoldState
    BY <1>0 DEF HoldState, StartPhases
  <2> HIDE DEF h
  <2>2. Held(h) /\ UNCHANGED <<slice, mounted, side, known>>
    BY <1>1 DEF StartPrint, physical, h
  <2> QED
    BY <1>0, <2>1, <2>2, HeldType
<1>2. CASE \E r \in Roll : SelectPrintSpool(r)
  <2>1. hold' \in HoldState /\ hold'.pending = hold.pending
    <3>1. hold' = [hold EXCEPT !.phase = "changing"] /\ "changing" \in StartPhases
      BY <1>2 DEF SelectPrintSpool, StartPhases
    <3> QED
      BY <1>0, <3>1, HoldMoves DEF HoldState
  <2> QED
    BY <1>2, <2>1 DEF SelectPrintSpool, StartInv, StartTypeOK, HoldState, StartPhases, physical
<1>3. CASE SpoolIsChanged
  BY <1>0, <1>3, HoldMoves, HeldType, StartAssumption DEF SpoolIsChanged
<1>4. CASE OverrideWeight
  BY <1>0, <1>4, HoldMoves, HeldType DEF OverrideWeight, physical
<1>5. CASE CancelPrint
  <2>1. hold' \in HoldState /\ ~hold'.pending /\ hold'.phase \in StartPhases
    BY <1>0, <1>5, HoldMoves DEF CancelPrint, HoldState
  <2> QED
    BY <1>5, <2>1 DEF CancelPrint, StartInv, StartTypeOK, HoldState, StartPhases, physical
<1>6. CASE PrintIsDone \/ PlateIsReported \/ (\E s \in Slice : SendFile(s))
           \/ \E r \in Roll, p \in Surface : ChangePhysically(r, p)
  BY <1>6 DEF PrintIsDone, PlateIsReported, SendFile, ChangePhysically, StartInv, StartTypeOK, physical
<1>7. ASSUME UNCHANGED <<slice, job3d, hold, physical>> PROVE StartInv'
  BY <1>7 DEF StartInv, StartTypeOK, physical
<1>8. CASE PollBegins \/ PollAdvances \/ PollSkips \/ RecordOverride \/ PollFails
           \/ \E readable \in BOOLEAN : PollCaptures(readable)
  BY <1>7, <1>8 DEF PollBegins, PollAdvances, PollSkips, RecordOverride, PollFails, PollCaptures
<1>9. CASE Acknowledge
  <2>1. InspectionAnswered(row.passed) \in HoldState
    BY <1>0, HoldMoves DEF InspectionAnswered, StartPhases
  <2> QED
    BY <1>0, <1>7, <1>9, <2>1, HeldType DEF Acknowledge, physical
<1>10. CASE CheckFilament
  <2>1. FilamentAnswered \in HoldState
    BY <1>0, HoldMoves DEF FilamentAnswered, StartPhases
  <2> QED
    BY <1>0, <1>7, <1>10, <2>1, HeldType DEF CheckFilament, physical
<1>11. CASE UNCHANGED startVars
  BY <1>7, <1>11 DEF startVars, physical
<1> QED
  BY <1>1, <1>2, <1>3, <1>4, <1>5, <1>6, <1>8, <1>9, <1>10, <1>11 DEF StartNext, LookStep

LEMMA StartInvInit == StartInit => StartInv
<1> SUFFICES ASSUME StartInit PROVE StartInv
  OBVIOUS
<1>1. hold \in HoldState /\ hold.phase = "idle" /\ hold.pending = FALSE /\ job3d = "standby"
  BY DEF StartInit, NoHold, HoldState, StartPhases
<1> QED
  BY <1>1 DEF StartInit, StartInv, StartTypeOK

\* The file is held exactly while its start is pending, and the macros are in one of
\* their phases.
THEOREM StartTypes == StartSpec => []StartTypeOK
<1>1. StartInv => StartTypeOK
  BY DEF StartInv
<1> QED
  BY <1>1, StartInvInit, StartInvStep, PTL DEF StartSpec

-----------------------------------------------------------------------------
(* PrinterConnections.                                                     *)

\* The printer's endpoint once the connection committed is c.
EndpointOf(c) == IF ~c.managed THEN Deployed ELSE IF c.enabled THEN c.address ELSE Nowhere
Updating(p) == holders[p] # NotLocked /\ holders[p].kind = "update"
Commanding(p) == holders[p] # NotLocked /\ holders[p].kind = "command"
Pending(i) == commands[i].status \in {"PENDING", "RUNNING"}

UpdateHold == [kind : {"update"}, address : Address, enabled : BOOLEAN]
CommandHold == [kind : {"command"}, address : Address]

\* The shapes, those of what a row's holder is about to commit included.
ConnectionRows ==
    /\ printers \in Seq(Connection) /\ Len(printers) <= MaxPrinters
    /\ holders \in Seq(UpdateHold \cup CommandHold \cup {NotLocked}) /\ Len(holders) = Len(printers)
    /\ commands \in Seq(Command) /\ idle \subseteq Address
    /\ \A i \in DOMAIN commands : commands[i].printer \in DOMAIN printers

\* The registry lock: one edit at a time, whose address nobody else has, nobody having been
\* added since it was compared.
RegistryInv ==
    /\ \A p, q \in DOMAIN printers : p # q => printers[p].address # printers[q].address
    /\ \A p \in DOMAIN printers : ~printers[p].managed => printers[p].address = Deployed
    /\ \A p, q \in DOMAIN holders : Updating(p) /\ Updating(q) => p = q
    /\ \A p \in DOMAIN holders : Updating(p) =>
          \A q \in DOMAIN printers : q # p => printers[q].address # holders[p].address

\* A command that nobody revived goes where it was checked: while it is open its printer
\* keeps that endpoint, an edit about to commit keeps it too, and what a delivery read is it.
CommandStands(i) == ~commands[i].revived =>
    /\ Pending(i) => /\ commands[i].checked = EndpointOf(printers[commands[i].printer])
                     /\ Updating(commands[i].printer) =>
                           /\ holders[commands[i].printer].enabled
                           /\ holders[commands[i].printer].address = commands[i].checked
    /\ commands[i].to \in {Nowhere, commands[i].checked}
    /\ commands[i].reached \in {Nowhere, commands[i].checked}

CommandsInv ==
    /\ \A p \in DOMAIN holders : Commanding(p) => holders[p].address = EndpointOf(printers[p])
    /\ \A i \in DOMAIN commands : CommandStands(i)

ConnectionsInv == ConnectionRows /\ RegistryInv /\ CommandsInv

LEMMA RowFacts ==
  ASSUME ConnectionRows, NEW p \in DOMAIN printers
  PROVE  /\ p \in DOMAIN holders /\ p \in 1..MaxPrinters /\ p \in 1..Len(printers)
         /\ printers[p] \in Connection
         /\ holders[p] \in UpdateHold \cup CommandHold \cup {NotLocked}
         /\ Endpoint(p) = EndpointOf(printers[p]) /\ Endpoint(p) \in Address \cup {Nowhere}
<1>1. DOMAIN printers = 1..Len(printers) /\ DOMAIN holders = 1..Len(printers)
      /\ Len(printers) \in Nat /\ MaxPrinters \in Nat
  BY ConnectionsAssumption DEF ConnectionRows
<1>2. printers[p] \in Connection
  BY DEF ConnectionRows
<1>3. Endpoint(p) = EndpointOf(printers[p]) /\ Endpoint(p) \in Address \cup {Nowhere}
  BY <1>2, ConnectionsAssumption DEF Endpoint, EndpointOf, Connection
<1>4. holders[p] \in UpdateHold \cup CommandHold \cup {NotLocked}
  BY <1>1 DEF ConnectionRows
<1> QED
  BY <1>1, <1>2, <1>3, <1>4 DEF ConnectionRows

LEMMA ConnectionsInvInit == ConnectionsInit => ConnectionsInv
<1> SUFFICES ASSUME ConnectionsInit PROVE ConnectionsInv
  OBVIOUS
<1> DEFINE c == [address |-> Deployed, managed |-> FALSE, enabled |-> TRUE, used |-> FALSE]
<1>1. c \in Connection
  BY ConnectionsAssumption DEF Connection
<1> HIDE DEF c
<1>2. printers = <<c>> /\ holders = <<NotLocked>> /\ commands = <<>> /\ idle = Address
  BY DEF ConnectionsInit, c
<1>3. c.address = Deployed
  BY DEF c
<1>4. MaxPrinters \in Nat /\ MaxPrinters >= 1
  BY ConnectionsAssumption
<1>5. /\ printers \in Seq(Connection) /\ Len(printers) = 1 /\ DOMAIN printers = {1}
      /\ holders \in Seq(UpdateHold \cup CommandHold \cup {NotLocked}) /\ Len(holders) = 1
      /\ DOMAIN holders = {1} /\ commands \in Seq(Command) /\ DOMAIN commands = {}
  BY <1>1, <1>2
<1>6. ConnectionRows
  BY <1>2, <1>4, <1>5 DEF ConnectionRows
<1>7. RegistryInv
  BY <1>2, <1>3, <1>5 DEF RegistryInv, Updating
<1>8. CommandsInv
  BY <1>2, <1>5 DEF CommandsInv, CommandStands, Commanding
<1> QED
  BY <1>6, <1>7, <1>8 DEF ConnectionsInv

\* Steps that leave the registry alone.
LEMMA RegistryKept ==
  ASSUME ConnectionsInv, UNCHANGED <<printers, holders>>
  PROVE  RegistryInv'
  BY DEF ConnectionsInv, RegistryInv, Updating

\* A row let go of: by an abandoned request, or by a command now queued.
LEMMA RegistryReleased ==
  ASSUME ConnectionsInv, NEW p \in DOMAIN holders, UNCHANGED printers,
         holders' = [holders EXCEPT ![p] = NotLocked]
  PROVE  RegistryInv'
<1>1. DOMAIN holders' = DOMAIN holders /\ \A q \in DOMAIN holders : q # p => holders'[q] = holders[q]
  OBVIOUS
<1>2. ~Updating(p)'
  BY DEF Updating
<1>3. \A q \in DOMAIN holders : Updating(q)' => Updating(q) /\ q # p
  BY <1>1, <1>2 DEF Updating
<1> QED
  BY <1>1, <1>3 DEF ConnectionsInv, RegistryInv

\* A command's next state, as long as it stays within what CommandsInv says of one.
LEMMA CommandBecomesInv ==
  ASSUME ConnectionsInv, NEW i \in DOMAIN commands, NEW c \in Command,
         c.printer = commands[i].printer, c.checked = commands[i].checked,
         commands[i].revived => c.revived,
         ~c.revived => /\ c.status \in {"PENDING", "RUNNING"} => Pending(i)
                       /\ c.to \in {Nowhere, c.checked} /\ c.reached \in {Nowhere, c.checked},
         CommandBecomes(i, c)
  PROVE  ConnectionsInv'
<1>1. /\ commands' = [commands EXCEPT ![i] = c] /\ DOMAIN commands' = DOMAIN commands
      /\ commands'[i] = c /\ \A j \in DOMAIN commands : j # i => commands'[j] = commands[j]
      /\ UNCHANGED <<printers, holders, idle>>
  BY DEF CommandBecomes
<1>2. commands' \in Seq(Command)
  BY <1>1 DEF ConnectionsInv, ConnectionRows
<1>3. ConnectionRows'
  BY <1>1, <1>2 DEF ConnectionsInv, ConnectionRows
<1>4. RegistryInv'
  BY <1>1, RegistryKept
<1>5. CommandsInv'
  BY <1>1 DEF ConnectionsInv, CommandsInv, CommandStands, Pending, Updating, Commanding
<1> QED
  BY <1>3, <1>4, <1>5 DEF ConnectionsInv

\* A row that changes nothing an endpoint or the registry depends on.
LEMMA ContactInv ==
  ASSUME ConnectionsInv, NEW p \in DOMAIN printers, ContactPrinter(p)
  PROVE  ConnectionsInv'
<1> DEFINE c == [printers[p] EXCEPT !.used = TRUE]
<1>0. ConnectionRows
  BY DEF ConnectionsInv
<1>1. c \in Connection /\ c.address = printers[p].address /\ c.managed = printers[p].managed
      /\ EndpointOf(c) = EndpointOf(printers[p])
  BY <1>0, RowFacts DEF Connection, EndpointOf
<1>2. printers' = [printers EXCEPT ![p] = c] /\ UNCHANGED <<holders, idle, commands, connectionOps>>
  BY DEF ContactPrinter
<1> HIDE DEF c
<1>3. /\ DOMAIN printers' = DOMAIN printers /\ Len(printers') = Len(printers)
      /\ printers'[p] = c /\ \A q \in DOMAIN printers : q # p => printers'[q] = printers[q]
      /\ printers' \in Seq(Connection)
  BY <1>0, <1>1, <1>2 DEF ConnectionRows
<1>4. \A q \in DOMAIN printers : /\ printers'[q].address = printers[q].address
                                 /\ printers'[q].managed = printers[q].managed
                                 /\ EndpointOf(printers'[q]) = EndpointOf(printers[q])
  BY <1>1, <1>3
<1>5. ConnectionRows'
  BY <1>0, <1>2, <1>3 DEF ConnectionRows
<1>6. RegistryInv'
  BY <1>2, <1>3, <1>4 DEF ConnectionsInv, RegistryInv, Updating
<1>7. CommandsInv'
  <2>1. DOMAIN holders = DOMAIN printers
    BY <1>0 DEF ConnectionRows
  <2> QED
    BY <1>0, <1>2, <1>3, <1>4, <2>1 DEF ConnectionsInv, ConnectionRows, CommandsInv, CommandStands, Pending,
       Updating, Commanding
<1> QED
  BY <1>5, <1>6, <1>7 DEF ConnectionsInv

LEMMA AddInv ==
  ASSUME ConnectionsInv, NEW a \in Address, NEW enabled \in BOOLEAN, AddPrinter(a, enabled)
  PROVE  ConnectionsInv'
<1> DEFINE c == [address |-> a, managed |-> TRUE, enabled |-> enabled, used |-> FALSE]
           n == Len(printers)
<1>0. ConnectionRows /\ n \in Nat /\ MaxPrinters \in Nat /\ n < MaxPrinters
      /\ DOMAIN printers = 1..n /\ DOMAIN holders = 1..n
  BY ConnectionsAssumption DEF ConnectionsInv, ConnectionRows, AddPrinter
<1>1. c \in Connection /\ c.address = a /\ c.managed
  BY DEF Connection
<1>2. printers' = Append(printers, c) /\ holders' = Append(holders, NotLocked)
      /\ UNCHANGED <<idle, commands, connectionOps>>
  BY DEF AddPrinter
<1> HIDE DEF c
<1>3. /\ printers' \in Seq(Connection) /\ Len(printers') = n + 1 /\ DOMAIN printers' = 1..(n + 1)
      /\ printers'[n + 1] = c /\ \A q \in 1..n : printers'[q] = printers[q]
  BY <1>0, <1>1, <1>2 DEF ConnectionRows
<1>4. /\ holders' \in Seq(UpdateHold \cup CommandHold \cup {NotLocked}) /\ Len(holders') = n + 1
      /\ DOMAIN holders' = 1..(n + 1)
      /\ holders'[n + 1] = NotLocked /\ \A q \in 1..n : holders'[q] = holders[q]
  BY <1>0, <1>2 DEF ConnectionRows
<1> HIDE DEF n
<1>5. 1..(n + 1) = (1..n) \cup {n + 1} /\ n + 1 \notin 1..n /\ n + 1 <= MaxPrinters
  BY <1>0
<1>6. ConnectionRows'
  BY <1>0, <1>2, <1>3, <1>4, <1>5 DEF ConnectionRows
<1>7. \A q \in DOMAIN holders : ~Updating(q)
  BY DEF AddPrinter, RegistryIsFree, Updating
<1>8. \A q \in 1..n : printers[q].address # a
  BY <1>0 DEF AddPrinter, Unowned
<1>9. RegistryInv'
  <2>1. \A q \in DOMAIN holders' : ~Updating(q)'
    BY <1>0, <1>4, <1>5, <1>7 DEF Updating
  <2>2. \A q \in 1..n : ~printers'[q].managed => printers'[q].address = Deployed
    BY <1>0, <1>3 DEF ConnectionsInv, RegistryInv
  <2>3. \A q, r \in 1..n : q # r => printers'[q].address # printers'[r].address
    BY <1>0, <1>3 DEF ConnectionsInv, RegistryInv
  <2>4. \A q \in 1..n : printers'[q].address # printers'[n + 1].address
    BY <1>1, <1>3, <1>8
  <2> QED
    BY <1>1, <1>3, <1>4, <1>5, <2>1, <2>2, <2>3, <2>4 DEF RegistryInv
<1>10. CommandsInv'
  <2>1. \A q \in DOMAIN holders' : Commanding(q)' => q \in 1..n /\ Commanding(q)
    BY <1>4, <1>5 DEF Commanding
  <2>2. \A q \in DOMAIN holders' : Commanding(q)' => holders'[q].address = EndpointOf(printers'[q])
    BY <1>0, <1>3, <1>4, <2>1 DEF ConnectionsInv, CommandsInv, CommandStands
  <2>3. \A i \in DOMAIN commands : commands[i].printer \in 1..n
    BY <1>0 DEF ConnectionRows
  <2>4. \A q \in 1..n : Updating(q)' <=> Updating(q)
    BY <1>4 DEF Updating
  <2> QED
    BY <1>0, <1>2, <1>3, <1>4, <2>2, <2>3, <2>4 DEF ConnectionsInv, CommandsInv, CommandStands, Pending
<1> QED
  BY <1>6, <1>9, <1>10 DEF ConnectionsInv

\* update_connection up to its commit: what is about to be committed leaves the open
\* commands where they are.
LEMMA BeginUpdateInv ==
  ASSUME ConnectionsInv, NEW p \in DOMAIN printers, NEW a \in Address, NEW enabled \in BOOLEAN,
         BeginConnectionUpdate(p, a, enabled)
  PROVE  ConnectionsInv'
<1> DEFINE h == [kind |-> "update", address |-> a, enabled |-> enabled]
<1>0. ConnectionRows /\ p \in DOMAIN holders /\ printers[p] \in Connection
      /\ DOMAIN holders = DOMAIN printers
  BY RowFacts DEF ConnectionsInv, ConnectionRows
<1>1. h \in UpdateHold /\ h.kind = "update" /\ h.address = a /\ h.enabled = enabled
  BY DEF UpdateHold
<1>2. holders' = [holders EXCEPT ![p] = h] /\ UNCHANGED <<printers, idle, commands>>
  BY DEF BeginConnectionUpdate
<1> HIDE DEF h
<1>3. /\ DOMAIN holders' = DOMAIN holders /\ Len(holders') = Len(holders)
      /\ holders'[p] = h /\ \A q \in DOMAIN holders : q # p => holders'[q] = holders[q]
      /\ holders' \in Seq(UpdateHold \cup CommandHold \cup {NotLocked})
  BY <1>0, <1>1, <1>2 DEF ConnectionRows
<1>4. ConnectionRows'
  BY <1>0, <1>2, <1>3 DEF ConnectionRows
<1>5. \A q \in DOMAIN holders : ~Updating(q)
  BY DEF BeginConnectionUpdate, RegistryIsFree, Updating
<1>6. \A q \in DOMAIN holders : Updating(q)' => q = p
  BY <1>3, <1>5 DEF Updating
<1>7. RegistryInv'
  <2>1. \A q \in DOMAIN printers : q # p => printers[q].address # a
    BY DEF BeginConnectionUpdate, Unowned
  <2> QED
    BY <1>0, <1>1, <1>2, <1>3, <1>6, <2>1 DEF ConnectionsInv, RegistryInv
<1>8. \A i \in DOMAIN commands : ~commands[i].revived /\ Pending(i) /\ commands[i].printer = p
        => enabled /\ commands[i].checked = a
  <2> SUFFICES ASSUME NEW i \in DOMAIN commands, ~commands[i].revived, Pending(i),
                      commands[i].printer = p
               PROVE  enabled /\ commands[i].checked = a
    OBVIOUS
  <2>1. a = printers[p].address /\ enabled
    BY DEF BeginConnectionUpdate, NoCommandPending, Pending
  <2>2. commands[i].checked = EndpointOf(printers[p]) /\ commands[i].checked \in Address
    <3>1. commands[i] \in Command
      BY <1>0 DEF ConnectionRows
    <3>2. commands[i].checked = EndpointOf(printers[p])
      BY DEF ConnectionsInv, CommandsInv, CommandStands
    <3> QED
      BY <3>1, <3>2 DEF Command
  <2>3. ~printers[p].managed => printers[p].address = Deployed
    BY DEF ConnectionsInv, RegistryInv
  <2> QED
    BY <2>1, <2>2, <2>3, ConnectionsAssumption DEF EndpointOf
<1>9. CommandsInv'
  <2>1. \A q \in DOMAIN holders : Commanding(q)' => q # p /\ Commanding(q)
    BY <1>1, <1>3 DEF Commanding
  <2>2. \A q \in DOMAIN holders' : Commanding(q)' => holders'[q].address = EndpointOf(printers'[q])
    BY <1>2, <1>3, <2>1 DEF ConnectionsInv, CommandsInv, CommandStands
  <2>3. ASSUME NEW i \in DOMAIN commands, ~commands[i].revived, Pending(i)
        PROVE  \A q \in DOMAIN holders : commands[i].printer = q /\ Updating(q)' =>
                  holders'[q].enabled /\ holders'[q].address = commands[i].checked
    BY <1>1, <1>3, <1>6, <1>8, <2>3
  <2>4. \A i \in DOMAIN commands : commands[i].printer \in DOMAIN holders
    BY <1>0 DEF ConnectionRows
  <2>5. \A i \in DOMAIN commands : Pending(i)' <=> Pending(i)
    BY <1>2 DEF Pending
  <2>6. \A i \in DOMAIN commands : ~commands[i].revived =>
          /\ Pending(i) => commands[i].checked = EndpointOf(printers[commands[i].printer])
          /\ commands[i].to \in {Nowhere, commands[i].checked}
          /\ commands[i].reached \in {Nowhere, commands[i].checked}
    BY DEF ConnectionsInv, CommandsInv, CommandStands
  <2> QED
    BY <1>2, <2>2, <2>3, <2>4, <2>5, <2>6 DEF CommandsInv, CommandStands
<1> QED
  BY <1>4, <1>7, <1>9 DEF ConnectionsInv

LEMMA CommitUpdateInv ==
  ASSUME ConnectionsInv, NEW p \in DOMAIN printers, CommitConnectionUpdate(p)
  PROVE  ConnectionsInv'
<1> DEFINE c == [printers[p] EXCEPT !.address = holders[p].address,
                                    !.enabled = holders[p].enabled, !.managed = TRUE]
<1>0. ConnectionRows /\ p \in DOMAIN holders /\ printers[p] \in Connection
      /\ DOMAIN holders = DOMAIN printers /\ Updating(p)
      /\ holders[p] \in UpdateHold \cup CommandHold \cup {NotLocked}
  BY RowFacts DEF ConnectionsInv, ConnectionRows, CommitConnectionUpdate, Updating
<1>1. holders[p] \in UpdateHold
  BY <1>0 DEF Updating, CommandHold
<1>2. c \in Connection /\ c.managed /\ c.address = holders[p].address /\ c.enabled = holders[p].enabled
  BY <1>0, <1>1 DEF Connection, UpdateHold
<1>3. printers' = [printers EXCEPT ![p] = c] /\ holders' = [holders EXCEPT ![p] = NotLocked]
      /\ UNCHANGED <<idle, commands, connectionOps>>
  BY DEF CommitConnectionUpdate
<1> HIDE DEF c
<1>4. /\ DOMAIN printers' = DOMAIN printers /\ Len(printers') = Len(printers)
      /\ printers'[p] = c /\ \A q \in DOMAIN printers : q # p => printers'[q] = printers[q]
      /\ printers' \in Seq(Connection)
  BY <1>0, <1>2, <1>3 DEF ConnectionRows
<1>5. /\ DOMAIN holders' = DOMAIN holders /\ Len(holders') = Len(holders)
      /\ holders'[p] = NotLocked /\ \A q \in DOMAIN holders : q # p => holders'[q] = holders[q]
      /\ holders' \in Seq(UpdateHold \cup CommandHold \cup {NotLocked})
  BY <1>0, <1>3 DEF ConnectionRows
<1>6. ConnectionRows'
  BY <1>0, <1>3, <1>4, <1>5 DEF ConnectionRows
<1>7. \A q \in DOMAIN holders : ~Updating(q)'
  <2>1. \A q \in DOMAIN holders : Updating(q) => q = p
    BY <1>0 DEF ConnectionsInv, RegistryInv
  <2> QED
    BY <1>5, <2>1 DEF Updating
<1>8. RegistryInv'
  <2>1. \A q \in DOMAIN printers : q # p => printers[q].address # c.address
    BY <1>0, <1>2 DEF ConnectionsInv, RegistryInv
  <2>2. \A q, r \in DOMAIN printers : q # r => printers'[q].address # printers'[r].address
    BY <1>4, <2>1 DEF ConnectionsInv, RegistryInv
  <2>3. \A q \in DOMAIN printers : ~printers'[q].managed => printers'[q].address = Deployed
    BY <1>2, <1>4 DEF ConnectionsInv, RegistryInv
  <2> QED
    BY <1>0, <1>4, <1>5, <1>7, <2>2, <2>3 DEF RegistryInv
<1>9. CommandsInv'
  <2>1. \A q \in DOMAIN holders : Commanding(q)' => q # p /\ Commanding(q)
    BY <1>5 DEF Commanding
  <2>2. \A q \in DOMAIN holders' : Commanding(q)' => holders'[q].address = EndpointOf(printers'[q])
    BY <1>0, <1>4, <1>5, <2>1 DEF ConnectionsInv, CommandsInv, CommandStands
  <2>3. \A i \in DOMAIN commands : commands[i].printer \in DOMAIN printers
    BY <1>0 DEF ConnectionRows
  <2>4. ASSUME NEW i \in DOMAIN commands, ~commands[i].revived, Pending(i)
        PROVE  commands[i].checked = EndpointOf(printers'[commands[i].printer])
    <3>1. CASE commands[i].printer = p
      BY <1>0, <1>2, <1>4, <2>4, <3>1 DEF ConnectionsInv, CommandsInv, CommandStands, EndpointOf
    <3> QED
      BY <1>4, <2>3, <2>4, <3>1 DEF ConnectionsInv, CommandsInv, CommandStands
  <2> QED
    BY <1>0, <1>3, <1>7, <2>2, <2>3, <2>4 DEF ConnectionsInv, CommandsInv, CommandStands, Pending
<1> QED
  BY <1>6, <1>8, <1>9 DEF ConnectionsInv

\* A request takes the row: what it checked is the printer's endpoint.
LEMMA BeginCommandInv ==
  ASSUME ConnectionsInv, NEW p \in DOMAIN printers, BeginCommand(p)
  PROVE  ConnectionsInv'
<1> DEFINE h == [kind |-> "command", address |-> Endpoint(p)]
<1>0. ConnectionRows /\ p \in DOMAIN holders /\ DOMAIN holders = DOMAIN printers
      /\ Endpoint(p) = EndpointOf(printers[p]) /\ Endpoint(p) \in Address
  BY RowFacts DEF ConnectionsInv, ConnectionRows, BeginCommand, IsIdle
<1>1. h \in CommandHold /\ h.kind = "command" /\ h.address = EndpointOf(printers[p])
  BY <1>0 DEF CommandHold
<1>2. holders' = [holders EXCEPT ![p] = h] /\ UNCHANGED <<printers, idle, commands>>
  BY DEF BeginCommand
<1> HIDE DEF h
<1>3. /\ DOMAIN holders' = DOMAIN holders /\ Len(holders') = Len(holders)
      /\ holders'[p] = h /\ \A q \in DOMAIN holders : q # p => holders'[q] = holders[q]
      /\ holders' \in Seq(UpdateHold \cup CommandHold \cup {NotLocked})
  BY <1>0, <1>1, <1>2 DEF ConnectionRows
<1>4. ConnectionRows'
  BY <1>0, <1>2, <1>3 DEF ConnectionRows
<1>5. \A q \in DOMAIN holders : Updating(q)' => q # p /\ Updating(q)
  BY <1>1, <1>3 DEF Updating
<1>6. RegistryInv'
  BY <1>0, <1>2, <1>3, <1>5 DEF ConnectionsInv, RegistryInv
<1>7. CommandsInv'
  <2>1. \A q \in DOMAIN holders : Commanding(q)' => q = p \/ Commanding(q)
    BY <1>3 DEF Commanding
  <2>2. \A q \in DOMAIN holders' : Commanding(q)' => holders'[q].address = EndpointOf(printers'[q])
    BY <1>1, <1>2, <1>3, <2>1 DEF ConnectionsInv, CommandsInv, CommandStands
  <2>3. \A i \in DOMAIN commands : commands[i].printer \in DOMAIN holders
    BY <1>0 DEF ConnectionRows
  <2> QED
    BY <1>2, <1>3, <1>5, <2>2, <2>3 DEF ConnectionsInv, CommandsInv, CommandStands, Pending
<1> QED
  BY <1>4, <1>6, <1>7 DEF ConnectionsInv

LEMMA ReleaseRow ==
  ASSUME ConnectionsInv, NEW p \in DOMAIN printers,
         holders' = [holders EXCEPT ![p] = NotLocked]
  PROVE  /\ p \in DOMAIN holders /\ DOMAIN holders' = DOMAIN holders /\ Len(holders') = Len(holders)
         /\ holders' \in Seq(UpdateHold \cup CommandHold \cup {NotLocked})
         /\ \A q \in DOMAIN holders : Updating(q)' => Updating(q) /\ holders'[q] = holders[q]
         /\ \A q \in DOMAIN holders : Commanding(q)' => Commanding(q) /\ holders'[q] = holders[q]
<1>1. p \in DOMAIN holders /\ ConnectionRows
  BY RowFacts DEF ConnectionsInv
<1>2. /\ DOMAIN holders' = DOMAIN holders /\ Len(holders') = Len(holders)
      /\ holders'[p] = NotLocked /\ \A q \in DOMAIN holders : q # p => holders'[q] = holders[q]
      /\ holders' \in Seq(UpdateHold \cup CommandHold \cup {NotLocked})
  BY <1>1 DEF ConnectionRows
<1> QED
  BY <1>1, <1>2 DEF Updating, Commanding

LEMMA AbandonInv ==
  ASSUME ConnectionsInv, NEW p \in DOMAIN printers, AbandonRequest(p)
  PROVE  ConnectionsInv'
<1>0. holders' = [holders EXCEPT ![p] = NotLocked] /\ UNCHANGED <<printers, idle, commands>>
      /\ ConnectionRows /\ DOMAIN holders = DOMAIN printers
  BY DEF AbandonRequest, ConnectionsInv, ConnectionRows
<1>1. ConnectionRows'
  BY <1>0, ReleaseRow DEF ConnectionRows
<1>2. RegistryInv'
  BY <1>0, ReleaseRow, RegistryReleased
<1>3. CommandsInv'
  <2>1. \A i \in DOMAIN commands : commands[i].printer \in DOMAIN holders
    BY <1>0 DEF ConnectionRows
  <2>2. \A i \in DOMAIN commands : Pending(i)' <=> Pending(i)
    BY <1>0 DEF Pending
  <2>3. /\ DOMAIN holders' = DOMAIN holders
        /\ \A q \in DOMAIN holders : Updating(q)' => Updating(q) /\ holders'[q] = holders[q]
        /\ \A q \in DOMAIN holders : Commanding(q)' => Commanding(q) /\ holders'[q] = holders[q]
    BY <1>0, ReleaseRow
  <2> QED
    BY <1>0, <2>1, <2>2, <2>3 DEF ConnectionsInv, CommandsInv, CommandStands
<1> QED
  BY <1>1, <1>2, <1>3 DEF ConnectionsInv

LEMMA CommitCommandInv ==
  ASSUME ConnectionsInv, NEW p \in DOMAIN printers, CommitCommand(p)
  PROVE  ConnectionsInv'
<1> DEFINE c == [printer |-> p, checked |-> holders[p].address, to |-> Nowhere,
                 reached |-> Nowhere, revived |-> FALSE, status |-> "PENDING"]
<1>n. PICK n \in Nat : n = Len(commands)
  BY DEF ConnectionsInv, ConnectionRows
<1>0. holders' = [holders EXCEPT ![p] = NotLocked] /\ UNCHANGED <<printers, idle>>
      /\ commands' = Append(commands, c)
      /\ ConnectionRows /\ DOMAIN holders = DOMAIN printers
      /\ DOMAIN commands = 1..n
  BY <1>n DEF CommitCommand, ConnectionsInv, ConnectionRows
<1>1. p \in DOMAIN holders /\ p \in 1..MaxPrinters /\ Commanding(p) /\ holders[p] \in CommandHold
  BY <1>0, RowFacts DEF CommitCommand, Commanding, UpdateHold
<1>2. c \in Command /\ c.printer = p /\ c.checked = EndpointOf(printers[p])
      /\ c.to = Nowhere /\ c.reached = Nowhere
  <2>1. holders[p].address \in Address /\ holders[p].address = EndpointOf(printers[p])
    BY <1>1 DEF ConnectionsInv, CommandsInv, CommandStands, CommandHold
  <2> QED
    BY <1>1, <2>1 DEF Command
<1> HIDE DEF c
<1>3. /\ commands' \in Seq(Command) /\ DOMAIN commands' = 1..(n + 1) /\ commands'[n + 1] = c
      /\ \A i \in 1..n : commands'[i] = commands[i]
  BY <1>n, <1>0, <1>2 DEF ConnectionRows
<1>4. 1..(n + 1) = (1..n) \cup {n + 1}
  OBVIOUS
<1>5. ConnectionRows'
  <2>1. \A i \in DOMAIN commands' : commands'[i].printer \in DOMAIN printers'
    BY <1>0, <1>2, <1>3, <1>4 DEF ConnectionRows
  <2> QED
    BY <1>0, <1>3, <2>1, ReleaseRow DEF ConnectionRows
<1>6. RegistryInv'
  BY <1>0, ReleaseRow, RegistryReleased
<1>7. CommandsInv'
  <2>1. \A i \in DOMAIN commands : commands[i].printer \in DOMAIN holders
    BY <1>0 DEF ConnectionRows
  <2>2. \A q \in DOMAIN holders' : Commanding(q)' => holders'[q].address = EndpointOf(printers'[q])
    BY <1>0, ReleaseRow DEF ConnectionsInv, CommandsInv, CommandStands
  <2>3. ~Updating(p)'
    BY <1>0, <1>1 DEF Updating
  <2>4. \A i \in 1..n : CommandStands(i)
    BY <1>0 DEF ConnectionsInv, CommandsInv, CommandStands
  <2>5. ASSUME NEW i \in 1..n PROVE CommandStands(i)'
    <3>1. commands'[i] = commands[i] /\ commands[i].printer \in DOMAIN holders
      BY <1>0, <1>3, <2>1
    <3>2. Updating(commands[i].printer)' => Updating(commands[i].printer)
                       /\ holders'[commands[i].printer] = holders[commands[i].printer]
      <4>1. \A q \in DOMAIN holders : Updating(q)' => Updating(q) /\ holders'[q] = holders[q]
        BY <1>0, ReleaseRow
      <4> QED
        BY <3>1, <4>1 DEF Updating
    <3> QED
      BY <1>0, <2>4, <3>1, <3>2 DEF CommandStands, Pending
  <2>6. CommandStands(n + 1)'
    BY <1>0, <1>2, <1>3, <2>3 DEF CommandStands, Updating
  <2>7. \A i \in DOMAIN commands' : CommandStands(i)'
    BY <1>3, <1>4, <2>5, <2>6
  <2> QED
    BY <2>2, <2>7 DEF CommandsInv, CommandStands
<1> QED
  BY <1>5, <1>6, <1>7 DEF ConnectionsInv

LEMMA CommandStepInv ==
  ASSUME ConnectionsInv, NEW i \in DOMAIN commands,
         \/ ClaimCommand(i) \/ ReadEndpoint(i) \/ DeliverCommand(i) \/ CompleteCommand(i)
         \/ RetryCommand(i) \/ \E status \in {"PENDING", "DEAD"} : CommandFails(i, status)
  PROVE  ConnectionsInv'
<1> DEFINE k == commands[i]
<1>0. ConnectionRows /\ k \in Command /\ k.printer \in DOMAIN printers
  BY DEF ConnectionsInv, ConnectionRows
<1>1. ~k.revived => k.to \in {Nowhere, k.checked} /\ k.reached \in {Nowhere, k.checked}
  BY DEF ConnectionsInv, CommandsInv, CommandStands
<1>2. CASE ClaimCommand(i) \/ CompleteCommand(i)
  <2>1. PICK status \in {"RUNNING", "COMPLETED"} : CommandBecomes(i, [k EXCEPT !.status = status])
    BY <1>2 DEF ClaimCommand, CompleteCommand
  <2>2. Pending(i)
    BY <1>2 DEF ClaimCommand, CompleteCommand, Pending
  <2> DEFINE c == [k EXCEPT !.status = status]
  <2>3. c \in Command /\ c.printer = k.printer /\ c.checked = k.checked /\ c.revived = k.revived
        /\ c.to = k.to /\ c.reached = k.reached
    BY <1>0, <2>1 DEF Command
  <2> HIDE DEF c
  <2> QED
    BY <1>1, <2>1, <2>2, <2>3, CommandBecomesInv DEF c
<1>3. CASE ReadEndpoint(i)
  <2> DEFINE c == [k EXCEPT !.to = Endpoint(k.printer)]
  <2>1. Endpoint(k.printer) \in Address \cup {Nowhere} /\ Pending(i)
        /\ Endpoint(k.printer) = EndpointOf(printers[k.printer])
    BY <1>0, <1>3, RowFacts DEF ReadEndpoint, Pending
  <2>2. ~k.revived => Endpoint(k.printer) = k.checked
    BY <2>1 DEF ConnectionsInv, CommandsInv, CommandStands
  <2>3. c \in Command /\ c.printer = k.printer /\ c.checked = k.checked /\ c.revived = k.revived
        /\ c.to = Endpoint(k.printer) /\ c.reached = k.reached
    BY <1>0, <2>1 DEF Command
  <2>4. CommandBecomes(i, c)
    BY <1>3 DEF ReadEndpoint
  <2> HIDE DEF c
  <2> QED
    BY <1>1, <2>1, <2>2, <2>3, <2>4, CommandBecomesInv
<1>4. CASE DeliverCommand(i)
  <2> DEFINE c == [k EXCEPT !.reached = k.to]
  <2>1. c \in Command /\ c.printer = k.printer /\ c.checked = k.checked /\ c.revived = k.revived
        /\ c.to = k.to /\ c.reached = k.to
    BY <1>0 DEF Command
  <2>2. CommandBecomes(i, c) /\ Pending(i)
    BY <1>4 DEF DeliverCommand, Pending
  <2> HIDE DEF c
  <2> QED
    BY <1>1, <2>1, <2>2, CommandBecomesInv
<1>5. CASE RetryCommand(i)
  <2> DEFINE c == [k EXCEPT !.status = "PENDING", !.revived = TRUE]
  <2>1. c \in Command /\ c.printer = k.printer /\ c.checked = k.checked /\ c.revived
    BY <1>0 DEF Command
  <2>2. CommandBecomes(i, c)
    BY <1>5 DEF RetryCommand
  <2> HIDE DEF c
  <2> QED
    BY <2>1, <2>2, CommandBecomesInv
<1>6. CASE \E status \in {"PENDING", "DEAD"} : CommandFails(i, status)
  <2>1. PICK status \in {"PENDING", "DEAD"} : CommandFails(i, status)
    BY <1>6
  <2> DEFINE c == [k EXCEPT !.status = status, !.to = Nowhere]
  <2>2. c \in Command /\ c.printer = k.printer /\ c.checked = k.checked /\ c.revived = k.revived
        /\ c.to = Nowhere /\ c.reached = k.reached
    BY <1>0, <2>1 DEF Command
  <2>3. CommandBecomes(i, c) /\ Pending(i)
    BY <2>1 DEF CommandFails, Pending
  <2> HIDE DEF c
  <2> QED
    BY <1>1, <2>2, <2>3, CommandBecomesInv
<1> QED
  BY <1>2, <1>3, <1>4, <1>5, <1>6

LEMMA ConnectionsInvStep ==
  ASSUME ConnectionsInv, [ConnectionsNext]_connectionVars
  PROVE  ConnectionsInv'
<1>1. CASE \E a \in Address : IdleChanges(a)
  <2>1. idle' \subseteq Address /\ UNCHANGED <<printers, holders, commands>>
    BY <1>1 DEF IdleChanges, ConnectionsInv, ConnectionRows
  <2>2. ConnectionRows'
    BY <2>1 DEF ConnectionsInv, ConnectionRows
  <2>3. RegistryInv'
    BY <2>1, RegistryKept
  <2>4. CommandsInv'
    BY <2>1 DEF ConnectionsInv, CommandsInv, CommandStands, Pending, Updating, Commanding
  <2> QED
    BY <2>2, <2>3, <2>4 DEF ConnectionsInv
<1>2. CASE UNCHANGED connectionVars
  BY <1>2 DEF connectionVars, ConnectionsInv, ConnectionRows, RegistryInv, CommandsInv, CommandStands, Pending,
     Updating, Commanding
<1> QED
  BY <1>1, <1>2, AddInv, ContactInv, CommitUpdateInv, BeginCommandInv, CommitCommandInv, AbandonInv,
     BeginUpdateInv, CommandStepInv DEF ConnectionsNext

LEMMA ConnectionsInvHolds == ConnectionsSpec => []ConnectionsInv
  BY ConnectionsInvInit, ConnectionsInvStep, PTL DEF ConnectionsSpec

\* Connections, locks and commands keep their types.
THEOREM ConnectionTypes == ConnectionsSpec => []ConnectionsTypeOK
<1>1. ConnectionsInv => ConnectionsTypeOK
  BY DEF ConnectionsInv, ConnectionRows, ConnectionsTypeOK
<1> QED
  BY <1>1, ConnectionsInvHolds, PTL

\* update_connection's registry lock and its check of open commands suffice: no two
\* printers share a Moonraker, and no command that nobody revived reaches an endpoint other
\* than the one that said idle.
THEOREM CommandsReachWhatWasChecked == ConnectionsSpec => []EndpointsStand
<1>1. ConnectionsInv => EndpointsStand
  BY DEF ConnectionsInv, RegistryInv, CommandsInv, CommandStands, EndpointsStand
<1> QED
  BY <1>1, ConnectionsInvHolds, PTL

-----------------------------------------------------------------------------
(* BuildPlates.                                                            *)

PlateJob == [kind : {"select", "clear"}, side : SomeSide, status : {"PENDING", "DONE"}]

PrinterRow == [side : SomeSide, initialized : BOOLEAN, sequence : Nat]

\* PlatesTypeOK with the whole shape of the jobs and of the database's rows; a poll that has
\* read the printer holds the row to compare with.
PlateShapes ==
    /\ PlatesTypeOK /\ plateJobs \in Seq(PlateJob)
    /\ sides \in [known : SUBSET Side, available : SUBSET Side, counted : [Side -> Nat],
                  logged : [Side -> Nat]]
    /\ inFlight["poll"] # Nobody => loaded # Nobody

\* A log entry is a count that rose, a count is a receipt that some reader saw, and Klipper
\* takes no receipt back: a reading that is committed late counts nothing twice.
ReceiptsInv ==
    /\ \A s \in Side : sides.logged[s] <= sides.counted[s] /\ sides.counted[s] <= klipper.receipts[s]
    /\ \A r \in Readers, s \in Side :
          inFlight[r] # Nobody => inFlight[r].receipts[s] <= klipper.receipts[s]

PlatesInv == PlateShapes /\ ReceiptsInv

LEMMA PlatesInvInit == PlatesInit => PlatesInv
<1> SUFFICES ASSUME PlatesInit PROVE PlatesInv
  OBVIOUS
<1>1. klipper \in Klipper /\ \A s \in Side : klipper.receipts[s] = 0
  BY DEF PlatesInit, Klipper, SomeSide
<1>2. /\ sides \in [known : SUBSET Side, available : SUBSET Side, counted : [Side -> Nat],
                    logged : [Side -> Nat]]
      /\ sides.known = {} /\ sides.available = {}
      /\ \A s \in Side : sides.counted[s] = 0 /\ sides.logged[s] = 0
  BY DEF PlatesInit
<1>3. plateJobs \in Seq(PlateJob) /\ Len(plateJobs) = 0 /\ DOMAIN plateJobs = {}
  BY DEF PlatesInit
<1>4. plate \in [side : SomeSide, initialized : BOOLEAN, sequence : Nat]
  BY DEF PlatesInit, SomeSide
<1>5. PlateShapes
  <2>1. PlatesTypeOK
    BY <1>1, <1>2, <1>3, <1>4 DEF PlatesInit, PlatesTypeOK
  <2> QED
    BY <1>2, <1>3, <2>1 DEF PlateShapes, PlatesInit, Readers
<1>6. ReceiptsInv
  BY <1>1, <1>2 DEF PlatesInit, ReceiptsInv
<1> QED
  BY <1>5, <1>6 DEF PlatesInv

\* Steps of the printer: the receipts never fall.
LEMMA KlipperStepInv ==
  ASSUME PlatesInv, NEW k \in Klipper, \A s \in Side : klipper.receipts[s] <= k.receipts[s],
         klipper' = k, UNCHANGED <<plate, sides, plateJobs, loaded, inFlight, restoring>>,
         clearing' \in 0..Len(plateJobs)
  PROVE  PlatesInv'
<1>1. PlateShapes'
  BY DEF PlatesInv, PlateShapes, PlatesTypeOK
<1>2. ReceiptsInv'
  <2>1. \A s \in Side : /\ klipper.receipts[s] \in Nat /\ k.receipts[s] \in Nat
                        /\ sides.counted[s] \in Nat /\ sides.logged[s] \in Nat
    BY DEF PlatesInv, PlateShapes, PlatesTypeOK, Klipper
  <2>2. \A r \in Readers, s \in Side : inFlight[r] # Nobody => inFlight[r].receipts[s] \in Nat
    BY DEF PlatesInv, PlateShapes, PlatesTypeOK, Klipper
  <2>3. \A s \in Side : sides.logged[s] <= sides.counted[s] /\ sides.counted[s] <= k.receipts[s]
    BY <2>1 DEF PlatesInv, ReceiptsInv
  <2>4. \A r \in Readers, s \in Side : inFlight[r] # Nobody => inFlight[r].receipts[s] <= k.receipts[s]
    BY <2>1, <2>2 DEF PlatesInv, ReceiptsInv
  <2> QED
    BY <2>3, <2>4 DEF ReceiptsInv
<1> QED
  BY <1>1, <1>2 DEF PlatesInv

\* Whatever a macro loads, the receipts stay.
LEMMA AppliedType ==
  ASSUME NEW k \in Klipper, NEW s \in SomeSide
  PROVE  Applied(k, s) \in Klipper /\ Applied(k, s).receipts = k.receipts
  BY DEF Applied, Klipper

LEMMA MachineInv ==
  ASSUME PlatesInv,
         \/ \E s \in Side : SelectByHand(s) \/ Calibrate(s) \/ RemoveMesh(s)
         \/ SelectAutomatically \/ PlateRestart
         \/ \E b \in BOOLEAN : CalibrationEnds(b) \/ PlatePrint(b)
  PROVE  PlatesInv'
<1>0. klipper \in Klipper /\ NoSide \in SomeSide /\ Side \subseteq SomeSide
      /\ \A s \in Side : klipper.receipts[s] \in Nat
  BY DEF PlatesInv, PlateShapes, PlatesTypeOK, Klipper, SomeSide
<1>1. ASSUME NEW k \in Klipper, \A s \in Side : klipper.receipts[s] <= k.receipts[s], KlipperStep(k)
      PROVE  PlatesInv'
  BY <1>1, KlipperStepInv DEF KlipperStep, Database, PlatesInv, PlateShapes, PlatesTypeOK
<1>2. ASSUME NEW k \in Klipper, k.receipts = klipper.receipts, KlipperStep(k)
      PROVE  PlatesInv'
  BY <1>0, <1>1, <1>2
<1>3. CASE \E s \in Side : SelectByHand(s)
  <2>1. PICK s \in Side : SelectByHand(s)
    BY <1>3
  <2> DEFINE k == [klipper EXCEPT !.mesh = s, !.selected = s, !.origin = "manual", !.sequence = @ + 1]
  <2>2. k \in Klipper /\ k.receipts = klipper.receipts
    <3>1. s \in SomeSide /\ klipper.sequence + 1 \in Nat
      BY <1>0 DEF Klipper
    <3> DEFINE next == klipper.sequence + 1
    <3>2. k = [klipper EXCEPT !.mesh = s, !.selected = s, !.origin = "manual", !.sequence = next]
      BY <1>0 DEF Klipper
    <3> HIDE DEF next, k
    <3> QED
      BY <1>0, <3>1, <3>2 DEF Klipper, next
  <2>3. KlipperStep(k)
    BY <2>1 DEF SelectByHand
  <2> HIDE DEF k
  <2> QED
    BY <1>2, <2>2, <2>3
<1>4. CASE \E s \in Side : Calibrate(s)
  <2>1. PICK s \in Side : Calibrate(s)
    BY <1>4
  <2> DEFINE k == [klipper EXCEPT !.calibrating = s, !.mesh = NoSide]
  <2>2. k \in Klipper /\ k.receipts = klipper.receipts
    BY <1>0 DEF Klipper
  <2>3. KlipperStep(k)
    BY <2>1 DEF Calibrate
  <2> HIDE DEF k
  <2> QED
    BY <1>2, <2>2, <2>3
<1>5. CASE \E s \in Side : RemoveMesh(s)
  <2>1. PICK s \in Side : RemoveMesh(s)
    BY <1>5
  <2> DEFINE k == [klipper EXCEPT !.profiles = @ \ {s}, !.mesh = IF @ = s THEN NoSide ELSE @]
  <2>2. k \in Klipper /\ k.receipts = klipper.receipts
    BY <1>0 DEF Klipper
  <2>3. KlipperStep(k)
    BY <2>1 DEF RemoveMesh
  <2> HIDE DEF k
  <2> QED
    BY <1>2, <2>2, <2>3
<1>6. CASE SelectAutomatically
  <2> DEFINE k == [klipper EXCEPT !.mesh =
                      IF klipper.selected \notin klipper.profiles
                      THEN NoSide ELSE klipper.selected]
  <2>2. k \in Klipper /\ k.receipts = klipper.receipts
    BY <1>0 DEF Klipper
  <2>3. KlipperStep(k)
    BY <1>6 DEF SelectAutomatically
  <2> HIDE DEF k
  <2> QED
    BY <1>2, <2>2, <2>3
<1>7. CASE PlateRestart
  <2> DEFINE k == [klipper EXCEPT !.mesh = NoSide, !.calibrating = NoSide, !.clock = FALSE,
                                  !.busy = FALSE]
  <2>2. k \in Klipper /\ k.receipts = klipper.receipts
    BY <1>0 DEF Klipper
  <2>3. KlipperStep(k)
    BY <1>7 DEF PlateRestart
  <2> HIDE DEF k
  <2> QED
    BY <1>2, <2>2, <2>3
<1>8. CASE \E b \in BOOLEAN : PlatePrint(b)
  <2>1. PICK b \in BOOLEAN : PlatePrint(b)
    BY <1>8
  <2> DEFINE k == [klipper EXCEPT !.busy = b]
  <2>2. k \in Klipper /\ k.receipts = klipper.receipts
    BY <1>0 DEF Klipper
  <2>3. KlipperStep(k)
    BY <2>1 DEF PlatePrint
  <2> HIDE DEF k
  <2> QED
    BY <1>2, <2>2, <2>3
<1>9. CASE CalibrationEnds(FALSE)
  <2> DEFINE k == [klipper EXCEPT !.calibrating = NoSide]
  <2>2. k \in Klipper /\ k.receipts = klipper.receipts
    BY <1>0 DEF Klipper
  <2>3. KlipperStep(k)
    BY <1>9 DEF CalibrationEnds
  <2> HIDE DEF k
  <2> QED
    BY <1>2, <2>2, <2>3
<1>10. CASE CalibrationEnds(TRUE)
  <2> DEFINE s == klipper.calibrating
             k == [klipper EXCEPT !.calibrating = NoSide, !.mesh = s, !.receipts[s] = @ + 1,
                     !.profiles = @ \cup {s},
                     !.timed = IF klipper.clock THEN @ \cup {s} ELSE @ \ {s}]
  <2>1. s \in Side
    BY <1>0, <1>10 DEF CalibrationEnds, Klipper, SomeSide
  <2>2. k \in Klipper /\ k.receipts = [klipper.receipts EXCEPT ![s] = @ + 1]
    <3> DEFINE receipts == [klipper.receipts EXCEPT ![s] = @ + 1]
               profiles == klipper.profiles \cup {s}
               timed == IF klipper.clock THEN klipper.timed \cup {s} ELSE klipper.timed \ {s}
    <3>1. receipts \in [Side -> Nat] /\ profiles \subseteq Side /\ timed \subseteq Side
          /\ s \in SomeSide
      BY <1>0, <2>1 DEF Klipper
    <3>2. k = [klipper EXCEPT !.calibrating = NoSide, !.mesh = s, !.receipts = receipts,
                              !.profiles = profiles, !.timed = timed]
      BY <1>0 DEF Klipper
    <3> HIDE DEF receipts, profiles, timed, k, s
    <3>3. k \in Klipper /\ k.receipts = receipts
      BY <1>0, <3>1, <3>2 DEF Klipper
    <3> QED
      BY <3>3 DEF receipts
  <2>3. KlipperStep(k)
    BY <1>10 DEF CalibrationEnds
  <2> HIDE DEF k
  <2>4. \A t \in Side : klipper.receipts[t] <= k.receipts[t]
    <3>1. klipper.receipts \in [Side -> Nat]
      BY <1>0 DEF Klipper
    <3> QED
      BY <2>1, <2>2, <3>1
  <2> QED
    BY <1>1, <2>2, <2>3, <2>4
<1> QED
  BY <1>3, <1>4, <1>5, <1>6, <1>7, <1>8, <1>9, <1>10

\* What a job and a reading need of the rows.
LEMMA PlateFacts ==
  ASSUME PlatesInv
  PROVE  /\ klipper \in Klipper /\ plate \in [side : SomeSide, initialized : BOOLEAN, sequence : Nat]
         /\ plate.side \in SomeSide
         /\ \A i \in DOMAIN plateJobs : plateJobs[i] \in PlateJob /\ plateJobs[i].side \in SomeSide
         /\ DOMAIN plateJobs = 1..Len(plateJobs) /\ Len(plateJobs) \in Nat
         /\ plateJobs \in Seq(PlateJob)
         /\ NoSide \in SomeSide /\ \A s \in Side : s \in SomeSide
<1>1. /\ klipper \in Klipper /\ plate \in [side : SomeSide, initialized : BOOLEAN, sequence : Nat]
      /\ plateJobs \in Seq(PlateJob)
  BY DEF PlatesInv, PlateShapes, PlatesTypeOK
<1>2. \A i \in DOMAIN plateJobs : plateJobs[i] \in PlateJob
  BY <1>1
<1>3. \A i \in DOMAIN plateJobs : plateJobs[i].side \in SomeSide
  BY <1>2 DEF PlateJob
<1> QED
  BY <1>1, <1>2, <1>3 DEF SomeSide

\* The database's steps that leave Klipper and the readings alone.
LEMMA RowsInv ==
  ASSUME PlatesInv, UNCHANGED <<klipper, loaded, inFlight, restoring>>,
         plate' \in [side : SomeSide, initialized : BOOLEAN, sequence : Nat],
         plateJobs' \in Seq(PlateJob), Len(plateJobs') >= Len(plateJobs), clearing' \in {clearing, 0},
         sides' = [sides EXCEPT !.available = sides'.available],
         sides'.available \subseteq sides.known
  PROVE  PlatesInv'
<1>1. /\ sides' \in [known : SUBSET Side, available : SUBSET Side, counted : [Side -> Nat],
                     logged : [Side -> Nat]]
      /\ sides'.known = sides.known /\ sides'.counted = sides.counted /\ sides'.logged = sides.logged
  <2>1. sides'.available \subseteq Side
    BY DEF PlatesInv, PlateShapes
  <2> QED
    BY <2>1 DEF PlatesInv, PlateShapes
<1>2. \A i \in DOMAIN plateJobs' : plateJobs'[i].status \in {"PENDING", "DONE"}
  <2>1. \A i \in DOMAIN plateJobs' : plateJobs'[i] \in PlateJob
    OBVIOUS
  <2> QED
    BY <2>1 DEF PlateJob
<1>3. clearing' \in 0..Len(plateJobs')
  <2>1. clearing \in 0..Len(plateJobs) /\ Len(plateJobs) \in Nat /\ Len(plateJobs') \in Nat
    BY DEF PlatesInv, PlateShapes, PlatesTypeOK
  <2> QED
    BY <2>1
<1>4. PlateShapes'
  <2>1. PlatesTypeOK'
    BY <1>1, <1>2, <1>3 DEF PlatesInv, PlateShapes, PlatesTypeOK
  <2> QED
    BY <1>1, <2>1 DEF PlatesInv, PlateShapes
<1>5. ReceiptsInv'
  BY <1>1 DEF PlatesInv, ReceiptsInv
<1> QED
  BY <1>4, <1>5 DEF PlatesInv

LEMMA QueueJobType ==
  ASSUME PlatesInv, NEW kind \in {"select", "clear"}, NEW s \in SomeSide, QueuePlateJob(kind, s)
  PROVE  plateJobs' \in Seq(PlateJob) /\ Len(plateJobs') >= Len(plateJobs)
<1>1. [kind |-> kind, side |-> s, status |-> "PENDING"] \in PlateJob
  BY DEF PlateJob
<1> QED
  BY <1>1, PlateFacts DEF QueuePlateJob

LEMMA FinishType ==
  ASSUME PlatesInv, NEW i \in DOMAIN plateJobs, Finish(i)
  PROVE  plateJobs' \in Seq(PlateJob) /\ Len(plateJobs') = Len(plateJobs)
<1>1. [plateJobs[i] EXCEPT !.status = "DONE"] \in PlateJob
  BY PlateFacts DEF PlateJob
<1> QED
  BY <1>1, PlateFacts DEF Finish

LEMMA PlateJobsInv ==
  ASSUME PlatesInv,
         \/ \E s \in Side : SelectInApp(s)
         \/ ClearInApp \/ ConfirmClear \/ RestorePlate
         \/ \E i \in DOMAIN plateJobs : RunPlateJob(i) \/ PlateJobDies(i)
  PROVE  PlatesInv'
<1>0. sides = [sides EXCEPT !.available = sides.available] /\ sides.available \subseteq sides.known
      /\ clearing \in 0..Len(plateJobs) /\ restoring \in SomeSide \cup {Nobody}
  BY DEF PlatesInv, PlateShapes, PlatesTypeOK
<1>1. CASE \E s \in Side : SelectInApp(s)
  <2>1. PICK s \in Side : SelectInApp(s)
    BY <1>1
  <2>2. plateJobs' \in Seq(PlateJob) /\ Len(plateJobs') >= Len(plateJobs)
    BY <2>1, PlateFacts, QueueJobType DEF SelectInApp
  <2>3. plate' \in [side : SomeSide, initialized : BOOLEAN, sequence : Nat]
    BY <2>1, PlateFacts DEF SelectInApp
  <2>4. sides' = [sides EXCEPT !.available = sides'.available] /\ sides'.available \subseteq sides.known
    BY <1>0, <2>1 DEF SelectInApp, PlatesInv, PlateShapes
  <2> QED
    BY <2>1, <2>2, <2>3, <2>4, RowsInv DEF SelectInApp
<1>2. CASE ClearInApp
  <2>1. plateJobs' \in Seq(PlateJob) /\ Len(plateJobs') >= Len(plateJobs)
    BY <1>2, PlateFacts, QueueJobType DEF ClearInApp
  <2> QED
    BY <1>0, <1>2, <2>1, PlateFacts, RowsInv DEF ClearInApp
<1>3. ASSUME NEW i \in DOMAIN plateJobs, Finish(i),
             UNCHANGED <<klipper, plate, sides, clearing, loaded, inFlight, restoring>>
      PROVE  PlatesInv'
  BY <1>0, <1>3, FinishType, PlateFacts, RowsInv
<1>4. CASE \E i \in DOMAIN plateJobs : PlateJobDies(i)
  BY <1>3, <1>4 DEF PlateJobDies
<1>5. CASE \E i \in DOMAIN plateJobs : RunPlateJob(i)
  <2>1. PICK i \in DOMAIN plateJobs : RunPlateJob(i)
    BY <1>5
  <2>2. plateJobs[i].side \in SomeSide /\ i \in 0..Len(plateJobs) /\ 0 \in 0..Len(plateJobs)
    BY PlateFacts
  <2>3. CASE ~StillWanted(i)
    BY <1>3, <2>1, <2>3 DEF RunPlateJob
  <2>4. CASE StillWanted(i) /\ plateJobs[i].kind = "select"
    <3> DEFINE k == Applied(klipper, plateJobs[i].side)
    <3>1. k \in Klipper /\ k.receipts = klipper.receipts
      BY <2>2, AppliedType, PlateFacts
    <3>2. klipper' = k /\ Finish(i) /\ UNCHANGED <<plate, sides, clearing, loaded, inFlight, restoring>>
      BY <2>1, <2>4 DEF RunPlateJob
    <3> HIDE DEF k
    <3>3. PlateShapes'
      <4>1. plateJobs' \in Seq(PlateJob) /\ Len(plateJobs') = Len(plateJobs)
        BY <3>2, FinishType
      <4>2. \A j \in DOMAIN plateJobs' : plateJobs'[j] \in PlateJob
        BY <4>1
      <4>3. \A j \in DOMAIN plateJobs' : plateJobs'[j].status \in {"PENDING", "DONE"}
        BY <4>2 DEF PlateJob
      <4> QED
        BY <3>1, <3>2, <4>1, <4>3 DEF PlatesInv, PlateShapes, PlatesTypeOK
    <3>4. ReceiptsInv'
      BY <3>1, <3>2 DEF PlatesInv, ReceiptsInv
    <3> QED
      BY <3>3, <3>4 DEF PlatesInv
  <2>5. CASE StillWanted(i) /\ plateJobs[i].kind # "select"
    <3>1. Applied(klipper, NoSide) \in Klipper
          /\ Applied(klipper, NoSide).receipts = klipper.receipts
      BY AppliedType, PlateFacts
    <3>2. \A s \in Side : klipper.receipts[s] <= Applied(klipper, NoSide).receipts[s]
      BY <3>1, PlateFacts DEF Klipper
    <3> QED
      BY <2>1, <2>2, <2>5, <3>1, <3>2, KlipperStepInv DEF RunPlateJob
  <2> QED
    BY <2>3, <2>4, <2>5
<1>6. CASE ConfirmClear
  <2>1. clearing \in DOMAIN plateJobs
    BY <1>0, <1>6, PlateFacts DEF ConfirmClear
  <2>2. plate' \in [side : SomeSide, initialized : BOOLEAN, sequence : Nat]
    BY <1>6, PlateFacts DEF ConfirmClear
  <2>3. plateJobs' \in Seq(PlateJob) /\ Len(plateJobs') >= Len(plateJobs)
    BY <1>6, <2>1, FinishType, PlateFacts DEF ConfirmClear
  <2> QED
    BY <1>0, <1>6, <2>2, <2>3, RowsInv DEF ConfirmClear
<1>7. CASE RestorePlate
  <2> DEFINE k == IF Applicable(klipper, restoring) THEN Applied(klipper, restoring) ELSE klipper
  <2>1. restoring \in SomeSide
    BY <1>0, <1>7 DEF RestorePlate
  <2>2. k \in Klipper /\ k.receipts = klipper.receipts
    BY <2>1, AppliedType, PlateFacts
  <2>3. klipper' = k /\ restoring' = Nobody /\ UNCHANGED <<plate, sides, plateJobs, clearing, loaded, inFlight>>
    BY <1>7 DEF RestorePlate
  <2> HIDE DEF k
  <2>4. PlateShapes'
    BY <2>2, <2>3 DEF PlatesInv, PlateShapes, PlatesTypeOK
  <2>5. ReceiptsInv'
    BY <2>2, <2>3 DEF PlatesInv, ReceiptsInv
  <2> QED
    BY <2>4, <2>5 DEF PlatesInv
<1> QED
  BY <1>1, <1>2, <1>4, <1>5, <1>6, <1>7

LEMMA LoadPrinterInv ==
  ASSUME PlatesInv, LoadPrinter
  PROVE  PlatesInv'
<1>1. /\ loaded' = plate /\ inFlight["poll"] = Nobody
      /\ UNCHANGED <<klipper, plate, sides, plateJobs, clearing, inFlight, restoring>>
  BY DEF LoadPrinter
<1>2. PlateShapes'
  <2>1. PlatesTypeOK'
    BY <1>1, PlateFacts DEF PlatesInv, PlateShapes, PlatesTypeOK
  <2> QED
    BY <1>1, <2>1 DEF PlatesInv, PlateShapes
<1> QED
  BY <1>1, <1>2 DEF PlatesInv, ReceiptsInv

LEMMA ReadPlatesInv ==
  ASSUME PlatesInv, NEW r \in Readers, ReadPlates(r)
  PROVE  PlatesInv'
<1>1. /\ inFlight' = [inFlight EXCEPT ![r] = klipper]
      /\ UNCHANGED <<klipper, plate, sides, plateJobs, clearing, loaded, restoring>>
      /\ r = "poll" => loaded # Nobody
  BY DEF ReadPlates
<1>2. PlateShapes'
  <2>1. PlatesTypeOK'
    BY <1>1, PlateFacts DEF PlatesInv, PlateShapes, PlatesTypeOK
  <2>2. inFlight'["poll"] # Nobody => loaded' # Nobody
    BY <1>1 DEF PlatesInv, PlateShapes, PlatesTypeOK, Readers
  <2> QED
    BY <1>1, <2>1, <2>2 DEF PlatesInv, PlateShapes
<1>3. ReceiptsInv'
  <2>1. \A s \in Side : klipper.receipts[s] <= klipper.receipts[s]
    BY PlateFacts DEF Klipper
  <2> QED
    BY <1>1, <2>1 DEF PlatesInv, PlateShapes, PlatesTypeOK, ReceiptsInv
<1> QED
  BY <1>2, <1>3 DEF PlatesInv

\* A reading is committed, late or not: what it counts was receipted, and it logs only
\* what it counts.
LEMMA SynchronizeInv ==
  ASSUME PlatesInv, NEW r \in Readers, SynchronizePlates(r)
  PROVE  PlatesInv'
<1> DEFINE k == inFlight[r]
           held == IF r = "poll" THEN loaded ELSE plate
           p == PlateAfter(k, held)
<1>1. k \in Klipper /\ k # Nobody /\ \A s \in Side : k.receipts[s] \in Nat /\ klipper.receipts[s] \in Nat
      /\ sides.counted[s] \in Nat /\ sides.logged[s] \in Nat
  BY DEF PlatesInv, PlateShapes, PlatesTypeOK, SynchronizePlates, Klipper
<1>2. held \in PrinterRow
  BY PlateFacts DEF PlatesInv, PlateShapes, PlatesTypeOK, SynchronizePlates, PrinterRow
<1>3. p \in PrinterRow
  <2>1. held.sequence \in Nat /\ k.sequence \in Nat /\ Larger(held.sequence, k.sequence) \in Nat
        /\ k.selected \in SomeSide /\ held.side \in SomeSide
    BY <1>1, <1>2 DEF Klipper, Larger, PrinterRow
  <2>2. (held.initialized \/ Takes(k, held)) \in BOOLEAN
    BY DEF Takes
  <2> HIDE DEF k, held
  <2> QED
    BY <1>2, <2>1, <2>2 DEF PlateAfter, PrinterRow
<1>4. /\ klipper' \in Klipper /\ klipper'.receipts = klipper.receipts
      /\ restoring' \in SomeSide \cup {Nobody}
  <2>1. p.side \in SomeSide
    BY <1>3 DEF PrinterRow
  <2>2. /\ [klipper EXCEPT !.clock = @ \/ ~k.clock] \in Klipper
        /\ [klipper EXCEPT !.clock = @ \/ ~k.clock].receipts = klipper.receipts
    BY PlateFacts DEF Klipper
  <2>3. restoring \in SomeSide \cup {Nobody}
    BY DEF PlatesInv, PlateShapes, PlatesTypeOK
  <2> QED
    BY <2>1, <2>2, <2>3, PlateFacts DEF SynchronizePlates
<1>5. plate' \in PrinterRow /\ loaded' \in PrinterRow \cup {Nobody}
  <2>1. plate' = Written(held, p) /\ loaded' \in {Nobody, loaded}
    BY DEF SynchronizePlates
  <2>2. loaded \in PrinterRow \cup {Nobody} /\ plate \in PrinterRow
    BY DEF PlatesInv, PlateShapes, PlatesTypeOK, PrinterRow
  <2> HIDE DEF p, held
  <2>3. (plate.initialized \/ p.initialized) \in BOOLEAN
    OBVIOUS
  <2> QED
    BY <1>2, <1>3, <2>1, <2>2, <2>3 DEF Written, PrinterRow
<1>6. /\ sides' \in [known : SUBSET Side, available : SUBSET Side, counted : [Side -> Nat],
                     logged : [Side -> Nat]]
      /\ sides'.available \subseteq sides'.known
  <2>1. sides' = SidesAfter(k)
    BY DEF SynchronizePlates
  <2>2. k.profiles \subseteq Side /\ sides.known \subseteq Side
    BY <1>1 DEF Klipper, PlatesInv, PlateShapes
  <2> QED
    BY <1>1, <2>1, <2>2 DEF SidesAfter
<1>7. \A s \in Side :
         /\ sides'.counted[s] = IF NewReceipt(k, s) THEN k.receipts[s] ELSE sides.counted[s]
         /\ sides'.logged[s] = IF NewReceipt(k, s) /\ s \in k.timed
                               THEN sides.logged[s] + 1 ELSE sides.logged[s]
  BY DEF SynchronizePlates, SidesAfter
<1>8. /\ inFlight' = [inFlight EXCEPT ![r] = Nobody] /\ UNCHANGED <<plateJobs, clearing>>
      /\ r # "poll" => loaded' = loaded
  BY DEF SynchronizePlates
<1>9. PlateShapes'
  <2>1. PlatesTypeOK'
    BY <1>4, <1>5, <1>6, <1>8 DEF PlatesInv, PlateShapes, PlatesTypeOK, PrinterRow
  <2> QED
    <3>1. inFlight'["poll"] # Nobody => loaded' # Nobody
      BY <1>8 DEF PlatesInv, PlateShapes, PlatesTypeOK, Readers
    <3> QED
      BY <1>6, <1>8, <2>1, <3>1 DEF PlatesInv, PlateShapes
<1>10. ReceiptsInv'
  <2>1. ASSUME NEW s \in Side
        PROVE  sides'.logged[s] <= sides'.counted[s] /\ sides'.counted[s] <= klipper'.receipts[s]
    <3>1. k.receipts[s] <= klipper.receipts[s] /\ sides.counted[s] <= klipper.receipts[s]
          /\ sides.logged[s] <= sides.counted[s]
      BY <1>1 DEF PlatesInv, ReceiptsInv
    <3>2. NewReceipt(k, s) => k.receipts[s] > sides.counted[s]
      BY DEF NewReceipt
    <3> HIDE DEF k
    <3> QED
      BY <1>1, <1>4, <1>7, <3>1, <3>2
  <2>2. \A q \in Readers, s \in Side :
           inFlight'[q] # Nobody => inFlight'[q].receipts[s] <= klipper'.receipts[s]
    BY <1>4, <1>8 DEF PlatesInv, PlateShapes, PlatesTypeOK, ReceiptsInv
  <2> QED
    BY <2>1, <2>2 DEF ReceiptsInv
<1> QED
  BY <1>9, <1>10 DEF PlatesInv

LEMMA PlatesInvStep ==
  ASSUME PlatesInv, [PlatesNext]_plateVars
  PROVE  PlatesInv'
<1>1. CASE UNCHANGED plateVars
  BY <1>1 DEF plateVars, PlatesInv, PlateShapes, PlatesTypeOK, ReceiptsInv
<1> QED
  BY <1>1, MachineInv, PlateJobsInv, LoadPrinterInv, ReadPlatesInv, SynchronizeInv DEF PlatesNext, PlatePoll, Readers

LEMMA PlatesInvHolds == PlatesSpec => []PlatesInv
  BY PlatesInvInit, PlatesInvStep, PTL DEF PlatesSpec

\* The plates' rows, jobs and readings keep their types.
THEOREM PlateTypes == PlatesSpec => []PlatesTypeOK
<1>1. PlatesInv => PlatesTypeOK
  BY DEF PlatesInv, PlateShapes
<1> QED
  BY <1>1, PlatesInvHolds, PTL

\* synchronize_build_plates logs a calibration at most once, whichever of the poll and the
\* Synchronize button read first and whichever commits last.
THEOREM NoCalibrationTwice == PlatesSpec => []CalibrationsLoggedOnce
<1>1. PlatesInv => CalibrationsLoggedOnce
  <2> SUFFICES ASSUME PlatesInv, NEW s \in Side PROVE sides.logged[s] <= klipper.receipts[s]
    BY DEF CalibrationsLoggedOnce
  <2>1. sides.logged[s] \in Nat /\ sides.counted[s] \in Nat /\ klipper.receipts[s] \in Nat
    BY DEF PlatesInv, PlateShapes, PlatesTypeOK, Klipper
  <2>2. sides.logged[s] <= sides.counted[s] /\ sides.counted[s] <= klipper.receipts[s]
    BY DEF PlatesInv, ReceiptsInv
  <2> QED
    BY <2>1, <2>2
<1> QED
  BY <1>1, PlatesInvHolds, PTL

-----------------------------------------------------------------------------
(* Nozzles.                                                                *)

NozzleRecord == [belongs : Hotend, status : {"available", "installed", "retired"}, usage : Usage,
                 version : Nat]
RequestRecord == [op : {"update", "install", "remove"}, nozzle : 1..MaxNozzles, printer : Hotend,
                  usage : Usage \cup {"same"}, expected : Nat,
                  at : {"received", "nozzle", "printer", "ready"},
                  previous : (1..MaxNozzles) \cup {NoNozzle}, version : Nat]

\* The nozzles are numbered without gaps, and whatever names one names one that exists.
NozzleShapes ==
    /\ \E k \in 0..MaxNozzles : Shelved = 1..k
    /\ shelf \in [Shelved -> NozzleRecord]
    /\ installed \in [Hotend -> Shelved \cup {NoNozzle}]
    /\ seeding \in [Hotend -> Shelved \cup {NoNozzle, NewNozzle}]
    /\ requested \in [Clerk -> RequestRecord \cup {NoRequest}]
    /\ \A c \in Clerk : requested[c] # NoRequest =>
          requested[c].nozzle \in Shelved /\ requested[c].previous \in Shelved \cup {NoNozzle}
    /\ holder \in [Row -> Clerk \cup {NoClerk}]

\* The locks a request holds: its nozzle's from the first check on, then its printer's.
HoldsLocks(c, r) ==
    /\ r.at # "received" => holder[r.nozzle] = c
    /\ r.at = "printer" \/ (r.at = "ready" /\ r.op # "update") =>
          r.op # "update" /\ holder[r.printer] = c

\* What a request has checked is still so while it holds its locks.
StillSound(r) ==
    /\ r.op = "install" /\ r.at # "received" =>
          shelf[r.nozzle].usage # "maintenance" /\ shelf[r.nozzle].status # "retired"
    /\ r.op # "update" /\ r.at \in {"printer", "ready"} => Suits(r)
    /\ r.op = "install" /\ r.at = "ready" => r.previous = installed[r.printer]
    /\ r.op = "update" /\ r.at = "ready" /\ InstalledOn(r.nozzle) # {} =>
          r.usage \notin {"maintenance", "retired"}

\* OperatorsAgree for one nozzle, and: what is retired in use is retired on the shelf.
NozzleAgrees(n) ==
    /\ (shelf[n].status = "installed") <=> InstalledOn(n) # {}
    /\ InstalledOn(n) \subseteq {shelf[n].belongs}
    /\ InstalledOn(n) # {} => shelf[n].usage = "active"
    /\ shelf[n].usage = "retired" => shelf[n].status = "retired"

Served(c) == requested[c] # NoRequest
LocksInv == \A c \in Clerk : Served(c) => HoldsLocks(c, requested[c])
AgreementInv ==
    reseeded \/ /\ \A n \in Shelved : NozzleAgrees(n)
                /\ \A c \in Clerk : Served(c) => StillSound(requested[c])

NozzlesInv == NozzleShapes /\ LocksInv /\ AgreementInv

LEMMA NozzleFacts ==
  ASSUME NozzleShapes
  PROVE  /\ Shelved \subseteq 1..MaxNozzles /\ NoNozzle \notin Shelved /\ NewNozzle \notin Shelved
         /\ Cardinality(Shelved) + 1 \notin Shelved /\ Cardinality(Shelved) \in Nat
         /\ Shelved \cup {Cardinality(Shelved) + 1} = 1..(Cardinality(Shelved) + 1)
         /\ Shelved \subseteq Row /\ Hotend \subseteq Row /\ MaxNozzles \in Nat
<1>1. PICK k \in 0..MaxNozzles : Shelved = 1..k
  BY DEF NozzleShapes
<1>2. Cardinality(1..k) = k
  BY <1>1, FS_Interval
<1>3. MaxNozzles \in Nat /\ {NoNozzle, NewNozzle} \cap (1..MaxNozzles) = {}
  BY NozzleAssumption
<1>4. 1..k \subseteq 1..MaxNozzles /\ k + 1 \notin 1..k /\ (1..k) \cup {k + 1} = 1..(k + 1)
  BY <1>1, <1>3
<1> QED
  BY <1>1, <1>2, <1>3, <1>4 DEF Row

LEMMA NozzlesInvInit == NozzlesInit => NozzlesInv
<1> SUFFICES ASSUME NozzlesInit PROVE NozzlesInv
  OBVIOUS
<1> DEFINE k == Cardinality(Hotend)
<1>1. k \in Nat /\ MaxNozzles \in Nat /\ NoClerk \notin Clerk
  BY NozzleAssumption, FS_CardinalityType
<1>2. {Fitted[p] : p \in Hotend} = 1..k /\ 1..k \subseteq 1..MaxNozzles
  BY NozzleAssumption
<1> HIDE DEF k
<1>3. k \in 0..MaxNozzles
  <2>1. CASE k = 0
    BY <1>1, <2>1
  <2>2. CASE k # 0
    <3>1. k \in 1..k
      BY <1>1, <2>2
    <3> QED
      BY <1>1, <1>2, <3>1
  <2> QED
    BY <2>1, <2>2
<1> DEFINE at(n) == CHOOSE p \in Hotend : Fitted[p] = n
<1>4. ASSUME NEW n \in 1..k
      PROVE  at(n) \in Hotend /\ \A p \in Hotend : Fitted[p] = n <=> p = at(n)
  <2>1. \E p \in Hotend : Fitted[p] = n
    BY <1>2
  <2> QED
    BY <2>1, NozzleAssumption
<1>5. Shelved = 1..k /\ \A n \in 1..k :
         shelf[n] = [belongs |-> at(n), status |-> "installed", usage |-> "active", version |-> 1]
  BY <1>2 DEF NozzlesInit, Shelved
<1> HIDE DEF at
<1>6. shelf \in [Shelved -> NozzleRecord]
  <2>1. \A n \in 1..k : shelf[n] \in NozzleRecord
    <3>1. \A q \in Hotend : [belongs |-> q, status |-> "installed", usage |-> "active", version |-> 1]
                              \in NozzleRecord
      BY DEF NozzleRecord, Usage
    <3> QED
      BY <1>4, <1>5, <3>1
  <2>2. shelf = [n \in Shelved |-> shelf[n]]
    BY DEF NozzlesInit, Shelved
  <2> QED
    BY <1>5, <2>1, <2>2
<1>7. NozzleShapes
  <2>1. installed \in [Hotend -> Shelved \cup {NoNozzle}]
    BY <1>2, <1>5, NozzleAssumption DEF NozzlesInit
  <2> QED
    BY <1>3, <1>5, <1>6, <2>1 DEF NozzlesInit, NozzleShapes
<1>8. \A n \in Shelved : NozzleAgrees(n)
  BY <1>4, <1>5 DEF NozzlesInit, NozzleAgrees, InstalledOn
<1>9. \A c \in Clerk : ~Served(c)
  BY DEF NozzlesInit, Served
<1> QED
  BY <1>7, <1>8, <1>9 DEF NozzlesInv, LocksInv, AgreementInv

\* A step of one request that writes no nozzle and no printer.
LEMMA RequestMoves ==
  ASSUME NozzlesInv, NEW c \in Clerk, NEW r \in RequestRecord \cup {NoRequest},
         requested' = [requested EXCEPT ![c] = r], UNCHANGED <<shelf, installed, seeding, reseeded>>,
         holder' \in [Row -> Clerk \cup {NoClerk}],
         \A w \in Row : holder[w] \in Clerk \ {c} => holder'[w] = holder[w],
         r # NoRequest => /\ r.nozzle \in Shelved /\ r.previous \in Shelved \cup {NoNozzle}
                          /\ HoldsLocks(c, r)' /\ (reseeded \/ StillSound(r))
  PROVE  NozzlesInv'
<1>1. /\ requested' \in [Clerk -> RequestRecord \cup {NoRequest}] /\ requested'[c] = r
      /\ \A d \in Clerk : d # c => requested'[d] = requested[d]
  BY DEF NozzlesInv, NozzleShapes
<1>2. Shelved' = Shelved
  BY DEF Shelved
<1>3. NozzleShapes'
  BY <1>1, <1>2 DEF NozzlesInv, NozzleShapes
<1>4. LocksInv'
  <2>1. ASSUME NEW d \in Clerk, d # c, Served(d) PROVE HoldsLocks(d, requested[d])'
    <3>1. requested[d].nozzle \in Row /\ requested[d].printer \in Row
      BY <2>1, NozzleFacts DEF NozzlesInv, NozzleShapes, Served, RequestRecord
    <3>2. HoldsLocks(d, requested[d])
      BY <2>1 DEF NozzlesInv, LocksInv
    <3> QED
      BY <1>1, <2>1, <3>1, <3>2 DEF HoldsLocks
  <2>2. Served(c)' => HoldsLocks(c, requested[c])'
    BY <1>1 DEF Served, HoldsLocks
  <2>3. \A d \in Clerk : d # c => (Served(d)' <=> Served(d))
    BY <1>1 DEF Served
  <2> QED
    BY <2>1, <2>2, <2>3 DEF LocksInv
<1>5. AgreementInv'
  <2>1. \A n \in Shelved : NozzleAgrees(n)' <=> NozzleAgrees(n)
    BY DEF NozzleAgrees, InstalledOn
  <2>2. \A d \in Clerk : d # c /\ Served(d)' /\ StillSound(requested[d]) => StillSound(requested[d])'
    BY <1>1 DEF StillSound, Suits, InstalledOn
  <2>3. Served(c)' /\ StillSound(r) => StillSound(requested[c])'
    BY <1>1 DEF StillSound, Suits, InstalledOn
  <2>4. \A d \in Clerk : d # c => (Served(d)' <=> Served(d))
    BY <1>1 DEF Served
  <2>5. Served(c)' => r # NoRequest
    BY <1>1 DEF Served
  <2> QED
    BY <1>2, <2>1, <2>2, <2>3, <2>4, <2>5 DEF NozzlesInv, AgreementInv
<1> QED
  BY <1>3, <1>4, <1>5 DEF NozzlesInv

\* A request whose locks go.
LEMMA Releases ==
  ASSUME NozzleShapes, NEW c \in Clerk, Release(c)
  PROVE  /\ requested' = [requested EXCEPT ![c] = NoRequest]
         /\ holder' \in [Row -> Clerk \cup {NoClerk}]
         /\ \A w \in Row : holder[w] \in Clerk \ {c} => holder'[w] = holder[w]
<1>1. \A w \in Row : holder[w] \in Clerk \cup {NoClerk}
  BY DEF NozzleShapes
<1> QED
  BY <1>1 DEF Release

\* A transaction commits: it wrote only rows that no other request holds, and left what it
\* wrote in agreement.
LEMMA Commits ==
  ASSUME NozzlesInv, NEW c \in Clerk, Release(c), UNCHANGED <<seeding, reseeded>>,
         Shelved' = Shelved, shelf' \in [Shelved -> NozzleRecord],
         installed' \in [Hotend -> Shelved \cup {NoNozzle}],
         \A n \in Shelved : holder[n] \in Clerk \ {c} =>
            shelf'[n] = shelf[n] /\ (reseeded \/ InstalledOn(n)' = InstalledOn(n)),
         \A p \in Hotend : holder[p] \in Clerk \ {c} => installed'[p] = installed[p],
         \A n \in Shelved : shelf'[n].belongs = shelf[n].belongs,
         reseeded \/ \A n \in Shelved : NozzleAgrees(n)'
  PROVE  NozzlesInv'
<1>1. /\ requested' = [requested EXCEPT ![c] = NoRequest]
      /\ holder' \in [Row -> Clerk \cup {NoClerk}]
      /\ \A w \in Row : holder[w] \in Clerk \ {c} => holder'[w] = holder[w]
  BY Releases DEF NozzlesInv
<1>2. /\ requested' \in [Clerk -> RequestRecord \cup {NoRequest}] /\ requested'[c] = NoRequest
      /\ \A d \in Clerk : d # c => requested'[d] = requested[d]
  BY <1>1 DEF NozzlesInv, NozzleShapes
<1>3. NozzleShapes'
  BY <1>1, <1>2 DEF NozzlesInv, NozzleShapes
<1>4. ASSUME NEW d \in Clerk, Served(d)' PROVE d # c /\ Served(d) /\ requested'[d] = requested[d]
  BY <1>2, <1>4 DEF Served
<1>5. LocksInv'
  <2> SUFFICES ASSUME NEW d \in Clerk, Served(d)' PROVE HoldsLocks(d, requested[d])'
    BY DEF LocksInv
  <2>1. d # c /\ Served(d) /\ requested'[d] = requested[d]
    BY <1>4
  <2>2. requested[d].nozzle \in Row /\ requested[d].printer \in Row
    BY <2>1, NozzleFacts DEF NozzlesInv, NozzleShapes, Served, RequestRecord
  <2>3. HoldsLocks(d, requested[d])
    BY <2>1 DEF NozzlesInv, LocksInv
  <2> QED
    BY <1>1, <2>1, <2>2, <2>3 DEF HoldsLocks
<1>6. AgreementInv'
  <2> SUFFICES ASSUME ~reseeded, NEW d \in Clerk, Served(d)' PROVE StillSound(requested[d])'
    BY DEF AgreementInv
  <2>1. d # c /\ Served(d) /\ requested'[d] = requested[d]
    BY <1>4
  <2> DEFINE r == requested[d]
  <2>2. r \in RequestRecord /\ r.nozzle \in Shelved /\ r.printer \in Hotend
    BY <2>1 DEF NozzlesInv, NozzleShapes, Served, RequestRecord
  <2>3. HoldsLocks(d, r) /\ StillSound(r)
    BY <2>1 DEF NozzlesInv, LocksInv, AgreementInv
  <2>4. r.at # "received" => /\ shelf'[r.nozzle] = shelf[r.nozzle]
                             /\ InstalledOn(r.nozzle)' = {p \in Hotend : installed[p] = r.nozzle}
    <3>1. SUFFICES ASSUME r.at # "received"
                   PROVE  /\ shelf'[r.nozzle] = shelf[r.nozzle]
                          /\ InstalledOn(r.nozzle)' = {p \in Hotend : installed[p] = r.nozzle}
      OBVIOUS
    <3>2. holder[r.nozzle] \in Clerk \ {c}
      BY <2>1, <2>3, <3>1 DEF HoldsLocks
    <3>3. \A n \in Shelved : holder[n] \in Clerk \ {c} =>
             {p \in Hotend : installed'[p] = n} = {p \in Hotend : installed[p] = n}
      BY DEF InstalledOn
    <3>4. {p \in Hotend : installed'[p] = r.nozzle} = {p \in Hotend : installed[p] = r.nozzle}
      BY <2>2, <3>2, <3>3
    <3> QED
      BY <2>1, <2>2, <3>2, <3>4 DEF InstalledOn
  <2>5. r.at = "printer" \/ (r.at = "ready" /\ r.op # "update") =>
           installed'[r.printer] = installed[r.printer]
    BY <2>1, <2>2, <2>3 DEF HoldsLocks
  <2> QED
    BY <2>1, <2>2, <2>3, <2>4, <2>5 DEF StillSound, Suits, InstalledOn
<1> QED
  BY <1>3, <1>5, <1>6 DEF NozzlesInv

\* A nozzle made: nobody has asked for it, and it is on no printer.
LEMMA CreateInv ==
  ASSUME NozzlesInv, NEW p \in Hotend, NEW usage \in Usage, CreateNozzle(p, usage)
  PROVE  NozzlesInv'
<1>k. PICK n : n = Cardinality(Shelved) + 1
  OBVIOUS
<1> DEFINE new == [belongs |-> p, status |-> Status(usage), usage |-> usage, version |-> 1]
<1>1. n \in 1..MaxNozzles /\ n \notin Shelved /\ Shelved \cup {n} = 1..n /\ n \in 0..MaxNozzles
      /\ n # NoNozzle
  <2>1. n <= MaxNozzles /\ n \in Nat /\ n >= 1
    BY <1>k, NozzleFacts DEF NozzlesInv, CreateNozzle
  <2> QED
    BY <1>k, <2>1, NozzleFacts, NozzleAssumption DEF NozzlesInv
<1>2. /\ shelf' = [m \in Shelved \cup {n} |-> IF m = n THEN new ELSE shelf[m]]
      /\ UNCHANGED <<installed, requested, holder, seeding, reseeded>>
  BY <1>k DEF CreateNozzle
<1>3. new \in NozzleRecord /\ new.status # "installed"
      /\ (new.usage = "retired" => new.status = "retired")
  BY DEF NozzleRecord, Status, Usage
<1> HIDE DEF new
<1>4. Shelved' = Shelved \cup {n} /\ shelf'[n] = new /\ \A m \in Shelved : shelf'[m] = shelf[m]
  BY <1>1, <1>2 DEF Shelved
<1>5. NozzleShapes'
  <2>1. shelf' \in [Shelved' -> NozzleRecord]
    BY <1>2, <1>3, <1>4 DEF NozzlesInv, NozzleShapes
  <2>2. \E k \in 0..MaxNozzles : Shelved' = 1..k
    BY <1>1, <1>4
  <2> QED
    BY <1>2, <1>4, <2>1, <2>2 DEF NozzlesInv, NozzleShapes
<1>6. LocksInv'
  BY <1>2 DEF NozzlesInv, LocksInv, Served, HoldsLocks
<1>7. AgreementInv'
  <2>1. InstalledOn(n) = {} /\ \A m \in Shelved \cup {n} : InstalledOn(m)' = InstalledOn(m)
    BY <1>1, <1>2 DEF NozzlesInv, NozzleShapes, InstalledOn
  <2>2. \A m \in Shelved : NozzleAgrees(m) => NozzleAgrees(m)'
    BY <1>4, <2>1 DEF NozzleAgrees
  <2>3. NozzleAgrees(n)'
    BY <1>3, <1>4, <2>1 DEF NozzleAgrees
  <2>4. \A c \in Clerk : Served(c) => requested[c].nozzle \in Shelved
    BY DEF NozzlesInv, NozzleShapes, Served
  <2>5. ASSUME NEW c \in Clerk, Served(c), StillSound(requested[c])
        PROVE  StillSound(requested[c])'
    BY <1>2, <1>4, <2>1, <2>4, <2>5 DEF StillSound, Suits, InstalledOn
  <2>6. \A c \in Clerk : Served(c)' <=> Served(c)
    BY <1>2 DEF Served
  <2> QED
    BY <1>2, <1>4, <2>2, <2>3, <2>5, <2>6 DEF NozzlesInv, AgreementInv
<1> QED
  BY <1>5, <1>6, <1>7 DEF NozzlesInv

LEMMA ReceiveInv ==
  ASSUME NozzlesInv, NEW c \in Clerk, NEW op \in {"update", "install", "remove"}, NEW n \in Shelved,
         NEW p \in Hotend, NEW usage \in Usage \cup {"same"}, Receive(c, op, n, p, usage)
  PROVE  NozzlesInv'
<1>r. PICK r : r = [op |-> op, nozzle |-> n, printer |-> p, usage |-> usage,
                    expected |-> shelf[n].version, at |-> "received", previous |-> NoNozzle, version |-> 0]
  OBVIOUS
<1>1. shelf[n].version \in Nat /\ n \in 1..MaxNozzles
  BY NozzleFacts DEF NozzlesInv, NozzleShapes, NozzleRecord
<1>2. r \in RequestRecord /\ r.nozzle = n /\ r.previous = NoNozzle /\ r.at = "received"
  BY <1>r, <1>1 DEF RequestRecord
<1>3. requested' = [requested EXCEPT ![c] = r] /\ UNCHANGED <<shelf, installed, seeding, reseeded, holder>>
  BY <1>r DEF Receive
<1>4. HoldsLocks(c, r)' /\ StillSound(r)
  BY <1>2, <1>3 DEF HoldsLocks, StillSound
<1> QED
  BY <1>2, <1>3, <1>4, RequestMoves DEF NozzlesInv, NozzleShapes

\* What is known of the request that a clerk's transaction serves.
LEMMA ServedFacts ==
  ASSUME NozzlesInv, NEW c \in Clerk, Served(c)
  PROVE  /\ requested[c] \in RequestRecord /\ requested[c].nozzle \in Shelved
         /\ requested[c].previous \in Shelved \cup {NoNozzle}
         /\ requested[c].printer \in Hotend
         /\ requested[c].nozzle \in Row /\ requested[c].printer \in Row
         /\ HoldsLocks(c, requested[c])
         /\ reseeded \/ (StillSound(requested[c]) /\ NozzleAgrees(requested[c].nozzle))
<1>1. requested[c] \in RequestRecord /\ requested[c].nozzle \in Shelved
      /\ requested[c].previous \in Shelved \cup {NoNozzle}
  BY DEF NozzlesInv, NozzleShapes, Served
<1>2. requested[c].printer \in Hotend
  BY <1>1 DEF RequestRecord
<1>3. requested[c].nozzle \in Row /\ requested[c].printer \in Row
  BY <1>1, <1>2, NozzleFacts DEF NozzlesInv
<1>4. HoldsLocks(c, requested[c])
  BY DEF NozzlesInv, LocksInv
<1>5. reseeded \/ (StillSound(requested[c]) /\ NozzleAgrees(requested[c].nozzle))
  BY <1>1 DEF NozzlesInv, AgreementInv
<1> QED
  BY <1>1, <1>2, <1>3, <1>4, <1>5

LEMMA LockNozzleInv ==
  ASSUME NozzlesInv, NEW c \in Clerk, LockNozzle(c)
  PROVE  NozzlesInv'
<1> DEFINE q == requested[c]
<1>r. PICK r : r = [q EXCEPT !.at = "nozzle"]
  OBVIOUS
<1>1. Served(c) /\ q.at = "received" /\ TakesNozzle(c, q.nozzle) /\ Admissible(q)
  BY DEF LockNozzle, At, Served
<1>2. r \in RequestRecord /\ r.op = q.op /\ r.nozzle = q.nozzle /\ r.printer = q.printer
      /\ r.previous = q.previous /\ r.at = "nozzle"
  BY <1>r, <1>1, ServedFacts DEF RequestRecord
<1>3. /\ requested' = [requested EXCEPT ![c] = r] /\ holder' = [holder EXCEPT ![q.nozzle] = c]
      /\ UNCHANGED <<shelf, installed, seeding, reseeded>>
  BY <1>r, <1>1 DEF LockNozzle, Advance, TakesNozzle
<1>4. holder' \in [Row -> Clerk \cup {NoClerk}] /\ holder'[q.nozzle] = c
      /\ \A w \in Row : holder[w] \in Clerk \ {c} => holder'[w] = holder[w]
  BY <1>1, <1>3, ServedFacts, NozzleAssumption DEF NozzlesInv, NozzleShapes, TakesNozzle, Unheld
<1>5. HoldsLocks(c, r)'
  BY <1>2, <1>4 DEF HoldsLocks
<1>6. StillSound(r)
  BY <1>1, <1>2 DEF StillSound, Admissible
<1> QED
  BY <1>1, <1>2, <1>3, <1>4, <1>5, <1>6, RequestMoves, ServedFacts

LEMMA CheckUpdateInv ==
  ASSUME NozzlesInv, NEW c \in Clerk, CheckUpdate(c)
  PROVE  NozzlesInv'
<1> DEFINE q == requested[c]
<1>r. PICK r : r = [q EXCEPT !.at = "ready"]
  OBVIOUS
<1>1. Served(c) /\ q.at = "nozzle" /\ q.op = "update"
      /\ (InstalledOn(q.nozzle) # {} => q.usage \notin {"maintenance", "retired"})
  BY DEF CheckUpdate, At, Served
<1>2. r \in RequestRecord /\ r.op = q.op /\ r.nozzle = q.nozzle /\ r.printer = q.printer
      /\ r.previous = q.previous /\ r.at = "ready" /\ r.usage = q.usage
  BY <1>r, <1>1, ServedFacts DEF RequestRecord
<1>3. /\ requested' = [requested EXCEPT ![c] = r]
      /\ UNCHANGED <<shelf, installed, seeding, reseeded, holder>>
  BY <1>r DEF CheckUpdate, Advance
<1>4. HoldsLocks(c, r)'
  BY <1>1, <1>2, <1>3, ServedFacts DEF HoldsLocks
<1>5. StillSound(r)
  BY <1>1, <1>2 DEF StillSound
<1> QED
  BY <1>1, <1>2, <1>3, <1>4, <1>5, RequestMoves, ServedFacts DEF NozzlesInv, NozzleShapes

LEMMA LockPrinterInv ==
  ASSUME NozzlesInv, NEW c \in Clerk, LockPrinter(c)
  PROVE  NozzlesInv'
<1> DEFINE q == requested[c]
<1>r. PICK r : r = [q EXCEPT !.at = "printer"]
  OBVIOUS
<1>1. Served(c) /\ q.at = "nozzle" /\ q.op # "update" /\ Unheld(q.printer) /\ Suits(q)
  BY DEF LockPrinter, At, Served
<1>2. r \in RequestRecord /\ r.op = q.op /\ r.nozzle = q.nozzle /\ r.printer = q.printer
      /\ r.previous = q.previous /\ r.at = "printer"
  BY <1>r, <1>1, ServedFacts DEF RequestRecord
<1>3. /\ requested' = [requested EXCEPT ![c] = r] /\ holder' = [holder EXCEPT ![q.printer] = c]
      /\ UNCHANGED <<shelf, installed, seeding, reseeded>>
  BY <1>r DEF LockPrinter, Advance
<1>4. holder' \in [Row -> Clerk \cup {NoClerk}] /\ holder'[q.printer] = c
      /\ (\A w \in Row : holder[w] \in Clerk \ {c} => holder'[w] = holder[w])
      /\ holder'[q.nozzle] = c
  BY <1>1, <1>3, ServedFacts, NozzleAssumption DEF NozzlesInv, NozzleShapes, HoldsLocks, Unheld
<1>5. HoldsLocks(c, r)'
  BY <1>1, <1>2, <1>4 DEF HoldsLocks
<1>6. reseeded \/ StillSound(r)
  <2>1. Suits(r)
    BY <1>1, <1>2 DEF Suits
  <2> QED
    BY <1>1, <1>2, <2>1, ServedFacts DEF StillSound
<1> QED
  BY <1>1, <1>2, <1>3, <1>4, <1>5, <1>6, RequestMoves, ServedFacts

LEMMA PrinterIsIdleInv ==
  ASSUME NozzlesInv, NEW c \in Clerk, PrinterIsIdle(c)
  PROVE  NozzlesInv'
<1> DEFINE q == requested[c]
           previous == IF q.op = "install" THEN installed[q.printer] ELSE NoNozzle
           version == IF previous = NoNozzle THEN 0 ELSE shelf[previous].version
<1>r. PICK r : r = [q EXCEPT !.at = "ready", !.previous = previous, !.version = version]
  OBVIOUS
<1>1. Served(c) /\ q.at = "printer"
  BY DEF PrinterIsIdle, At, Served
<1>2. previous \in Shelved \cup {NoNozzle} /\ version \in Nat
      /\ (q.op = "install" => previous = installed[q.printer])
  <2>1. previous \in Shelved \cup {NoNozzle}
    BY <1>1, ServedFacts DEF NozzlesInv, NozzleShapes
  <2> HIDE DEF previous
  <2>2. version \in Nat
    BY <2>1 DEF NozzlesInv, NozzleShapes, NozzleRecord
  <2> QED
    BY <2>1, <2>2 DEF previous
<1>3. /\ requested' = [requested EXCEPT ![c] = r]
      /\ UNCHANGED <<shelf, installed, seeding, reseeded, holder>>
  <2>1. requested \in [Clerk -> RequestRecord \cup {NoRequest}] /\ q \in RequestRecord
    BY <1>1, ServedFacts DEF NozzlesInv, NozzleShapes
  <2> QED
    BY <1>r, <2>1 DEF PrinterIsIdle, RequestRecord
<1> HIDE DEF previous, version
<1>4. r \in RequestRecord /\ r.op = q.op /\ r.nozzle = q.nozzle /\ r.printer = q.printer
      /\ r.previous = previous /\ r.at = "ready"
  <2>1. previous \in (1..MaxNozzles) \cup {NoNozzle}
    BY <1>2, NozzleFacts DEF NozzlesInv
  <2> QED
    BY <1>r, <1>1, <1>2, <2>1, ServedFacts DEF RequestRecord
<1>5. HoldsLocks(c, r)'
  BY <1>1, <1>3, <1>4, ServedFacts DEF HoldsLocks
<1>6. reseeded \/ StillSound(r)
  <2> SUFFICES ASSUME ~reseeded PROVE StillSound(r)
    OBVIOUS
  <2>1. Suits(q) /\ q.op # "update"
    BY <1>1, ServedFacts DEF StillSound, HoldsLocks
  <2>2. Suits(r)
    BY <1>4, <2>1 DEF Suits
  <2>3. q.op = "install" => shelf[q.nozzle].usage # "maintenance" /\ shelf[q.nozzle].status # "retired"
    BY <1>1, ServedFacts DEF StillSound
  <2> QED
    BY <1>2, <1>4, <2>1, <2>2, <2>3 DEF StillSound
<1> QED
  BY <1>1, <1>2, <1>3, <1>4, <1>5, <1>6, RequestMoves, ServedFacts DEF NozzlesInv, NozzleShapes

LEMMA AbandonNozzleInv ==
  ASSUME NozzlesInv, NEW c \in Clerk, Abandon(c)
  PROVE  NozzlesInv'
  BY Releases, RequestMoves DEF Abandon, NozzlesInv

\* A nozzle put on a printer or taken off it.
LEMMA NozzleMoved ==
  ASSUME NozzleShapes, NEW n \in Shelved, NEW status \in {"available", "installed", "retired"},
         NEW v \in Nat
  PROVE  /\ Moved(n, status, v) \in NozzleRecord /\ Moved(n, status, v).status = status
         /\ Moved(n, status, v).usage = shelf[n].usage
         /\ Moved(n, status, v).belongs = shelf[n].belongs
         /\ shelf[n].version + 1 \in Nat
<1>m. PICK m \in NozzleRecord : m = shelf[n]
  BY DEF NozzleShapes
<1>w. PICK w : w = [m EXCEPT !.status = status, !.version = v]
  OBVIOUS
<1>1. w \in NozzleRecord
  BY <1>w DEF NozzleRecord
<1>2. w.status = status /\ w.usage = m.usage /\ w.belongs = m.belongs
  BY <1>w DEF NozzleRecord
<1>3. m.version + 1 \in Nat
  BY DEF NozzleRecord
<1> QED
  BY <1>m, <1>w, <1>1, <1>2, <1>3 DEF Moved

LEMMA CommitUpdateNozzleInv ==
  ASSUME NozzlesInv, NEW c \in Clerk, CommitUpdate(c)
  PROVE  NozzlesInv'
<1>q. PICK q : q = requested[c]
  OBVIOUS
<1> DEFINE n == q.nozzle
           old == shelf[n]
           usage == IF q.usage = "same" THEN old.usage ELSE q.usage
           status == CASE q.usage = "retired" -> "retired"
                       [] q.usage \in {"active", "maintenance"} /\ old.status = "retired" -> "available"
                       [] OTHER -> old.status
           new == [old EXCEPT !.version = @ + 1, !.usage = usage, !.status = status]
<1>1. Served(c) /\ q.at = "ready" /\ q.op = "update"
  BY <1>q DEF CommitUpdate, At, Served
<1>2. /\ q \in RequestRecord /\ n \in Shelved /\ holder[n] = c
      /\ reseeded \/ (StillSound(q) /\ NozzleAgrees(n))
      /\ old \in NozzleRecord /\ q.usage \in Usage \cup {"same"}
  BY <1>q, <1>1, ServedFacts DEF HoldsLocks, NozzlesInv, NozzleShapes, RequestRecord
<1>3. new \in NozzleRecord /\ new.belongs = old.belongs /\ new.usage = usage /\ new.status = status
  <2>1. usage \in Usage /\ status \in {"available", "installed", "retired"}
        /\ old.version + 1 \in Nat
    BY <1>2 DEF NozzleRecord, Usage
  <2> HIDE DEF usage, status
  <2> QED
    BY <1>2, <2>1 DEF NozzleRecord
<1>4. shelf' = [shelf EXCEPT ![n] = new] /\ Release(c) /\ UNCHANGED <<installed, seeding, reseeded>>
  <2>1. shelf \in [Shelved -> NozzleRecord]
    BY DEF NozzlesInv, NozzleShapes
  <2> QED
    BY <1>q, <1>2, <2>1 DEF CommitUpdate, NozzleRecord
<1>5. /\ Shelved' = Shelved /\ shelf' \in [Shelved -> NozzleRecord] /\ shelf'[n] = new
      /\ \A m \in Shelved : m # n => shelf'[m] = shelf[m]
  <2>1. shelf \in [Shelved -> NozzleRecord]
    BY DEF NozzlesInv, NozzleShapes
  <2> HIDE DEF new
  <2> QED
    BY <1>2, <1>3, <1>4, <2>1 DEF Shelved
<1>6. \A m \in Shelved : InstalledOn(m)' = InstalledOn(m)
  BY <1>4 DEF InstalledOn
<1>7. \A m \in Shelved : shelf'[m].belongs = shelf[m].belongs
  BY <1>3, <1>5
<1>8. \A m \in Shelved : holder[m] \in Clerk \ {c} => m # n
  BY <1>2
<1>9. reseeded \/ \A m \in Shelved : NozzleAgrees(m)'
  <2> SUFFICES ASSUME ~reseeded, NEW m \in Shelved PROVE NozzleAgrees(m)'
    OBVIOUS
  <2>1. CASE m # n
    BY <1>5, <1>6, <2>1 DEF NozzlesInv, AgreementInv, NozzleAgrees
  <2>2. CASE m = n
    <3>1. StillSound(q) /\ NozzleAgrees(n)
      BY <1>2
    <3>2. InstalledOn(n) # {} => q.usage \notin {"maintenance", "retired"}
      BY <1>1, <3>1 DEF StillSound
    <3>3. (status = "installed") <=> InstalledOn(n) # {}
      BY <1>2, <3>1, <3>2 DEF NozzleAgrees, Usage
    <3>4. (InstalledOn(n) # {} => usage = "active") /\ (usage = "retired" => status = "retired")
      BY <1>2, <3>1, <3>2 DEF NozzleAgrees, Usage
    <3> HIDE DEF usage, status, new, old
    <3>5. shelf'[m].status = status /\ shelf'[m].usage = usage /\ shelf'[m].belongs = shelf[m].belongs
          /\ InstalledOn(m)' = InstalledOn(n)
      BY <1>3, <1>5, <1>6, <1>7, <2>2
    <3>6. InstalledOn(n) \subseteq {shelf[m].belongs}
      BY <2>2, <3>1 DEF NozzleAgrees
    <3> QED
      BY <3>3, <3>4, <3>5, <3>6 DEF NozzleAgrees
  <2> QED
    BY <2>1, <2>2
<1> HIDE DEF n, old, new
<1>10. installed' \in [Hotend -> Shelved \cup {NoNozzle}]
  BY <1>4 DEF NozzlesInv, NozzleShapes
<1> QED
  BY <1>4, <1>5, <1>6, <1>7, <1>8, <1>9, <1>10, Commits

\* The nozzle fitted was on no printer and free to be used; the one it replaces was on this
\* printer, and no other request holds its row.
LEMMA CommitInstallInv ==
  ASSUME NozzlesInv, NEW c \in Clerk, CommitInstall(c)
  PROVE  NozzlesInv'
<1>q. PICK q : q = requested[c]
  OBVIOUS
<1> DEFINE n == q.nozzle
           p == q.printer
           fitted == Moved(n, "installed", shelf[n].version + 1)
           taken == Moved(q.previous, "available", q.version + 1)
<1>1. Served(c) /\ q.at = "ready" /\ q.op = "install" /\ (q.previous # NoNozzle => Unheld(q.previous))
  BY <1>q DEF CommitInstall, At, Served
<1>2. /\ q \in RequestRecord /\ n \in Shelved /\ holder[n] = c /\ p \in Hotend /\ holder[p] = c
      /\ q.previous \in Shelved \cup {NoNozzle} /\ q.version \in Nat
      /\ reseeded \/ StillSound(q)
      /\ shelf \in [Shelved -> NozzleRecord]
  BY <1>q, <1>1, ServedFacts DEF HoldsLocks, NozzlesInv, NozzleShapes, RequestRecord
<1>3. fitted \in NozzleRecord /\ fitted.status = "installed" /\ fitted.usage = shelf[n].usage
      /\ fitted.belongs = shelf[n].belongs
  BY <1>2, NozzleMoved DEF NozzlesInv
<1>4. q.previous \in Shelved =>
         /\ taken \in NozzleRecord /\ taken.status = "available"
         /\ taken.usage = shelf[q.previous].usage /\ taken.belongs = shelf[q.previous].belongs
  <2>1. q.version + 1 \in Nat
    BY <1>2
  <2> QED
    BY <2>1, NozzleMoved DEF NozzlesInv
<1>5. installed' = [installed EXCEPT ![p] = n] /\ Release(c) /\ UNCHANGED <<seeding, reseeded>>
  BY <1>q DEF CommitInstall
<1>a. shelf' = [m \in Shelved |->
         IF m = requested[c].nozzle THEN Moved(m, "installed", shelf[m].version + 1)
         ELSE IF m = requested[c].previous THEN Moved(m, "available", requested[c].version + 1)
         ELSE shelf[m]]
  BY DEF CommitInstall
<1>b. \A m \in Shelved : /\ m = n => shelf'[m] = fitted
                         /\ m # n /\ m = q.previous => shelf'[m] = taken
                         /\ m # n /\ m # q.previous => shelf'[m] = shelf[m]
  BY <1>q, <1>a
<1>6. /\ Shelved' = Shelved /\ shelf' \in [Shelved -> NozzleRecord] /\ shelf'[n] = fitted
      /\ q.previous \in Shelved /\ q.previous # n => shelf'[q.previous] = taken
      /\ \A m \in Shelved : m # n /\ m # q.previous => shelf'[m] = shelf[m]
  <2>2. Shelved' = Shelved
    BY <1>a DEF Shelved
  <2>3. shelf' = [m \in Shelved |-> shelf'[m]]
    BY <1>a
  <2> HIDE DEF fitted, taken
  <2>4. \A m \in Shelved : shelf'[m] \in NozzleRecord
    BY <1>2, <1>3, <1>4, <1>b
  <2> QED
    BY <1>2, <1>b, <2>2, <2>3, <2>4
<1> HIDE DEF fitted, taken
<1>7. \A m \in Shelved : shelf'[m].belongs = shelf[m].belongs
  BY <1>3, <1>4, <1>6
<1>8. /\ installed' \in [Hotend -> Shelved \cup {NoNozzle}] /\ installed'[p] = n
      /\ \A r \in Hotend : r # p => installed'[r] = installed[r]
  BY <1>2, <1>5 DEF NozzlesInv, NozzleShapes
<1>9. \A m \in Shelved : holder[m] \in Clerk \ {c} => m # n /\ m # q.previous
  BY <1>1, <1>2, NozzleAssumption, NozzleFacts DEF Unheld, NozzlesInv
<1>10. \A r \in Hotend : holder[r] \in Clerk \ {c} => r # p
  BY <1>2
<1>11. ~reseeded =>
         /\ q.previous = installed[p] /\ shelf[n].belongs = p /\ InstalledOn(n) = {} /\ installed[p] # n
         /\ shelf[n].usage = "active"
  <2> SUFFICES ASSUME ~reseeded
               PROVE  /\ q.previous = installed[p] /\ shelf[n].belongs = p /\ InstalledOn(n) = {}
                      /\ installed[p] # n /\ shelf[n].usage = "active"
    OBVIOUS
  <2>1. StillSound(q) /\ NozzleAgrees(n) /\ Suits(q)
    BY <1>1, <1>2 DEF StillSound, NozzlesInv, AgreementInv
  <2>2. shelf[n].belongs = p /\ InstalledOn(n) \subseteq {p} /\ installed[p] # n
    BY <1>1, <2>1 DEF Suits
  <2>3. shelf[n].usage # "maintenance" /\ shelf[n].status # "retired" /\ q.previous = installed[p]
    BY <1>1, <2>1 DEF StillSound
  <2>4. shelf[n].usage \in {"active", "maintenance", "retired"}
    BY <1>2 DEF NozzleRecord, Usage
  <2> QED
    BY <2>1, <2>2, <2>3, <2>4 DEF NozzleAgrees, InstalledOn
<1> HIDE DEF n, p
<1>12. ~reseeded => /\ InstalledOn(n)' = {p}
                    /\ \A m \in Shelved : m # n /\ m # q.previous => InstalledOn(m)' = InstalledOn(m)
                    /\ \A m \in Shelved : m = q.previous /\ NozzleAgrees(m) => InstalledOn(m)' = {}
  <2> SUFFICES ASSUME ~reseeded
               PROVE  /\ InstalledOn(n)' = {p}
                      /\ \A m \in Shelved : m # n /\ m # q.previous => InstalledOn(m)' = InstalledOn(m)
                      /\ \A m \in Shelved : m = q.previous /\ NozzleAgrees(m) => InstalledOn(m)' = {}
    OBVIOUS
  <2>1. {r \in Hotend : installed'[r] = n} = {p}
    BY <1>2, <1>8, <1>11 DEF InstalledOn, n, p
  <2>2. \A m \in Shelved : m # n /\ m # q.previous =>
           {r \in Hotend : installed'[r] = m} = {r \in Hotend : installed[r] = m}
    BY <1>2, <1>8, <1>11 DEF n, p
  <2>3. ASSUME NEW m \in Shelved, m = q.previous, NozzleAgrees(m)
        PROVE  {r \in Hotend : installed'[r] = m} = {}
    <3>1. installed[p] = m /\ p \in InstalledOn(m) /\ m # n
      BY <1>2, <1>11, <2>3 DEF InstalledOn, p
    <3>2. \A r \in Hotend : installed[r] = m => r = p
      BY <2>3, <3>1 DEF NozzleAgrees, InstalledOn
    <3> QED
      BY <1>8, <3>1, <3>2
  <2>4. \A m : InstalledOn(m)' = {r \in Hotend : installed'[r] = m}
    BY DEF InstalledOn
  <2>5. InstalledOn(n)' = {p}
    <3>1. InstalledOn(n)' = {r \in Hotend : installed'[r] = n'}
      BY DEF InstalledOn
    <3>2. n' = n
      BY DEF n
    <3> QED
      BY <2>1, <3>1, <3>2
  <2> QED
    BY <2>2, <2>3, <2>4, <2>5 DEF InstalledOn
<1>13. reseeded \/ \A m \in Shelved : NozzleAgrees(m)'
  <2> SUFFICES ASSUME ~reseeded, NEW m \in Shelved PROVE NozzleAgrees(m)'
    OBVIOUS
  <2>0. NozzleAgrees(m)
    BY DEF NozzlesInv, AgreementInv
  <2>1. CASE m = n
    <3>1. InstalledOn(m)' = {p}
      BY <1>12, <2>1 DEF n, InstalledOn
    <3>2. shelf'[m].status = "installed" /\ shelf'[m].usage = "active" /\ shelf'[m].belongs = p
      BY <1>3, <1>6, <1>11, <2>1
    <3> QED
      BY <3>1, <3>2 DEF NozzleAgrees
  <2>2. CASE m = q.previous /\ m # n
    <3>1. InstalledOn(m)' = {}
      BY <1>12, <2>0, <2>2
    <3>2. installed[p] = m /\ p \in InstalledOn(m)
      BY <1>2, <1>11, <2>2 DEF InstalledOn, p
    <3>3. shelf[m].usage = "active"
      BY <2>0, <3>2 DEF NozzleAgrees
    <3>4. shelf'[m].status = "available" /\ shelf'[m].usage = "active"
      BY <1>4, <1>6, <2>2, <3>3
    <3> QED
      BY <3>1, <3>4 DEF NozzleAgrees
  <2>3. CASE m # n /\ m # q.previous
    BY <1>6, <1>12, <2>0, <2>3 DEF NozzleAgrees
  <2> QED
    BY <2>1, <2>2, <2>3
<1>14. \A m \in Shelved : holder[m] \in Clerk \ {c} =>
            shelf'[m] = shelf[m] /\ (reseeded \/ InstalledOn(m)' = InstalledOn(m))
  BY <1>6, <1>9, <1>12
<1>15. \A r \in Hotend : holder[r] \in Clerk \ {c} => installed'[r] = installed[r]
  BY <1>8, <1>10
<1> QED
  BY <1>5, <1>6, <1>7, <1>8, <1>13, <1>14, <1>15, Commits

LEMMA CommitRemoveInv ==
  ASSUME NozzlesInv, NEW c \in Clerk, CommitRemove(c)
  PROVE  NozzlesInv'
<1>q. PICK q : q = requested[c]
  OBVIOUS
<1>n. PICK n : n = q.nozzle
  OBVIOUS
<1>p. PICK p : p = q.printer
  OBVIOUS
<1> DEFINE new == Moved(n, "available", shelf[n].version + 1)
<1>1. Served(c) /\ q.at = "ready" /\ q.op = "remove"
  BY <1>q DEF CommitRemove, At, Served
<1>2. /\ n \in Shelved /\ holder[n] = c /\ p \in Hotend /\ holder[p] = c
      /\ reseeded \/ (StillSound(q) /\ NozzleAgrees(n))
      /\ shelf \in [Shelved -> NozzleRecord]
  BY <1>q, <1>n, <1>p, <1>1, ServedFacts DEF HoldsLocks, NozzlesInv, NozzleShapes
<1>3. new \in NozzleRecord /\ new.status = "available" /\ new.usage = shelf[n].usage
      /\ new.belongs = shelf[n].belongs
  BY <1>2, NozzleMoved DEF NozzlesInv
<1>4. /\ installed' = [installed EXCEPT ![p] = NoNozzle] /\ shelf' = [shelf EXCEPT ![n] = new]
      /\ Release(c) /\ UNCHANGED <<seeding, reseeded>>
  BY <1>q, <1>n, <1>p, <1>2 DEF CommitRemove
<1> HIDE DEF new
<1>5. /\ Shelved' = Shelved /\ shelf' \in [Shelved -> NozzleRecord] /\ shelf'[n] = new
      /\ \A m \in Shelved : m # n => shelf'[m] = shelf[m]
  BY <1>2, <1>3, <1>4 DEF Shelved
<1>6. /\ installed' \in [Hotend -> Shelved \cup {NoNozzle}] /\ installed'[p] = NoNozzle
      /\ \A r \in Hotend : r # p => installed'[r] = installed[r]
  BY <1>2, <1>4 DEF NozzlesInv, NozzleShapes
<1>7. \A m \in Shelved : shelf'[m].belongs = shelf[m].belongs
  BY <1>3, <1>5
<1>8. ~reseeded => /\ installed[p] = n /\ NozzleAgrees(n) /\ shelf[n].usage = "active"
                   /\ \A r \in Hotend : installed[r] = n => r = p
  <2> SUFFICES ASSUME ~reseeded
               PROVE  /\ installed[p] = n /\ NozzleAgrees(n) /\ shelf[n].usage = "active"
                      /\ \A r \in Hotend : installed[r] = n => r = p
    OBVIOUS
  <2>1. installed[p] = n /\ NozzleAgrees(n)
    BY <1>n, <1>p, <1>1, <1>2 DEF StillSound, Suits
  <2> QED
    BY <1>2, <2>1 DEF NozzleAgrees, InstalledOn
<1>9. ~reseeded => \A m \in Shelved : /\ m # n => InstalledOn(m)' = InstalledOn(m)
                                      /\ m = n => InstalledOn(m)' = {}
  <2> SUFFICES ASSUME ~reseeded, NEW m \in Shelved
               PROVE  (m # n => InstalledOn(m)' = InstalledOn(m)) /\ (m = n => InstalledOn(m)' = {})
    OBVIOUS
  <2>1. m # NoNozzle
    BY NozzleFacts DEF NozzlesInv
  <2> QED
    BY <1>2, <1>6, <1>8, <2>1 DEF InstalledOn
<1>10. reseeded \/ \A m \in Shelved : NozzleAgrees(m)'
  <2> SUFFICES ASSUME ~reseeded, NEW m \in Shelved PROVE NozzleAgrees(m)'
    OBVIOUS
  <2>0. NozzleAgrees(m)
    BY DEF NozzlesInv, AgreementInv
  <2>1. CASE m = n
    BY <1>3, <1>5, <1>8, <1>9, <2>1 DEF NozzleAgrees
  <2>2. CASE m # n
    BY <1>5, <1>9, <2>0, <2>2 DEF NozzleAgrees
  <2> QED
    BY <2>1, <2>2
<1>11. \A m \in Shelved : holder[m] \in Clerk \ {c} =>
            shelf'[m] = shelf[m] /\ (reseeded \/ InstalledOn(m)' = InstalledOn(m))
  BY <1>2, <1>5, <1>9
<1>12. \A r \in Hotend : holder[r] \in Clerk \ {c} => installed'[r] = installed[r]
  BY <1>2, <1>6
<1> QED
  BY <1>4, <1>5, <1>6, <1>7, <1>10, <1>11, <1>12, Commits

\* A set of numbers that is not empty has a least member.
LEMMA LeastNozzle ==
  ASSUME NEW S \in SUBSET Nat, S # {}
  PROVE  \E i \in S : \A j \in S : i <= j
<1> DEFINE R == {p \in Nat \X Nat : p[1] < p[2]}
<1>1. IsWellFoundedOn(R, Nat)
  BY NatLessThanWellFounded DEF OpToRel
<1>2. \A i, j \in Nat : <<j, i>> \in R <=> j < i
  OBVIOUS
<1> HIDE DEF R
<1>3. \E i \in S : \A j \in S : ~(<<j, i>> \in R)
  BY <1>1, WFMin
<1>4. PICK i \in S : \A j \in S : ~(<<j, i>> \in R)
  BY <1>3
<1>5. ASSUME NEW j \in S PROVE i <= j
  <2>1. i \in Nat /\ j \in Nat /\ ~(j < i)
    BY <1>2, <1>4
  <2> QED
    BY <2>1
<1> QED
  BY <1>4, <1>5


\* The poll's seeding names a nozzle that exists, or asks for a new one.
LEMMA SeedFindsType ==
  ASSUME NozzleShapes, NEW p \in Hotend
  PROVE  SeedFinds(p) \in Shelved \cup {NoNozzle}
<1> DEFINE S == {n \in Shelved : shelf[n].belongs = p /\ shelf[n].status # "retired"}
<1>1. CASE S = {}
  BY <1>1 DEF SeedFinds
<1>2. CASE S # {}
  <2>1. S \in SUBSET Nat /\ MaxNozzles \in Nat
    BY NozzleFacts
  <2> HIDE DEF S
  <2>2. \E n \in S : \A m \in S : n <= m
    BY <1>2, <2>1, LeastNozzle
  <2>3. (CHOOSE n \in S : \A m \in S : n <= m) \in S
    BY <2>2
  <2> QED
    BY <1>2, <2>3 DEF SeedFinds, S
<1> QED
  BY <1>1, <1>2

\* What is agreed is about the shelf, the hotends and the requests alone.
LEMMA SameAgreement ==
  ASSUME AgreementInv, UNCHANGED <<shelf, installed, requested, reseeded>>, Shelved' = Shelved
  PROVE  AgreementInv'
<1>1. \A n : InstalledOn(n)' = InstalledOn(n)
  BY DEF InstalledOn
<1>2. \A n : NozzleAgrees(n) => NozzleAgrees(n)'
  BY <1>1 DEF NozzleAgrees
<1>3. \A c : StillSound(requested[c]) => StillSound(requested[c])'
  BY <1>1 DEF StillSound, Suits
<1> QED
  BY <1>2, <1>3 DEF AgreementInv, Served

LEMMA SeedReadsInv ==
  ASSUME NozzlesInv, NEW p \in Hotend, SeedReads(p)
  PROVE  NozzlesInv'
<1>1. UNCHANGED <<shelf, installed, requested, holder, reseeded>> /\ Shelved' = Shelved
  BY DEF SeedReads, Shelved
<1>2. seeding' \in [Hotend -> Shelved \cup {NoNozzle, NewNozzle}]
  <2>1. SeedFinds(p) \in Shelved \cup {NoNozzle}
    BY SeedFindsType DEF NozzlesInv
  <2> QED
    BY <2>1 DEF SeedReads, NozzlesInv, NozzleShapes
<1>3. NozzleShapes'
  BY <1>1, <1>2 DEF NozzlesInv, NozzleShapes
<1>4. LocksInv'
  BY <1>1 DEF NozzlesInv, LocksInv, HoldsLocks, Served
<1>5. AgreementInv'
  BY <1>1, SameAgreement DEF NozzlesInv
<1> QED
  BY <1>3, <1>4, <1>5 DEF NozzlesInv

LEMMA SeedWritesInv ==
  ASSUME NozzlesInv, NEW p \in Hotend, SeedWrites(p)
  PROVE  NozzlesInv'
<1>n. PICK n : n = IF seeding[p] = NewNozzle THEN Cardinality(Shelved) + 1 ELSE seeding[p]
  OBVIOUS
<1>1. /\ seeding[p] # NoNozzle /\ n <= MaxNozzles /\ reseeded' /\ UNCHANGED <<requested, holder>>
      /\ installed' = [installed EXCEPT ![p] = n] /\ seeding' = [seeding EXCEPT ![p] = NoNozzle]
      /\ shelf' = [m \in Shelved \cup {n} |->
           CASE m # n -> shelf[m]
             [] m = n /\ seeding[p] = NewNozzle ->
                  [belongs |-> p, status |-> "installed", usage |-> "active", version |-> 1]
             [] m = n /\ ~(seeding[p] = NewNozzle) -> [shelf[n] EXCEPT !.status = "installed"]]
  BY <1>n DEF SeedWrites
<1>2. \E k \in 0..MaxNozzles : Shelved \cup {n} = 1..k
  <2>1. CASE seeding[p] = NewNozzle
    <3>1. n = Cardinality(Shelved) + 1 /\ n \in Nat /\ Shelved \cup {n} = 1..n
      BY <1>n, <2>1, NozzleFacts DEF NozzlesInv
    <3>2. n \in 0..MaxNozzles
      BY <1>1, <3>1, NozzleFacts DEF NozzlesInv
    <3> QED
      BY <3>1, <3>2
  <2>2. CASE seeding[p] # NewNozzle
    <3>1. n \in Shelved
      BY <1>n, <1>1, <2>2 DEF NozzlesInv, NozzleShapes
    <3>2. Shelved \cup {n} = Shelved
      BY <3>1
    <3> QED
      BY <3>2 DEF NozzlesInv, NozzleShapes
  <2> QED
    BY <2>1, <2>2
<1>3. Shelved' = Shelved \cup {n}
  BY <1>1 DEF Shelved
<1>4. shelf' \in [Shelved' -> NozzleRecord]
  <2>1. \A m \in Shelved : shelf[m] \in NozzleRecord
    BY DEF NozzlesInv, NozzleShapes
  <2>2. [belongs |-> p, status |-> "installed", usage |-> "active", version |-> 1] \in NozzleRecord
    BY DEF NozzleRecord, Usage
  <2>3. seeding[p] # NewNozzle => [shelf[n] EXCEPT !.status = "installed"] \in NozzleRecord
    <3> SUFFICES ASSUME seeding[p] # NewNozzle
                 PROVE  [shelf[n] EXCEPT !.status = "installed"] \in NozzleRecord
      OBVIOUS
    <3>1. PICK old \in NozzleRecord : old = shelf[n]
      BY <1>n, <1>1, <2>1 DEF NozzlesInv, NozzleShapes
    <3>2. [old EXCEPT !.status = "installed"] \in NozzleRecord
      BY DEF NozzleRecord
    <3> QED
      BY <3>1, <3>2
  <2>4. ASSUME NEW m \in Shelved \cup {n} PROVE shelf'[m] \in NozzleRecord
    <3>1. CASE m # n
      BY <1>1, <2>1, <3>1
    <3>2. CASE m = n /\ seeding[p] = NewNozzle
      BY <1>1, <2>2, <3>2
    <3>3. CASE m = n /\ seeding[p] # NewNozzle
      BY <1>1, <2>3, <3>3
    <3> QED
      BY <3>1, <3>2, <3>3
  <2>5. shelf' = [m \in Shelved \cup {n} |-> shelf'[m]]
    BY <1>1
  <2> QED
    BY <1>3, <2>4, <2>5
<1>5. NozzleShapes'
  <2>1. installed' \in [Hotend -> Shelved' \cup {NoNozzle}]
    BY <1>1, <1>3 DEF NozzlesInv, NozzleShapes
  <2>2. seeding' \in [Hotend -> Shelved' \cup {NoNozzle, NewNozzle}]
    BY <1>1, <1>3 DEF NozzlesInv, NozzleShapes
  <2>3. \E k \in 0..MaxNozzles : Shelved' = 1..k
    BY <1>2, <1>3
  <2> QED
    BY <1>1, <1>3, <1>4, <2>1, <2>2, <2>3 DEF NozzlesInv, NozzleShapes
<1>6. LocksInv'
  BY <1>1 DEF NozzlesInv, LocksInv, HoldsLocks, Served
<1>7. AgreementInv'
  BY <1>1 DEF AgreementInv
<1> QED
  BY <1>5, <1>6, <1>7 DEF NozzlesInv

LEMMA NozzlesInvStep ==
  ASSUME NozzlesInv, [NozzlesNext]_nozzleVars
  PROVE  NozzlesInv'
<1>1. CASE \E c \in Clerk : ClerkStep(c)
  BY <1>1, LockNozzleInv, CheckUpdateInv, CommitUpdateNozzleInv, LockPrinterInv, PrinterIsIdleInv,
     CommitInstallInv, CommitRemoveInv, AbandonNozzleInv DEF ClerkStep
<1>2. CASE \E p \in Hotend : SeedReads(p) \/ SeedWrites(p)
  BY <1>2, SeedReadsInv, SeedWritesInv
<1>3. CASE \E p \in Hotend, usage \in Usage : CreateNozzle(p, usage)
  BY <1>3, CreateInv
<1>4. CASE \E c \in Clerk, n \in Shelved, p \in Hotend :
              \/ \E op \in {"install", "remove"} : Receive(c, op, n, p, "same")
              \/ \E usage \in Usage \cup {"same"} : Receive(c, "update", n, p, usage)
  BY <1>4, ReceiveInv
<1>5. CASE UNCHANGED nozzleVars
  <2>1. /\ UNCHANGED <<shelf, installed, requested, holder, seeding, reseeded>>
        /\ Shelved' = Shelved
    BY <1>5 DEF nozzleVars, Shelved
  <2>2. NozzleShapes' /\ LocksInv'
    BY <2>1 DEF NozzlesInv, NozzleShapes, LocksInv, HoldsLocks, Served
  <2>3. AgreementInv'
    BY <2>1, SameAgreement DEF NozzlesInv
  <2> QED
    BY <2>2, <2>3 DEF NozzlesInv
<1> QED
  BY <1>1, <1>2, <1>3, <1>4, <1>5 DEF NozzlesNext

LEMMA NozzlesInvHolds == NozzlesSpec => []NozzlesInv
  BY NozzlesInvInit, NozzlesInvStep, PTL DEF NozzlesSpec

LEMMA NozzleShapesType == NozzleShapes => NozzlesTypeOK
<1> SUFFICES ASSUME NozzleShapes PROVE NozzlesTypeOK
  OBVIOUS
<1>1. \A n \in Shelved : /\ shelf[n].belongs \in Hotend /\ shelf[n].usage \in Usage
                         /\ shelf[n].status \in {"available", "installed", "retired"}
  BY DEF NozzleShapes, NozzleRecord
<1> QED
  BY <1>1, NozzleFacts DEF NozzleShapes, NozzlesTypeOK

\* The shelf, the printers and the locks keep their types.
THEOREM NozzleTypes == NozzlesSpec => []NozzlesTypeOK
<1>1. NozzlesInv => NozzlesTypeOK
  BY NozzleShapesType DEF NozzlesInv
<1> QED
  BY <1>1, NozzlesInvHolds, PTL

\* Until a poll installs something, the row locks of update_nozzle, install_nozzle and
\* remove_nozzle keep shelf and printers in agreement, and whatever is retired or in
\* maintenance off the printers, in any interleaving of their steps.
THEOREM OperatorsKeepAgreement == NozzlesSpec => []OperatorsAgree
<1>1. NozzlesInv => OperatorsAgree
  BY DEF NozzlesInv, AgreementInv, NozzleAgrees, OperatorsAgree
<1> QED
  BY <1>1, NozzlesInvHolds, PTL

-----------------------------------------------------------------------------
(* The five together.                                                      *)

PrintersInv == SpoolInv /\ PlatesInv /\ StartInv /\ NozzlesInv /\ ConnectionsInv

LEMMA PrintersInvStep ==
  ASSUME PrintersInv, [PrintersNext]_printersVars
  PROVE  PrintersInv'
<1>1. /\ [SpoolNext]_spoolVars /\ [PlatesNext]_plateVars /\ [StartNext]_startVars
      /\ [NozzlesNext]_nozzleVars /\ [ConnectionsNext]_connectionVars
  <2>1. CASE UNCHANGED printersVars
    BY <2>1 DEF printersVars
  <2> QED
    BY <2>1 DEF PrintersNext
<1> QED
  BY <1>1, SpoolInvStep, PlatesInvStep, StartInvStep, NozzlesInvStep, ConnectionsInvStep
     DEF PrintersInv

\* The five modules run side by side, as the runs do, keep the types of all.
THEOREM PrintersTypes == PrintersSpec => []PrintersTypeOK
<1>1. PrintersInit => PrintersInv
  BY SpoolInvInit, PlatesInvInit, StartInvInit, NozzlesInvInit, ConnectionsInvInit
     DEF PrintersInit, PrintersInv
<1>2. PrintersInv => PrintersTypeOK
  <2>1. SpoolInv => SpoolTypeOK
    BY DEF SpoolInv, SpoolTypeOK, VisitOK, Visit, MacroRead, Report
  <2>2. PlatesInv => PlatesTypeOK
    BY DEF PlatesInv, PlateShapes
  <2>3. NozzlesInv => NozzlesTypeOK
    BY NozzleShapesType DEF NozzlesInv
  <2>4. ConnectionsInv => ConnectionsTypeOK
    BY DEF ConnectionsInv, ConnectionRows, ConnectionsTypeOK
  <2> QED
    BY <2>1, <2>2, <2>3, <2>4 DEF PrintersInv, PrintersTypeOK, StartInv
<1> QED
  BY <1>1, <1>2, PrintersInvStep, PTL DEF PrintersSpec

=============================================================================
