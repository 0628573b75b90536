------------------------------- MODULE Nozzles -------------------------------
(***************************************************************************)
(* The physical nozzles of the printers: what operators request, each in   *)
(* one transaction that takes its row locks one by one and asks Moonraker  *)
(* in between, and the seeding that every poll of the printers begins      *)
(* with, which takes no lock before it writes.  Nozzles are numbered in    *)
(* the order of their creation and are all of one diameter.                *)
(***************************************************************************)
EXTENDS Integers, FiniteSets

CONSTANTS Hotend,       \* the printers
          Fitted,       \* printer -> the nozzle that its first seeding gave it
          NoNozzle, NewNozzle, NoRequest, NoClerk,
          MaxNozzles,   \* bound on nozzles created
          MaxRequests   \* bound on requests received

\* Two requests at a time; the poll is the third that holds locks.
Clerk == {"first", "second"}

ASSUME NozzleAssumption ==
    /\ NoClerk \notin Clerk
    /\ {MaxNozzles, MaxRequests} \subseteq Nat
    /\ {NoNozzle, NewNozzle} \cap (1..MaxNozzles) = {} /\ NoNozzle # NewNozzle
    /\ IsFiniteSet(Hotend) /\ Fitted \in [Hotend -> 1..MaxNozzles]
    /\ {Fitted[p] : p \in Hotend} = 1..Cardinality(Hotend)
    /\ \A p, q \in Hotend : Fitted[p] = Fitted[q] => p = q

Usage == {"active", "maintenance", "retired"}

VARIABLES
    shelf,      \* nozzle -> belongs (printer), status, usage, version
    installed,  \* printer -> its active nozzle
    requested,  \* the request that each clerk's transaction serves
    holder,     \* the clerk or poll that holds the lock of a row
    seeding,    \* printer -> the nozzle that the poll is about to install
    received,
    reseeded    \* history: a poll has installed a nozzle since then

nozzleVars == <<shelf, installed, requested, holder, seeding, received, reseeded>>

Shelved == DOMAIN shelf
Row == (1..MaxNozzles) \cup Hotend

NozzlesInit ==
    /\ installed = Fitted
    /\ shelf = [n \in {Fitted[p] : p \in Hotend} |->
                   [belongs |-> CHOOSE p \in Hotend : Fitted[p] = n, status |-> "installed",
                    usage |-> "active", version |-> 1]]
    /\ requested = [c \in Clerk |-> NoRequest] /\ holder = [r \in Row |-> NoClerk]
    /\ seeding = [p \in Hotend |-> NoNozzle]
    /\ received = 0 /\ reseeded = FALSE

-----------------------------------------------------------------------------
(* Requests.                                                               *)

Status(usage) == IF usage = "retired" THEN "retired" ELSE "available"

CreateNozzle(p, usage) ==
    LET n == Cardinality(Shelved) + 1 IN
    /\ received < MaxRequests /\ received' = received + 1 /\ n <= MaxNozzles
    /\ shelf' = [m \in Shelved \cup {n} |-> IF m = n
                     THEN [belongs |-> p, status |-> Status(usage), usage |-> usage, version |-> 1]
                     ELSE shelf[m]]
    /\ UNCHANGED <<installed, requested, holder, seeding, reseeded>>

\* usage is what an update asks for, or "same"; expected the version its client has seen.
Receive(c, op, n, p, usage) ==
    /\ received < MaxRequests /\ received' = received + 1 /\ requested[c] = NoRequest
    /\ requested' = [requested EXCEPT ![c] =
           [op |-> op, nozzle |-> n, printer |-> p, usage |-> usage, expected |-> shelf[n].version,
            at |-> "received", previous |-> NoNozzle, version |-> 0]]
    /\ UNCHANGED <<shelf, installed, holder, seeding, reseeded>>

Unheld(r) == holder[r] = NoClerk

\* Mutated form: the nozzle's row is read without FOR UPDATE.
Unlocked(c, n) == TRUE

\* SELECT ... FOR UPDATE of the nozzle.
TakesNozzle(c, n) == Unheld(n)

At(c, where) == requested[c] # NoRequest /\ requested[c].at = where
Advance(c, where) == requested' = [requested EXCEPT ![c].at = where]

\* The transaction ends: its locks go.
Release(c) ==
    /\ requested' = [requested EXCEPT ![c] = NoRequest]
    /\ holder' = [r \in Row |-> IF holder[r] = c THEN NoClerk ELSE holder[r]]

\* update_nozzle: the version; install_nozzle: neither in maintenance nor retired.
Admissible(r) ==
    CASE r.op = "update"  -> shelf[r.nozzle].version = r.expected
      [] r.op = "install" -> shelf[r.nozzle].usage # "maintenance" /\ shelf[r.nozzle].status # "retired"
      [] r.op = "remove"  -> TRUE

LockNozzle(c) ==
    LET r == requested[c] IN
    /\ At(c, "received") /\ TakesNozzle(c, r.nozzle) /\ Admissible(r)
    /\ holder' = IF Unheld(r.nozzle) THEN [holder EXCEPT ![r.nozzle] = c] ELSE holder
    /\ Advance(c, "nozzle")
    /\ UNCHANGED <<shelf, installed, seeding, received, reseeded>>

InstalledOn(n) == {p \in Hotend : installed[p] = n}

\* update_nozzle looks for the printer without locking it.
CheckUpdate(c) ==
    LET r == requested[c] IN
    /\ At(c, "nozzle") /\ r.op = "update"
    /\ InstalledOn(r.nozzle) # {} => r.usage \notin {"maintenance", "retired"}
    /\ Advance(c, "ready")
    /\ UNCHANGED <<shelf, installed, holder, seeding, received, reseeded>>

CommitUpdate(c) ==
    LET r == requested[c]
        old == shelf[r.nozzle] IN
    /\ At(c, "ready") /\ r.op = "update"
    /\ shelf' = [shelf EXCEPT ![r.nozzle] =
           [old EXCEPT !.version = @ + 1,
                       !.usage = IF r.usage = "same" THEN @ ELSE r.usage,
                       !.status = CASE r.usage = "retired" -> "retired"
                                    [] r.usage \in {"active", "maintenance"} /\ old.status = "retired"
                                         -> "available"
                                    [] OTHER -> @]]
    /\ Release(c) /\ UNCHANGED <<installed, seeding, received, reseeded>>

\* install_nozzle and remove_nozzle: the printer's row, and what they require of it.
Suits(r) ==
    IF r.op = "install"
    THEN /\ shelf[r.nozzle].belongs = r.printer /\ InstalledOn(r.nozzle) \subseteq {r.printer}
         /\ installed[r.printer] # r.nozzle
    ELSE installed[r.printer] = r.nozzle

LockPrinter(c) ==
    LET r == requested[c] IN
    /\ At(c, "nozzle") /\ r.op # "update" /\ Unheld(r.printer) /\ Suits(r)
    /\ holder' = [holder EXCEPT ![r.printer] = c]
    /\ Advance(c, "printer")
    /\ UNCHANGED <<shelf, installed, seeding, received, reseeded>>

\* require_idle_printer has answered; the nozzle to be replaced is read without a lock.
PrinterIsIdle(c) ==
    LET r == requested[c]
        previous == IF r.op = "install" THEN installed[r.printer] ELSE NoNozzle IN
    /\ At(c, "printer")
    /\ requested' = [requested EXCEPT ![c].at = "ready", ![c].previous = previous,
                        ![c].version = IF previous = NoNozzle THEN 0 ELSE shelf[previous].version]
    /\ UNCHANGED <<shelf, installed, holder, seeding, received, reseeded>>

Moved(n, status, version) == [shelf[n] EXCEPT !.status = status, !.version = version]

\* The write of the nozzle replaced waits for its row; its version is computed from the one read.
CommitInstall(c) ==
    LET r == requested[c] IN
    /\ At(c, "ready") /\ r.op = "install" /\ (r.previous # NoNozzle => Unheld(r.previous))
    /\ installed' = [installed EXCEPT ![r.printer] = r.nozzle]
    /\ shelf' = [n \in Shelved |->
           IF n = r.nozzle THEN Moved(n, "installed", shelf[n].version + 1)
           ELSE IF n = r.previous THEN Moved(n, "available", r.version + 1) ELSE shelf[n]]
    /\ Release(c) /\ UNCHANGED <<seeding, received, reseeded>>

CommitRemove(c) ==
    LET r == requested[c] IN
    /\ At(c, "ready") /\ r.op = "remove"
    /\ installed' = [installed EXCEPT ![r.printer] = NoNozzle]
    /\ shelf' = [shelf EXCEPT ![r.nozzle] = Moved(r.nozzle, "available", @.version + 1)]
    /\ Release(c) /\ UNCHANGED <<seeding, received, reseeded>>

\* A check refuses, Moonraker does not answer or reports a print, the client goes away, or
\* the database ends one of two transactions that wait for each other.
Abandon(c) ==
    /\ requested[c] # NoRequest /\ Release(c)
    /\ UNCHANGED <<shelf, installed, seeding, received, reseeded>>

-----------------------------------------------------------------------------
(* seed_configured_system, with which every Moonraker job begins.          *)

\* The oldest nozzle of the printer that is not retired, maintenance or not.
SeedFinds(p) ==
    LET candidates == {n \in Shelved : shelf[n].belongs = p /\ shelf[n].status # "retired"}
    IN  IF candidates = {} THEN NoNozzle
        ELSE CHOOSE n \in candidates : \A m \in candidates : n <= m

\* Without one, a new one is made.
SeedReads(p) ==
    /\ seeding[p] = NoNozzle /\ installed[p] = NoNozzle
    /\ seeding' = [seeding EXCEPT ![p] = IF SeedFinds(p) = NoNozzle THEN NewNozzle ELSE SeedFinds(p)]
    /\ UNCHANGED <<shelf, installed, requested, holder, received, reseeded>>

\* Both rows are written as they were read, once nobody holds them.
SeedWrites(p) ==
    LET new == seeding[p] = NewNozzle
        n   == IF new THEN Cardinality(Shelved) + 1 ELSE seeding[p] IN
    /\ seeding[p] # NoNozzle /\ Unheld(p) /\ n <= MaxNozzles /\ (new \/ Unheld(n))
    /\ installed' = [installed EXCEPT ![p] = n]
    /\ shelf' = [m \in Shelved \cup {n} |->
           CASE m # n         -> shelf[m]
             [] m = n /\ new  -> [belongs |-> p, status |-> "installed", usage |-> "active", version |-> 1]
             [] m = n /\ ~new -> [shelf[n] EXCEPT !.status = "installed"]]
    /\ seeding' = [seeding EXCEPT ![p] = NoNozzle] /\ reseeded' = TRUE
    /\ UNCHANGED <<requested, holder, received>>

-----------------------------------------------------------------------------
ClerkStep(c) ==
    \/ LockNozzle(c) \/ CheckUpdate(c) \/ CommitUpdate(c) \/ LockPrinter(c) \/ PrinterIsIdle(c)
    \/ CommitInstall(c) \/ CommitRemove(c) \/ Abandon(c)

NozzlesNext ==
    \/ \E p \in Hotend, usage \in Usage : CreateNozzle(p, usage)
    \/ \E c \in Clerk, n \in Shelved, p \in Hotend :
           \/ \E op \in {"install", "remove"} : Receive(c, op, n, p, "same")
           \/ \E usage \in Usage \cup {"same"} : Receive(c, "update", n, p, usage)
    \/ \E c \in Clerk : ClerkStep(c)
    \/ \E p \in Hotend : SeedReads(p) \/ SeedWrites(p)

NozzlesSpec == NozzlesInit /\ [][NozzlesNext]_nozzleVars

-----------------------------------------------------------------------------
(* What is claimed.                                                        *)

NozzlesTypeOK ==
    /\ Shelved \subseteq 1..MaxNozzles
    /\ \A n \in Shelved : /\ shelf[n].belongs \in Hotend /\ shelf[n].usage \in Usage
                          /\ shelf[n].status \in {"available", "installed", "retired"}
    /\ \A p \in Hotend : installed[p] \in Shelved \cup {NoNozzle} /\ seeding[p] \in Shelved \cup {NoNozzle, NewNozzle}
    /\ \A r \in Row : holder[r] \in Clerk \cup {NoClerk}

\* As long as the polls have installed nothing, operators' requests, however they overlap, keep
\* a nozzle installed exactly where its printer says so, and none that is retired or in
\* maintenance on a printer (the row locks of update_nozzle, install_nozzle and remove_nozzle).
OperatorsAgree ==
    reseeded \/ \A n \in Shelved :
        /\ (shelf[n].status = "installed") <=> InstalledOn(n) # {}
        /\ InstalledOn(n) \subseteq {shelf[n].belongs}
        /\ InstalledOn(n) # {} => shelf[n].usage = "active"

\* A nozzle in maintenance is not installed: "Mark the nozzle Active before installing it"
\* (nozzles.py).  Not true of the code.
MaintenanceStaysOff ==
    \A p \in Hotend : installed[p] # NoNozzle => shelf[installed[p]].usage # "maintenance"
=============================================================================
