------------------------- MODULE PrinterConnections -------------------------
(***************************************************************************)
(* Where each printer's Moonraker is, and the physical commands sent there *)
(* (spool changes and unloads, build plate choices).  A command is asked   *)
(* for under the printer's row lock, after its endpoint said idle, and is  *)
(* delivered by a job that looks the endpoint up again.  Whoever adds or   *)
(* edits a connection holds one advisory lock, an editor the row as well.  *)
(* Leases and supersession are those of module OutboxQueue.                *)
(***************************************************************************)
EXTENDS Integers, Sequences

CONSTANTS Address,
          Deployed,       \* that of the printer in the deployment's settings
          Nowhere,        \* no endpoint
          NotLocked,      \* nobody holds the row
          MaxPrinters,    \* bound on printers
          MaxCommands,    \* bound on commands
          MaxConnectionOps \* bound on edits and changes of idleness

ASSUME ConnectionsAssumption ==
    /\ Deployed \in Address /\ Nowhere \notin Address
    /\ {MaxPrinters, MaxCommands, MaxConnectionOps} \subseteq Nat /\ MaxPrinters >= 1

VARIABLES
    printers,  \* rows of printers, the deployment's first
    holders,   \* who holds each row's lock, and what it is about to commit
    idle,      \* endpoints that answer, and say idle
    commands,  \* outbox jobs of the five physical types
    connectionOps

connectionVars == <<printers, holders, idle, commands, connectionOps>>

Connection == [address : Address, managed : BOOLEAN, enabled : BOOLEAN, used : BOOLEAN]
Command == [printer : 1..MaxPrinters, checked : Address, to : Address \cup {Nowhere},
            reached : Address \cup {Nowhere}, revived : BOOLEAN,
            status : {"PENDING", "RUNNING", "COMPLETED", "DEAD"}]

ConnectionsInit ==
    /\ printers = <<[address |-> Deployed, managed |-> FALSE, enabled |-> TRUE, used |-> FALSE]>>
    /\ holders = <<NotLocked>> /\ idle = Address /\ commands = <<>> /\ connectionOps = 0

-----------------------------------------------------------------------------
\* configured_printers: the database's connection in place of the deployment's.
Endpoint(p) ==
    IF ~printers[p].managed THEN Deployed
    ELSE IF printers[p].enabled THEN printers[p].address ELSE Nowhere

\* require_idle_printer
IsIdle(p) == Endpoint(p) \in idle

ConnectionOp == connectionOps < MaxConnectionOps /\ connectionOps' = connectionOps + 1

IdleChanges(a) ==
    /\ ConnectionOp /\ idle' = IF a \in idle THEN idle \ {a} ELSE idle \cup {a}
    /\ UNCHANGED <<printers, holders, commands>>

\* A poll finds the printer.
ContactPrinter(p) ==
    /\ ~printers[p].used /\ Endpoint(p) # Nowhere
    /\ printers' = [printers EXCEPT ![p].used = TRUE]
    /\ UNCHANGED <<holders, idle, commands, connectionOps>>

-----------------------------------------------------------------------------
(* Adding and editing connections.                                         *)

\* Mutated form: each checks what the others have committed.
RegistryIsOpen == TRUE

\* The advisory lock that both routes take.
RegistryIsFree == \A p \in DOMAIN holders : holders[p] # NotLocked => holders[p].kind # "update"

Unowned(a, others) == \A q \in others : printers[q].address # a

AddPrinter(a, enabled) ==
    /\ Len(printers) < MaxPrinters /\ RegistryIsFree /\ Unowned(a, DOMAIN printers)
    /\ printers' = Append(printers, [address |-> a, managed |-> TRUE, enabled |-> enabled,
                                     used |-> FALSE])
    /\ holders' = Append(holders, NotLocked)
    /\ UNCHANGED <<idle, commands, connectionOps>>

\* Mutated form: only what is not yet running is waited for.
NoneWaiting(p) == \A i \in DOMAIN commands : commands[i].printer = p => commands[i].status # "PENDING"

NoCommandPending(p) ==
    \A i \in DOMAIN commands : commands[i].printer = p => commands[i].status \in {"COMPLETED", "DEAD"}

\* A newly entered endpoint that was never contacted can be corrected at once.
Pristine(p) ==
    printers[p].managed /\ ~printers[p].used /\ \A i \in DOMAIN commands : commands[i].printer # p

\* update_connection up to its commit.
BeginConnectionUpdate(p, a, enabled) ==
    /\ ConnectionOp /\ RegistryIsFree /\ holders[p] = NotLocked
    /\ a # printers[p].address \/ ~enabled => NoCommandPending(p) /\ (Pristine(p) \/ IsIdle(p))
    /\ Unowned(a, DOMAIN printers \ {p})
    /\ holders' = [holders EXCEPT ![p] = [kind |-> "update", address |-> a, enabled |-> enabled]]
    /\ UNCHANGED <<printers, idle, commands>>

CommitConnectionUpdate(p) ==
    /\ holders[p] # NotLocked /\ holders[p].kind = "update"
    /\ printers' = [printers EXCEPT ![p].address = holders[p].address,
                                    ![p].enabled = holders[p].enabled, ![p].managed = TRUE]
    /\ holders' = [holders EXCEPT ![p] = NotLocked]
    /\ UNCHANGED <<idle, commands, connectionOps>>

-----------------------------------------------------------------------------
(* Physical commands.                                                      *)

\* selected_printer, or select_build_plate's own lock, and the idle check.
BeginCommand(p) ==
    /\ Len(commands) < MaxCommands /\ holders[p] = NotLocked /\ IsIdle(p)
    /\ holders' = [holders EXCEPT ![p] = [kind |-> "command", address |-> Endpoint(p)]]
    /\ UNCHANGED <<printers, idle, commands, connectionOps>>

CommitCommand(p) ==
    /\ holders[p] # NotLocked /\ holders[p].kind = "command"
    /\ commands' = Append(commands, [printer |-> p, checked |-> holders[p].address, to |-> Nowhere,
                                     reached |-> Nowhere, revived |-> FALSE, status |-> "PENDING"])
    /\ holders' = [holders EXCEPT ![p] = NotLocked]
    /\ UNCHANGED <<printers, idle, connectionOps>>

\* A later check refuses, or the request fails: nothing is committed.
AbandonRequest(p) ==
    /\ holders[p] # NotLocked /\ holders' = [holders EXCEPT ![p] = NotLocked]
    /\ UNCHANGED <<printers, idle, commands, connectionOps>>

CommandBecomes(i, command) ==
    /\ commands' = [commands EXCEPT ![i] = command]
    /\ UNCHANGED <<printers, holders, idle, connectionOps>>

ClaimCommand(i) ==
    commands[i].status = "PENDING" /\ CommandBecomes(i, [commands[i] EXCEPT !.status = "RUNNING"])

\* The handler's own look at the connections.
ReadEndpoint(i) ==
    /\ commands[i].status = "RUNNING" /\ commands[i].to = Nowhere
    /\ Endpoint(commands[i].printer) # Nowhere
    /\ CommandBecomes(i, [commands[i] EXCEPT !.to = Endpoint(commands[i].printer)])

DeliverCommand(i) ==
    /\ commands[i].status = "RUNNING" /\ commands[i].to # Nowhere
    /\ CommandBecomes(i, [commands[i] EXCEPT !.reached = commands[i].to])

CompleteCommand(i) ==
    /\ commands[i].status = "RUNNING" /\ commands[i].to # Nowhere
    /\ commands[i].reached = commands[i].to
    /\ CommandBecomes(i, [commands[i] EXCEPT !.status = "COMPLETED"])

\* Perhaps after it was delivered; attempts may be left or not.
CommandFails(i, status) ==
    /\ commands[i].status = "RUNNING"
    /\ CommandBecomes(i, [commands[i] EXCEPT !.status = status, !.to = Nowhere])

\* retry_job
RetryCommand(i) ==
    /\ commands[i].status = "DEAD"
    /\ CommandBecomes(i, [commands[i] EXCEPT !.status = "PENDING", !.revived = TRUE])

-----------------------------------------------------------------------------
ConnectionsNext ==
    \/ \E a \in Address : IdleChanges(a) \/ \E enabled \in BOOLEAN : AddPrinter(a, enabled)
    \/ \E p \in DOMAIN printers :
          \/ ContactPrinter(p) \/ CommitConnectionUpdate(p)
          \/ BeginCommand(p) \/ CommitCommand(p) \/ AbandonRequest(p)
          \/ \E a \in Address, enabled \in BOOLEAN : BeginConnectionUpdate(p, a, enabled)
    \/ \E i \in DOMAIN commands :
          \/ ClaimCommand(i) \/ ReadEndpoint(i) \/ DeliverCommand(i) \/ CompleteCommand(i)
          \/ RetryCommand(i) \/ \E status \in {"PENDING", "DEAD"} : CommandFails(i, status)

ConnectionsSpec == ConnectionsInit /\ [][ConnectionsNext]_connectionVars

-----------------------------------------------------------------------------
(* What is claimed.                                                        *)

ConnectionsTypeOK ==
    /\ printers \in Seq(Connection) /\ Len(holders) = Len(printers)
    /\ commands \in Seq(Command) /\ idle \subseteq Address

\* No two printers share a Moonraker, and a command reaches the one that said idle when it
\* was asked for, however edits, failures and retries of the worker overlap, unless an
\* administrator revived it after it was given up (update_connection, selected_printer).
EndpointsStand ==
    /\ \A p, q \in DOMAIN printers : p # q => printers[p].address # printers[q].address
    /\ \A i \in DOMAIN commands :
          commands[i].reached = Nowhere \/ commands[i].revived \/ commands[i].reached = commands[i].checked
=============================================================================
