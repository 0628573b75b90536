-------------------------- MODULE GooglePublication --------------------------
(***************************************************************************)
(* The Google connection and the workbook published through it.  Consent   *)
(* is given in a browser and exchanged for a grant by a request that holds *)
(* no lock meanwhile; a publication holds the shared lock from its checks  *)
(* to its commit, and any of its requests to Google may fail, unanswered   *)
(* though it was carried out.  OAuth only, and one Google account.         *)
(***************************************************************************)
EXTENDS Integers

CONSTANTS Exported,     \* what the exported tables may hold
          MaxConsents,  \* bound on consents asked for
          MaxPublishOps,\* bound on edits, tampering and what people ask for
          MaxPublishFaults,
          Unpublished,  \* no fingerprint, no contents
          Tampered,     \* contents that people changed
          NoPass

ASSUME PublicationAssumption == {MaxConsents, MaxPublishOps, MaxPublishFaults} \subseteq Nat

VARIABLES
    exported,   \* what snapshot would read
    printing,     \* a print is in progress
    google,     \* google_connection, its grant as the number of the consent
    exchanges,  \* complete_authorization: consents consumed and not yet stored
    pass,       \* the publication under way
    drive,      \* the workbooks of this publication key, and what they hold
    lately,     \* less than an interval since last_synced_at
    superseded, \* history: the newest consent that a later connect or disconnect revoked
    owed,       \* history: nothing but the app wrote since the last forced publication was asked
    publishOps, publishFaults

googleVars == <<exported, printing, google, exchanges, pass, drive, lately, superseded, owed,
                publishOps, publishFaults>>
counters == <<publishOps, publishFaults>>
world == <<exported, printing, lately>>

\* session_hash: a browser session, the completion of consent n, or a tombstone.
Browser == <<"browser", 0>>
Completion(n) == <<"completion", n>>
Tombstones == {<<"none", 0>>, <<"disconnected", 0>>, <<"setup_changed", 0>>}

PublicationInit ==
    /\ exported \in Exported /\ printing = FALSE /\ lately = FALSE
    /\ google = [grant |-> 0, asked |-> 0, made |-> 0, holder |-> <<"none", 0>>, requested |-> FALSE,
                 workbook |-> FALSE, fingerprint |-> Unpublished, delayed |-> FALSE]
    /\ exchanges = {} /\ pass = NoPass
    /\ drive = [count |-> 0, holds |-> Unpublished]
    /\ superseded = 0 /\ owed = FALSE /\ publishOps = 0 /\ publishFaults = 0

-----------------------------------------------------------------------------
\* pg_advisory_xact_lock: what a pass does is one transaction of this lock.
LockIsFree == pass = NoPass

PublishOp == publishOps < MaxPublishOps /\ publishOps' = publishOps + 1
PublishFault == publishFaults < MaxPublishFaults /\ publishFaults' = publishFaults + 1

ExportedChanges(c) ==
    /\ PublishOp /\ c # exported /\ exported' = c
    /\ UNCHANGED <<printing, google, exchanges, pass, drive, lately, superseded, owed, publishFaults>>

PrintBegins ==
    /\ PublishOp /\ ~printing /\ printing' = TRUE
    /\ UNCHANGED <<exported, google, exchanges, pass, drive, lately, superseded, owed, publishFaults>>

PrintFinishes ==
    /\ printing /\ printing' = FALSE
    /\ UNCHANGED <<exported, google, exchanges, pass, drive, lately, superseded, owed, counters>>

IntervalPasses ==
    /\ lately /\ lately' = FALSE
    /\ UNCHANGED <<exported, printing, google, exchanges, pass, drive, superseded, owed, counters>>

DelayPasses ==
    /\ google.delayed /\ LockIsFree /\ google' = [google EXCEPT !.delayed = FALSE]
    /\ UNCHANGED <<world, exchanges, pass, drive, superseded, owed, counters>>

\* Its owner edits the workbook, which the app only warns against.
WorkbookIsEdited ==
    /\ PublishOp /\ drive.count > 0 /\ drive' = [drive EXCEPT !.holds = Tampered]
    /\ owed' = FALSE
    /\ UNCHANGED <<world, google, exchanges, pass, superseded, publishFaults>>

-----------------------------------------------------------------------------
(* The connection's routes.                                                *)

\* begin_authorization: a new consent is asked for; the grant held stays.
Connect ==
    /\ LockIsFree /\ google.made < MaxConsents
    /\ google' = [google EXCEPT !.made = @ + 1, !.asked = google.made + 1, !.holder = Browser]
    /\ superseded' = google.made
    /\ UNCHANGED <<world, exchanges, pass, drive, owed, counters>>

\* complete_authorization: consumed before the exchange, so that it cannot be replayed.
Consume ==
    /\ LockIsFree /\ google.asked # 0 /\ google.holder = Browser
    /\ google' = [google EXCEPT !.asked = 0, !.holder = Completion(google.asked)]
    /\ exchanges' = exchanges \cup {google.asked}
    /\ UNCHANGED <<world, pass, drive, superseded, owed, counters>>

\* Mutated form: only a newer consent is looked for.
NoneAsked(n) == google.asked = 0

\* A newer connect or disconnect invalidates an exchange in flight.
StillCurrent(n) == google.asked = 0 /\ google.holder = Completion(n)

StoreGrant(n) ==
    /\ n \in exchanges /\ LockIsFree /\ exchanges' = exchanges \ {n}
    /\ IF StillCurrent(n)
       THEN /\ google' = [google EXCEPT !.grant = n, !.holder = <<"none", 0>>, !.delayed = FALSE,
                                        !.fingerprint = Unpublished, !.requested = TRUE]
            /\ owed' = TRUE
       ELSE UNCHANGED <<google, owed>>
    /\ UNCHANGED <<world, pass, drive, superseded, counters>>

\* Google refuses, the browser's session ends, or the process.
ExchangeFails(n) ==
    /\ n \in exchanges /\ exchanges' = exchanges \ {n}
    /\ UNCHANGED <<world, google, pass, drive, superseded, owed, counters>>

\* The grant and what was asked for go; a tombstone outlives them.
Forgotten(tombstone) ==
    [google EXCEPT !.grant = 0, !.asked = 0, !.holder = <<tombstone, 0>>, !.requested = FALSE]

\* disconnect
Disconnect ==
    /\ PublishOp /\ LockIsFree /\ google' = Forgotten("disconnected")
    /\ superseded' = google.made
    /\ UNCHANGED <<world, exchanges, pass, drive, owed, publishFaults>>

\* setup, with other credentials: also ends the delay.
Setup ==
    /\ PublishOp /\ LockIsFree /\ google' = [Forgotten("setup_changed") EXCEPT !.delayed = FALSE]
    /\ superseded' = google.made
    /\ UNCHANGED <<world, exchanges, pass, drive, owed, publishFaults>>

\* Mutated form: the request does not wait for the publication under way.
AtOnce == TRUE

AfterPublication == LockIsFree

\* sync
SyncWorkbook ==
    /\ PublishOp /\ AfterPublication /\ google.grant # 0
    /\ google' = [google EXCEPT !.requested = TRUE, !.delayed = FALSE]
    /\ owed' = TRUE
    /\ UNCHANGED <<world, exchanges, pass, drive, superseded, publishFaults>>

-----------------------------------------------------------------------------
(* publish, by whichever google job runs; forced is google.rebuild.full.   *)

Due(forced) == google.requested \/ forced \/ ~lately

BeginPass(forced) ==
    /\ LockIsFree /\ google.grant # 0 /\ ~printing /\ ~google.delayed /\ Due(forced)
    /\ forced => PublishOp
    /\ IF google.requested \/ forced \/ google.fingerprint # exported
       THEN /\ pass' = [at |-> "reading", content |-> exported, clears |-> google.requested,
                        workbook |-> google.workbook]
            /\ UNCHANGED google
       ELSE /\ google' = [google EXCEPT !.delayed = FALSE]  \* it already matches
            /\ UNCHANGED pass
    /\ UNCHANGED <<world, exchanges, drive, superseded, owed, publishFaults>>
    /\ ~forced => UNCHANGED publishOps

\* find_or_create recovers a workbook by the publication key, not by the stored id.
FindWorkbook ==
    /\ pass # NoPass /\ pass.at = "reading"
    /\ pass' = [pass EXCEPT !.at = "staging", !.workbook = TRUE]
    /\ drive' = IF ~pass.workbook /\ drive.count = 0 THEN [drive EXCEPT !.count = 1] ELSE drive
    /\ UNCHANGED <<world, google, exchanges, superseded, owed, counters>>

\* Hidden tabs, in place of those that an earlier pass left behind.
StageTabs ==
    /\ pass # NoPass /\ pass.at = "staging"
    /\ pass' = [pass EXCEPT !.at = "staged"]
    /\ UNCHANGED <<world, google, exchanges, drive, superseded, owed, counters>>

\* One batch moves what is staged into the tabs that people see.
ReplaceTabs ==
    /\ pass # NoPass /\ pass.at = "staged"
    /\ pass' = [pass EXCEPT !.at = "answered"]
    /\ drive' = [drive EXCEPT !.holds = pass.content]
    /\ UNCHANGED <<world, google, exchanges, superseded, owed, counters>>

\* Only a request that the pass has seen is written off.
CommitPass ==
    /\ pass # NoPass /\ pass.at = "answered" /\ pass' = NoPass
    /\ google' = [google EXCEPT !.fingerprint = pass.content, !.workbook = TRUE, !.delayed = FALSE,
                                !.requested = @ /\ ~pass.clears]
    /\ lately' = TRUE
    /\ UNCHANGED <<exported, printing, exchanges, drive, superseded, owed, counters>>

\* What a request did may be done although its answer is an error; the delay is stored.
\* Until the next forced publication nobody knows what the workbook holds.
PassFails(applied) ==
    /\ PublishFault /\ pass # NoPass /\ pass.at # "answered" /\ pass' = NoPass
    /\ drive' = IF applied /\ pass.at = "staged" THEN [drive EXCEPT !.holds = pass.content]
                ELSE IF applied /\ pass.at = "reading" /\ ~pass.workbook /\ drive.count = 0
                THEN [drive EXCEPT !.count = 1] ELSE drive
    /\ google' = [google EXCEPT !.delayed = TRUE, !.workbook = pass.workbook]
    /\ owed' = (owed /\ drive'.holds = drive.holds)
    /\ UNCHANGED <<world, exchanges, superseded, publishOps>>

\* The worker stops: nothing of the pass is stored.
PassDies ==
    /\ PublishFault /\ pass # NoPass /\ pass' = NoPass
    /\ owed' = (owed /\ pass.at # "answered")
    /\ UNCHANGED <<world, google, exchanges, drive, superseded, publishOps>>

-----------------------------------------------------------------------------
PassStep ==
    \/ \E forced \in BOOLEAN : BeginPass(forced)
    \/ FindWorkbook \/ StageTabs \/ ReplaceTabs \/ CommitPass

TimePasses == PrintFinishes \/ IntervalPasses \/ DelayPasses

PublicationNext ==
    \/ \E c \in Exported : ExportedChanges(c)
    \/ PrintBegins \/ TimePasses \/ WorkbookIsEdited
    \/ Connect \/ Consume \/ \E n \in exchanges : StoreGrant(n) \/ ExchangeFails(n)
    \/ Disconnect \/ Setup \/ SyncWorkbook \/ PassStep \/ \E applied \in BOOLEAN : PassFails(applied)
    \/ PassDies

\* The scheduler keeps queueing google.publish.pending, and prints and delays end.
PublicationSpec == PublicationInit /\ [][PublicationNext]_googleVars
                   /\ WF_googleVars(PassStep) /\ WF_googleVars(TimePasses)

-----------------------------------------------------------------------------
(* What is claimed.                                                        *)

PublicationTypeOK ==
    /\ exported \in Exported /\ drive.count \in 0..1
    /\ google.grant \in 0..MaxConsents /\ exchanges \subseteq 1..MaxConsents
    /\ google.holder \in Tombstones \cup {Browser} \cup {Completion(n) : n \in 1..MaxConsents}
    /\ google.fingerprint \in Exported \cup {Unpublished}
    /\ drive.holds # Unpublished => drive.count = 1

\* What was disconnected stays so: no exchange that a later connect, disconnect or setup
\* overtook stores its grant, in whatever order they end (complete_authorization).
OnlyCurrentConsent ==
    [][google'.grant \notin {0, google.grant} => google'.grant > superseded]_googleVars

\* After Sync now, or a new connection, the workbook comes to hold what the tables hold,
\* through edits, failures, delays and prints, unless somebody writes into it again or a
\* replacement's outcome is not known (publish).
WorkbookRepaired == google.grant # 0 /\ owed => drive.holds = exported
=============================================================================
