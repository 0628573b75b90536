---------------------------- MODULE Calibrations ----------------------------
(***************************************************************************)
(* A calibration session: ordered steps, each with a status and a result,  *)
(* worked on from several browser pages.  A page holds the version of the  *)
(* step it shows.  The page that applies the results fetches two things on *)
(* their own: its list of sessions, with their versions and steps, and the *)
(* suggestions under review, which carry no version and stay in its cache. *)
(* Every handler locks the session's row, so a handler is one action.      *)
(***************************************************************************)
EXTENDS Integers, FiniteSets

CONSTANTS Steps,       \* how many steps, in their order
          Required,    \* the mandatory ones
          Derived,     \* the step computed with the result of ...
          Source,      \* ... this earlier one
          Measured,    \* what a step can measure
          Unmeasured,
          NoSession, NoReview,
          MaxVersion   \* bound on the changes of one session

ASSUME CalibrationAssumption ==
    /\ Steps \in Nat /\ MaxVersion \in Nat \ {0}
    /\ Required \subseteq 1 .. Steps /\ {Derived, Source} \subseteq 1 .. Steps
    /\ Unmeasured \notin Measured

VARIABLES
    session,   \* calibration_sessions: the status and version of the one in progress
    steps,     \* calibration_steps
    forms,     \* the steps that some page shows in their current version
    listed,    \* the session's version and status in the list of the reviewing page
    suggested, \* the results it has cached for review; history: of which version
    outdated   \* steps whose result is older than the repetition of an earlier step

pageVars == <<listed, suggested>>
calibrationVars == <<session, steps, forms, pageVars, outdated>>

Step == 1 .. Steps
SessionStatus == {"in_progress", "ready", "published"}
StepStatus == {"not_started", "in_progress", "completed", "needs_review"}
StepRow == [status : StepStatus, result : Measured \cup {Unmeasured}]
NewSteps == [k \in Step |-> [status |-> "not_started", result |-> Unmeasured]]

CalibrationInit ==
    /\ session = NoSession /\ steps = NewSteps /\ forms = {} /\ outdated = {}
    /\ listed = NoSession /\ suggested = NoReview

-----------------------------------------------------------------------------
Complete(rows) == \A k \in Required : rows[k].status = "completed"

\* _combined_results
Combined(rows) == [k \in {j \in Step : rows[j].status = "completed"} |-> rows[k].result]

\* Mutated form: only the step that follows.
OnlyTheNext(rows, k) == {j \in Step : j = k + 1 /\ rows[j].status = "completed"}

\* invalidated_statuses
Invalidated(rows, k) == {j \in Step : j > k /\ rows[j].status = "completed"}

Touched(status) ==
    /\ session # NoSession /\ session.version < MaxVersion
    /\ session' = [status |-> status, version |-> session.version + 1]

CreateCalibration ==
    /\ session = NoSession
    /\ session' = [status |-> "in_progress", version |-> 1]
    /\ steps' = NewSteps /\ outdated' = {} /\ forms' = {}
    /\ listed' = NoSession /\ suggested' = NoReview

\* list_calibrations, for any page: when it is loaded, after its own edits, when it is shown
\* again.  In the reviewing one the suggestions stay cached, unless it is loaded anew.
ListCalibrations ==
    /\ session # NoSession /\ forms' = Step
    /\ \/ UNCHANGED pageVars
       \/ listed' = session /\ suggested' \in {suggested, NoReview}
    /\ UNCHANGED <<session, steps, outdated>>

StartStep(k) ==
    /\ \A j \in Required : j < k => steps[j].status = "completed"
    /\ steps[k].status \in {"not_started", "needs_review"}
    /\ session # NoSession /\ Touched(session.status)
    /\ steps' = [steps EXCEPT ![k].status = "in_progress"]
    /\ forms' = forms \ {k}
    /\ UNCHANGED <<pageVars, outdated>>

\* In any session, in any order, whatever the session's status.
UpdateStepResult(k, result, complete, repeat) ==
    LET invalidated == IF repeat THEN Invalidated(steps, k) ELSE {}
        before == IF repeat THEN "in_progress" ELSE steps[k].status
        after == IF complete THEN "completed"
                 ELSE IF before = "not_started" THEN "in_progress" ELSE before
        rows == [j \in Step |-> IF j = k THEN [status |-> after, result |-> result]
                                ELSE IF j \in invalidated THEN [steps[j] EXCEPT !.status = "needs_review"]
                                ELSE steps[j]] IN
    /\ session # NoSession /\ k \in forms
    /\ complete => result # Unmeasured
    /\ complete /\ k = Derived => steps[Source].result # Unmeasured
    /\ Touched(IF Complete(rows) THEN "ready" ELSE "in_progress")
    /\ steps' = rows
    /\ forms' = forms \ ({k} \cup invalidated)
    /\ outdated' = (outdated \cup (IF repeat THEN {j \in Step : j > k} ELSE {})) \ {k}
    /\ UNCHANGED pageVars

\* The review of a session listed as ready: get_calibration_suggestions, asked unless the
\* answer is cached; what was fetched less than 20 s ago, or is fetched again, shows as it is.
Review ==
    /\ session # NoSession /\ listed # NoSession /\ listed.status = "ready"
    /\ session.status = "ready"
    /\ suggested' = [of |-> session.version, results |-> Combined(steps)]
    /\ UNCHANGED <<session, steps, forms, listed, outdated>>

\* An operator may override missing steps; what was reviewed is not compared.
ApplyToProfile(override) ==
    /\ session # NoSession /\ (session.status = "ready" \/ override)
    /\ Touched("published")
    /\ UNCHANGED <<steps, forms, pageVars, outdated>>

\* Mutated form: whatever version the page lists.
ListIsShown == listed # NoSession

ListIsCurrent == listed # NoSession /\ listed.version = session.version

\* Confirmed under some suggestions; expected_version is the list's.
ApplyToTemplate ==
    /\ session # NoSession /\ suggested # NoReview
    /\ ListIsCurrent /\ session.status = "ready"
    /\ Touched("published")
    /\ UNCHANGED <<steps, forms, pageVars, outdated>>

\* From a page that shows the current version.
DeleteCalibration ==
    /\ session # NoSession /\ session.status # "published"
    /\ session' = NoSession /\ steps' = NewSteps
    /\ forms' = {} /\ outdated' = {} /\ listed' = NoSession /\ suggested' = NoReview

-----------------------------------------------------------------------------
CalibrationNext ==
    \/ CreateCalibration \/ ListCalibrations \/ Review \/ ApplyToTemplate \/ DeleteCalibration
    \/ \E k \in Step : StartStep(k)
    \/ \E k \in Step, r \in Measured \cup {Unmeasured}, complete, repeat \in BOOLEAN :
          UpdateStepResult(k, r, complete, repeat)
    \/ \E override \in BOOLEAN : ApplyToProfile(override)

CalibrationSpec == CalibrationInit /\ [][CalibrationNext]_calibrationVars

-----------------------------------------------------------------------------
(* What is claimed.                                                        *)

CalibrationTypeOK ==
    /\ session = NoSession \/ session \in [status : SessionStatus, version : 1 .. MaxVersion]
    /\ steps \in [Step -> StepRow] /\ forms \subseteq Step /\ outdated \subseteq Step
    /\ listed # NoSession => /\ listed \in [status : SessionStatus, version : 1 .. MaxVersion]
                             /\ listed.version <= session.version

\* The settings of a whole template change only to results none of which is older than the
\* repetition of a step it depends on, and only to those under review, unless the page that
\* applies them has since listed a later version of the session (apply_calibration_template_settings,
\* invalidated_statuses).
TemplateTakesReviewed ==
    [][ApplyToTemplate => /\ \A k \in DOMAIN Combined(steps) : k \notin outdated
                          /\ \/ Combined(steps) = suggested.results
                             \/ listed.version > suggested.of]_calibrationVars
=============================================================================
