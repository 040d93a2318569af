----------------------------- MODULE Recovery ------------------------------
(* A recovery action from wizard to backend: the wizards of the recovery page and  *)
(* the buttons of the suggestions banner open an assessment dialog on an action and *)
(* its payload (useRecoveryAssessment.ts), and what the operator confirms there     *)
(* meets the gate of recovery/preflight.lua, which assesses anew.                   *)
EXTENDS Browser

CONSTANTS
    Requests, NoRequest,      \* an action with its payload
    Token, NoToken,           \* the token each request asks for when it is dangerous
    Targets,                  \* the peers each request is about
    Wizards, NoWizard,        \* the wizards, and the requests each one can review
    Reviews,
    Diagnosing,               \* wizards that ask the backend for a diagnosis first
    Worlds,                   \* states of the cluster
    Mark,                     \* what of a state the fingerprint covers
    RiskyIn                   \* the states in which each request is dangerous

\* What the pages ask of the backend: assessments and actions, and the peers anew.
Operations == {"preflight", "apply", "diagnose", "refresh"}
Refresh(of) == [op |-> "refresh", of |-> of]

Dangerous(q) == backend.world \in RiskyIn[q]
Fingerprint(q) == <<Targets[q], Mark[backend.world]>>
Assessment(q) == [of |-> q, fp |-> Fingerprint(q), confirm |-> Dangerous(q)]
NoAssessment == [of |-> NoRequest]
Tokens == {Token[q] : q \in Requests} \cup {NoToken}

Init ==
    /\ ui = [open |-> FALSE, busy |-> FALSE, action |-> NoRequest,
             shown |-> NoAssessment, ack |-> FALSE, token |-> NoToken,
             typedFor |-> NoRequest,      \* the action the token was typed for
             wizard |-> NoWizard, diagnosed |-> FALSE]
    /\ flight = {}
    /\ backend \in [world : Worlds, paused : BOOLEAN]

\* needsConfirm: the panel asks for the acknowledgement and the token.
NeedsConfirm == ui.shown # NoAssessment /\ ui.shown.confirm

\* Mutant: the token typed for the action before stays in the dialog.
OpensOnDirty(q) ==
    /\ ui' = [ui EXCEPT !.open = TRUE, !.busy = TRUE, !.action = q,
                        !.shown = NoAssessment, !.wizard = NoWizard]
    /\ Queries([op |-> "preflight", of |-> q])

\* openAssessment(): asks for the assessment of q in a clean dialog.
OpensOn(q) ==
    /\ ui' = [ui EXCEPT !.open = TRUE, !.busy = TRUE, !.action = q,
                        !.shown = NoAssessment, !.ack = FALSE, !.token = NoToken,
                        !.typedFor = NoRequest, !.wizard = NoWizard]
    /\ Queries([op |-> "preflight", of |-> q])

\* A button of the banner, or the page's recommended action: no wizard between.
OpenAssessment(q) ==
    /\ ~ui.open
    /\ ui.wizard = NoWizard
    /\ OpensOn(q)
    /\ UNCHANGED backend

OpenWizard(w) ==
    /\ ~ui.open
    /\ ui.wizard = NoWizard
    /\ ui' = [ui EXCEPT !.wizard = w, !.diagnosed = w \notin Diagnosing]
    /\ IF w \in Diagnosing THEN Posts([op |-> "diagnose", of |-> w, n |-> 0])
                           ELSE UNCHANGED flight
    /\ UNCHANGED backend

\* The answer fills the table of its wizard, open or not, and opened since or not.
DiagnoseAnswered(r) ==
    /\ r.op = "diagnose"
    /\ Answered(r)
    /\ ui' = [ui EXCEPT !.diagnosed = (ui.wizard = r.of) \/ ui.diagnosed]
    /\ UNCHANGED backend

\* What the fields of the wizard on show can be set to.
Choosable(q) == ui.wizard # NoWizard /\ q \in Reviews[ui.wizard]

\* A wizard with a diagnosis offers nothing before it came.
Offered(q) == Choosable(q) /\ ui.diagnosed

Review(q) ==
    /\ Offered(q)
    /\ OpensOn(q)
    /\ UNCHANGED backend

CloseWizard ==
    /\ ui.wizard # NoWizard
    /\ ui' = [ui EXCEPT !.wizard = NoWizard]
    /\ UNCHANGED <<flight, backend>>

\* runPreflight() writes the assessment it was asked for, whatever the dialog is
\* about by now; the end of the call clears the busy flag.
PreflightAnswered(r) ==
    /\ r.op = "preflight"
    /\ Answered(r)
    /\ \/ ui' = [ui EXCEPT !.busy = FALSE, !.shown = Assessment(r.of)]
       \/ ui' = [ui EXCEPT !.busy = FALSE]
    /\ UNCHANGED backend

Acknowledge ==
    /\ ui.open
    /\ NeedsConfirm
    /\ ui' = [ui EXCEPT !.ack = ~ui.ack]
    /\ UNCHANGED <<flight, backend>>

TypeToken(t) ==
    /\ ui.open
    /\ NeedsConfirm
    /\ ui' = [ui EXCEPT !.token = t, !.typedFor = ui.action]
    /\ UNCHANGED <<flight, backend>>

Cancel ==
    /\ ui.open
    /\ ui' = [ui EXCEPT !.open = FALSE]
    /\ UNCHANGED <<flight, backend>>

CanApply ==
    /\ ui.open
    /\ ui.shown # NoAssessment
    /\ ~ui.busy
    /\ NeedsConfirm => ui.ack /\ ui.token = Token[ui.shown.of]

\* applyAssessed(): the action of the dialog with the fingerprint of the panel.
Apply ==
    /\ CanApply
    /\ ui' = [ui EXCEPT !.busy = TRUE]
    /\ Posts([op |-> "apply", of |-> ui.action, n |-> 0, fp |-> ui.shown.fp,
              ack |-> NeedsConfirm /\ ui.ack,
              token |-> IF NeedsConfirm THEN ui.token ELSE NoToken,
              typedFor |-> ui.typedFor])
    /\ UNCHANGED backend

\* guarded() and gate(): why a request does not run, by a fresh assessment.
Stale(r) == Dangerous(r.of) /\ r.fp # Fingerprint(r.of)
Unconfirmed(r) == Dangerous(r.of) /\ ~(r.ack /\ r.token = Token[r.of])
Unpaused(r) == Dangerous(r.of) /\ ~backend.paused
Allowed(r) == ~Stale(r) /\ ~Unconfirmed(r) /\ ~Unpaused(r)

\* What runs leaves the cluster in some other state.
Handled(r) ==
    IF Allowed(r) THEN \E w \in Worlds : backend' = [backend EXCEPT !.world = w]
                  ELSE UNCHANGED backend

\* The request or its answer is lost: the error is shown and the dialog stays.
ApplyLost(r) ==
    /\ r.op = "apply"
    /\ Answered(r)
    /\ Handled(r) \/ UNCHANGED backend
    /\ ui' = [ui EXCEPT !.busy = FALSE]

\* The state moved since the assessment: it is asked for again, and the operator too.
ApplyStale(r) ==
    /\ r.op = "apply"
    /\ Stale(r)
    /\ flight' = (flight \ {r}) \cup {[op |-> "preflight", of |-> ui.action]}
    /\ ui' = [ui EXCEPT !.ack = FALSE, !.token = NoToken, !.typedFor = NoRequest]
    /\ UNCHANGED backend

\* Done, or refused for another reason: the dialog closes, the page refreshes, and
\* the call ends with the refresh.
ApplyDone(r) ==
    /\ r.op = "apply"
    /\ ~Stale(r)
    /\ Handled(r)
    /\ flight' = (flight \ {r}) \cup {Refresh(r.of)}
    /\ ui' = [ui EXCEPT !.open = FALSE]

RefreshAnswered(r) ==
    /\ r.op = "refresh"
    /\ Answered(r)
    /\ ui' = [ui EXCEPT !.busy = FALSE]
    /\ UNCHANGED backend

ClusterMoves ==
    /\ \E w \in Worlds : backend' = [backend EXCEPT !.world = w]
    /\ UNCHANGED <<ui, flight>>

PauseChanges ==
    /\ backend' = [backend EXCEPT !.paused = ~backend.paused]
    /\ UNCHANGED <<ui, flight>>

Next ==
    \/ Acknowledge \/ Cancel \/ Apply \/ CloseWizard \/ ClusterMoves \/ PauseChanges
    \/ \E q \in Requests : OpenAssessment(q) \/ Review(q)
    \/ \E w \in Wizards : OpenWizard(w)
    \/ \E t \in Tokens : TypeToken(t)
    \/ \E r \in flight :
          \/ PreflightAnswered(r) \/ DiagnoseAnswered(r) \/ RefreshAnswered(r)
          \/ ApplyLost(r) \/ ApplyStale(r) \/ ApplyDone(r)

Spec == Init /\ [][Next]_pageVars
----------------------------------------------------------------------------
Runs(r) == r.op = "apply" /\ Allowed(r)

\* A dangerous action runs only if the operator typed its token in a dialog opened
\* on that very action, and the state its verdict rests on has not moved since the
\* assessment shown then: whatever answers arrive late, whichever dialog was
\* cancelled before (useRecoveryAssessment.ts:145-217, assess.lua:192-221).
ConsentKept ==
    \A r \in flight :
        Runs(r) /\ Dangerous(r.of) => r.typedFor = r.of /\ r.fp = Fingerprint(r.of)
============================================================================
