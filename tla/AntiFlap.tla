------------------------------ MODULE AntiFlap ------------------------------
(***************************************************************************)
(* The anti-flap circuit breaker of one replicaset: failover/antiflap.lua. *)
(* Its state is an entry of STATE.per_rs and the table STATE.backoff; its  *)
(* functions are operators from one value of them to the next, and a tick  *)
(* of the clock ages both.  An entry nobody made yet is a fresh one.       *)
(*                                                                         *)
(* The phi detector compares an elapsed time with the distribution of the  *)
(* heartbeats before; the model keeps how many samples there are, and any  *)
(* verdict is possible until the leader was silent for SurelyDead.         *)
(***************************************************************************)
EXTENDS Naturals, FiniteSets

CONSTANTS
    Aliases, NoOne,
    DampenCycles,   \* dampen_cycles
    MinMisses,      \* min_misses
    StartGrace,     \* primary_start_timeout
    Threshold,      \* suppress_threshold
    Window,         \* suppress_window
    Cooldown,       \* suppress_cooldown
    BackoffBase,    \* promote_backoff_base
    BackoffMax,     \* promote_backoff_max, the lease ttl
    PhiSamples,     \* phi_min_samples
    SurelyDead      \* silence at which phi is past any threshold

ASSUME AntiFlapAssumption ==
    /\ NoOne \notin Aliases /\ IsFiniteSet(Aliases)
    /\ DampenCycles \in Nat \ {0} /\ MinMisses \in Nat \ {0}
    /\ StartGrace \in Nat /\ Threshold \in Nat \ {0}
    /\ Window \in Nat \ {0} /\ Cooldown \in Nat \ {0}
    /\ BackoffBase \in Nat \ {0} /\ BackoffMax \in Nat \ {0}
    /\ PhiSamples \in Nat /\ SurelyDead \in Nat

Least(m, n) == IF m < n THEN m ELSE n
Less(n) == IF n > 0 THEN n - 1 ELSE 0

\* Misses are told apart up to the two numbers they are compared with.
MissCap == IF MinMisses > DampenCycles THEN MinMisses ELSE DampenCycles

\* An entry of per_rs: misses; heartbeat samples, whether there was a last
\* one and how long ago; ages of the changes in the window; what is left of
\* the suppression; the appointment not confirmed yet, and its age.
Entries == [misses : 0..MissCap, samples : 0..PhiSamples, heard : BOOLEAN,
            silent : 0..SurelyDead, changes : SUBSET (0..Window - 1),
            suppressed : 0..Cooldown, appointed : Aliases \cup {NoOne},
            since : 0..StartGrace + 1]
Fresh == [misses |-> 0, samples |-> 0, heard |-> FALSE, silent |-> 0,
          changes |-> {}, suppressed |-> 0, appointed |-> NoOne, since |-> 0]

\* An entry of STATE.backoff: what is left of it, and how long it was when it
\* was set, which stands for the failures it counts: base * 2^(failures - 1) up
\* to the cap is the step before, doubled, up to the cap.
Backoffs == [left : 0..BackoffMax, step : 0..BackoffMax]
NoBackoff == [left |-> 0, step |-> 0]

\* Mutant: a healthy observation does not reset the misses.
ObserveKeeping(e, healthy) ==
    IF healthy
    THEN [e EXCEPT !.samples = IF e.heard THEN Least(@ + 1, PhiSamples) ELSE @,
                   !.heard = TRUE, !.silent = 0]
    ELSE [e EXCEPT !.misses = Least(@ + 1, MissCap)]

\* observe.  Two observations are never at the same time.
Observe(e, healthy) ==
    IF healthy
    THEN [e EXCEPT !.samples = IF e.heard THEN Least(@ + 1, PhiSamples) ELSE @,
                   !.heard = TRUE, !.silent = 0, !.misses = 0]
    ELSE [e EXCEPT !.misses = Least(@ + 1, MissCap)]

\* compute_phi has an answer.
PhiKnown(e) == e.samples >= PhiSamples /\ e.heard

\* suspected_dead, phi saying whether the detector is past its threshold.
Suspected(e, phi) ==
    /\ e.misses >= MinMisses
    /\ IF PhiKnown(e) THEN phi \/ e.silent >= SurelyDead
                      ELSE e.misses >= DampenCycles

\* failover_allowed, for a leader appointed or last refreshed age ago.
FailoverAllowed(e, phi, age) ==
    e.suppressed = 0 /\ Suspected(e, phi) /\ age >= StartGrace

\* Mutant: suppression starts one change too late.
RecordChangeLate(e) ==
    [Fresh EXCEPT
        !.changes = e.changes \cup {0},
        !.suppressed = IF Cardinality(e.changes) > Threshold
                       THEN Cooldown ELSE e.suppressed,
        !.appointed = e.appointed, !.since = e.since]

\* record_change: the counters start over, and one change more than the
\* threshold in the window suppresses.
RecordChange(e) ==
    [Fresh EXCEPT
        !.changes = e.changes \cup {0},
        !.suppressed = IF Cardinality(e.changes) >= Threshold
                       THEN Cooldown ELSE e.suppressed,
        !.appointed = e.appointed, !.since = e.since]

NoteAppointed(e, a) == [e EXCEPT !.appointed = a, !.since = 0]

NextStep(b, a) == IF b[a].step = 0 THEN BackoffBase ELSE 2 * b[a].step

\* Mutant: the window is not capped.
NoteFailureUncapped(b, a) ==
    [b EXCEPT ![a] = [left |-> NextStep(b, a), step |-> NextStep(b, a)]]

\* note_promote_failure: each failure counted doubles the window.
NoteFailure(b, a) ==
    LET step == Least(NextStep(b, a), BackoffMax)
    IN  [b EXCEPT ![a] = [left |-> step, step |-> step]]

\* check_appointment against the probe of the leader: confirmed once it is
\* writable, stalled and backed off once the grace is over.
CheckAppointment(e, b, writable) ==
    LET a == e.appointed
    IN  CASE a # NoOne /\ writable ->
               [entry |-> [e EXCEPT !.appointed = NoOne],
                backoff |-> [b EXCEPT ![a] = NoBackoff]]
          [] a # NoOne /\ ~writable /\ e.since > StartGrace ->
               [entry |-> [e EXCEPT !.appointed = NoOne],
                backoff |-> NoteFailure(b, a)]
          [] OTHER -> [entry |-> e, backoff |-> b]

\* backoff_set: who sits out, and the table without the expired entries.
Resting(b) == {a \in Aliases : b[a].left > 0}
Compacted(b) == [a \in Aliases |-> IF b[a].left > 0 THEN b[a] ELSE NoBackoff]

\* Mutant: a suppression never expires.
AgedEntrySuppressed(e) ==
    [e EXCEPT !.silent = IF e.heard THEN Least(@ + 1, SurelyDead) ELSE @,
              !.changes = {c \in 1..Window - 1 : c - 1 \in e.changes},
              !.since = IF e.appointed = NoOne THEN 0
                        ELSE Least(@ + 1, StartGrace + 1)]

\* One tick later.
AgedEntry(e) ==
    [e EXCEPT !.silent = IF e.heard THEN Least(@ + 1, SurelyDead) ELSE @,
              !.changes = {c \in 1..Window - 1 : c - 1 \in e.changes},
              !.suppressed = Less(@),
              !.since = IF e.appointed = NoOne THEN 0
                        ELSE Least(@ + 1, StartGrace + 1)]
AgedBackoff(b) == [a \in Aliases |-> [b[a] EXCEPT !.left = Less(@)]]
=============================================================================
