--------------------------- MODULE ActionsProofs ---------------------------
(* Proofs about the pages that act on the cluster and its data: for any requests,   *)
(* spaces, instances and orders of answers, what reaches the backend is what the     *)
(* operator confirmed, one at a time.                                                *)
EXTENDS PagesProofs, SequenceTheorems

(* The recovery page. *)

\* A token on show was typed for the action of the dialog, and so was one on its way.
RecoveryInv ==
    /\ DOMAIN ui = {"open", "busy", "action", "shown", "ack", "token", "typedFor",
                    "wizard", "diagnosed"}
    /\ ui.open => ui.action \in Requests
    /\ ui.token # NoToken => ui.typedFor = ui.action
    /\ \A r \in flight : r.op = "apply" =>
          r.of \in Requests /\ (r.token # NoToken => r.typedFor = r.of)

\* Neither the dialog's action nor its token changes, and no action is sent.
RecoveryKeeps ==
    /\ DOMAIN ui' = DOMAIN ui
    /\ ui'.open => ui.open
    /\ ui'.action = ui.action /\ ui'.token = ui.token /\ ui'.typedFor = ui.typedFor
    /\ \A r \in flight' : r.op = "apply" => r \in flight

LEMMA RecoveryKept == RecoveryInv /\ RecoveryKeeps => RecoveryInv'
BY DEF RecoveryInv, RecoveryKeeps

\* A dialog opens clean, whatever it was about before.
LEMMA OpensClean ==
    ASSUME RecoveryInv, NEW q \in Requests, R!OpensOn(q)
    PROVE  RecoveryInv'
<1>1. flight' = flight \cup {[op |-> "preflight", of |-> q]}
  BY DEF R!OpensOn, R!Queries, R!Sends
<1>2. [op |-> "preflight", of |-> q].op # "apply"
  OBVIOUS
<1>3. /\ DOMAIN ui' = DOMAIN ui
      /\ ui'.action = q /\ ui'.token = NoToken
  BY DEF R!OpensOn, RecoveryInv
<1> QED
  BY <1>1, <1>2, <1>3 DEF RecoveryInv

LEMMA RecoveryStep ==
    ASSUME RecoveryInv, R!Next
    PROVE  RecoveryInv'
<1>1. CASE R!Acknowledge \/ R!Cancel \/ R!CloseWizard \/ R!ClusterMoves \/ R!PauseChanges
  <2>1. RecoveryKeeps
    BY <1>1 DEF R!Acknowledge, R!Cancel, R!CloseWizard, R!ClusterMoves, R!PauseChanges,
                RecoveryKeeps, RecoveryInv
  <2> QED
    BY <2>1, RecoveryKept
<1>2. ASSUME NEW q \in Requests, R!OpenAssessment(q) \/ R!Review(q) PROVE RecoveryInv'
  BY <1>2, OpensClean DEF R!OpenAssessment, R!Review
<1>3. ASSUME NEW w \in Wizards, R!OpenWizard(w) PROVE RecoveryInv'
  <2> SUFFICES \A r \in flight' : r.op = "apply" => r \in flight
    BY <1>3, RecoveryKept DEF R!OpenWizard, RecoveryKeeps, RecoveryInv
  <2>1. CASE w \notin Diagnosing
    BY <1>3, <2>1 DEF R!OpenWizard
  <2>2. CASE w \in Diagnosing
    <3>1. R!Posts([op |-> "diagnose", of |-> w, n |-> 0])
      BY <1>3, <2>2 DEF R!OpenWizard
    <3>2. PICK i \in 1..MaxFlight :
            flight' = flight \cup {[op |-> "diagnose", of |-> w, n |-> i]}
      BY <3>1 DEF R!Posts, R!Sends
    <3> QED
      BY <3>2
  <2> QED
    BY <2>1, <2>2
<1>4. ASSUME NEW t \in R!Tokens, R!TypeToken(t) PROVE RecoveryInv'
  BY <1>4 DEF R!TypeToken, RecoveryInv
<1>5. CASE R!Apply
  <2>1. ui.open /\ ui' = [ui EXCEPT !.busy = TRUE]
    BY <1>5 DEF R!Apply, R!CanApply
  <2> DEFINE token == IF R!NeedsConfirm THEN ui.token ELSE NoToken
             sent(i) == [op |-> "apply", of |-> ui.action, n |-> i, fp |-> ui.shown.fp,
                         ack |-> R!NeedsConfirm /\ ui.ack, token |-> token,
                         typedFor |-> ui.typedFor]
  <2>2. PICK i \in 1..MaxFlight : flight' = flight \cup {sent(i)}
    BY <1>5 DEF R!Apply, R!Posts, R!Sends
  <2>3. /\ sent(i).of = ui.action /\ sent(i).token = token
        /\ sent(i).typedFor = ui.typedFor
    OBVIOUS
  <2>4. token # NoToken => ui.typedFor = ui.action
    BY DEF RecoveryInv
  <2> HIDE DEF sent, token
  <2> QED
    BY <2>1, <2>2, <2>3, <2>4 DEF RecoveryInv
<1>6. ASSUME NEW r \in flight,
             \/ R!PreflightAnswered(r) \/ R!DiagnoseAnswered(r) \/ R!RefreshAnswered(r)
             \/ R!ApplyLost(r)
      PROVE  RecoveryInv'
  <2>1. RecoveryKeeps
    BY <1>6 DEF R!PreflightAnswered, R!DiagnoseAnswered, R!RefreshAnswered, R!ApplyLost,
                R!Answered, RecoveryKeeps, RecoveryInv
  <2> QED
    BY <2>1, RecoveryKept
<1>7. ASSUME NEW r \in flight, R!ApplyStale(r) PROVE RecoveryInv'
  <2>1. [op |-> "preflight", of |-> ui.action].op # "apply"
    OBVIOUS
  <2> QED
    BY <1>7, <2>1 DEF R!ApplyStale, RecoveryInv
<1>8. ASSUME NEW r \in flight, R!ApplyDone(r) PROVE RecoveryInv'
  <2>1. R!Refresh(r.of).op # "apply"
    BY DEF R!Refresh
  <2>2. RecoveryKeeps
    BY <1>8, <2>1 DEF R!ApplyDone, RecoveryKeeps, RecoveryInv
  <2> QED
    BY <2>2, RecoveryKept
<1> QED
  BY <1>1, <1>2, <1>3, <1>4, <1>5, <1>6, <1>7, <1>8 DEF R!Next

LEMMA RecoveryStart == R!Init => RecoveryInv
BY DEF R!Init, RecoveryInv

\* What runs was confirmed, by a token that stands for something.
LEMMA RecoveryMeans == RecoveryInv => R!ConsentKept
<1> SUFFICES ASSUME RecoveryInv, NEW r \in flight, R!Runs(r), R!Dangerous(r.of)
             PROVE  r.typedFor = r.of /\ r.fp = R!Fingerprint(r.of)
  BY DEF R!ConsentKept
<1>1. r.op = "apply" /\ ~R!Stale(r) /\ ~R!Unconfirmed(r)
  BY DEF R!Runs, R!Allowed
<1>2. r.token = Token[r.of] /\ r.fp = R!Fingerprint(r.of)
  BY <1>1 DEF R!Stale, R!Unconfirmed
<1>3. RiskyIn[r.of] # {}
  BY DEF R!Dangerous
<1> QED
  BY <1>1, <1>2, <1>3, PagesAssumption DEF RecoveryInv
----------------------------------------------------------------------------
(* The cluster and failover pages. *)

\* One action under pending; what is on its way was sent off a valid form.
ClusterInv ==
    /\ DOMAIN ui = {"tab", "data", "pending", "paused", "ttl", "expel", "typed", "mode",
                    "settings", "pick", "knobs", "closing"}
    /\ ui.pending \in BOOLEAN
    /\ ui.knobs \in [C!Knobs -> {"empty", "good", "bad"}]
    /\ C!PendingHonest
    /\ C!SentIsValid

\* No action begins or ends.
ClusterKeeps ==
    /\ DOMAIN ui' = DOMAIN ui
    /\ ui'.pending = ui.pending
    /\ ui'.knobs \in [C!Knobs -> {"empty", "good", "bad"}]
    /\ \A r \in flight' \ flight : r.op \notin C!Actions
    /\ \A r \in flight \ flight' : r.op \notin C!Actions

LEMMA ClusterKept == ClusterInv /\ ClusterKeeps => ClusterInv'
<1> SUFFICES ASSUME ClusterInv, ClusterKeeps PROVE ClusterInv'
  OBVIOUS
<1>1. {r \in flight' : r.op \in C!Actions} = {r \in flight : r.op \in C!Actions}
  BY DEF ClusterKeeps
<1>2. C!PendingHonest'
  BY <1>1 DEF ClusterInv, ClusterKeeps, C!PendingHonest, C!Calling, C!Actions
<1>3. {r \in flight' : r.op = "set"} = {r \in flight : r.op = "set"}
  BY DEF ClusterKeeps, C!Actions
<1>4. C!SentIsValid'
  BY <1>3 DEF ClusterInv, C!SentIsValid, C!InFlight
<1> QED
  BY <1>2, <1>4 DEF ClusterInv, ClusterKeeps

LEMMA QueriesAreNoActions ==
    /\ C!SnapshotQuery.op \notin C!Actions
    /\ C!PauseQuery.op \notin C!Actions
    /\ C!FailoverQuery.op \notin C!Actions
    /\ \A tab : C!PageQuery(tab).op \notin C!Actions
BY DEF C!SnapshotQuery, C!PauseQuery, C!FailoverQuery, C!PageQuery, C!Actions

LEMMA EmptyKnobs == C!Empty \in [C!Knobs -> {"empty", "good", "bad"}]
BY DEF C!Empty

\* An action that begins finds none under way.
LEMMA ClusterCalls ==
    ASSUME ClusterInv, NEW op \in C!Actions \ {"set"}, NEW arg, NEW on,
           C!Calls(C!Call(op, arg, on))
    PROVE  ClusterInv'
<1>1. PICK i \in 1..MaxCalls : flight' = flight \cup {[op |-> op, arg |-> arg, on |-> on, n |-> i]}
  BY DEF C!Calls, C!Call, C!Posts, C!Sends
<1> DEFINE q == [op |-> op, arg |-> arg, on |-> on, n |-> i]
<1>2. q.op = op
  OBVIOUS
<1>3. ~ui.pending /\ ui' = [ui EXCEPT !.pending = TRUE]
  BY DEF C!Calls
<1>4. \A r \in flight : r.op \notin C!Actions
  BY <1>3 DEF ClusterInv, C!PendingHonest, C!Calling
<1> HIDE DEF q
<1>5. {r \in flight' : r.op \in C!Actions} = {q}
  BY <1>1, <1>2, <1>4 DEF q
<1>6. {r \in flight' : r.op = "set"} = {}
  BY <1>5, <1>2 DEF C!Actions
<1>7. C!PendingHonest'
  BY <1>3, <1>5 DEF ClusterInv, C!PendingHonest, C!Calling, C!Actions
<1> QED
  BY <1>3, <1>6, <1>7 DEF ClusterInv, C!SentIsValid, C!InFlight

\* So do the settings, which go out as the form shows them.
LEMMA ClusterSubmits ==
    ASSUME ClusterInv, NEW apply \in BOOLEAN, C!Submit(apply)
    PROVE  ClusterInv'
<1> DEFINE params == {<<k, ui.knobs[k]>> : k \in C!Params}
           q(i) == [op |-> "set", arg |-> ui.pick, on |-> apply, n |-> i, params |-> params]
<1>1. PICK i \in 1..MaxCalls : flight' = flight \cup {q(i)}
  <2>1. C!Posts([op |-> "set", arg |-> ui.pick, on |-> apply, n |-> 0, params |-> params])
    BY DEF C!Submit, C!Calls
  <2> HIDE DEF params
  <2> QED
    BY <2>1 DEF C!Posts, C!Sends
<1>2. q(i).op = "set" /\ q(i).arg = ui.pick /\ q(i).params = params
  OBVIOUS
<1>3. ~ui.pending /\ ui' = [ui EXCEPT !.pending = TRUE] /\ C!Valid
  BY DEF C!Submit, C!Calls
<1>4. \A r \in flight : r.op \notin C!Actions
  BY <1>3 DEF ClusterInv, C!PendingHonest, C!Calling
<1>5. \A p \in params : /\ p[2] = "good"
                        /\ p[1] = "election" => ui.pick = "election"
                        /\ p[1] = "lease" => ui.pick = "supervised"
  <2> SUFFICES ASSUME NEW k \in C!Params
               PROVE  /\ ui.knobs[k] = "good"
                      /\ k = "election" => ui.pick = "election"
                      /\ k = "lease" => ui.pick = "supervised"
    OBVIOUS
  <2>1. k \in C!Knobs /\ C!OnForm(k) /\ ui.knobs[k] # "empty"
    BY DEF C!Params
  <2>2. ui.knobs[k] # "bad"
    BY <1>3, <2>1 DEF C!Valid
  <2> QED
    BY <2>1, <2>2 DEF C!OnForm, ClusterInv
<1> HIDE DEF params, q
<1>6. {r \in flight' : r.op \in C!Actions} = {q(i)}
  BY <1>1, <1>2, <1>4 DEF C!Actions
<1>7. {r \in flight' : r.op = "set"} = {q(i)}
  BY <1>2, <1>6 DEF C!Actions
<1>8. C!PendingHonest'
  BY <1>3, <1>6 DEF ClusterInv, C!PendingHonest, C!Calling, C!Actions
<1>9. C!SentIsValid'
  BY <1>2, <1>5, <1>7 DEF C!SentIsValid, C!InFlight
<1> QED
  BY <1>3, <1>8, <1>9 DEF ClusterInv

LEMMA ClusterStep ==
    ASSUME ClusterInv, C!Next
    PROVE  ClusterInv'
<1>1. CASE \/ C!OpenPause \/ C!CancelPause \/ C!TypeAlias \/ C!CloseExpel
           \/ C!PauseExpires \/ \E i \in Instances : C!OpenExpel(i)
  <2>1. ClusterKeeps
    BY <1>1 DEF C!OpenPause, C!CancelPause, C!TypeAlias, C!CloseExpel, C!PauseExpires,
                C!OpenExpel, ClusterKeeps, ClusterInv
  <2> QED
    BY <2>1, ClusterKept
<1>2. CASE C!OpenSettings \/ C!CancelSettings \/ C!CloseTimer \/ \E m \in Modes : C!Pick(m)
  <2>1. ClusterKeeps
    BY <1>2, EmptyKnobs DEF C!OpenSettings, C!CancelSettings, C!CloseTimer, C!Closed,
                            C!Pick, ClusterKeeps, ClusterInv
  <2> QED
    BY <2>1, ClusterKept
<1>3. ASSUME NEW k \in C!Knobs, NEW worth \in {"empty", "good", "bad"}, C!Fill(k, worth)
      PROVE  ClusterInv'
  <2>1. [ui.knobs EXCEPT ![k] = worth] \in [C!Knobs -> {"empty", "good", "bad"}]
    BY DEF ClusterInv
  <2>2. ClusterKeeps
    BY <1>3, <2>1 DEF C!Fill, ClusterKeeps, ClusterInv
  <2> QED
    BY <2>2, ClusterKept
<1>4. CASE C!FeedFrame \/ \E tab \in {"cluster", "failover"} : C!Visit(tab)
  <2>1. \A r \in flight' \ flight : r.op \notin C!Actions
    BY <1>4, QueriesAreNoActions DEF C!FeedFrame, C!Visit, C!Sends
  <2>2. \A r \in flight \ flight' : r.op \notin C!Actions
    BY <1>4, QueriesAreNoActions DEF C!FeedFrame, C!Visit, C!Sends
  <2>3. DOMAIN ui' = DOMAIN ui /\ ui'.pending = ui.pending /\ ui'.knobs \in {ui.knobs, C!Empty}
    <3>1. CASE C!FeedFrame
      BY <3>1 DEF C!FeedFrame, ClusterInv
    <3>2. ASSUME NEW tab \in {"cluster", "failover"}, C!Visit(tab)
          PROVE  DOMAIN ui' = DOMAIN ui /\ ui'.pending = ui.pending /\ ui'.knobs = C!Empty
      BY <3>2 DEF C!Visit, C!Mounted, ClusterInv
    <3> QED
      BY <1>4, <3>1, <3>2
  <2> QED
    BY <2>1, <2>2, <2>3, EmptyKnobs, ClusterKept DEF ClusterKeeps, ClusterInv
<1>5. CASE \/ C!DoPause \/ C!DoResume \/ C!ConfirmExpel
           \/ \E i \in Instances : C!DoPromote(i) \/ C!DoToggleEnabled(i)
  BY <1>5, ClusterCalls DEF C!DoPause, C!DoResume, C!ConfirmExpel, C!DoPromote,
                            C!DoToggleEnabled, C!Actions
<1>6. CASE \E apply \in BOOLEAN : C!Submit(apply)
  BY <1>6, ClusterSubmits
<1>7. ASSUME NEW r \in flight,
             C!SnapshotAnswered(r) \/ C!PauseStatusAnswered(r) \/ C!FailoverAnswered(r)
      PROVE  ClusterInv'
  <2>1. ClusterKeeps
    BY <1>7, QueriesAreNoActions DEF C!SnapshotAnswered, C!PauseStatusAnswered,
       C!FailoverAnswered, C!Answered, ClusterKeeps, ClusterInv
  <2> QED
    BY <2>1, ClusterKept
<1>8. ASSUME NEW r \in flight, C!CallAnswered(r) PROVE ClusterInv'
  <2>1. /\ DOMAIN ui' = DOMAIN ui /\ ui'.pending = FALSE /\ ui'.knobs = ui.knobs
        /\ r.op \in C!Actions
    BY <1>8 DEF C!CallAnswered, ClusterInv
  <2>2. flight' \subseteq (flight \ {r}) \cup {C!FailoverQuery, C!PauseQuery}
    BY <1>8 DEF C!CallAnswered, C!Sends
  <2>3. \A q \in flight' : q.op \notin C!Actions
    BY <2>1, <2>2, QueriesAreNoActions DEF ClusterInv, C!PendingHonest, C!Calling
  <2>4. C!PendingHonest' /\ C!SentIsValid'
    BY <2>1, <2>3 DEF C!PendingHonest, C!Calling, C!SentIsValid, C!InFlight, C!Actions
  <2> QED
    BY <2>1, <2>4 DEF ClusterInv
<1> QED
  BY <1>1, <1>2, <1>3, <1>4, <1>5, <1>6, <1>7, <1>8 DEF C!Next

LEMMA ClusterStart == C!Init => ClusterInv
<1> SUFFICES ASSUME C!Init PROVE ClusterInv
  OBVIOUS
<1>1. \A r \in flight : r.op \notin C!Actions
  BY QueriesAreNoActions DEF C!Init
<1>2. /\ DOMAIN ui = {"tab", "data", "pending", "paused", "ttl", "expel", "typed", "mode",
                      "settings", "pick", "knobs", "closing"}
      /\ ui.pending = FALSE /\ ui.knobs = C!Empty
  BY DEF C!Init, C!Mounted
<1> QED
  BY <1>1, <1>2, EmptyKnobs DEF ClusterInv, C!PendingHonest, C!Calling, C!SentIsValid,
                                C!InFlight, C!Actions
----------------------------------------------------------------------------
(* The panels of the data explorer. *)

\* Every row has its own result, a row that spins its request, and a drop its dialog.
PanelsInv ==
    /\ DOMAIN ui = {"space", "used", "statsOpen", "stats", "statsLoading", "seq", "menu",
                    "menuShown", "busy", "results", "statDialog"}
    /\ DOMAIN ui.seq = {"open", "info", "loading", "dialog", "pending", "filled", "typed"}
    /\ DOMAIN ui.results = Indexes
    /\ P!ResultUnderItsIndex
    /\ \A r \in flight : r.op = "drop" =>
          /\ ui.seq.dialog = "drop" /\ "drop" \in ui.seq.pending
          /\ r.typed = r.of
    /\ \A r, s \in flight : r.op = "drop" /\ s.op = "drop" => r = s

\* The rows are as they were, and no request about one is answered.
RowsKept ==
    /\ DOMAIN ui' = DOMAIN ui
    /\ ui'.results = ui.results /\ ui'.busy = ui.busy
    /\ \A r \in flight \ flight' : r.op # "index"

\* The sequence's dialog is as it was, no drop is sent, and one under way is not
\* forgotten.
DialogKept ==
    /\ DOMAIN ui'.seq = DOMAIN ui.seq
    /\ ui'.seq.dialog = ui.seq.dialog
    /\ "drop" \in ui.seq.pending => "drop" \in ui'.seq.pending
    /\ \A r \in flight' \ flight : r.op # "drop"

\* No drop is under way.
NoDrop ==
    /\ DOMAIN ui'.seq = {"open", "info", "loading", "dialog", "pending", "filled", "typed"}
    /\ \A r \in flight' : r.op # "drop"

LEMMA RowsHold ==
    ASSUME PanelsInv, RowsKept
    PROVE  DOMAIN ui'.results = Indexes /\ P!ResultUnderItsIndex'
BY DEF PanelsInv, RowsKept, P!ResultUnderItsIndex, P!InFlight

LEMMA PanelsKept ==
    ASSUME PanelsInv, RowsKept, DialogKept \/ NoDrop
    PROVE  PanelsInv'
BY RowsHold DEF PanelsInv, RowsKept, DialogKept, NoDrop

\* What the panels ask for is no drop.
LEMMA PanelQueries ==
    ASSUME NEW u
    PROVE  /\ P!StatsQuery(u).op \notin {"drop", "index"}
           /\ P!SequenceQuery(u).op \notin {"drop", "index"}
BY DEF P!StatsQuery, P!SequenceQuery

LEMMA PanelsStep ==
    ASSUME PanelsInv, P!Next
    PROVE  PanelsInv'
<1>1. ASSUME NEW t \in Tables, P!ShowSpace(t) PROVE PanelsInv'
  <2> DEFINE s == [ui EXCEPT !.space = t]
             u == IF P!Named(s) = NoTable THEN [s EXCEPT !.seq = P!FreshSequence] ELSE s
             kept == {r \in flight : r.op \in {"stats", "index"} \/ P!Named(u) # NoTable}
  <2>1. ui' = [u EXCEPT !.statsLoading = P!StatsDue(u) \/ @,
                        !.seq.loading = P!SequenceDue(u) \/ @]
        /\ flight' = kept \cup {q \in {P!StatsQuery(u)} : P!StatsDue(u)}
                          \cup {q \in {P!SequenceQuery(u)} : P!SequenceDue(u)}
    BY <1>1 DEF P!ShowSpace, P!Sends
  <2>2. /\ DOMAIN u = DOMAIN ui /\ u.results = ui.results /\ u.busy = ui.busy
        /\ u.seq \in {ui.seq, P!FreshSequence}
        /\ P!Named(u) # NoTable => u.seq = ui.seq
    BY DEF PanelsInv, P!Named
  <2>3. DOMAIN P!FreshSequence = DOMAIN ui.seq
    BY DEF P!FreshSequence, PanelsInv
  <2> HIDE DEF u
  <2>4. /\ DOMAIN ui' = DOMAIN ui /\ ui'.results = ui.results /\ ui'.busy = ui.busy
        /\ DOMAIN ui'.seq = DOMAIN ui.seq
        /\ ui'.seq.dialog = u.seq.dialog /\ ui'.seq.pending = u.seq.pending
    BY <2>1, <2>2, <2>3 DEF PanelsInv
  <2>5. \A r \in flight' \ flight : r.op \notin {"drop", "index"}
    BY <2>1, PanelQueries
  <2>6. \A r \in flight \ flight' : r.op # "index"
    BY <2>1
  <2>7. CASE P!Named(u) = NoTable
    <3>1. \A r \in flight' : r.op # "drop"
      BY <2>1, <2>7, PanelQueries
    <3> QED
      BY <2>4, <2>6, <3>1, PanelsKept DEF RowsKept, NoDrop, PanelsInv
  <2>8. CASE P!Named(u) # NoTable
    BY <2>2, <2>4, <2>5, <2>6, <2>8, PanelsKept DEF RowsKept, DialogKept
  <2> QED
    BY <2>7, <2>8
<1>2. CASE P!FoldStats
  <2> DEFINE u == [ui EXCEPT !.statsOpen = ~ui.statsOpen]
  <2>1. ui' = [u EXCEPT !.statsLoading = P!StatsDue(u) \/ u.statsLoading]
        /\ flight' = flight \cup {q \in {P!StatsQuery(u)} : P!StatsDue(u)}
    BY <1>2 DEF P!FoldStats, P!Sends
  <2>2. RowsKept /\ DialogKept
    BY <2>1, PanelQueries DEF RowsKept, DialogKept, PanelsInv
  <2> QED
    BY <2>2, PanelsKept
<1>3. CASE P!FoldSequence
  <2> DEFINE u == [ui EXCEPT !.seq = [ui.seq EXCEPT !.open = ~ui.seq.open]]
             due == P!SequenceDue(u) \/ u.seq.loading
  <2>1. ui' = [u EXCEPT !.seq = [u.seq EXCEPT !.loading = due]]
        /\ flight' = flight \cup {q \in {P!SequenceQuery(u)} : P!SequenceDue(u)}
    BY <1>3 DEF P!FoldSequence, P!Sends
  <2>2. \A r \in flight' \ flight : r.op # "drop"
    BY <2>1, PanelQueries
  <2> HIDE DEF due
  <2>3. RowsKept /\ DialogKept
    BY <2>1, <2>2 DEF RowsKept, DialogKept, PanelsInv
  <2> QED
    BY <2>3, PanelsKept
<1>4. CASE P!ReloadSequence
  <2>1. flight' = flight \cup {P!SequenceQuery(ui)}
        /\ ui' = [ui EXCEPT !.seq.loading = TRUE]
    BY <1>4 DEF P!ReloadSequence, P!Queries, P!Sends
  <2>2. RowsKept /\ DialogKept
    BY <2>1, PanelQueries DEF RowsKept, DialogKept, PanelsInv
  <2> QED
    BY <2>2, PanelsKept
<1>5. CASE P!CloseStat \/ \E i \in Indexes : P!OpenMenu(i)
  <2>1. RowsKept /\ DialogKept
    BY <1>5 DEF P!CloseStat, P!OpenMenu, RowsKept, DialogKept, PanelsInv
  <2> QED
    BY <2>1, PanelsKept
<1>6. CASE \E d \in {"set", "alter", "drop"} : P!OpenDialog(d)
  <2>1. \A r \in flight' : r.op # "drop"
    BY <1>6 DEF P!OpenDialog, P!Buttons, P!Modal, PanelsInv
  <2>2. RowsKept /\ NoDrop
    BY <1>6, <2>1 DEF P!OpenDialog, RowsKept, NoDrop, PanelsInv
  <2> QED
    BY <2>2, PanelsKept
<1>7. CASE \E name \in P!SequenceNames : P!TypeSequence(name)
  <2>1. RowsKept /\ DialogKept
    BY <1>7 DEF P!TypeSequence, RowsKept, DialogKept, PanelsInv
  <2> QED
    BY <2>1, PanelsKept
<1>8. CASE P!CloseDialog
  <2>1. \A r \in flight' : r.op # "drop"
    BY <1>8 DEF P!CloseDialog, P!Waits, PanelsInv
  <2>2. RowsKept /\ NoDrop
    BY <1>8, <2>1 DEF P!CloseDialog, RowsKept, NoDrop, PanelsInv
  <2> QED
    BY <2>2, PanelsKept
<1>9. CASE P!Confirm
  <2> DEFINE q(i) == [op |-> ui.seq.dialog, of |-> ui.seq.info, typed |-> ui.seq.typed,
                      filled |-> ui.seq.filled, n |-> i]
  <2>1. PICK i \in 1..MaxFlight : flight' = flight \cup {q(i)}
    BY <1>9 DEF P!Confirm, P!Posts, P!Sends
  <2>2. q(i).op = ui.seq.dialog /\ q(i).typed = ui.seq.typed /\ q(i).of = ui.seq.info
    OBVIOUS
  <2>3. ui' = [ui EXCEPT !.seq.pending = ui.seq.pending \cup {ui.seq.dialog}]
    BY <1>9 DEF P!Confirm, PanelsInv
  <2>4. RowsKept
    BY <2>1, <2>3 DEF RowsKept, PanelsInv
  <2>5. CASE ui.seq.dialog # "drop"
    <3>1. DialogKept
      BY <2>1, <2>2, <2>3, <2>5 DEF DialogKept, PanelsInv
    <3> QED
      BY <2>4, <3>1, PanelsKept
  <2>6. CASE ui.seq.dialog = "drop"
    <3>1. ui.seq.typed = ui.seq.info /\ "drop" \notin ui.seq.pending
      BY <1>9, <2>6 DEF P!Confirm
    <3>2. \A r \in flight : r.op # "drop"
      BY <3>1 DEF PanelsInv
    <3> HIDE DEF q
    <3>3. \A r \in flight' : r.op = "drop" => r = q(i)
      BY <2>1, <3>2
    <3>4. /\ DOMAIN ui' = DOMAIN ui /\ DOMAIN ui'.seq = DOMAIN ui.seq
          /\ ui'.seq.dialog = "drop" /\ "drop" \in ui'.seq.pending
      BY <2>3, <2>6 DEF PanelsInv
    <3> QED
      BY <2>2, <2>4, <3>1, <3>3, <3>4, RowsHold DEF PanelsInv
  <2> QED
    BY <2>5, <2>6
<1>10. CASE P!ResetSequence
  <2>1. PICK i \in 1..MaxFlight :
          flight' = flight \cup {[op |-> "reset", of |-> ui.seq.info, typed |-> NoTable,
                                  filled |-> NoTable, n |-> i]}
    BY <1>10 DEF P!ResetSequence, P!Posts, P!Sends
  <2>2. RowsKept /\ DialogKept
    BY <1>10, <2>1 DEF P!ResetSequence, RowsKept, DialogKept, PanelsInv
  <2> QED
    BY <2>2, PanelsKept
<1>11. ASSUME NEW a \in P!Actions, P!RunAction(a) PROVE PanelsInv'
  <2> DEFINE q == [op |-> "index", of |-> ui.space, index |-> ui.menu, action |-> a]
  <2>1. flight' = flight \cup {q} /\ ui' = [ui EXCEPT !.busy = ui.menu, !.menuShown = FALSE]
    BY <1>11 DEF P!RunAction, P!Queries, P!Sends
  <2>2. q.op = "index" /\ q.index = ui.menu
    OBVIOUS
  <2> HIDE DEF q
  <2> QED
    BY <2>1, <2>2 DEF PanelsInv, P!ResultUnderItsIndex, P!InFlight
<1>12. ASSUME NEW r \in flight, P!StatsAnswered(r) \/ P!SequenceAnswered(r) PROVE PanelsInv'
  <2>1. /\ r.op \in {"stats", "sequence"} /\ flight' = flight \ {r}
        /\ \/ \E shown : ui' = [ui EXCEPT !.statsLoading = FALSE, !.stats = shown]
           \/ \E shown : ui' = [ui EXCEPT !.seq = [ui.seq EXCEPT !.loading = FALSE,
                                                                 !.info = shown]]
    BY <1>12 DEF P!StatsAnswered, P!SequenceAnswered, P!Answered, PanelsInv
  <2>2. /\ DOMAIN ui' = DOMAIN ui /\ ui'.results = ui.results /\ ui'.busy = ui.busy
        /\ DOMAIN ui'.seq = DOMAIN ui.seq
        /\ ui'.seq.dialog = ui.seq.dialog /\ ui'.seq.pending = ui.seq.pending
    BY <2>1 DEF PanelsInv
  <2>3. RowsKept /\ DialogKept
    BY <2>1, <2>2 DEF RowsKept, DialogKept
  <2> QED
    BY <2>3, PanelsKept
<1>13. ASSUME NEW r \in flight, P!MutationAnswered(r) PROVE PanelsInv'
  <2>1. /\ r.op \in {"set", "alter", "drop", "reset"}
        /\ flight' \subseteq (flight \ {r}) \cup {P!SequenceQuery(ui)}
        /\ flight \ {r} \subseteq flight'
    BY <1>13 DEF P!MutationAnswered, P!Answered, P!Sends
  <2>2. /\ DOMAIN ui' = DOMAIN ui /\ ui'.results = ui.results /\ ui'.busy = ui.busy
        /\ DOMAIN ui'.seq = DOMAIN ui.seq
        /\ ui'.seq.pending = ui.seq.pending \ {r.op}
        /\ ui.seq.dialog # r.op => ui'.seq.dialog = ui.seq.dialog
    <3> DEFINE u == [ui EXCEPT !.seq.pending = @ \ {r.op}]
               shut == [u EXCEPT !.seq.dialog = "none", !.seq.typed = NoTable,
                                 !.seq.filled = NoTable]
               v == IF ui.seq.dialog = r.op THEN shut ELSE u
               asking == [v EXCEPT !.seq.loading = TRUE,
                                   !.seq.info = IF r.op = "drop" THEN NoTable ELSE @]
               Alike(w) == /\ DOMAIN w = DOMAIN ui
                           /\ w.results = ui.results /\ w.busy = ui.busy
                           /\ DOMAIN w.seq = DOMAIN ui.seq
                           /\ w.seq.pending = ui.seq.pending \ {r.op}
                           /\ ui.seq.dialog # r.op => w.seq.dialog = ui.seq.dialog
    <3>1. ui' = u \/ ui' = v \/ ui' = asking
      BY <1>13 DEF P!MutationAnswered
    <3>2. Alike(u)
      BY DEF PanelsInv
    <3>3. ui.seq.dialog = r.op => Alike(shut)
      <4> HIDE DEF u
      <4> QED
        BY <3>2 DEF PanelsInv
    <3>4. Alike(v)
      BY <3>2, <3>3
    <3>5. Alike(asking)
      <4> HIDE DEF v
      <4> QED
        BY <3>4 DEF PanelsInv
    <3> HIDE DEF u, v, asking
    <3> QED
      BY <3>1, <3>2, <3>4, <3>5
  <2>3. RowsKept
    BY <2>1, <2>2 DEF RowsKept
  <2>4. CASE r.op = "drop"
    <3>1. \A q \in flight' : q.op # "drop"
      BY <2>1, <2>4, PanelQueries DEF PanelsInv
    <3> QED
      BY <2>2, <2>3, <3>1, PanelsKept DEF NoDrop, PanelsInv
  <2>5. CASE r.op # "drop" /\ ui.seq.dialog = r.op
    <3>1. \A q \in flight' : q.op # "drop"
      BY <2>1, <2>5, PanelQueries DEF PanelsInv
    <3> QED
      BY <2>2, <2>3, <3>1, PanelsKept DEF NoDrop, PanelsInv
  <2>6. CASE r.op # "drop" /\ ui.seq.dialog # r.op
    <3>1. DialogKept
      BY <2>1, <2>2, <2>6, PanelQueries DEF DialogKept
    <3> QED
      BY <2>3, <3>1, PanelsKept
  <2> QED
    BY <2>4, <2>5, <2>6
<1>14. ASSUME NEW r \in flight, P!ActionAnswered(r) PROVE PanelsInv'
  <2> DEFINE result == [of |-> r.of, index |-> r.index, action |-> r.action]
             results == [ui.results EXCEPT ![r.index] = result]
  <2>1. /\ r.op = "index" /\ flight' = flight \ {r}
        /\ DOMAIN ui' = DOMAIN ui /\ ui'.busy = NoTable /\ ui'.seq = ui.seq
        /\ ui'.results \in {ui.results, results}
    BY <1>14 DEF P!ActionAnswered, P!Answered, P!Row, PanelsInv
  <2>2. DOMAIN results = Indexes
        /\ \A i \in Indexes : results[i].index \in {ui.results[i].index, i}
    BY DEF PanelsInv
  <2> HIDE DEF results
  <2> QED
    BY <2>1, <2>2 DEF PanelsInv, P!ResultUnderItsIndex
<1>15. ASSUME NEW i \in Indexes, P!ClearResult(i) PROVE PanelsInv'
  <2> DEFINE results == [ui.results EXCEPT ![i] = P!NoResult]
  <2>1. ui' = [ui EXCEPT !.results = results] /\ flight' = flight
    BY <1>15 DEF P!ClearResult
  <2>2. DOMAIN results = Indexes
        /\ \A j \in Indexes : results[j].index \in {ui.results[j].index, NoTable}
    BY DEF PanelsInv, P!NoResult
  <2> HIDE DEF results
  <2> QED
    BY <2>1, <2>2 DEF PanelsInv, P!ResultUnderItsIndex, P!InFlight
<1> QED
  BY <1>1, <1>2, <1>3, <1>4, <1>5, <1>6, <1>7, <1>8, <1>9, <1>10, <1>11, <1>12, <1>13,
     <1>14, <1>15 DEF P!Next

LEMMA PanelsStart == P!Init => PanelsInv
<1> SUFFICES ASSUME P!Init PROVE PanelsInv
  OBVIOUS
<1>1. /\ DOMAIN ui = {"space", "used", "statsOpen", "stats", "statsLoading", "seq", "menu",
                      "menuShown", "busy", "results", "statDialog"}
      /\ ui.seq = P!FreshSequence /\ ui.busy = NoTable
      /\ ui.results \in [Indexes -> {P!NoResult}]
  BY DEF P!Init
<1>2. flight = {}
  BY DEF P!Init
<1> QED
  BY <1>1, <1>2 DEF PanelsInv, P!FreshSequence, P!NoResult, P!ResultUnderItsIndex

LEMMA PanelsMeans == PanelsInv => P!ResultUnderItsIndex /\ P!DropAsTyped
BY DEF PanelsInv, P!DropAsTyped, P!InFlight
----------------------------------------------------------------------------
(* The data explorer. *)

PageRefs == {"listed", "loadingSpaces", "system", "selected", "shown", "loading", "stack",
             "after", "next", "form", "schema", "target", "typed", "pending", "reset",
             "await", "emptied"}

\* The pager of a page u: its stack leads back to the first page.
Rooted(u) ==
    /\ u.stack \in Seq(Nat) /\ u.after \in Nat /\ u.next \in Nat
    /\ (u.stack = <<>>) <=> (u.after = 0)
    /\ \A i \in 1..Len(u.stack) : u.stack[i] = 0 <=> i = 1

\* A checkbox that is ticked has been ticked since its dialog was opened.
Ticks == {[on |-> b, here |-> b] : b \in BOOLEAN}

\* Its truncations, f in flight: one at a time, as typed; nothing else waits meanwhile.
Truncating(u, f) ==
    /\ \A r \in f : "op" \in DOMAIN r
    /\ \A r \in f : r.op = "truncate" =>
          /\ u.pending /\ u.await = D!NoAwait
          /\ r.typed = r.of /\ r.reset \in Ticks
    /\ \A r, s \in f : r.op = "truncate" /\ s.op = "truncate" => r = s
    /\ u.await # D!NoAwait => u.pending
    /\ u.reset \in Ticks

Sound(u, f) == DOMAIN u = PageRefs /\ Rooted(u) /\ Truncating(u, f)

ExplorerInv == Sound(ui, flight)

\* A page like another, and requests among which no truncation is new.
Like(v, u) ==
    /\ DOMAIN v = DOMAIN u
    /\ v.stack = u.stack /\ v.after = u.after /\ v.next = u.next
    /\ v.pending = u.pending /\ v.await = u.await
    /\ v.target = u.target /\ v.reset = u.reset

NoneNew(g, f) == \A r \in g : "op" \in DOMAIN r /\ (r.op = "truncate" => r \in f)

LEMMA SoundLike ==
    ASSUME NEW u, NEW f, NEW v, NEW g, Sound(u, f), Like(v, u), NoneNew(g, f)
    PROVE  Sound(v, g)
BY DEF Sound, Rooted, Truncating, Like, NoneNew

LEMMA ExplorerLike ==
    ASSUME ExplorerInv, Like(ui', ui), NoneNew(flight', flight)
    PROVE  ExplorerInv'
BY SoundLike DEF ExplorerInv, Sound, Rooted, Truncating, D!NoAwait, PageRefs

LEMMA ExplorerSound == Sound(ui', flight') => ExplorerInv'
BY DEF ExplorerInv, Sound, Rooted, Truncating, D!NoAwait, PageRefs

LEMMA Refs == PageRefs = {"listed", "loadingSpaces", "system", "selected", "shown",
                          "loading", "stack", "after", "next", "form", "schema", "target",
                          "typed", "pending", "reset", "await", "emptied"}
BY DEF PageRefs

\* A rewound pager shows the first page.
LEMMA RewoundSound ==
    ASSUME NEW u, NEW f, Sound(u, f)
    PROVE  /\ Sound(D!Rewound(u), f)
           /\ D!Rewound(u).await = u.await /\ D!Rewound(u).pending = u.pending
           /\ \A s : Sound(D!On(u, s), f)
<1> DEFINE v == D!Rewound(u)
<1>1. /\ DOMAIN v = PageRefs /\ v.stack = <<>> /\ v.after = 0 /\ v.next = u.next
      /\ v.pending = u.pending /\ v.await = u.await
      /\ v.target = u.target /\ v.reset = u.reset
  BY Refs DEF D!Rewound, Sound
<1>2. Sound(v, f)
  <2>1. v.stack \in Seq(Nat) /\ Len(v.stack) = 0
    BY <1>1
  <2> HIDE DEF v
  <2>2. Rooted(v)
    BY <1>1, <2>1 DEF Sound, Rooted
  <2> QED
    BY <1>1, <2>2 DEF Sound, Truncating
<1>3. ASSUME NEW s PROVE Sound(D!On(u, s), f)
  <2>1. D!On(u, s) = [v EXCEPT !.selected = s]
    BY DEF D!On
  <2> HIDE DEF v
  <2>2. Like([v EXCEPT !.selected = s], v)
    BY <1>1, Refs DEF Like
  <2>3. NoneNew(f, f)
    BY DEF NoneNew, Sound, Truncating
  <2> QED
    BY <1>2, <2>1, <2>2, <2>3, SoundLike
<1> QED
  BY <1>1, <1>2, <1>3

\* A form that is gone leaves every request what it was.
LEMMA OrphanedNoneNew ==
    ASSUME NEW op \in {"write", "schema"}, NEW f, \A r \in f : "op" \in DOMAIN r
    PROVE  NoneNew(D!Orphaned(op, f), f)
<1> SUFFICES ASSUME NEW r \in f
             PROVE  LET q == IF r.op = op THEN [r EXCEPT !.heard = FALSE] ELSE r
                    IN  "op" \in DOMAIN q /\ (q.op = "truncate" => q \in f)
  BY DEF NoneNew, D!Orphaned
<1>1. CASE r.op = op
  <2>1. [r EXCEPT !.heard = FALSE].op = op
    BY <1>1
  <2> QED
    BY <1>1, <2>1
<1> QED
  BY <1>1

\* Loading the spaces or the tuples of a sound page leaves it sound.
LEMMA LoadSpacesSound ==
    ASSUME NEW u, NEW f, Sound(u, f), D!LoadSpaces(u, f)
    PROVE  ExplorerInv'
<1>1. ui' = [u EXCEPT !.loadingSpaces = TRUE]
      /\ flight' = D!Kept(u, f) \cup {D!SpacesQuery(u.system)}
  BY DEF D!LoadSpaces, D!Sends
<1>2. NoneNew(D!Kept(u, f), f)
  BY OrphanedNoneNew DEF D!Kept, NoneNew, Sound, Truncating
<1>3. D!SpacesQuery(u.system).op = "spaces" /\ "op" \in DOMAIN D!SpacesQuery(u.system)
  BY DEF D!SpacesQuery
<1>4. NoneNew(flight', f)
  BY <1>1, <1>2, <1>3 DEF NoneNew
<1>5. Like(ui', u)
  BY <1>1, Refs DEF Like, Sound
<1> QED
  BY <1>4, <1>5, SoundLike, ExplorerSound

LEMMA TuplesQueryOp ==
    ASSUME NEW u
    PROVE  D!TuplesQuery(u).op = "tuples" /\ "op" \in DOMAIN D!TuplesQuery(u)
BY DEF D!TuplesQuery

LEMMA LoadTuplesSound ==
    ASSUME NEW u, NEW f, Sound(u, f), D!LoadTuples(u, f)
    PROVE  ExplorerInv'
<1>1. /\ ui' \in {u, [u EXCEPT !.loading = TRUE]}
      /\ flight' \subseteq f \cup {D!TuplesQuery(u)}
  BY DEF D!LoadTuples, D!Sends
<1>2. NoneNew(flight', f)
  BY <1>1, TuplesQueryOp DEF NoneNew, Sound, Truncating
<1>3. Like(ui', u)
  BY <1>1, Refs DEF Like, Sound
<1> QED
  BY <1>2, <1>3, SoundLike, ExplorerSound

\* The truncation that waits is the only one, so its end leaves none.
LEMMA AwaitedIsAlone ==
    ASSUME NEW u, NEW f, Sound(u, f), u.await # D!NoAwait
    PROVE  u.pending /\ \A r \in f : r.op # "truncate"
BY DEF Sound, Truncating

LEMMA ResumedSound ==
    ASSUME NEW u, NEW f, NEW r, Sound(u, f), r.op \in {"spaces", "tuples"},
           D!Resumed(u, f, r)
    PROVE  ExplorerInv'
<1>1. CASE u.await # r
  <2>1. ui' = u /\ flight' = f
    BY <1>1 DEF D!Resumed, D!Sends
  <2> QED
    BY <2>1, ExplorerSound
<1>2. CASE u.await = r
  <2>1. r # D!NoAwait
    BY DEF D!NoAwait
  <2>2. u.pending /\ \A q \in f : q.op # "truncate"
    BY <1>2, <2>1, AwaitedIsAlone
  <2> DEFINE w == D!Rewound(u)
             v == [w EXCEPT !.await = D!TuplesQuery(w)]
             x == [u EXCEPT !.await = D!NoAwait, !.pending = FALSE, !.emptied = NoSpace]
  <2>3. CASE D!LoadTuples(v, f)
    <3>1. Sound(w, f) /\ w.pending
      BY <2>2, RewoundSound
    <3> HIDE DEF w
    <3>2. /\ DOMAIN v = PageRefs /\ v.pending = w.pending
          /\ v.stack = w.stack /\ v.after = w.after /\ v.next = w.next
          /\ v.target = w.target /\ v.reset = w.reset
      BY <3>1, Refs DEF Sound
    <3> HIDE DEF v
    <3>3. Sound(v, f)
      BY <2>2, <3>1, <3>2 DEF Sound, Rooted, Truncating
    <3> QED
      BY <2>3, <3>3, LoadTuplesSound
  <2>4. CASE ui' = x /\ flight' = f
    <3>1. /\ DOMAIN x = PageRefs /\ x.await = D!NoAwait
          /\ x.stack = u.stack /\ x.after = u.after /\ x.next = u.next
          /\ x.target = u.target /\ x.reset = u.reset
      BY Refs DEF Sound
    <3> HIDE DEF x
    <3>2. Sound(x, f)
      BY <2>2, <3>1 DEF Sound, Rooted, Truncating
    <3> QED
      BY <2>4, <3>2, ExplorerSound
  <2> QED
    BY <1>2, <2>3, <2>4 DEF D!Resumed, D!Sends
<1> QED
  BY <1>1, <1>2

\* The pager moves on, by a cursor, or back.
LEMMA NextPageRooted ==
    ASSUME NEW u, Rooted(u), u.next # 0,
           NEW v, v.stack = Append(u.stack, u.after), v.after = u.next, v.next = u.next
    PROVE  Rooted(v)
<1>1. v.stack \in Seq(Nat) /\ Len(v.stack) = Len(u.stack) + 1
  BY DEF Rooted
<1>2. \A i \in 1..Len(v.stack) : v.stack[i] = 0 <=> i = 1
  <2> SUFFICES ASSUME NEW i \in 1..Len(v.stack) PROVE v.stack[i] = 0 <=> i = 1
    OBVIOUS
  <2>1. CASE i \in 1..Len(u.stack)
    BY <2>1 DEF Rooted
  <2>2. CASE i = Len(u.stack) + 1
    <3>1. v.stack[i] = u.after
      BY <2>2 DEF Rooted
    <3>2. i = 1 <=> u.stack = <<>>
      BY <2>2 DEF Rooted
    <3> QED
      BY <3>1, <3>2 DEF Rooted
  <2> QED
    BY <1>1, <2>1, <2>2 DEF Rooted
<1> QED
  BY <1>1, <1>2 DEF Rooted

LEMMA PoppedStack ==
    ASSUME NEW stack \in Seq(Nat), stack # <<>>,
           \A i \in 1..Len(stack) : stack[i] = 0 <=> i = 1
    PROVE  LET top == stack[Len(stack)]
               rest == SubSeq(stack, 1, Len(stack) - 1)
           IN  /\ top \in Nat /\ rest \in Seq(Nat)
               /\ rest = <<>> <=> top = 0
               /\ \A i \in 1..Len(rest) : rest[i] = 0 <=> i = 1
<1> DEFINE rest == SubSeq(stack, 1, Len(stack) - 1)
<1>1. Len(stack) \in Nat /\ Len(stack) >= 1
  BY EmptySeq
<1>2. rest \in Seq(Nat) /\ Len(rest) = Len(stack) - 1
  <2> DEFINE n == Len(stack) - 1
  <2>1. n \in Nat /\ \A i \in 1..n : stack[i] \in Nat
    BY <1>1
  <2> HIDE DEF n
  <2>2. /\ SubSeq(stack, 1, n) \in Seq(Nat)
        /\ Len(SubSeq(stack, 1, n)) = IF 1 <= n THEN n - 1 + 1 ELSE 0
    BY <2>1, SubSeqProperties
  <2>3. Len(SubSeq(stack, 1, n)) = n
    BY <2>1, <2>2
  <2> QED
    BY <2>2, <2>3 DEF n
<1>3. \A i \in 1..Len(rest) : rest[i] = stack[i]
  BY <1>1, SubSeqProperties
<1>4. rest = <<>> <=> Len(stack) = 1
  <2>1. rest = <<>> => Len(rest) = 0
    BY EmptySeq
  <2>2. rest # <<>> => Len(rest) # 0
    BY <1>2, EmptySeq
  <2> HIDE DEF rest
  <2> QED
    BY <1>1, <1>2, <2>1, <2>2
<1>5. Len(stack) \in 1..Len(stack)
  BY <1>1
<1>6. stack[Len(stack)] \in Nat
  BY <1>5
<1>7. stack[Len(stack)] = 0 <=> Len(stack) = 1
  BY <1>5
<1>8. \A i \in 1..Len(rest) : rest[i] = 0 <=> i = 1
  <2> HIDE DEF rest
  <2> QED
    BY <1>1, <1>2, <1>3
<1> QED
  BY <1>2, <1>4, <1>6, <1>7, <1>8

LEMMA PrevPageRooted ==
    ASSUME NEW u, Rooted(u), u.stack # <<>>,
           NEW v, v.after = u.stack[Len(u.stack)], v.next = u.next,
           v.stack = SubSeq(u.stack, 1, Len(u.stack) - 1)
    PROVE  Rooted(v)
BY PoppedStack DEF Rooted

LEMMA ExplorerStep ==
    ASSUME ExplorerInv, D!Next
    PROVE  ExplorerInv'
<1>0. NoneNew(flight, flight) /\ Sound(ui, flight) /\ DOMAIN ui = PageRefs
  BY DEF NoneNew, ExplorerInv, Sound, Truncating
<1>1. ASSUME NEW s \in Spaces, D!SelectSpace(s) PROVE ExplorerInv'
  BY <1>0, <1>1, RewoundSound, LoadTuplesSound DEF D!SelectSpace
<1>2. CASE D!ToggleSystem
  <2> DEFINE u == [ui EXCEPT !.system = ~ui.system, !.selected = NoSpace]
  <2>1. Like(u, ui)
    BY <1>0, Refs DEF Like
  <2>2. D!LoadSpaces(u, flight)
    BY <1>2 DEF D!ToggleSystem
  <2> QED
    BY <1>0, <2>1, <2>2, SoundLike, LoadSpacesSound
<1>3. CASE D!Refilter \/ D!Reload
  BY <1>0, <1>3, RewoundSound, LoadTuplesSound DEF D!Refilter, D!Reload
<1>4. CASE D!NextPage
  <2> DEFINE u == [ui EXCEPT !.stack = Append(ui.stack, ui.after), !.after = ui.next]
  <2>1. D!LoadTuples(u, flight) /\ ui.next # 0
    BY <1>4 DEF D!NextPage
  <2>2. /\ DOMAIN u = PageRefs /\ u.stack = Append(ui.stack, ui.after)
        /\ u.after = ui.next /\ u.next = ui.next
        /\ u.pending = ui.pending /\ u.await = ui.await
        /\ u.target = ui.target /\ u.reset = ui.reset
    BY <1>0, Refs
  <2> HIDE DEF u
  <2>3. Rooted(u)
    BY <1>0, <2>1, <2>2, NextPageRooted DEF Sound
  <2>4. Sound(u, flight)
    BY <1>0, <2>2, <2>3 DEF Sound, Truncating
  <2> QED
    BY <2>1, <2>4, LoadTuplesSound
<1>5. CASE D!PrevPage
  <2> DEFINE u == [ui EXCEPT !.after = ui.stack[Len(ui.stack)],
                             !.stack = SubSeq(ui.stack, 1, Len(ui.stack) - 1)]
  <2>1. D!LoadTuples(u, flight) /\ ui.stack # <<>>
    BY <1>0, <1>5, Refs DEF D!PrevPage
  <2>2. /\ DOMAIN u = PageRefs
        /\ u.stack = SubSeq(ui.stack, 1, Len(ui.stack) - 1)
        /\ u.after = ui.stack[Len(ui.stack)] /\ u.next = ui.next
        /\ u.pending = ui.pending /\ u.await = ui.await
        /\ u.target = ui.target /\ u.reset = ui.reset
    BY <1>0, Refs
  <2> HIDE DEF u
  <2>3. Rooted(u)
    BY <1>0, <2>1, <2>2, PrevPageRooted DEF Sound
  <2>4. Sound(u, flight)
    BY <1>0, <2>2, <2>3 DEF Sound, Truncating
  <2> QED
    BY <2>1, <2>4, LoadTuplesSound
<1>6. CASE \/ \E mode \in {"create", "edit"} : D!OpenTuple(mode)
           \/ \E mode \in {"create", "alter"} : D!OpenSchema(mode)
           \/ \E s \in Spaces : D!TypeName(s)
  <2>1. flight' = flight /\ Like(ui', ui)
    BY <1>0, <1>6, Refs DEF D!OpenTuple, D!OpenSchema, D!TypeName, Like
  <2> QED
    BY <1>0, <2>1, ExplorerLike
<1>7. CASE D!CloseTuple \/ D!CloseSchema
  <2>1. Like(ui', ui)
    BY <1>0, <1>7, Refs DEF D!CloseTuple, D!CloseSchema, Like
  <2>2. NoneNew(flight', flight)
    BY <1>7, OrphanedNoneNew DEF D!CloseTuple, D!CloseSchema, D!Sends, ExplorerInv, Sound,
                                 Truncating
  <2> QED
    BY <2>1, <2>2, ExplorerLike
<1>8. CASE D!DeleteRow \/ D!SubmitTuple \/ D!SubmitSchema \/ D!DropSpace
  <2>1. PICK q : flight' = flight \cup {q} /\ "op" \in DOMAIN q /\ q.op # "truncate"
    <3>1. CASE D!DeleteRow
      <4>1. PICK i \in 1..MaxFlight :
              flight' = flight \cup {[op |-> "delete", space |-> ui.selected,
                                      of |-> ui.shown.space, n |-> i]}
        BY <3>1 DEF D!DeleteRow, D!Posts, D!Sends
      <4> DEFINE q == [op |-> "delete", space |-> ui.selected, of |-> ui.shown.space,
                       n |-> i]
      <4>2. "op" \in DOMAIN q /\ q.op # "truncate"
        OBVIOUS
      <4> QED
        BY <4>1, <4>2
    <3>2. CASE D!SubmitTuple
      <4> DEFINE q == [op |-> "write", space |-> ui.selected, of |-> ui.form.of,
                       heard |-> TRUE, n |-> 0]
      <4>1. PICK i \in 1..MaxFlight : flight' = flight \cup {[q EXCEPT !.n = i]}
        BY <3>2 DEF D!SubmitTuple, D!Posts, D!Sends
      <4>2. "op" \in DOMAIN [q EXCEPT !.n = i] /\ [q EXCEPT !.n = i].op # "truncate"
        OBVIOUS
      <4> QED
        BY <4>1, <4>2
    <3>3. CASE D!SubmitSchema
      <4> DEFINE q == [op |-> "schema", mode |-> ui.schema, heard |-> TRUE, n |-> 0]
      <4>1. PICK i \in 1..MaxFlight : flight' = flight \cup {[q EXCEPT !.n = i]}
        BY <3>3 DEF D!SubmitSchema, D!Posts, D!Sends
      <4>2. "op" \in DOMAIN [q EXCEPT !.n = i] /\ [q EXCEPT !.n = i].op # "truncate"
        OBVIOUS
      <4> QED
        BY <4>1, <4>2
    <3>4. CASE D!DropSpace
      <4>1. PICK i \in 1..MaxFlight :
              flight' = flight \cup {[op |-> "drop", of |-> ui.selected, n |-> i]}
        BY <3>4 DEF D!DropSpace, D!Posts, D!Sends
      <4> DEFINE q == [op |-> "drop", of |-> ui.selected, n |-> i]
      <4>2. "op" \in DOMAIN q /\ q.op # "truncate"
        OBVIOUS
      <4> QED
        BY <4>1, <4>2
    <3> QED
      BY <1>8, <3>1, <3>2, <3>3, <3>4
  <2>2. Like(ui', ui)
    BY <1>0, <1>8 DEF D!DeleteRow, D!SubmitTuple, D!SubmitSchema, D!DropSpace, Like
  <2>3. NoneNew(flight', flight)
    BY <1>0, <2>1 DEF NoneNew
  <2> QED
    BY <2>2, <2>3, ExplorerLike
<1>9. CASE D!OpenTruncate \/ D!TickReset \/ D!CancelTruncate
  <2>1. /\ flight' = flight /\ DOMAIN ui' = PageRefs
        /\ ui'.stack = ui.stack /\ ui'.after = ui.after /\ ui'.next = ui.next
        /\ ui'.pending = ui.pending /\ ui'.await = ui.await
    BY <1>0, <1>9, Refs DEF D!OpenTruncate, D!TickReset, D!CancelTruncate
  <2>2. ui'.reset \in Ticks
    <3>1. CASE D!OpenTruncate
      BY <1>0, <3>1, Refs DEF D!OpenTruncate, D!Cleared, D!Unticked, Ticks
    <3>2. CASE D!TickReset
      <4>1. PICK b \in BOOLEAN : ui.reset = [on |-> b, here |-> b]
        BY <1>0 DEF Sound, Truncating, Ticks
      <4>2. ui'.reset = [on |-> ~b, here |-> ~b]
        BY <1>0, <3>2, <4>1, Refs DEF D!TickReset
      <4> QED
        BY <4>2 DEF Ticks
    <3>3. CASE D!CancelTruncate
      BY <1>0, <3>3, Refs DEF D!CancelTruncate, Sound, Truncating
    <3> QED
      BY <1>9, <3>1, <3>2, <3>3
  <2>3. Sound(ui', flight')
    BY <1>0, <2>1, <2>2 DEF Sound, Rooted, Truncating
  <2> QED
    BY <2>3, ExplorerSound
<1>10. CASE D!ConfirmTruncate
  <2> DEFINE q(i) == [op |-> "truncate", of |-> ui.target, reset |-> ui.reset,
                      typed |-> ui.typed, n |-> i]
  <2>1. PICK i \in 1..MaxFlight : flight' = flight \cup {q(i)}
    BY <1>10 DEF D!ConfirmTruncate, D!Posts, D!Sends
  <2>2. ui.target # NoSpace /\ ui.typed = ui.target /\ ~ui.pending
        /\ ui' = [ui EXCEPT !.pending = TRUE]
    BY <1>10 DEF D!ConfirmTruncate, D!CanConfirm
  <2>3. q(i).op = "truncate" /\ q(i).of = ui.target /\ q(i).typed = ui.typed
        /\ q(i).reset = ui.reset /\ "op" \in DOMAIN q(i)
    OBVIOUS
  <2> HIDE DEF q
  <2>4. ui.await = D!NoAwait /\ (\A r \in flight : r.op # "truncate")
        /\ ui.reset \in Ticks
    BY <1>0, <2>2 DEF Sound, Truncating
  <2>5. /\ DOMAIN ui' = PageRefs /\ ui'.pending
        /\ ui'.stack = ui.stack /\ ui'.after = ui.after /\ ui'.next = ui.next
        /\ ui'.await = ui.await /\ ui'.target = ui.target /\ ui'.reset = ui.reset
    BY <1>0, <2>2, Refs
  <2>6. Truncating(ui', flight')
    BY <1>0, <2>1, <2>2, <2>3, <2>4, <2>5 DEF Truncating, Sound
  <2>7. Sound(ui', flight')
    BY <1>0, <2>5, <2>6 DEF Sound, Rooted
  <2> QED
    BY <2>7, ExplorerSound
<1>11. ASSUME NEW r \in flight PROVE Sound(ui, flight \ {r}) /\ NoneNew(flight \ {r}, flight)
  BY <1>0 DEF NoneNew, Sound, Truncating
<1>12. ASSUME NEW r \in flight, D!SpacesAnswered(r) PROVE ExplorerInv'
  <2> DEFINE l == D!Listing(r.sys)
             f == flight \ {r}
             u == [ui EXCEPT !.listed = l, !.loadingSpaces = FALSE]
             w == [ui EXCEPT !.loadingSpaces = FALSE]
  <2>1. r.op = "spaces" /\ Sound(ui, f) /\ NoneNew(f, f)
    BY <1>0, <1>11, <1>12 DEF D!SpacesAnswered, NoneNew
  <2>2. Like(u, ui) /\ Like(w, ui)
    BY <1>0, Refs DEF Like
  <2>3. \/ D!Resumed(w, f, r)
        \/ D!Resumed(u, f, r)
        \/ \E s \in D!Default(l) : D!Resumed([D!On(u, s) EXCEPT !.loading = TRUE],
                                             f \cup {D!TuplesQuery(D!On(u, s))}, r)
    BY <1>12 DEF D!SpacesAnswered
  <2> HIDE DEF u, w, f, l
  <2>4. Sound(w, f) /\ Sound(u, f)
    BY <2>1, <2>2, SoundLike
  <2>5. ASSUME NEW s PROVE Sound([D!On(u, s) EXCEPT !.loading = TRUE],
                                 f \cup {D!TuplesQuery(D!On(u, s))})
    <3> DEFINE v == D!On(u, s)
    <3>1. Sound(v, f)
      BY <2>4, RewoundSound
    <3>2. D!TuplesQuery(v).op = "tuples" /\ "op" \in DOMAIN D!TuplesQuery(v)
      BY TuplesQueryOp
    <3> HIDE DEF v
    <3>3. Like([v EXCEPT !.loading = TRUE], v)
      BY <3>1, Refs DEF Like, Sound
    <3>4. NoneNew(f \cup {D!TuplesQuery(v)}, f)
      BY <2>1, <3>2 DEF NoneNew
    <3> QED
      BY <3>1, <3>3, <3>4, SoundLike DEF v
  <2> QED
    BY <2>1, <2>3, <2>4, <2>5, ResumedSound
<1>13. ASSUME NEW r \in flight, D!TuplesAnswered(r) PROVE ExplorerInv'
  <2>1. PICK u : /\ ui' = D!Settled(u, r) /\ DOMAIN u = PageRefs
                 /\ u.stack = ui.stack /\ u.after = ui.after /\ u.next \in Nat
                 /\ u.pending = ui.pending /\ u.await = ui.await
                 /\ u.target = ui.target /\ u.reset = ui.reset
    <3>1. CASE ui' = D!Settled(ui, r)
      BY <1>0, <3>1 DEF Sound, Rooted
    <3>2. ASSUME NEW c \in {0, r.after + 1} \cap D!Cursors,
                 ui' = D!Settled([ui EXCEPT !.shown = [op |-> "rows", space |-> r.space],
                                            !.next = c], r)
          PROVE  \E u : /\ ui' = D!Settled(u, r) /\ DOMAIN u = PageRefs
                        /\ u.stack = ui.stack /\ u.after = ui.after /\ u.next \in Nat
                        /\ u.pending = ui.pending /\ u.await = ui.await
                        /\ u.target = ui.target /\ u.reset = ui.reset
      <4> DEFINE u == [ui EXCEPT !.shown = [op |-> "rows", space |-> r.space], !.next = c]
      <4>1. c \in Nat
        BY DEF D!Cursors
      <4>2. /\ DOMAIN u = PageRefs /\ u.stack = ui.stack /\ u.after = ui.after
            /\ u.next = c /\ u.pending = ui.pending /\ u.await = ui.await
            /\ u.target = ui.target /\ u.reset = ui.reset
        BY <1>0, Refs
      <4> HIDE DEF u
      <4> QED
        BY <3>2, <4>1, <4>2 DEF u
    <3> QED
      BY <1>13, <3>1, <3>2 DEF D!TuplesAnswered
  <2>2. r.op = "tuples" /\ flight' = flight \ {r}
    BY <1>13 DEF D!TuplesAnswered, D!Answered
  <2>3. Sound(u, flight')
    BY <1>0, <2>1, <2>2 DEF Sound, Rooted, Truncating
  <2>4. CASE u.await # r
    <3>1. Like(ui', u)
      BY <2>1, <2>4, Refs DEF D!Settled, Like
    <3>2. NoneNew(flight', flight')
      BY <2>3 DEF NoneNew, Sound, Truncating
    <3> QED
      BY <2>3, <3>1, <3>2, SoundLike, ExplorerSound
  <2>5. CASE u.await = r
    <3>1. r # D!NoAwait
      BY <2>2 DEF D!NoAwait
    <3>2. \A q \in flight' : q.op # "truncate"
      BY <2>3, <2>5, <3>1, AwaitedIsAlone
    <3>3. /\ DOMAIN ui' = PageRefs /\ ui'.await = D!NoAwait
          /\ ui'.stack = u.stack /\ ui'.after = u.after /\ ui'.next = u.next
          /\ ui'.target = u.target /\ ui'.reset = u.reset
      BY <2>1, <2>5, Refs DEF D!Settled
    <3>4. Sound(ui', flight')
      BY <2>3, <3>2, <3>3 DEF Sound, Rooted, Truncating
    <3> QED
      BY <3>4, ExplorerSound
  <2> QED
    BY <2>4, <2>5
<1>14. ASSUME NEW r \in flight, D!DeleteAnswered(r) PROVE ExplorerInv'
  BY <1>0, <1>11, <1>14, LoadTuplesSound, ExplorerSound DEF D!DeleteAnswered, D!Answered
<1>15. ASSUME NEW r \in flight, D!WriteAnswered(r) PROVE ExplorerInv'
  <2> DEFINE u == [ui EXCEPT !.form = D!NoForm]
  <2>1. Like(u, ui)
    BY <1>0, Refs DEF Like
  <2>2. (flight' = flight \ {r} /\ ui' = ui) \/ D!LoadTuples(u, flight \ {r})
    BY <1>15 DEF D!WriteAnswered, D!Answered
  <2> HIDE DEF u
  <2>3. Sound(u, flight \ {r})
    BY <1>0, <1>11, <2>1, SoundLike
  <2> QED
    BY <1>11, <2>2, <2>3, LoadTuplesSound, ExplorerSound
<1>16. ASSUME NEW r \in flight, D!SchemaAnswered(r) PROVE ExplorerInv'
  <2> DEFINE u == [ui EXCEPT !.schema = "none"]
  <2>1. Like(u, ui)
    BY <1>0, Refs DEF Like
  <2>2. (flight' = flight \ {r} /\ ui' = ui) \/ D!LoadSpaces(u, flight \ {r})
    BY <1>16 DEF D!SchemaAnswered, D!Answered
  <2> HIDE DEF u
  <2>3. Sound(u, flight \ {r})
    BY <1>0, <1>11, <2>1, SoundLike
  <2> QED
    BY <1>11, <2>2, <2>3, LoadSpacesSound, ExplorerSound
<1>17. ASSUME NEW r \in flight, D!DropAnswered(r) PROVE ExplorerInv'
  <2> DEFINE u == IF ui.selected = r.of
                  THEN [ui EXCEPT !.selected = NoSpace, !.shown = D!NoRows] ELSE ui
  <2>1. Like(u, ui)
    BY <1>0, Refs DEF Like
  <2>2. (flight' = flight \ {r} /\ ui' = ui) \/ D!LoadSpaces(u, flight \ {r})
    BY <1>17 DEF D!DropAnswered, D!Answered
  <2> HIDE DEF u
  <2>3. Sound(u, flight \ {r})
    BY <1>0, <1>11, <2>1, SoundLike
  <2> QED
    BY <1>11, <2>2, <2>3, LoadSpacesSound, ExplorerSound
<1>18. ASSUME NEW r \in flight, D!TruncateAnswered(r) PROVE ExplorerInv'
  <2> DEFINE f == flight \ {r}
             u == [ui EXCEPT !.pending = FALSE]
             v == [ui EXCEPT !.target = NoSpace, !.typed = NoSpace, !.emptied = r.of,
                             !.await = D!SpacesQuery(ui.system)]
  <2>1. r.op = "truncate"
    BY <1>18 DEF D!TruncateAnswered
  <2>2. ui.pending /\ ui.await = D!NoAwait /\ \A q \in f : q.op # "truncate"
    BY <1>0, <2>1 DEF Sound, Truncating
  <2>3. (ui' = u /\ flight' = f) \/ D!LoadSpaces(v, f)
    BY <1>18 DEF D!TruncateAnswered, D!Answered
  <2>4. /\ DOMAIN u = PageRefs /\ u.await = ui.await
        /\ u.stack = ui.stack /\ u.after = ui.after /\ u.next = ui.next
        /\ u.target = ui.target /\ u.reset = ui.reset
    BY <1>0, Refs
  <2>5. /\ DOMAIN v = PageRefs /\ v.pending = ui.pending /\ v.target = NoSpace
        /\ v.stack = ui.stack /\ v.after = ui.after /\ v.next = ui.next
        /\ v.reset = ui.reset
    BY <1>0, Refs
  <2> HIDE DEF u, v
  <2>6. Sound(u, f)
    BY <1>0, <2>2, <2>4 DEF Sound, Rooted, Truncating
  <2>7. Sound(v, f)
    BY <1>0, <2>2, <2>5 DEF Sound, Rooted, Truncating
  <2> QED
    BY <2>3, <2>6, <2>7, LoadSpacesSound, ExplorerSound
<1> QED
  BY <1>1, <1>2, <1>3, <1>4, <1>5, <1>6, <1>7, <1>8, <1>9, <1>10, <1>12, <1>13, <1>14,
     <1>15, <1>16, <1>17, <1>18 DEF D!Next

LEMMA ExplorerStart == D!Init => ExplorerInv
<1> SUFFICES ASSUME D!Init PROVE ExplorerInv
  OBVIOUS
<1>1. flight = {D!SpacesQuery(FALSE)}
  BY DEF D!Init
<1>2. /\ DOMAIN ui = PageRefs /\ ui.stack = <<>> /\ ui.after = 0 /\ ui.next = 0
      /\ ui.await = D!NoAwait /\ ui.reset \in Ticks
  BY Refs DEF D!Init, D!Unticked, Ticks
<1>3. D!SpacesQuery(FALSE).op = "spaces" /\ "op" \in DOMAIN D!SpacesQuery(FALSE)
  BY DEF D!SpacesQuery
<1>4. Rooted(ui)
  BY <1>2 DEF Rooted
<1> QED
  BY <1>1, <1>2, <1>3, <1>4 DEF ExplorerInv, Sound, Truncating

LEMMA ExplorerMeans == ExplorerInv => D!PagerRooted /\ D!TruncateAsTyped
<1> SUFFICES ASSUME ExplorerInv PROVE D!PagerRooted /\ D!TruncateAsTyped
  OBVIOUS
<1>1. DOMAIN ui.stack = 1..Len(ui.stack)
  BY DEF ExplorerInv, Sound, Rooted
<1>2. D!PagerRooted
  BY <1>1 DEF ExplorerInv, Sound, Rooted, D!PagerRooted
<1>3. D!TruncateAsTyped
  BY DEF ExplorerInv, Sound, Truncating, Ticks, D!TruncateAsTyped, D!InFlight
<1> QED
  BY <1>2, <1>3
----------------------------------------------------------------------------
(* The dialogs of the configuration page. *)

Returns == {"rollback", "force"}

\* A return to a revision is alone, its dialog is open on it, and what waits for a
\* reload is under way.
RevisionInv ==
    /\ DOMAIN ui = {"yaml", "editor", "revision", "prepared", "diff", "busy", "wait",
                    "rollback", "force", "typed", "viewer"}
    /\ ui.wait \cap Returns \subseteq ui.busy
    /\ \A r \in flight : r.op \in Returns =>
          /\ r.op \in ui.busy /\ ui.wait \cap Returns = {}
          /\ r.rev = ui.typed /\ r.rev # 0
          /\ r.rev = IF r.op = "rollback" THEN ui.rollback ELSE ui.force
    /\ \A r, s \in flight : r.op \in Returns /\ s.op \in Returns => r = s

\* The dialogs are as they were, and no return is begun or done.
DialogsKept ==
    /\ DOMAIN ui' = DOMAIN ui
    /\ ui'.busy \cap Returns = ui.busy \cap Returns
    /\ ui'.wait \cap Returns = ui.wait \cap Returns
    /\ ui'.rollback = ui.rollback /\ ui'.force = ui.force /\ ui'.typed = ui.typed
    /\ \A r \in flight' \ flight : r.op \notin Returns

LEMMA RevisionKept == RevisionInv /\ DialogsKept => RevisionInv'
<1> SUFFICES ASSUME RevisionInv, DialogsKept PROVE RevisionInv'
  OBVIOUS
<1>1. ui'.wait \cap Returns \subseteq ui'.busy
  BY DEF RevisionInv, DialogsKept
<1>2. ASSUME NEW r \in flight', r.op \in Returns
      PROVE  /\ r \in flight /\ r.op \in ui'.busy /\ ui'.wait \cap Returns = {}
             /\ r.rev = ui'.typed /\ r.rev # 0
             /\ r.rev = IF r.op = "rollback" THEN ui'.rollback ELSE ui'.force
  BY <1>2 DEF RevisionInv, DialogsKept
<1> QED
  BY <1>1, <1>2 DEF RevisionInv, DialogsKept

\* While nothing is pending, no return is under way.
LEMMA NothingReturns ==
    ASSUME RevisionInv, ~E!Pending
    PROVE  ui.wait \cap Returns = {} /\ \A r \in flight : r.op \notin Returns
BY DEF RevisionInv, E!Pending, Returns

\* A confirmed dialog sends what it was opened on.
LEMMA ConfirmSends ==
    ASSUME RevisionInv, ~E!Pending, NEW op \in Returns, NEW rev, rev # 0, ui.typed = rev,
           rev = IF op = "rollback" THEN ui.rollback ELSE ui.force,
           ui' = [ui EXCEPT !.busy = ui.busy \cup {op}],
           E!Posts([op |-> op, rev |-> rev, n |-> 0])
    PROVE  RevisionInv'
<1>1. PICK i \in 1..MaxFlight : flight' = flight \cup {[op |-> op, rev |-> rev, n |-> i]}
  BY DEF E!Posts, E!Sends
<1> DEFINE q == [op |-> op, rev |-> rev, n |-> i]
<1>2. q.op = op /\ q.rev = rev
  OBVIOUS
<1> HIDE DEF q
<1>3. \A r \in flight' : r.op \in Returns => r = q
  BY <1>1, NothingReturns DEF q
<1>4. /\ DOMAIN ui' = DOMAIN ui /\ ui'.busy = ui.busy \cup {op} /\ ui'.wait = ui.wait
      /\ ui'.rollback = ui.rollback /\ ui'.force = ui.force /\ ui'.typed = ui.typed
  BY DEF RevisionInv
<1> QED
  BY <1>2, <1>3, <1>4, NothingReturns DEF RevisionInv

LEMMA EndedRefs ==
    ASSUME NEW u, NEW ops,
           DOMAIN u = {"yaml", "editor", "revision", "prepared", "diff", "busy", "wait",
                       "rollback", "force", "typed", "viewer"}
    PROVE  LET e == E!Ended(u, ops)
           IN  /\ DOMAIN e = DOMAIN u
               /\ e.busy = u.busy \ ops /\ e.wait = u.wait \ ops
               /\ e.rollback = (IF "rollback" \in ops THEN 0 ELSE u.rollback)
               /\ e.force = (IF "force" \in ops THEN 0 ELSE u.force)
               /\ e.typed = (IF Returns \cap ops # {} THEN 0 ELSE u.typed)
BY DEF E!Ended, Returns

\* The reload ends what waited for it, and a return under way did not.
LEMMA ReloadEnds ==
    ASSUME RevisionInv, NEW u, NEW r \in flight, flight' = flight \ {r},
           DOMAIN u = DOMAIN ui, u.busy = ui.busy, u.wait = ui.wait,
           u.rollback = ui.rollback, u.force = ui.force, u.typed = ui.typed,
           ui' = E!Ended(u, ui.wait)
    PROVE  RevisionInv'
<1>1. /\ DOMAIN ui' = DOMAIN ui
      /\ ui'.busy = ui.busy \ ui.wait /\ ui'.wait = {}
      /\ ui'.rollback = (IF "rollback" \in ui.wait THEN 0 ELSE ui.rollback)
      /\ ui'.force = (IF "force" \in ui.wait THEN 0 ELSE ui.force)
      /\ ui'.typed = (IF Returns \cap ui.wait # {} THEN 0 ELSE ui.typed)
  BY EndedRefs DEF RevisionInv
<1>2. ASSUME NEW q \in flight', q.op \in Returns
      PROVE  /\ q.op \in ui'.busy /\ q.rev = ui'.typed /\ q.rev # 0
             /\ q.rev = IF q.op = "rollback" THEN ui'.rollback ELSE ui'.force
  <2>1. ui.wait \cap Returns = {} /\ q.op \in ui.busy /\ q.op \notin ui.wait
    BY <1>2 DEF RevisionInv
  <2>2. ui'.rollback = ui.rollback /\ ui'.force = ui.force /\ ui'.typed = ui.typed
    BY <1>1, <2>1 DEF Returns
  <2> QED
    BY <1>1, <1>2, <2>1, <2>2 DEF RevisionInv
<1>3. ui'.wait \cap Returns = {}
  BY <1>1
<1> QED
  BY <1>1, <1>2, <1>3 DEF RevisionInv

LEMMA ShowingRefs ==
    ASSUME NEW t, RevisionInv
    PROVE  LET u == [E!Showing(ui, t) EXCEPT !.revision = E!Newest]
               v == E!Showing(ui, t)
           IN  /\ DOMAIN u = DOMAIN ui /\ u.busy = ui.busy /\ u.wait = ui.wait
               /\ u.rollback = ui.rollback /\ u.force = ui.force /\ u.typed = ui.typed
               /\ DOMAIN v = DOMAIN ui /\ v.busy = ui.busy /\ v.wait = ui.wait
               /\ v.rollback = ui.rollback /\ v.force = ui.force /\ v.typed = ui.typed
BY DEF E!Showing, RevisionInv

LEMMA RevisionStep ==
    ASSUME RevisionInv, E!Next
    PROVE  RevisionInv'
<1>1. CASE \/ E!MountEditor \/ E!DiffMounted \/ E!CloseViewer \/ E!OthersCommit
           \/ E!Expires \/ \E t \in Texts : E!Edit(t)
  <2>1. DialogsKept
    BY <1>1 DEF E!MountEditor, E!DiffMounted, E!CloseViewer, E!OthersCommit, E!Expires,
                E!Edit, DialogsKept, RevisionInv
  <2> QED
    BY <2>1, RevisionKept
<1>2. CASE \/ E!Reload \/ E!Preview \/ E!Apply \/ E!Abort
           \/ \E rev \in E!Revisions, use \in {"view", "compare"} : E!AskRevision(rev, use)
  <2>1. PICK q : flight' = flight \cup {q} /\ q.op \notin Returns
    <3>1. CASE E!Reload
      <4>1. E!Load.op \notin Returns
        BY DEF E!Load, Returns
      <4> QED
        BY <3>1, <4>1 DEF E!Reload, E!Queries, E!Sends
    <3>2. CASE E!Preview
      <4>1. PICK i \in 1..MaxFlight :
              flight' = flight \cup {[op |-> "propose", text |-> ui.yaml, n |-> i]}
        BY <3>2 DEF E!Preview, E!Posts, E!Sends
      <4>2. [op |-> "propose", text |-> ui.yaml, n |-> i].op \notin Returns
        BY DEF Returns
      <4> QED
        BY <4>1, <4>2
    <3>3. ASSUME NEW op \in {"commit", "abort"}, E!Posts([op |-> op, id |-> ui.prepared, n |-> 0])
          PROVE  \E q : flight' = flight \cup {q} /\ q.op \notin Returns
      <4>1. PICK i \in 1..MaxFlight :
              flight' = flight \cup {[op |-> op, id |-> ui.prepared, n |-> i]}
        BY <3>3 DEF E!Posts, E!Sends
      <4>2. [op |-> op, id |-> ui.prepared, n |-> i].op \notin Returns
        BY DEF Returns
      <4> QED
        BY <4>1, <4>2
    <3>4. ASSUME NEW rev, NEW use, E!AskRevision(rev, use)
          PROVE  \E q : flight' = flight \cup {q} /\ q.op \notin Returns
      <4>1. PICK i \in 1..MaxFlight :
              flight' = flight \cup {[op |-> "revision", rev |-> rev, use |-> use, n |-> i]}
        BY <3>4 DEF E!AskRevision, E!Posts, E!Sends
      <4>2. [op |-> "revision", rev |-> rev, use |-> use, n |-> i].op \notin Returns
        BY DEF Returns
      <4> QED
        BY <4>1, <4>2
    <3>5. E!Apply => E!Posts([op |-> "commit", id |-> ui.prepared, n |-> 0])
      BY DEF E!Apply
    <3>6. E!Abort => E!Posts([op |-> "abort", id |-> ui.prepared, n |-> 0])
      BY DEF E!Abort
    <3> QED
      BY <1>2, <3>1, <3>2, <3>3, <3>4, <3>5, <3>6
  <2>2. \/ ui' = ui
        \/ ui' = [ui EXCEPT !.busy = ui.busy \cup {"preparing"}, !.diff = FALSE]
        \/ ui' = [ui EXCEPT !.busy = ui.busy \cup {"commit"}]
    BY <1>2 DEF E!Reload, E!Preview, E!Apply, E!Abort, E!AskRevision, RevisionInv
  <2>3. DialogsKept
    BY <2>1, <2>2 DEF DialogsKept, RevisionInv, Returns
  <2> QED
    BY <2>3, RevisionKept
<1>3. CASE \E rev \in E!Revisions : E!OpenRollback(rev) \/ E!OpenForce(rev)
  <2>1. ui.rollback = 0 /\ ui.force = 0 /\ flight' = flight
    BY <1>3 DEF E!OpenRollback, E!OpenForce, E!Modal
  <2>2. \A r \in flight' : r.op \notin Returns
    BY <2>1 DEF RevisionInv
  <2>3. DOMAIN ui' = DOMAIN ui /\ ui'.busy = ui.busy /\ ui'.wait = ui.wait
    BY <1>3 DEF E!OpenRollback, E!OpenForce, RevisionInv
  <2> QED
    BY <2>2, <2>3 DEF RevisionInv
<1>4. CASE E!Cancel \/ \E rev \in E!Revisions : E!TypeRevision(rev)
  <2>1. ~E!Pending /\ flight' = flight
    BY <1>4 DEF E!Cancel, E!TypeRevision
  <2>2. DOMAIN ui' = DOMAIN ui /\ ui'.busy = ui.busy /\ ui'.wait = ui.wait
    BY <1>4 DEF E!Cancel, E!TypeRevision, RevisionInv
  <2> QED
    BY <2>1, <2>2, NothingReturns DEF RevisionInv
<1>5. CASE E!ConfirmRollback
  BY <1>5, ConfirmSends DEF E!ConfirmRollback, Returns
<1>6. CASE E!ConfirmForce
  BY <1>6, ConfirmSends DEF E!ConfirmForce, Returns
<1>7. ASSUME NEW r \in flight, E!LoadAnswered(r) PROVE RevisionInv'
  <2>1. flight' = flight \ {r}
    BY <1>7 DEF E!LoadAnswered, E!Answered
  <2>2. \/ ui' = E!Ended(ui, ui.wait)
        \/ \E t : ui' = E!Ended([E!Showing(ui, t) EXCEPT !.revision = E!Newest], ui.wait)
    BY <1>7 DEF E!LoadAnswered
  <2> QED
    BY <2>1, <2>2, ReloadEnds, ShowingRefs
<1>8. ASSUME NEW r \in flight,
             \/ E!PreviewRefused(r) \/ E!Previewed(r) \/ E!ApplyAnswered(r)
             \/ E!ApplyFailed(r) \/ E!AbortAnswered(r)
      PROVE  RevisionInv'
  <2>1. flight' \subseteq flight \cup {E!Load} /\ E!Load.op \notin Returns
    BY <1>8 DEF E!PreviewRefused, E!Previewed, E!ApplyAnswered, E!ApplyFailed,
                E!AbortAnswered, E!Answered, E!Sends, E!Load, Returns
  <2>2. /\ DOMAIN ui' = DOMAIN ui
        /\ ui'.busy \in {ui.busy, ui.busy \ {"preparing"}, ui.busy \ {"commit"}}
        /\ ui'.wait \in {ui.wait, ui.wait \cup {"commit"}}
        /\ ui'.rollback = ui.rollback /\ ui'.force = ui.force /\ ui'.typed = ui.typed
    BY <1>8 DEF E!PreviewRefused, E!Previewed, E!ApplyAnswered, E!ApplyFailed,
                E!AbortAnswered, RevisionInv
  <2>3. DialogsKept
    BY <2>1, <2>2 DEF DialogsKept, Returns
  <2> QED
    BY <2>3, RevisionKept
<1>9. ASSUME NEW r \in flight, E!RevisionAnswered(r) PROVE RevisionInv'
  <2>1. flight' = flight \ {r}
    BY <1>9 DEF E!RevisionAnswered, E!Answered
  <2>2. \/ ui' = ui
        \/ \E t : ui' = E!Showing(ui, t)
        \/ \E v : ui' = [ui EXCEPT !.viewer = v]
    BY <1>9 DEF E!RevisionAnswered
  <2>3. DialogsKept
    BY <2>1, <2>2, ShowingRefs DEF DialogsKept, RevisionInv
  <2> QED
    BY <2>3, RevisionKept
<1>10. ASSUME NEW r \in flight, E!RollbackAnswered(r) PROVE RevisionInv'
  <2>1. r.op \in Returns /\ flight' \subseteq (flight \ {r}) \cup {E!Load}
    BY <1>10 DEF E!RollbackAnswered, E!Answered, E!Sends, Returns
  <2>2. E!Load.op \notin Returns
    BY DEF E!Load, Returns
  <2>3. \A q \in flight' : q.op \notin Returns
    BY <2>1, <2>2 DEF RevisionInv
  <2>4. r.op \in ui.busy
    BY <2>1 DEF RevisionInv
  <2>5. CASE ui' = E!Ended(ui, {r.op})
    BY <2>3, <2>5, EndedRefs DEF RevisionInv
  <2>6. CASE ui' = [ui EXCEPT
                       !.wait = ui.wait \cup {r.op},
                       !.prepared = IF r.op = "rollback" THEN 0 ELSE ui.prepared,
                       !.diff = IF r.op = "rollback" THEN FALSE ELSE ui.diff]
    <3>1. DOMAIN ui' = DOMAIN ui /\ ui'.wait = ui.wait \cup {r.op} /\ ui'.busy = ui.busy
      BY <2>6 DEF RevisionInv
    <3> QED
      BY <2>3, <2>4, <3>1 DEF RevisionInv
  <2> QED
    BY <1>10, <2>5, <2>6 DEF E!RollbackAnswered
<1> QED
  BY <1>1, <1>2, <1>3, <1>4, <1>5, <1>6, <1>7, <1>8, <1>9, <1>10 DEF E!Next

LEMMA RevisionStart == E!Init => RevisionInv
<1> SUFFICES ASSUME E!Init PROVE RevisionInv
  OBVIOUS
<1>1. flight = {E!Load} /\ E!Load.op \notin Returns
  BY DEF E!Init, E!Load, Returns
<1>2. /\ DOMAIN ui = {"yaml", "editor", "revision", "prepared", "diff", "busy", "wait",
                      "rollback", "force", "typed", "viewer"}
      /\ ui.wait = {}
  BY DEF E!Init
<1> QED
  BY <1>1, <1>2 DEF RevisionInv

LEMMA RevisionMeans == RevisionInv => E!RollbackAsTyped
BY DEF RevisionInv, E!RollbackAsTyped, E!InFlight, Returns
----------------------------------------------------------------------------
(* All pages. *)

ActInv ==
    /\ page = "recovery" => RecoveryInv
    /\ page = "cluster" => ClusterInv
    /\ page = "panels" => PanelsInv
    /\ page = "explorer" => ExplorerInv
    /\ page = "config" => RevisionInv

LEMMA ActStarts == Init => ActInv
BY RecoveryStart, ClusterStart, PanelsStart, ExplorerStart, RevisionStart DEF Init, ActInv

LEMMA ActStutters ==
    ASSUME ActInv, UNCHANGED vars
    PROVE  ActInv'
<1>1. page' = page /\ ui' = ui /\ flight' = flight /\ backend' = backend
  BY DEF vars
<1>2. CASE page = "recovery"
  BY <1>1, <1>2 DEF ActInv, RecoveryInv
<1>3. CASE page = "cluster"
  <2>1. ClusterKeeps
    BY <1>1, <1>3 DEF ActInv, ClusterInv, ClusterKeeps
  <2> QED
    BY <1>1, <1>3, <2>1, ClusterKept DEF ActInv
<1>4. CASE page = "panels"
  <2>1. RowsKept /\ DialogKept
    BY <1>1, <1>4 DEF ActInv, PanelsInv, RowsKept, DialogKept
  <2> QED
    BY <1>1, <1>4, <2>1, PanelsKept DEF ActInv
<1>5. CASE page = "explorer"
  BY <1>1, <1>5, ExplorerSound DEF ActInv, ExplorerInv
<1>6. CASE page = "config"
  BY <1>1, <1>6 DEF ActInv, RevisionInv
<1> QED
  BY <1>1, <1>2, <1>3, <1>4, <1>5, <1>6 DEF ActInv

LEMMA ActSteps == ActInv /\ [Next]_vars => ActInv'
<1> SUFFICES ASSUME ActInv, [Next]_vars PROVE ActInv'
  OBVIOUS
<1>1. CASE UNCHANGED vars
  BY <1>1, ActStutters
<1>2. CASE Next
  <2>1. /\ page' = page
        /\ page = "recovery" => R!Next
        /\ page = "cluster" => C!Next
        /\ page = "panels" => P!Next
        /\ page = "explorer" => D!Next
        /\ page = "config" => E!Next
    BY <1>2, PageSteps
  <2> QED
    BY <2>1, RecoveryStep, ClusterStep, PanelsStep, ExplorerStep, RevisionStep DEF ActInv
<1> QED
  BY <1>1, <1>2

\* The invariant behind the actions of all pages.
THEOREM ConfirmedIsSent == Spec => []ActInv
<1> QED
  BY ActStarts, ActSteps, PTL DEF Spec

\* A dangerous recovery action runs only on a token typed for that very action, and
\* on the state its verdict was given for (useRecoveryAssessment.ts, assess.lua).
THEOREM ConsentIsKept == Spec => []ConsentKept
<1>1. ActInv => ConsentKept
  BY RecoveryMeans DEF ActInv, ConsentKept
<1> QED
  BY <1>1, ConfirmedIsSent, PTL

\* One operator action is under way at a time, over both pages that begin them
\* (the store of cluster-ops).
THEOREM PendingIsHonest == Spec => []PendingHonest
<1>1. ActInv => PendingHonest
  BY DEF ActInv, PendingHonest, ClusterInv
<1> QED
  BY <1>1, ConfirmedIsSent, PTL

\* No failover setting the form shows as not valid is sent
\* (FailoverSettingsDialog.vue, buildParams).
THEOREM ValidIsSent == Spec => []SentIsValid
<1>1. ActInv => SentIsValid
  BY DEF ActInv, SentIsValid, ClusterInv
<1> QED
  BY <1>1, ConfirmedIsSent, PTL

\* A result stands under the index it was asked for, and a row spins only for its own
\* request (IndexesPanel.vue).
THEOREM ResultsAreInPlace == Spec => []ResultUnderItsIndex
<1>1. ActInv => ResultUnderItsIndex
  BY PanelsMeans DEF ActInv, ResultUnderItsIndex
<1> QED
  BY <1>1, ConfirmedIsSent, PTL

\* A sequence is dropped once, as typed, under the dialog that asked
\* (SequencePanel.vue).
THEOREM DropsAreTyped == Spec => []DropAsTyped
<1>1. ActInv => DropAsTyped
  BY PanelsMeans DEF ActInv, DropAsTyped
<1> QED
  BY <1>1, ConfirmedIsSent, PTL

\* Prev leads back to the first page of the tuples, whatever filters, spaces and late
\* answers crossed (DataExplorer.vue, nextPage and prevPage).
THEOREM PagerIsRooted == Spec => []PagerRooted
<1>1. ActInv => PagerRooted
  BY ExplorerMeans DEF ActInv, PagerRooted
<1> QED
  BY <1>1, ConfirmedIsSent, PTL

\* A truncation travels alone, for the name typed, and resets the sequence only if that
\* was ticked since its own dialog was opened (DataExplorer.vue, openTruncate and
\* confirmTruncate).
THEOREM TruncatesAreTyped == Spec => []TruncateAsTyped
<1>1. ActInv => TruncateAsTyped
  BY ExplorerMeans DEF ActInv, TruncateAsTyped
<1> QED
  BY <1>1, ConfirmedIsSent, PTL

\* A rollback or forced re-apply runs alone, for the revision typed and still on show
\* (ConfigEditor.vue, confirmRollback and confirmForceApply).
THEOREM ReturnsAreTyped == Spec => []RollbackAsTyped
<1>1. ActInv => RollbackAsTyped
  BY RevisionMeans DEF ActInv, RollbackAsTyped
<1> QED
  BY <1>1, ConfirmedIsSent, PTL
============================================================================
