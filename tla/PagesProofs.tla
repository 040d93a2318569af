---------------------------- MODULE PagesProofs ----------------------------
(* Proofs about the pages whose editors, viewers and timers come late: for any      *)
(* texts, requests in flight and orders of answers, what an editor shows is what     *)
(* its page holds, a result is of the last run, and the tail has one timer.          *)
EXTENDS Pages, TLAPS

\* An execution stays on its page: a step is a step of the page's module, or none.
LEMMA PageSteps ==
    ASSUME Next
    PROVE  /\ page' = page
           /\ page = "sql" => S!Next
           /\ page = "logs" => L!Next
           /\ page = "config" => E!Next
           /\ page = "bootstrap" => B!Next
           /\ page = "console" => K!Next
           /\ page = "tuple" => T!Next
           /\ page = "recovery" => R!Next
           /\ page = "explorer" => D!Next
           /\ page = "panels" => P!Next
           /\ page = "cluster" => C!Next
           /\ page = "audit" => A!Next
BY DEF Next, Recovering, Exploring, EditingTuple, UsingPanels, Configuring,
       Operating, Querying, Tailing, Auditing, Starting, Evaluating
----------------------------------------------------------------------------
(* The log page. *)

\* From a timer that is alone, stopping leaves none and starting the one that is named.
Alone(t, period) ==
    /\ DOMAIN t = {"live", "named"}
    /\ t.live = {t.named} \ {L!NoTimer}
    /\ t.named.period = period

LEMMA StopAndStart ==
    ASSUME NEW t, NEW before, Alone(t, before),
           NEW live \in BOOLEAN, NEW period \in Periods
    PROVE  /\ Alone(L!Stopped(t), 0)
           /\ Alone(L!Started(t, live, period), IF live THEN period ELSE 0)
<1> DEFINE s == L!Stopped(t)
           interval == [n |-> L!Fresh(s), period |-> period]
<1>1. DOMAIN s = {"live", "named"} /\ s.live = {} /\ s.named = L!NoTimer
  BY DEF L!Stopped, Alone
<1>2. L!NoTimer.period = 0
  BY DEF L!NoTimer
<1>3. Alone(s, 0)
  BY <1>1, <1>2 DEF Alone
<1>4. ASSUME ~live PROVE Alone(L!Started(t, live, period), 0)
  BY <1>3, <1>4 DEF L!Started
<1>5. ASSUME live PROVE Alone(L!Started(t, live, period), period)
  <2>1. L!Started(t, live, period) = [live |-> s.live \cup {interval}, named |-> interval]
    BY <1>5 DEF L!Started
  <2>2. interval.period = period /\ interval # L!NoTimer
    BY PagesAssumption, <1>2
  <2>3. s.live \cup {interval} = {interval} \ {L!NoTimer}
    BY <1>1, <2>2
  <2> HIDE DEF interval, s
  <2>4. DOMAIN L!Started(t, live, period) = {"live", "named"}
        /\ L!Started(t, live, period).live = s.live \cup {interval}
        /\ L!Started(t, live, period).named = interval
    BY <2>1
  <2> QED
    BY <1>5, <2>2, <2>3, <2>4 DEF Alone
<1> QED
  BY <1>3, <1>4, <1>5

\* The tail has the timer it names, of the period on show, and the viewer its lines.
LogsInv ==
    /\ DOMAIN ui = {"filter", "live", "period", "timer", "debounce", "loading",
                    "shown", "viewer"}
    /\ DOMAIN ui.viewer = {"up", "text"}
    /\ backend \in L!Prefs
    /\ ui.filter \in Filters
    /\ ui.live \in BOOLEAN
    /\ ui.period \in Periods
    /\ Alone(ui.timer, IF ui.live THEN ui.period ELSE 0)
    /\ L!ViewerInStep

LEMMA LogsMounted ==
    ASSUME NEW p \in L!Prefs, NEW restored \in BOOLEAN
    PROVE  LET u == L!Mounted(p, restored)
           IN  /\ DOMAIN u = {"filter", "live", "period", "timer", "debounce", "loading",
                              "shown", "viewer"}
               /\ u.viewer = [up |-> FALSE, text |-> {}]
               /\ u.filter \in Filters /\ u.live \in BOOLEAN /\ u.period \in Periods
               /\ Alone(u.timer, IF u.live THEN u.period ELSE 0)
<1> DEFINE fresh == [live |-> {}, named |-> L!NoTimer]
           once == L!Started(fresh, p.live, p.period)
           twice == L!Started(once, p.live, p.period)
           period == IF p.live THEN p.period ELSE 0
<1>1. p.filter \in Filters /\ p.live \in BOOLEAN /\ p.period \in Periods
  BY DEF L!Prefs
<1>2. Alone(fresh, 0)
  BY DEF Alone, L!NoTimer
<1>3. Alone(once, period)
  BY <1>1, <1>2, StopAndStart
<1>4. Alone(twice, period)
  <2> HIDE DEF once
  <2> QED
    BY <1>1, <1>3, StopAndStart
<1> QED
  <2> HIDE DEF once, twice
  <2> SUFFICES ASSUME NEW u,
                      u = [filter |-> p.filter, live |-> p.live, period |-> p.period,
                           timer |-> IF restored THEN twice ELSE once,
                           debounce |-> restored, loading |-> TRUE, shown |-> {},
                           viewer |-> [up |-> FALSE, text |-> {}]]
               PROVE  /\ DOMAIN u = {"filter", "live", "period", "timer", "debounce",
                                     "loading", "shown", "viewer"}
                      /\ u.viewer = [up |-> FALSE, text |-> {}]
                      /\ u.filter \in Filters /\ u.live \in BOOLEAN
                      /\ u.period \in Periods
                      /\ Alone(u.timer, IF u.live THEN u.period ELSE 0)
    BY DEF L!Mounted, once, twice
  <2> QED
    BY <1>1, <1>3, <1>4

\* A preference that changed is saved as it is by now.
LEMMA LogsWatched ==
    ASSUME LogsInv, NEW u, L!Watched(u),
           DOMAIN u = DOMAIN ui, u.viewer = ui.viewer, u.shown = ui.shown,
           u.filter \in Filters, u.live \in BOOLEAN, u.period \in Periods,
           Alone(u.timer, IF u.live THEN u.period ELSE 0)
    PROVE  LogsInv'
<1>1. /\ ui' = u
      /\ backend' = [filter |-> u.filter, live |-> u.live, period |-> u.period]
  BY DEF L!Watched
<1>2. backend' \in L!Prefs
  BY <1>1 DEF L!Prefs
<1> QED
  BY <1>1, <1>2 DEF LogsInv, L!ViewerInStep, Alone, L!NoTimer

LEMMA LogsStep ==
    ASSUME LogsInv, L!Next
    PROVE  LogsInv'
<1> DEFINE Same(u) == /\ DOMAIN u = DOMAIN ui
                      /\ u.viewer = ui.viewer /\ u.shown = ui.shown
<1>1. CASE L!ToggleLive
  <2> DEFINE u == [ui EXCEPT !.live = ~ui.live,
                             !.timer = IF ui.live THEN L!Stopped(ui.timer)
                                       ELSE L!Started(ui.timer, TRUE, ui.period)]
  <2>1. Alone(L!Stopped(ui.timer), 0) /\ Alone(L!Started(ui.timer, TRUE, ui.period), ui.period)
    BY StopAndStart DEF LogsInv
  <2>2. Same(u) /\ u.filter = ui.filter /\ u.live = ~ui.live /\ u.period = ui.period
    BY DEF LogsInv
  <2>3. Alone(u.timer, IF u.live THEN u.period ELSE 0)
    BY <2>1, <2>2 DEF LogsInv
  <2>4. L!Watched(u)
    BY <1>1 DEF L!ToggleLive
  <2> QED
    BY <2>2, <2>3, <2>4, LogsWatched DEF LogsInv
<1>2. ASSUME NEW p \in Periods, L!SetPeriod(p) PROVE LogsInv'
  <2> DEFINE u == [ui EXCEPT !.period = p, !.timer = L!Started(ui.timer, TRUE, p)]
  <2>1. ui.live /\ L!Watched(u)
    BY <1>2 DEF L!SetPeriod
  <2>2. Alone(L!Started(ui.timer, TRUE, p), p)
    BY StopAndStart DEF LogsInv
  <2>3. Same(u) /\ u.filter = ui.filter /\ u.live = ui.live /\ u.period = p
        /\ u.timer = L!Started(ui.timer, TRUE, p)
    BY DEF LogsInv
  <2> QED
    BY <2>1, <2>2, <2>3, LogsWatched DEF LogsInv
<1>3. ASSUME NEW f \in Filters, L!SetFilter(f) \/ L!PickFilter(f) PROVE LogsInv'
  <2>1. PICK loading \in {ui.loading, TRUE} :
          L!Watched([ui EXCEPT !.filter = f, !.debounce = TRUE, !.loading = loading])
    BY <1>3 DEF L!SetFilter, L!PickFilter, L!Watched, LogsInv
  <2> DEFINE u == [ui EXCEPT !.filter = f, !.debounce = TRUE, !.loading = loading]
  <2>2. Same(u) /\ u.filter = f /\ u.live = ui.live /\ u.period = ui.period
        /\ u.timer = ui.timer
    BY DEF LogsInv
  <2> QED
    BY <2>1, <2>2, LogsWatched DEF LogsInv
<1>4. CASE L!Reload \/ L!DebounceFires \/ L!Tick
  BY <1>4 DEF L!Reload, L!DebounceFires, L!Tick, L!Load, LogsInv, Alone, L!NoTimer,
              L!ViewerInStep, L!Prefs
<1>5. CASE L!MountViewer
  BY <1>5 DEF L!MountViewer, LogsInv, Alone, L!NoTimer, L!ViewerInStep, L!Prefs
<1>6. ASSUME NEW r \in flight, L!LoadAnswered(r) PROVE LogsInv'
  BY <1>6 DEF L!LoadAnswered, LogsInv, Alone, L!NoTimer, L!ViewerInStep, L!Prefs
<1>7. CASE L!Revisit
  <2>1. PICK restored \in BOOLEAN : ui' = L!Mounted(backend, restored)
    BY <1>7 DEF L!Revisit, L!Kept
  <2>2. backend' = backend /\ backend \in L!Prefs
    BY <1>7 DEF L!Revisit, LogsInv
  <2> QED
    BY <2>1, <2>2, LogsMounted DEF LogsInv, L!ViewerInStep, Alone, L!NoTimer
<1> QED
  BY <1>1, <1>2, <1>3, <1>4, <1>5, <1>6, <1>7 DEF L!Next
----------------------------------------------------------------------------
(* The SQL page. *)

\* One run at a time, of the text sent last, and no offer while it runs.
SqlInv ==
    /\ DOMAIN ui = {"sql", "editor", "running", "result", "banner", "allow", "last",
                    "explaining", "plan", "saved", "dialog", "named", "saving"}
    /\ ui.sql \in Sqls
    /\ S!RunsWhatIsShown
    /\ \A r \in flight : r.op = "run" => r.sql = ui.last /\ ui.running
    /\ \A r, s \in flight : r.op = "run" /\ s.op = "run" => r = s
    /\ ui.running => ~ui.banner
    /\ ui.result # NoSql /\ ~ui.running => ui.result = ui.last
    /\ ui.banner => ui.result = ui.last /\ ui.last \in Scans

\* Only runs matter of what is in flight.
SqlKeeps ==
    /\ DOMAIN ui' = DOMAIN ui
    /\ ui'.running = ui.running /\ ui'.result = ui.result
    /\ ui'.banner = ui.banner /\ ui'.last = ui.last
    /\ \A r \in flight' : r.op = "run" => r \in flight

LEMMA SqlKept ==
    ASSUME SqlInv, SqlKeeps, ui'.sql \in Sqls,
           ui'.editor # NoSql => ui'.editor = ui'.sql
    PROVE  SqlInv'
BY DEF SqlInv, SqlKeeps, S!RunsWhatIsShown

LEMMA SqlStep ==
    ASSUME SqlInv, S!Next
    PROVE  SqlInv'
<1>1. CASE S!MountEditor
  <2>1. SqlKeeps /\ ui'.sql = ui.sql /\ ui'.editor = ui.sql
    BY <1>1 DEF S!MountEditor, SqlKeeps, SqlInv
  <2> QED
    BY <2>1, SqlKept DEF SqlInv
<1>2. ASSUME NEW t \in Sqls, S!TypeSql(t) \/ S!LoadIntoEditor(t) PROVE SqlInv'
  <2>1. SqlKeeps /\ ui'.sql = t /\ ui'.editor \in {t, NoSql}
    BY <1>2 DEF S!TypeSql, S!LoadIntoEditor, S!Loaded, SqlKeeps, SqlInv
  <2> QED
    BY <2>1, SqlKept
<1>3. CASE S!AllowFullScan \/ S!OpenSaveDialog \/ S!NameIt \/ S!CloseSaveDialog
  <2>1. SqlKeeps /\ ui'.sql = ui.sql /\ ui'.editor = ui.editor
    BY <1>3 DEF S!AllowFullScan, S!OpenSaveDialog, S!NameIt, S!CloseSaveDialog, SqlKeeps,
                SqlInv
  <2> QED
    BY <2>1, SqlKept DEF SqlInv, S!RunsWhatIsShown
<1>4. ASSUME NEW leave \in BOOLEAN, S!RunQuery(leave) PROVE SqlInv'
  <2>1. PICK i \in 1..MaxFlight :
          flight' = flight \cup {[op |-> "run", sql |-> ui.sql,
                                  scan |-> leave \/ ui.allow, n |-> i]}
    BY <1>4 DEF S!RunQuery, S!Posts, S!Sends
  <2>2. ~ui.running /\ ui' = [ui EXCEPT !.running = TRUE, !.banner = FALSE, !.last = ui.sql]
    BY <1>4 DEF S!RunQuery
  <2>3. \A r \in flight : r.op # "run"
    BY <2>2 DEF SqlInv
  <2> QED
    BY <2>1, <2>2, <2>3 DEF SqlInv, S!RunsWhatIsShown
<1>5. ASSUME NEW r \in flight, S!QueryRan(r) \/ S!QueryFailed(r) PROVE SqlInv'
  <2>1. r.op = "run" /\ flight' = flight \ {r} /\ ~ui.banner
    BY <1>5 DEF S!QueryRan, S!QueryFailed, S!Answered, SqlInv
  <2>2. \A s \in flight' : s.op # "run"
    BY <2>1 DEF SqlInv
  <2>3. r.sql = ui.last
    BY <2>1 DEF SqlInv
  <2>4. ui' = [ui EXCEPT !.running = FALSE, !.result = r.sql,
                         !.banner = r.sql \in Scans /\ ~r.scan]
        \/ ui' = [ui EXCEPT !.running = FALSE, !.result = NoSql]
    BY <1>5 DEF S!QueryRan, S!QueryFailed
  <2> QED
    BY <2>1, <2>2, <2>3, <2>4 DEF SqlInv, S!RunsWhatIsShown
<1>6. CASE S!RunExplain \/ S!SaveCurrentQuery \/ \E t \in Sqls : S!DeleteSnippet(t)
  <2>1. PICK q : flight' = flight \cup {q} /\ q.op # "run"
    <3>1. CASE S!RunExplain
      <4>1. PICK i \in 1..MaxFlight :
              flight' = flight \cup {[op |-> "explain", sql |-> ui.sql, n |-> i]}
        BY <3>1 DEF S!RunExplain, S!Posts, S!Sends
      <4>2. [op |-> "explain", sql |-> ui.sql, n |-> i].op # "run"
        OBVIOUS
      <4> QED
        BY <4>1, <4>2
    <3>2. CASE S!SaveCurrentQuery
      <4>1. PICK i \in 1..MaxFlight :
              flight' = flight \cup {[op |-> "save", sql |-> ui.sql, n |-> i]}
        BY <3>2 DEF S!SaveCurrentQuery, S!Posts, S!Sends
      <4>2. [op |-> "save", sql |-> ui.sql, n |-> i].op # "run"
        OBVIOUS
      <4> QED
        BY <4>1, <4>2
    <3>3. ASSUME NEW t \in Sqls, S!DeleteSnippet(t)
          PROVE  \E q : flight' = flight \cup {q} /\ q.op # "run"
      <4>1. PICK i \in 1..MaxFlight :
              flight' = flight \cup {[op |-> "delete", sql |-> t, n |-> i]}
        BY <3>3 DEF S!DeleteSnippet, S!Posts, S!Sends
      <4>2. [op |-> "delete", sql |-> t, n |-> i].op # "run"
        OBVIOUS
      <4> QED
        BY <4>1, <4>2
    <3> QED
      BY <1>6, <3>1, <3>2, <3>3
  <2>2. SqlKeeps /\ ui'.sql = ui.sql /\ ui'.editor = ui.editor
    BY <1>6, <2>1 DEF S!RunExplain, S!SaveCurrentQuery, S!DeleteSnippet, SqlKeeps, SqlInv
  <2> QED
    BY <2>2, SqlKept DEF SqlInv, S!RunsWhatIsShown
<1>7. ASSUME NEW r \in flight,
             \/ S!Explained(r) \/ S!LibraryAnswered(r)
             \/ S!LibraryChanged(r) \/ S!ChangeFailed(r)
      PROVE  SqlInv'
  <2>1. flight' \subseteq flight \cup {S!Library}
    BY <1>7 DEF S!Explained, S!LibraryAnswered, S!LibraryChanged, S!ChangeFailed,
                S!Answered, S!Sends
  <2>2. S!Library.op # "run"
    BY DEF S!Library
  <2>3. SqlKeeps /\ ui'.sql = ui.sql /\ ui'.editor = ui.editor
    BY <1>7, <2>1, <2>2 DEF S!Explained, S!LibraryAnswered, S!LibraryChanged,
                            S!ChangeFailed, SqlKeeps, SqlInv
  <2> QED
    BY <2>3, SqlKept DEF SqlInv, S!RunsWhatIsShown
<1> QED
  BY <1>1, <1>2, <1>3, <1>4, <1>5, <1>6, <1>7 DEF S!Next

LEMMA SqlStart == S!Init => SqlInv
<1> SUFFICES ASSUME S!Init PROVE SqlInv
  OBVIOUS
<1>1. \A r \in flight : r.op # "run"
  BY DEF S!Init, S!Library
<1>2. /\ DOMAIN ui = {"sql", "editor", "running", "result", "banner", "allow", "last",
                      "explaining", "plan", "saved", "dialog", "named", "saving"}
      /\ ui.sql \in Sqls /\ ui.editor = NoSql /\ ui.running = FALSE
      /\ ui.result = NoSql /\ ui.banner = FALSE
  BY DEF S!Init
<1> QED
  BY <1>1, <1>2 DEF SqlInv, S!RunsWhatIsShown

LEMMA SqlMeans == SqlInv => S!RunsWhatIsShown /\ S!ResultOfLastRun
BY DEF SqlInv, S!ResultOfLastRun, S!InFlight
----------------------------------------------------------------------------
(* The configuration page. *)

\* The editor holds the page's text, and a closed comparison no editor.
ConfigInv ==
    /\ DOMAIN ui = {"yaml", "editor", "revision", "prepared", "diff", "busy", "wait",
                    "rollback", "force", "typed", "viewer"}
    /\ DOMAIN ui.viewer = {"open", "shows", "mounts"}
    /\ E!EditorInStep

ConfigKeeps ==
    /\ DOMAIN ui' = DOMAIN ui
    /\ ui'.viewer = ui.viewer /\ ui'.yaml = ui.yaml /\ ui'.editor = ui.editor

LEMMA ConfigKept == ConfigInv /\ ConfigKeeps => ConfigInv'
BY DEF ConfigInv, ConfigKeeps, E!EditorInStep

\* The end of an operation is about flags and dialogs.
LEMMA EndedKeeps ==
    ASSUME NEW u, NEW ops
    PROVE  /\ DOMAIN E!Ended(u, ops) = DOMAIN u
           /\ "yaml" \in DOMAIN u => E!Ended(u, ops).yaml = u.yaml
           /\ "editor" \in DOMAIN u => E!Ended(u, ops).editor = u.editor
           /\ "viewer" \in DOMAIN u => E!Ended(u, ops).viewer = u.viewer
           /\ "revision" \in DOMAIN u => E!Ended(u, ops).revision = u.revision
BY DEF E!Ended

\* A text of the page reaches the editor, if there is one.
LEMMA ShowingInStep ==
    ASSUME ConfigInv, NEW t
    PROVE  LET u == E!Showing(ui, t)
           IN  /\ DOMAIN u = DOMAIN ui
               /\ u.yaml = t /\ u.editor \in {NoEditor, t} /\ u.viewer = ui.viewer
BY DEF ConfigInv, E!Showing, E!EditorInStep

LEMMA ConfigStep ==
    ASSUME ConfigInv, E!Next
    PROVE  ConfigInv'
<1>1. CASE E!MountEditor \/ \E t \in Texts : E!Edit(t)
  BY <1>1 DEF E!MountEditor, E!Edit, ConfigInv, E!EditorInStep
<1>2. CASE E!Reload \/ E!Preview \/ E!Apply \/ E!Abort
  <2>1. ConfigKeeps
    BY <1>2 DEF E!Reload, E!Preview, E!Apply, E!Abort, ConfigKeeps, ConfigInv
  <2> QED
    BY <2>1, ConfigKept
<1>3. CASE E!DiffMounted \/ E!CloseViewer
  <2>1. PICK v : ui' = [ui EXCEPT !.viewer = v]
                 /\ DOMAIN v = {"open", "shows", "mounts"}
                 /\ (v.shows # "nothing" => v.open)
    <3>1. CASE E!DiffMounted
      <4> DEFINE shows == IF ui.viewer.open THEN "its title" ELSE "nothing"
                 v == [ui.viewer EXCEPT !.mounts = ui.viewer.mounts - 1, !.shows = shows]
      <4>1. ui' = [ui EXCEPT !.viewer = v]
        BY <3>1 DEF E!DiffMounted, ConfigInv
      <4>2. DOMAIN v = {"open", "shows", "mounts"} /\ v.open = ui.viewer.open
            /\ v.shows = shows
        BY DEF ConfigInv
      <4> HIDE DEF v
      <4> QED
        BY <4>1, <4>2
    <3>2. CASE E!CloseViewer
      <4> DEFINE v == [E!ClosedViewer EXCEPT !.mounts = ui.viewer.mounts]
      <4>1. ui' = [ui EXCEPT !.viewer = v]
        BY <3>2 DEF E!CloseViewer
      <4>2. DOMAIN v = {"open", "shows", "mounts"} /\ v.shows = "nothing"
        BY DEF E!ClosedViewer
      <4> HIDE DEF v
      <4> QED
        BY <4>1, <4>2
    <3> QED
      BY <1>3, <3>1, <3>2
  <2> QED
    BY <2>1 DEF ConfigInv, E!EditorInStep
<1>4. CASE E!Cancel \/ E!ConfirmRollback \/ E!ConfirmForce \/ E!OthersCommit \/ E!Expires
  <2>1. ConfigKeeps
    BY <1>4 DEF E!Cancel, E!ConfirmRollback, E!ConfirmForce, E!OthersCommit, E!Expires,
                ConfigKeeps, ConfigInv
  <2> QED
    BY <2>1, ConfigKept
<1>5. ASSUME NEW rev \in E!Revisions,
             \/ E!OpenRollback(rev) \/ E!OpenForce(rev) \/ E!TypeRevision(rev)
             \/ \E use \in {"view", "compare"} : E!AskRevision(rev, use)
      PROVE  ConfigInv'
  <2>1. ConfigKeeps
    BY <1>5 DEF E!OpenRollback, E!OpenForce, E!TypeRevision, E!AskRevision, ConfigKeeps,
                ConfigInv
  <2> QED
    BY <2>1, ConfigKept
<1>6. ASSUME NEW r \in flight, E!LoadAnswered(r) PROVE ConfigInv'
  <2>1. CASE ui' = E!Ended(ui, ui.wait)
    <3>1. ConfigKeeps
      BY <2>1, EndedKeeps DEF ConfigKeeps, ConfigInv
    <3> QED
      BY <3>1, ConfigKept
  <2>2. CASE ui' = E!Ended([E!Showing(ui, backend.log[E!Newest])
                               EXCEPT !.revision = E!Newest], ui.wait)
    <3> DEFINE shown == E!Showing(ui, backend.log[E!Newest])
               u == [shown EXCEPT !.revision = E!Newest]
    <3>1. /\ DOMAIN shown = DOMAIN ui
          /\ shown.yaml = backend.log[E!Newest]
          /\ shown.editor \in {NoEditor, backend.log[E!Newest]}
          /\ shown.viewer = ui.viewer
      BY ShowingInStep
    <3> HIDE DEF shown
    <3>2. /\ DOMAIN u = DOMAIN ui /\ u.yaml = shown.yaml /\ u.editor = shown.editor
          /\ u.viewer = ui.viewer
      BY <3>1 DEF ConfigInv
    <3>3. ui' = E!Ended(u, ui.wait)
      BY <2>2 DEF shown
    <3> HIDE DEF u
    <3>4. /\ DOMAIN ui' = DOMAIN ui /\ ui'.yaml = u.yaml /\ ui'.editor = u.editor
          /\ ui'.viewer = ui.viewer
      BY <3>2, <3>3, EndedKeeps DEF ConfigInv
    <3> QED
      BY <3>1, <3>2, <3>4 DEF ConfigInv, E!EditorInStep
  <2> QED
    BY <1>6, <2>1, <2>2 DEF E!LoadAnswered
<1>7. ASSUME NEW r \in flight, E!RevisionAnswered(r) PROVE ConfigInv'
  <2>1. CASE UNCHANGED ui
    BY <2>1 DEF ConfigInv, E!EditorInStep
  <2>2. CASE ui' = E!Showing(ui, backend.log[r.rev])
    BY <2>2, ShowingInStep DEF ConfigInv, E!EditorInStep
  <2>3. CASE ui' = [ui EXCEPT !.viewer = E!Comparing]
    <3>1. DOMAIN E!Comparing = {"open", "shows", "mounts"} /\ E!Comparing.open
      BY DEF E!Comparing, ConfigInv
    <3> QED
      BY <2>3, <3>1 DEF ConfigInv, E!EditorInStep
  <2> QED
    BY <1>7, <2>1, <2>2, <2>3 DEF E!RevisionAnswered
<1>8. ASSUME NEW r \in flight,
             \/ E!PreviewRefused(r) \/ E!Previewed(r) \/ E!ApplyAnswered(r)
             \/ E!ApplyFailed(r) \/ E!AbortAnswered(r)
      PROVE  ConfigInv'
  <2>1. ConfigKeeps
    BY <1>8 DEF E!PreviewRefused, E!Previewed, E!ApplyAnswered, E!ApplyFailed,
                E!AbortAnswered, ConfigKeeps, ConfigInv
  <2> QED
    BY <2>1, ConfigKept
<1>9. ASSUME NEW r \in flight, E!RollbackAnswered(r) PROVE ConfigInv'
  <2>1. CASE ui' = E!Ended(ui, {r.op})
    BY <2>1, EndedKeeps, ConfigKept DEF ConfigKeeps, ConfigInv
  <2>2. CASE ui' = [ui EXCEPT
                       !.wait = ui.wait \cup {r.op},
                       !.prepared = IF r.op = "rollback" THEN 0 ELSE ui.prepared,
                       !.diff = IF r.op = "rollback" THEN FALSE ELSE ui.diff]
    <3>1. ConfigKeeps
      BY <2>2 DEF ConfigKeeps, ConfigInv
    <3> QED
      BY <3>1, ConfigKept
  <2> QED
    BY <1>9, <2>1, <2>2 DEF E!RollbackAnswered
<1> QED
  BY <1>1, <1>2, <1>3, <1>4, <1>5, <1>6, <1>7, <1>8, <1>9 DEF E!Next

LEMMA ConfigStart == E!Init => ConfigInv
BY DEF E!Init, E!ClosedViewer, ConfigInv, E!EditorInStep
----------------------------------------------------------------------------
(* The first-start wizard. *)

BootstrapInv ==
    /\ {"editor", "text", "yaml"} \subseteq DOMAIN ui
    /\ B!PreviewInStep

LEMMA BootstrapStep ==
    ASSUME BootstrapInv, B!Next
    PROVE  BootstrapInv'
<1> USE DEF BootstrapInv, B!PreviewInStep
<1>1. CASE B!MountEditor \/ B!Apply \/ B!OthersInitialize
  BY <1>1 DEF B!MountEditor, B!Apply, B!OthersInitialize
<1>2. CASE B!Leave
  <2>1. PICK c \in Choices : ui' = B!Mounted(c)
    BY <1>2 DEF B!Leave
  <2>2. {"editor", "text", "yaml"} \subseteq DOMAIN B!Mounted(c)
    BY DEF B!Mounted
  <2>3. B!Mounted(c).editor = FALSE
    BY DEF B!Mounted
  <2> QED
    BY <2>1, <2>2, <2>3
<1>3. CASE \E c \in Choices : B!Choose(c)
  BY <1>3 DEF B!Choose
<1>4. ASSUME NEW r \in flight, B!Rendered(r) PROVE BootstrapInv'
  BY <1>4 DEF B!Rendered, B!Previewing
<1>5. ASSUME NEW r \in flight,
             \/ B!StatusAnswered(r) \/ B!Checked(r) \/ B!Initialized(r)
             \/ B!InitializeFailed(r)
      PROVE  BootstrapInv'
  BY <1>5 DEF B!StatusAnswered, B!Checked, B!Initialized, B!InitializeFailed
<1> QED
  BY <1>1, <1>2, <1>3, <1>4, <1>5 DEF B!Next

LEMMA BootstrapStart == B!Init => BootstrapInv
BY DEF B!Init, B!Mounted, BootstrapInv, B!PreviewInStep
----------------------------------------------------------------------------
(* The console. *)

ConsoleInv ==
    /\ DOMAIN ui = {"lang", "code", "editor", "running", "allow", "result", "refused",
                    "viewer"}
    /\ K!EditorsInStep

LEMMA ConsoleStep ==
    ASSUME ConsoleInv, K!Next
    PROVE  ConsoleInv'
<1> USE DEF ConsoleInv, K!EditorsInStep
<1>1. CASE K!MountEditor \/ K!AllowFullScan \/ K!MountViewer
  BY <1>1 DEF K!MountEditor, K!AllowFullScan, K!MountViewer
<1>2. CASE \E c \in Codes : K!TypeCode(c)
  BY <1>2 DEF K!TypeCode
<1>3. CASE \E lang \in Langs : K!Pick(lang)
  BY <1>3 DEF K!Pick
<1>4. CASE \E leave \in BOOLEAN : K!Run(leave)
  BY <1>4 DEF K!Run
<1>5. ASSUME NEW r \in flight, K!Ran(r) PROVE ConsoleInv'
  BY <1>5 DEF K!Ran
<1> QED
  BY <1>1, <1>2, <1>3, <1>4, <1>5 DEF K!Next

LEMMA ConsoleStart == K!Init => ConsoleInv
BY DEF K!Init, ConsoleInv, K!EditorsInStep
----------------------------------------------------------------------------
(* The bytes of a field. *)

TupleInv ==
    /\ {"row", "view"} \subseteq DOMAIN ui
    /\ {"raw", "bytes", "isNull"} \subseteq DOMAIN ui.row
    /\ T!ViewOffered

TupleKeeps ==
    /\ {"row", "view"} \subseteq DOMAIN ui'
    /\ {"raw", "bytes", "isNull"} \subseteq DOMAIN ui'.row
    /\ ui'.view = ui.view /\ ui'.row.bytes = ui.row.bytes

LEMMA TupleKept == TupleInv /\ TupleKeeps => TupleInv'
BY DEF TupleInv, TupleKeeps, T!ViewOffered

\* A form that opens, and one that is gone, shows its bytes as hex.
LEMMA HexOffered ==
    ASSUME ui'.view = "hex", {"row", "view"} \subseteq DOMAIN ui',
           {"raw", "bytes", "isNull"} \subseteq DOMAIN ui'.row
    PROVE  TupleInv'
BY DEF TupleInv, T!ViewOffered, T!Views

LEMMA UnmountedIsHex ==
    /\ {"row", "view"} \subseteq DOMAIN T!Unmounted
    /\ {"raw", "bytes", "isNull"} \subseteq DOMAIN T!Unmounted.row
    /\ T!Unmounted.view = "hex"
BY DEF T!Unmounted, T!Row

LEMMA NewBytesOffered ==
    ASSUME NEW b, NEW u, {"row", "view"} \subseteq DOMAIN u,
           {"raw", "bytes", "isNull"} \subseteq DOMAIN u.row, T!NewBytes(b, u)
    PROVE  TupleInv'
<1> DEFINE row == [u.row EXCEPT !.bytes = b]
           view == IF u.view \in T!Views(b) THEN u.view ELSE "hex"
<1>1. ui' = [u EXCEPT !.row = row, !.touched = TRUE, !.badText = FALSE, !.view = view]
  BY DEF T!NewBytes
<1>2. row.bytes = b /\ {"raw", "bytes", "isNull"} \subseteq DOMAIN row
  OBVIOUS
<1>3. view \in T!Views(b)
  BY DEF T!Views
<1> HIDE DEF row, view
<1> QED
  BY <1>1, <1>2, <1>3 DEF TupleInv, T!ViewOffered

LEMMA TupleStep ==
    ASSUME TupleInv, T!Next
    PROVE  TupleInv'
<1>1. CASE T!ToggleNull
  <2>1. TupleKeeps
    BY <1>1 DEF T!ToggleNull, TupleKeeps, TupleInv
  <2> QED
    BY <2>1, TupleKept
<1>2. CASE T!TypeBadBase64 \/ T!Submit \/ \E b \in Bytes : T!PickFile(b)
  <2>1. TupleKeeps
    BY <1>2 DEF T!TypeBadBase64, T!Submit, T!PickFile, TupleKeeps, TupleInv
  <2> QED
    BY <2>1, TupleKept
<1>3. CASE T!Close \/ \E r \in flight : T!WriteAnswered(r)
  <2>1. ui' = ui \/ ui' = T!Unmounted
    BY <1>3 DEF T!Close, T!WriteAnswered
  <2> QED
    BY <2>1, UnmountedIsHex, HexOffered DEF TupleInv, T!ViewOffered
<1>4. ASSUME NEW f \in T!Fields, NEW mode, T!Open(f, mode) PROVE TupleInv'
  <2>1. PICK v : ui' = [T!Unmounted EXCEPT !.visible = TRUE, !.mode = mode, !.field = f,
                                           !.initial = v, !.row = T!Row(f, mode, v)]
    BY <1>4 DEF T!Open
  <2>2. {"raw", "bytes", "isNull"} \subseteq DOMAIN T!Row(f, mode, v)
    BY DEF T!Row
  <2> QED
    BY <2>1, <2>2, UnmountedIsHex, HexOffered
<1>5. ASSUME NEW t \in Words, T!TypeText(t) PROVE TupleInv'
  <2>1. ui' = [ui EXCEPT !.row = [ui.row EXCEPT !.raw = t], !.touched = TRUE,
                         !.badText = FALSE]
    BY <1>5 DEF T!TypeText, T!Edits
  <2>2. TupleKeeps
    BY <2>1 DEF TupleKeeps, TupleInv
  <2> QED
    BY <2>2, TupleKept
<1>6. ASSUME NEW v, T!SwitchView(v) PROVE TupleInv'
  BY <1>6 DEF T!SwitchView, TupleInv, T!ViewOffered
<1>7. ASSUME NEW b \in Bytes, T!TypeBytes(b) \/ T!FileRead(b) PROVE TupleInv'
  <2>1. CASE T!TypeBytes(b)
    BY <2>1, NewBytesOffered DEF T!TypeBytes, TupleInv
  <2>2. CASE T!FileRead(b)
    <3> DEFINE u == [ui EXCEPT !.reading = ui.reading \ {b}]
    <3>1. T!NewBytes(b, u)
      BY <2>2 DEF T!FileRead
    <3>2. {"row", "view"} \subseteq DOMAIN u
          /\ {"raw", "bytes", "isNull"} \subseteq DOMAIN u.row
      BY DEF TupleInv
    <3> QED
      BY <3>1, <3>2, NewBytesOffered
  <2> QED
    BY <1>7, <2>1, <2>2
<1> QED
  BY <1>1, <1>2, <1>3, <1>4, <1>5, <1>6, <1>7 DEF T!Next

LEMMA TupleStart == T!Init => TupleInv
BY UnmountedIsHex DEF T!Init, TupleInv, T!ViewOffered, T!Views
----------------------------------------------------------------------------
(* All pages. *)

IInv ==
    /\ page = "logs" => LogsInv
    /\ page = "sql" => SqlInv
    /\ page = "config" => ConfigInv
    /\ page = "bootstrap" => BootstrapInv
    /\ page = "console" => ConsoleInv
    /\ page = "tuple" => TupleInv

LEMMA LogsStart == L!Init => LogsInv
<1> SUFFICES ASSUME L!Init PROVE LogsInv
  OBVIOUS
<1>1. PICK restored \in BOOLEAN : ui = L!Mounted(backend, restored)
  BY DEF L!Init
<1>2. backend \in L!Prefs
  BY DEF L!Init
<1> QED
  BY <1>1, <1>2, LogsMounted DEF LogsInv, L!ViewerInStep, Alone, L!NoTimer

LEMMA Starts == Init => IInv
BY LogsStart, SqlStart, ConfigStart, BootstrapStart, ConsoleStart, TupleStart DEF Init, IInv

LEMMA Stutters ==
    ASSUME IInv, UNCHANGED vars
    PROVE  IInv'
BY DEF IInv, vars, LogsInv, Alone, L!NoTimer, L!Prefs, L!ViewerInStep, SqlInv,
       S!RunsWhatIsShown, ConfigInv, E!EditorInStep, BootstrapInv, B!PreviewInStep,
       ConsoleInv, K!EditorsInStep, TupleInv, T!ViewOffered, T!Views, T!Decodes

LEMMA Steps == IInv /\ [Next]_vars => IInv'
<1> SUFFICES ASSUME IInv, [Next]_vars PROVE IInv'
  OBVIOUS
<1>1. CASE UNCHANGED vars
  BY <1>1, Stutters
<1>2. CASE Next
  <2>1. /\ page' = page
        /\ page = "sql" => S!Next
        /\ page = "logs" => L!Next
        /\ page = "config" => E!Next
        /\ page = "bootstrap" => B!Next
        /\ page = "console" => K!Next
        /\ page = "tuple" => T!Next
    BY <1>2, PageSteps
  <2> QED
    BY <2>1, LogsStep, SqlStep, ConfigStep, BootstrapStep, ConsoleStep, TupleStep DEF IInv
<1> QED
  BY <1>1, <1>2

\* The invariant behind the editors, viewers and timers of all pages.
THEOREM ShownIsHeld == Spec => []IInv
<1> QED
  BY Starts, Steps, PTL DEF Spec

\* What an editor or viewer shows is what its page holds, in Bootstrap the template
\* rendered last, whichever of typing, loads and its own late arrival came last
\* (CodeEditor.vue, LogViewer.vue, Sql.vue, DiffViewer.vue, Bootstrap.vue).
THEOREM EditorsInStep == Spec => []EditorInStep
<1>1. IInv => EditorInStep
  BY SqlMeans DEF IInv, EditorInStep, ConfigInv, LogsInv, BootstrapInv, ConsoleInv
<1> QED
  BY <1>1, ShownIsHeld, PTL

\* The live tail runs on one timer, of the period on show, through any toggles,
\* periods and visits (Logs.vue, startTimer and stopTimer).
THEOREM TailIsOne == Spec => []OneTail
<1>1. IInv => OneTail
  BY DEF IInv, OneTail, L!OneTail, LogsInv, Alone
<1> QED
  BY <1>1, ShownIsHeld, PTL

\* Result, banner and spinner of the SQL page are those of the run started last
\* (Sql.vue, runQuery).
THEOREM LastRunIsShown == Spec => []ResultOfLastRun
<1>1. IInv => ResultOfLastRun
  BY SqlMeans DEF IInv, ResultOfLastRun
<1> QED
  BY <1>1, ShownIsHeld, PTL

\* The bytes of a field are shown in a view offered for them, whatever files were
\* read meanwhile (BinaryField.vue).
THEOREM ViewsAreOffered == Spec => []ViewOffered
<1>1. IInv => ViewOffered
  BY DEF IInv, ViewOffered, TupleInv
<1> QED
  BY <1>1, ShownIsHeld, PTL
============================================================================
