-------------------------------- MODULE Logs -------------------------------
(* The log page (Logs.vue) and its viewer (LogViewer.vue): filters, a debounced      *)
(* reload, an optional live tail on an interval timer, and preferences kept over      *)
(* visits in the browser's storage.                                                  *)
EXTENDS Browser

CONSTANTS
    Filters,           \* instance, level, search and tail length, taken together
    Periods            \* lengths of the live tail's interval

Prefs == [filter : Filters, live : BOOLEAN, period : Periods]

\* backend stands for the browser's storage: the preferences as they were saved.
Kept == backend

Lines(f) == [op |-> "lines", filter |-> f, n |-> 1]

\* Intervals that run, and the one that `timer` names, by number and period.
NoTimer == [n |-> 0, period |-> 0]
\* Mutant: the interval is forgotten and not cleared.
Forgotten(t) == [t EXCEPT !.named = NoTimer]

Stopped(t) == [t EXCEPT !.live = @ \ {t.named}, !.named = NoTimer]
Fresh(t) == CHOOSE n \in 1..Cardinality(t.live) + 1 : \A i \in t.live : i.n # n

\* startTimer: stopTimer first, then an interval if the tail is live.
Started(t, live, period) ==
    LET stopped == Stopped(t)
        interval == [n |-> Fresh(stopped), period |-> period]
    IN  IF live THEN [live |-> stopped.live \cup {interval}, named |-> interval]
        ELSE stopped

\* onMounted: the preferences, a first load and the timer, which the watchers of the
\* restored preferences then start again; they also reload, if a filter is restored.
Mounted(p, restored) ==
    LET once == Started([live |-> {}, named |-> NoTimer], p.live, p.period)
    IN  [filter |-> p.filter, live |-> p.live, period |-> p.period,
         timer |-> IF restored THEN Started(once, p.live, p.period) ELSE once,
         debounce |-> restored,    \* a reload waits for the typing to pause
         loading |-> TRUE, shown |-> {},
         viewer |-> [up |-> FALSE, text |-> {}]]     \* monaco's own text

Init ==
    /\ backend \in Prefs
    /\ \E restored \in BOOLEAN : ui = Mounted(backend, restored)
    /\ flight = {Lines(backend.filter)}

\* The watchers of a preference that changed, in the order they are set up: the
\* timer, the debounced reload for a filter, the storage.
Watched(u) ==
    /\ ui' = u
    /\ backend' = [filter |-> u.filter, live |-> u.live, period |-> u.period]

SetFilter(f) ==
    /\ f # ui.filter
    /\ Watched([ui EXCEPT !.filter = f, !.debounce = TRUE])
    /\ UNCHANGED flight

\* The instance and severity pickers load at once besides.
PickFilter(f) ==
    /\ f # ui.filter
    /\ Watched([ui EXCEPT !.filter = f, !.debounce = TRUE, !.loading = TRUE])
    /\ Posts(Lines(f))

ToggleLive ==
    /\ Watched([ui EXCEPT !.live = ~@,
                          !.timer = IF ui.live THEN Stopped(@)
                                    ELSE Started(@, TRUE, ui.period)])
    /\ UNCHANGED flight

\* The field is disabled while the tail is not live.
SetPeriod(p) ==
    /\ ui.live
    /\ p # ui.period
    /\ Watched([ui EXCEPT !.period = p, !.timer = Started(@, TRUE, p)])
    /\ UNCHANGED flight

Load(u) ==
    /\ ui' = [u EXCEPT !.loading = TRUE]
    /\ Posts(Lines(ui.filter))
    /\ UNCHANGED backend

\* Enter in the search field does not look at loading, the button is disabled by it.
Reload == Load(ui)

DebounceFires == ui.debounce /\ Load([ui EXCEPT !.debounce = FALSE])

Tick == ui.timer.live # {} /\ ~ui.loading /\ Load(ui)

\* loading falls with the first answer, though others may be on their way.
LoadAnswered(r) ==
    /\ r.op = "lines"
    /\ Answered(r)
    /\ \E shown \in {ui.shown, {r.filter}} :
          ui' = [ui EXCEPT !.loading = FALSE, !.shown = shown,
                           !.viewer.text = IF ui.viewer.up THEN shown ELSE @]
    /\ UNCHANGED backend

\* The viewer is created on the lines there are once monaco's modules have come.
MountViewer ==
    /\ ~ui.viewer.up
    /\ ui' = [ui EXCEPT !.viewer = [up |-> TRUE, text |-> ui.shown]]
    /\ UNCHANGED <<flight, backend>>

\* Leaving clears the interval but not the debounce; coming back mounts anew from
\* what was saved.  Lines that were asked for are heard by nobody.
Revisit ==
    /\ \E restored \in BOOLEAN : ui' = Mounted(Kept, restored)
    /\ flight' = {Lines(Kept.filter)}
    /\ UNCHANGED backend

Next ==
    \/ ToggleLive \/ Reload \/ DebounceFires \/ Tick \/ MountViewer \/ Revisit
    \/ \E f \in Filters : SetFilter(f) \/ PickFilter(f)
    \/ \E p \in Periods : SetPeriod(p)
    \/ \E r \in flight : LoadAnswered(r)

Spec == Init /\ [][Next]_pageVars
----------------------------------------------------------------------------
\* The live tail runs on one timer of the period shown while it is on, and on none
\* while it is off, through toggles, changed periods and restored preferences
\* (Logs.vue:156-176, 217-224).
OneTail ==
    /\ ui.timer.live = {ui.timer.named} \ {NoTimer}
    /\ ui.timer.named.period = IF ui.live THEN ui.period ELSE 0

\* The lines in the viewer are the lines of the page, whenever it came up
\* (LogViewer.vue:125-132, 219-228).
ViewerInStep == ui.viewer.up => ui.viewer.text = ui.shown
============================================================================
