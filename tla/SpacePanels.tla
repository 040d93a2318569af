---------------------------- MODULE SpacePanels ----------------------------
(* The three panels above the grid of the data explorer: statistics               *)
(* (SpaceStatsPanel.vue), the sequence (SequencePanel.vue) and the indexes          *)
(* (IndexesPanel.vue) of the space the explorer shows.  The explorer only hands     *)
(* them another space; what they show and ask for is theirs to keep in step.  They  *)
(* share nothing else, so an execution uses one of the three.                       *)
EXTENDS Browser

CONSTANTS
    Tables, NoTable,         \* the spaces, and what nothing is the name of
    SequenceOf,              \* the sequence attached to each space, or NoTable
    Indexes                  \* names of indexes, the same in every space

\* What the sequence panel asks of the backend.
SequenceOperations == {"sequence", "set", "reset", "alter", "drop"}

SequenceNames == {SequenceOf[t] : t \in Tables}
Actions == {"min", "stat"}
Operations == {"stats", "index"} \cup SequenceOperations
NoResult == [of |-> NoTable, index |-> NoTable, action |-> "none"]

FreshSequence ==
    [open |-> FALSE, info |-> NoTable, loading |-> FALSE,
     dialog |-> "none",          \* the dialog that is open: set, alter or drop
     pending |-> {},             \* the dialogs whose mutation has no answer yet
     filled |-> NoTable,         \* whose parameters fill the alter dialog
     typed |-> NoTable]          \* the name typed into the drop dialog

Init ==
    /\ ui \in [space : Tables, used : {"stats", "sequence", "indexes"}, statsOpen : {FALSE},
               stats : {NoTable}, statsLoading : {FALSE}, seq : {FreshSequence},
               menu : {NoTable}, menuShown : {FALSE}, busy : {NoTable},
               results : [Indexes -> {NoResult}], statDialog : {NoTable}]
    /\ flight = {}
    /\ backend = "up"

Modal == ui.seq.dialog # "none" \/ ui.statDialog # NoTable
Named(u) == SequenceOf[u.space]

\* load() of the statistics; an equal query may be answered from the cache.
StatsQuery(u) == [op |-> "stats", of |-> u.space]
SequenceQuery(u) == [op |-> "sequence", of |-> Named(u)]

\* The watchers run when the space or the fold of their panel changes: what is on
\* show already is not asked for again.
StatsDue(u) == u.statsOpen /\ u.stats # u.space
SequenceDue(u) == u.seq.open /\ Named(u) # NoTable /\ u.seq.info # Named(u)

\* The explorer shows another space.  Without a sequence the panel is unmounted,
\* and what it still asks for is answered to nobody.
ShowSpace(t) ==
    /\ t # ui.space
    /\ LET s == [ui EXCEPT !.space = t]
           u == IF Named(s) = NoTable THEN [s EXCEPT !.seq = FreshSequence] ELSE s
           kept == {r \in flight : r.op \in {"stats", "index"} \/ Named(u) # NoTable}
       IN  /\ ui' = [u EXCEPT !.statsLoading = StatsDue(u) \/ @,
                              !.seq.loading = SequenceDue(u) \/ @]
           /\ Sends(kept \cup {q \in {StatsQuery(u)} : StatsDue(u)}
                         \cup {q \in {SequenceQuery(u)} : SequenceDue(u)})
    /\ UNCHANGED backend

FoldStats ==
    /\ ui.used = "stats"
    /\ LET u == [ui EXCEPT !.statsOpen = ~@]
       IN  /\ ui' = [u EXCEPT !.statsLoading = StatsDue(u) \/ @]
           /\ Sends(flight \cup {q \in {StatsQuery(u)} : StatsDue(u)})
    /\ UNCHANGED backend

FoldSequence ==
    /\ ui.used = "sequence"
    /\ ~Modal
    /\ Named(ui) # NoTable
    /\ LET u == [ui EXCEPT !.seq.open = ~@]
       IN  /\ ui' = [u EXCEPT !.seq.loading = SequenceDue(u) \/ @]
           /\ Sends(flight \cup {q \in {SequenceQuery(u)} : SequenceDue(u)})
    /\ UNCHANGED backend

\* An answer is shown whatever space is shown by now.
StatsAnswered(r) ==
    /\ r.op = "stats"
    /\ Answered(r)
    /\ \E shown \in {ui.stats, r.of} :
          ui' = [ui EXCEPT !.statsLoading = FALSE, !.stats = shown]
    /\ UNCHANGED backend

SequenceAnswered(r) ==
    /\ r.op = "sequence"
    /\ Answered(r)
    /\ \E shown \in {ui.seq.info, r.of, NoTable} :
          ui' = [ui EXCEPT !.seq.loading = FALSE, !.seq.info = shown]
    /\ UNCHANGED backend

\* The buttons are there once some sequence is on show.
Buttons == ~Modal /\ ui.seq.open /\ ui.seq.info # NoTable

ReloadSequence ==
    /\ Buttons
    /\ ~ui.seq.loading
    /\ ui' = [ui EXCEPT !.seq.loading = TRUE]
    /\ Queries(SequenceQuery(ui))
    /\ UNCHANGED backend

\* openSet(), openAlter() and openDropConfirm().
OpenDialog(d) ==
    /\ Buttons
    /\ ui' = [ui EXCEPT !.seq.dialog = d,
                        !.seq.typed = NoTable,
                        !.seq.filled = IF d = "alter" THEN ui.seq.info ELSE NoTable]
    /\ UNCHANGED <<flight, backend>>

TypeSequence(name) ==
    /\ ui.seq.dialog = "drop"
    /\ ui' = [ui EXCEPT !.seq.typed = name]
    /\ UNCHANGED <<flight, backend>>

\* Mutant: no dialog waits for its answer.
NeverWaits == FALSE

\* Only the drop dialog waits for its answer.
Waits == ui.seq.dialog = "drop" /\ "drop" \in ui.seq.pending

CloseDialog ==
    /\ ui.seq.dialog # "none"
    /\ ~Waits
    /\ ui' = [ui EXCEPT !.seq.dialog = "none", !.seq.filled = NoTable,
                        !.seq.typed = NoTable]
    /\ UNCHANGED <<flight, backend>>

\* The mutation names the sequence on show by now.  Enter sends a value again while
\* the first is on its way; a value that is no integer is refused, and a parameter
\* that is none is replaced by the one on show.
Confirm ==
    /\ ui.seq.info # NoTable
    /\ \/ ui.seq.dialog = "set"
       \/ ui.seq.dialog = "alter" /\ "alter" \notin ui.seq.pending
       \/ /\ ui.seq.dialog = "drop"
          /\ ui.seq.typed = ui.seq.info
          /\ "drop" \notin ui.seq.pending
    /\ ui' = [ui EXCEPT !.seq.pending = @ \cup {ui.seq.dialog}]
    /\ Posts([op |-> ui.seq.dialog, of |-> ui.seq.info, typed |-> ui.seq.typed,
              filled |-> ui.seq.filled, n |-> 0])
    /\ UNCHANGED backend

ResetSequence ==
    /\ Buttons
    /\ Posts([op |-> "reset", of |-> ui.seq.info, typed |-> NoTable,
              filled |-> NoTable, n |-> 0])
    /\ UNCHANGED <<ui, backend>>

\* Done: the dialog of that name closes and the panel asks for its sequence again,
\* which a drop has left without one.  Refused: only the drop dialog closes.
MutationAnswered(r) ==
    /\ r.op \in {"set", "alter", "drop", "reset"}
    /\ LET here == ui.seq.dialog = r.op
           shut(u) == IF here THEN [u EXCEPT !.seq.dialog = "none", !.seq.typed = NoTable,
                                             !.seq.filled = NoTable] ELSE u
           u == [ui EXCEPT !.seq.pending = @ \ {r.op}]
       IN  \/ /\ ui' = IF r.op = "drop" THEN shut(u) ELSE u
              /\ Answered(r)
           \/ /\ ui' = [shut(u) EXCEPT !.seq.loading = TRUE,
                                       !.seq.info = IF r.op = "drop" THEN NoTable ELSE @]
              /\ Sends((flight \ {r}) \cup {SequenceQuery(ui)})
    /\ UNCHANGED backend

\* One menu for all rows: it acts on the row it was opened at last.
OpenMenu(i) ==
    /\ ui.used = "indexes"
    /\ ~Modal
    /\ ui.busy # i
    /\ ui' = [ui EXCEPT !.menu = i, !.menuShown = TRUE]
    /\ UNCHANGED <<flight, backend>>

RunAction(a) ==
    /\ ~Modal
    /\ ui.menuShown
    /\ ui' = [ui EXCEPT !.busy = ui.menu, !.menuShown = FALSE]
    /\ Queries([op |-> "index", of |-> ui.space, index |-> ui.menu, action |-> a])
    /\ UNCHANGED backend

\* Mutant: the result goes to the row the menu is open at by now.
MenuRow(r) == ui.menu

\* The result goes to the row that asked for it, wherever the menu is by now.
Row(r) == r.index

ActionAnswered(r) ==
    /\ r.op = "index"
    /\ Answered(r)
    /\ \/ ui' = [ui EXCEPT !.busy = NoTable]
       \/ ui' = [ui EXCEPT !.busy = NoTable,
                           !.results[Row(r)] = [of |-> r.of, index |-> r.index,
                                                action |-> r.action],
                           !.statDialog = IF r.action = "stat" THEN Row(r) ELSE @]
    /\ UNCHANGED backend

ClearResult(i) ==
    /\ ~Modal
    /\ ui.results[i] # NoResult
    /\ ui' = [ui EXCEPT !.results[i] = NoResult]
    /\ UNCHANGED <<flight, backend>>

CloseStat ==
    /\ ui.statDialog # NoTable
    /\ ui' = [ui EXCEPT !.statDialog = NoTable]
    /\ UNCHANGED <<flight, backend>>

Next ==
    \/ FoldStats \/ FoldSequence \/ ReloadSequence \/ CloseDialog \/ Confirm
    \/ ResetSequence \/ CloseStat
    \/ \E t \in Tables : ShowSpace(t)
    \/ \E d \in {"set", "alter", "drop"} : OpenDialog(d)
    \/ \E name \in SequenceNames : TypeSequence(name)
    \/ \E i \in Indexes : OpenMenu(i) \/ ClearResult(i)
    \/ \E a \in Actions : RunAction(a)
    \/ \E r \in flight :
          \/ StatsAnswered(r) \/ SequenceAnswered(r) \/ MutationAnswered(r)
          \/ ActionAnswered(r)

Spec == Init /\ [][Next]_pageVars
----------------------------------------------------------------------------
\* One menu, one spinner, many rows: a result stands in the row of the index it was
\* asked for, though the menu is open at another by the time of the answer, and a row
\* spins only while a request about it is on its way (IndexesPanel.vue:86-123).
ResultUnderItsIndex ==
    /\ \A i \in Indexes : ui.results[i].index \in {i, NoTable}
    /\ ui.busy # NoTable => \E r \in InFlight("index") : r.index = ui.busy

\* A drop travels alone, for the sequence that was typed, under the dialog it was
\* confirmed in: no late answer, of a load that puts another sequence on show or of
\* an earlier mutation, closes that dialog or lets the drop be sent again
\* (SequencePanel.vue:193-251 and 431-447).
DropAsTyped ==
    \A r \in InFlight("drop") :
        /\ InFlight("drop") = {r}
        /\ ui.seq.dialog = "drop"
        /\ r.typed = r.of
============================================================================
