-------------------------------- MODULE Sql --------------------------------
(* The SQL page (Sql.vue): a text in an editor that is loaded after the page, run  *)
(* and explained through REST calls, with a library of saved texts.                *)
EXTENDS Browser

CONSTANTS
    Sqls,              \* texts, the built-in snippets among them
    Scans,             \* those the backend refuses without leave for a full scan
    NoSql

Library == [op |-> "library"]

Init ==
    /\ backend = {}                      \* the saved texts
    /\ ui \in [sql : Sqls, editor : {NoSql},        \* currentSql, monaco's own text
               running : {FALSE}, result : {NoSql}, banner : {FALSE},
               allow : {FALSE}, last : {NoSql},     \* the text last sent to run
               explaining : {FALSE}, plan : {NoSql},
               saved : {{}}, dialog : {FALSE}, named : {FALSE}, saving : {FALSE}]
    /\ flight = {Library}

\* Monaco is created on currentSql once its modules have come.
MountEditor ==
    /\ ui.editor = NoSql
    /\ ui' = [ui EXCEPT !.editor = ui.sql]
    /\ UNCHANGED <<flight, backend>>

\* Typing reaches monaco first and currentSql through its change event.
TypeSql(t) ==
    /\ ~ui.dialog
    /\ ui.editor \notin {NoSql, t}
    /\ ui' = [ui EXCEPT !.editor = t, !.sql = t]
    /\ UNCHANGED <<flight, backend>>

\* Mutant: the editor is not told.
LoadedSilently(t) == [ui EXCEPT !.sql = t]

Loaded(t) ==
    [ui EXCEPT !.sql = t, !.editor = IF @ = NoSql THEN NoSql ELSE t]

LoadIntoEditor(t) ==
    /\ ~ui.dialog
    /\ t # ui.sql
    /\ ui' = Loaded(t)
    /\ UNCHANGED <<flight, backend>>

AllowFullScan ==
    /\ ~ui.dialog
    /\ ui' = [ui EXCEPT !.allow = ~@]
    /\ UNCHANGED <<flight, backend>>

\* Run, Cmd+Enter in the editor, or the banner's button with leave for a full scan.
RunQuery(leave) ==
    /\ ~ui.dialog
    /\ leave => ui.banner
    /\ ~ui.running
    /\ ui' = [ui EXCEPT !.running = TRUE, !.banner = FALSE, !.last = ui.sql]
    /\ Posts([op |-> "run", sql |-> ui.sql, scan |-> leave \/ ui.allow, n |-> 0])
    /\ UNCHANGED backend

QueryRan(r) ==
    /\ r.op = "run"
    /\ Answered(r)
    /\ ui' = [ui EXCEPT !.running = FALSE, !.result = r.sql,
                        !.banner = r.sql \in Scans /\ ~r.scan]
    /\ UNCHANGED backend

\* Mutant: a failed run leaves the result before it on show.
QueryFailedKept(r) ==
    /\ r.op = "run"
    /\ Answered(r)
    /\ ui' = [ui EXCEPT !.running = FALSE]
    /\ UNCHANGED backend

QueryFailed(r) ==
    /\ r.op = "run"
    /\ Answered(r)
    /\ ui' = [ui EXCEPT !.running = FALSE, !.result = NoSql]
    /\ UNCHANGED backend

RunExplain ==
    /\ ~ui.dialog
    /\ ~ui.explaining
    /\ ui' = [ui EXCEPT !.explaining = TRUE]
    /\ Posts([op |-> "explain", sql |-> ui.sql, n |-> 0])
    /\ UNCHANGED backend

Explained(r) ==
    /\ r.op = "explain"
    /\ Answered(r)
    /\ \E plan \in {r.sql, NoSql} : ui' = [ui EXCEPT !.explaining = FALSE, !.plan = plan]
    /\ UNCHANGED backend

LibraryAnswered(r) ==
    /\ r = Library
    /\ Answered(r)
    /\ \E saved \in {ui.saved, backend} : ui' = [ui EXCEPT !.saved = saved]
    /\ UNCHANGED backend

OpenSaveDialog ==
    /\ ~ui.dialog
    /\ ui' = [ui EXCEPT !.dialog = TRUE, !.named = FALSE]
    /\ UNCHANGED <<flight, backend>>

NameIt ==
    /\ ui.dialog
    /\ ui' = [ui EXCEPT !.named = ~@]
    /\ UNCHANGED <<flight, backend>>

CloseSaveDialog ==
    /\ ui.dialog
    /\ ui' = [ui EXCEPT !.dialog = FALSE, !.named = FALSE]
    /\ UNCHANGED <<flight, backend>>

\* The dialog can be closed, and opened again, while the text is being saved.
SaveCurrentQuery ==
    /\ ui.dialog /\ ui.named
    /\ ~ui.saving
    /\ ui' = [ui EXCEPT !.saving = TRUE]
    /\ Posts([op |-> "save", sql |-> ui.sql, n |-> 0])
    /\ UNCHANGED backend

DeleteSnippet(t) ==
    /\ ~ui.dialog
    /\ t \in ui.saved
    /\ Posts([op |-> "delete", sql |-> t, n |-> 0])
    /\ UNCHANGED <<ui, backend>>

\* A failure leaves the dialog open; a success closes it and asks for the library,
\* sharing the answer of a query that is on its way already.
LibraryChanged(r) ==
    /\ r.op \in {"save", "delete"}
    /\ backend' = IF r.op = "save" THEN backend \cup {r.sql} ELSE backend \ {r.sql}
    /\ Sends((flight \ {r}) \cup {Library})
    /\ ui' = IF r.op = "delete" THEN ui
             ELSE [ui EXCEPT !.saving = FALSE, !.dialog = FALSE, !.named = FALSE]

ChangeFailed(r) ==
    /\ r.op \in {"save", "delete"}
    /\ Answered(r)
    /\ ui' = IF r.op = "delete" THEN ui ELSE [ui EXCEPT !.saving = FALSE]
    /\ UNCHANGED backend

Next ==
    \/ MountEditor \/ AllowFullScan \/ RunExplain \/ OpenSaveDialog \/ NameIt
    \/ CloseSaveDialog \/ SaveCurrentQuery
    \/ \E t \in Sqls : TypeSql(t) \/ LoadIntoEditor(t) \/ DeleteSnippet(t)
    \/ \E leave \in BOOLEAN : RunQuery(leave)
    \/ \E r \in flight :
          \/ QueryRan(r) \/ QueryFailed(r) \/ Explained(r) \/ LibraryAnswered(r)
          \/ LibraryChanged(r) \/ ChangeFailed(r)

Spec == Init /\ [][Next]_pageVars
----------------------------------------------------------------------------
\* What the page shows for a run is of the run started last, and the banner that
\* offers a full scan is up only for a result that was refused one: no earlier
\* answer is put over a later one (Sql.vue:190-222).
ResultOfLastRun ==
    /\ \A r, s \in InFlight("run") : r = s
    /\ ui.result # NoSql /\ ~ui.running => ui.result = ui.last
    /\ ui.banner => ui.result = ui.last /\ ui.last \in Scans

\* The text that would run is the text in the editor, once there is one
\* (Sql.vue:138-178, 322-325).
RunsWhatIsShown == ui.editor # NoSql => ui.editor = ui.sql
============================================================================
