--------------------------- MODULE ConfigEditor ----------------------------
(* The configuration page (ConfigEditor.vue, HistoryPanel.vue, CodeEditor.vue,      *)
(* DiffViewer.vue): a text is edited, previewed, which the backend answers with the  *)
(* id of a prepared document, and applied by that id; past revisions are viewed,     *)
(* compared, rolled back to and re-applied.  The backend is the two-phase commit of config_store/twophase.lua    *)
(* and its resolvers, with other operators at work.  Left out: validating without    *)
(* a preview, the download, and a timeline that lags behind or has lost old          *)
(* revisions; it may show any revision up to the newest.                             *)
EXTENDS Browser, Sequences

CONSTANTS
    Texts,             \* bodies of cluster.yaml
    Broken,            \* the ones validation refuses
    NoText, NoEditor,  \* the empty text, and no editor to hold one
    MaxRevision,       \* bound: revisions of the configuration
    MaxPrepared        \* bound: ids of prepared documents

Revisions == 1..MaxRevision
\* What the page asks of the backend.
Operations == {"load", "revision", "propose", "commit", "abort", "rollback", "force"}
Load == [op |-> "load"]
Doc(id) == CHOOSE p \in backend.prepared : p.id = id
Known(id) == \E p \in backend.prepared : p.id = id
Newest == Len(backend.log)

\* The comparison: whether its editors show what its title names, and how many
\* are still being loaded.
ClosedViewer == [open |-> FALSE, shows |-> "nothing", mounts |-> 0]

Init ==
    /\ backend \in [log : {<<t>> : t \in Texts \ Broken}, prepared : {{}}, ids : {0}]
    /\ ui = [yaml |-> NoText, editor |-> NoEditor,    \* the page's text, monaco's own
             revision |-> 0, prepared |-> 0, diff |-> FALSE,
             busy |-> {},        \* preparing, committing, rollback, force
             wait |-> {},        \* those of busy that wait for the reload
             rollback |-> 0, force |-> 0, typed |-> 0,
             viewer |-> ClosedViewer]
    /\ flight = {Load}

Modal == ui.rollback # 0 \/ ui.force # 0 \/ ui.viewer.open

\* Monaco is created on the text of the page once its modules have come.
MountEditor ==
    /\ ui.editor = NoEditor
    /\ ui' = [ui EXCEPT !.editor = ui.yaml]
    /\ UNCHANGED <<flight, backend>>

\* What is typed reaches the page through the change event.
Edit(t) ==
    /\ ~Modal
    /\ ui.editor \notin {NoEditor, t}
    /\ ui' = [ui EXCEPT !.editor = t, !.yaml = t]
    /\ UNCHANGED <<flight, backend>>

\* A text of the page reaches an editor through the watch of its model, which keeps
\* the change from coming back.
Showing(u, t) ==
    [u EXCEPT !.yaml = t, !.editor = IF @ = NoEditor THEN NoEditor ELSE t]

Reload ==
    /\ ~Modal
    /\ Queries(Load)
    /\ UNCHANGED <<ui, backend>>

\* The end of an operation lowers its flag, and closes the dialog it was asked in.
Ended(u, ops) ==
    [u EXCEPT !.busy = @ \ ops, !.wait = @ \ ops,
              !.rollback = IF "rollback" \in ops THEN 0 ELSE @,
              !.force = IF "force" \in ops THEN 0 ELSE @,
              !.typed = IF {"rollback", "force"} \cap ops # {} THEN 0 ELSE @]

\* The text of the backend replaces the text of the editor.  What waited for the
\* reload ends with it, well or not.
LoadAnswered(r) ==
    /\ r = Load
    /\ Answered(r)
    /\ \/ ui' = Ended(ui, ui.wait)
       \/ ui' = Ended([Showing(ui, backend.log[Newest]) EXCEPT !.revision = Newest], ui.wait)
    /\ UNCHANGED backend

\* preview(): the diff on show goes, the document prepared before stays.
Preview ==
    /\ ~Modal
    /\ "preparing" \notin ui.busy
    /\ ui' = [ui EXCEPT !.busy = @ \cup {"preparing"}, !.diff = FALSE]
    /\ Posts([op |-> "propose", text |-> ui.yaml, n |-> 0])
    /\ UNCHANGED backend

\* Refused (no change, or not valid), or failed: nothing is prepared.
PreviewRefused(r) ==
    /\ r.op = "propose"
    /\ Answered(r)
    /\ ui' = [ui EXCEPT !.busy = @ \ {"preparing"}]
    /\ UNCHANGED backend

Previewed(r) ==
    /\ r.op = "propose"
    /\ r.text \in Texts \ Broken
    /\ r.text # backend.log[Newest]
    /\ backend.ids < MaxPrepared
    /\ LET id == backend.ids + 1
       IN  /\ backend' = [backend EXCEPT
                 !.ids = id, !.prepared = @ \cup {[id |-> id, text |-> r.text,
                                                   base |-> Newest]}]
           /\ ui' = [ui EXCEPT !.busy = @ \ {"preparing"}, !.prepared = id,
                               !.diff = TRUE]
    /\ Answered(r)

Apply ==
    /\ ~Modal
    /\ ui.prepared # 0
    /\ "commit" \notin ui.busy
    /\ ui' = [ui EXCEPT !.busy = @ \cup {"commit"}]
    /\ Posts([op |-> "commit", id |-> ui.prepared, n |-> 0])
    /\ UNCHANGED backend

\* commit() writes the prepared document over whatever the store holds by now.
Lands(r) == Known(r.id) /\ Newest < MaxRevision
Written(text) == [backend EXCEPT !.log = Append(@, text)]
Committed(r) ==
    backend' = [Written(Doc(r.id).text) EXCEPT !.prepared = @ \ {Doc(r.id)}]

ApplyAnswered(r) ==
    /\ r.op = "commit"
    /\ Lands(r)
    /\ Committed(r)
    /\ ui' = [ui EXCEPT !.prepared = 0, !.diff = FALSE, !.wait = @ \cup {"commit"}]
    /\ Sends((flight \ {r}) \cup {Load})

\* Not applied, or applied and the answer lost: the id stays.
ApplyFailed(r) ==
    /\ r.op = "commit"
    /\ UNCHANGED backend \/ (Lands(r) /\ Committed(r))
    /\ ui' = [ui EXCEPT !.busy = @ \ {"commit"}]
    /\ Answered(r)

Abort ==
    /\ ~Modal
    /\ ui.prepared # 0
    /\ Posts([op |-> "abort", id |-> ui.prepared, n |-> 0])
    /\ UNCHANGED <<ui, backend>>

\* Whatever came of it, nothing is prepared any more in this page.
AbortAnswered(r) ==
    /\ r.op = "abort"
    /\ Answered(r)
    /\ ui' = [ui EXCEPT !.prepared = 0, !.diff = FALSE]
    /\ \/ UNCHANGED backend
       \/ backend' = [backend EXCEPT !.prepared = {p \in @ : p.id # r.id}]

\* A row of the timeline: into the editor, or against the current text or the
\* revision before it.
AskRevision(rev, use) ==
    /\ ~Modal
    /\ rev <= Newest
    /\ use = "compare" => rev # ui.revision \/ rev > 1
    /\ Posts([op |-> "revision", rev |-> rev, use |-> use, n |-> 0])
    /\ UNCHANGED <<ui, backend>>

\* The viewer loads its editors when it is opened; while it is open only its title
\* is replaced.
Comparing ==
    [ui.viewer EXCEPT !.open = TRUE,
                      !.mounts = IF ui.viewer.open THEN @ ELSE @ + 1,
                      !.shows = IF @ = "nothing" THEN @ ELSE "another comparison"]

\* The current text of a comparison is what the editor holds.
RevisionAnswered(r) ==
    /\ r.op = "revision"
    /\ Answered(r)
    /\ \/ UNCHANGED ui
       \/ r.use = "view" /\ ui' = Showing(ui, backend.log[r.rev])
       \/ /\ r.use = "compare"
          /\ Comparing.mounts <= MaxFlight
          /\ ui' = [ui EXCEPT !.viewer = Comparing]
    /\ UNCHANGED backend

\* Editors that come after the viewer was closed find no place to go.
DiffMounted ==
    /\ ui.viewer.mounts > 0
    /\ ui' = [ui EXCEPT !.viewer.mounts = @ - 1,
                        !.viewer.shows = IF ui.viewer.open THEN "its title" ELSE "nothing"]
    /\ UNCHANGED <<flight, backend>>

CloseViewer ==
    /\ ui.viewer.open
    /\ ui' = [ui EXCEPT !.viewer = [ClosedViewer EXCEPT !.mounts = ui.viewer.mounts]]
    /\ UNCHANGED <<flight, backend>>

\* The two dialogs that ask for the number of the revision.
OpenRollback(rev) ==
    /\ ~Modal
    /\ rev <= Newest
    /\ rev # ui.revision
    /\ ui' = [ui EXCEPT !.rollback = rev, !.typed = 0]
    /\ UNCHANGED <<flight, backend>>

OpenForce(rev) ==
    /\ ~Modal
    /\ rev <= Newest
    /\ ui' = [ui EXCEPT !.force = rev, !.typed = 0]
    /\ UNCHANGED <<flight, backend>>

\* Mutant: the dialog does not wait for a rollback.
PendingForce == "force" \in ui.busy

Pending == {"rollback", "force"} \cap ui.busy # {}

TypeRevision(rev) ==
    /\ ui.rollback # 0 \/ ui.force # 0
    /\ ~Pending
    /\ ui' = [ui EXCEPT !.typed = rev]
    /\ UNCHANGED <<flight, backend>>

Cancel ==
    /\ ui.rollback # 0 \/ ui.force # 0
    /\ ~Pending
    /\ ui' = [ui EXCEPT !.rollback = 0, !.force = 0, !.typed = 0]
    /\ UNCHANGED <<flight, backend>>

ConfirmRollback ==
    /\ ui.rollback # 0
    /\ ui.typed = ui.rollback
    /\ ~Pending
    /\ ui' = [ui EXCEPT !.busy = @ \cup {"rollback"}]
    /\ Posts([op |-> "rollback", rev |-> ui.rollback, n |-> 0])
    /\ UNCHANGED backend

ConfirmForce ==
    /\ ui.force # 0
    /\ ui.typed = ui.force
    /\ ~Pending
    /\ ui' = [ui EXCEPT !.busy = @ \cup {"force"}]
    /\ Posts([op |-> "force", rev |-> ui.force, n |-> 0])
    /\ UNCHANGED backend

\* Both commit the text of the revision anew; no change is refused.
ReturnsTo(r) ==
    /\ backend.log[r.rev] # backend.log[Newest]
    /\ Newest < MaxRevision
    /\ backend' = Written(backend.log[r.rev])

\* A rollback drops the prepared document, a forced re-apply leaves it.
RollbackAnswered(r) ==
    /\ r.op \in {"rollback", "force"}
    /\ \/ /\ ReturnsTo(r)
          /\ ui' = [ui EXCEPT !.wait = @ \cup {r.op},
                              !.prepared = IF r.op = "rollback" THEN 0 ELSE @,
                              !.diff = IF r.op = "rollback" THEN FALSE ELSE @]
          /\ Sends((flight \ {r}) \cup {Load})
       \/ /\ ReturnsTo(r) \/ UNCHANGED backend
          /\ ui' = Ended(ui, {r.op})
          /\ Answered(r)

\* Other operators commit, and documents expire.
OthersCommit ==
    /\ Newest < MaxRevision
    /\ \E t \in Texts \ Broken : t # backend.log[Newest] /\ backend' = Written(t)
    /\ UNCHANGED <<ui, flight>>

Expires ==
    /\ \E p \in backend.prepared : backend' = [backend EXCEPT !.prepared = @ \ {p}]
    /\ UNCHANGED <<ui, flight>>

Next ==
    \/ MountEditor \/ Reload \/ Preview \/ Apply \/ Abort \/ DiffMounted \/ CloseViewer
    \/ Cancel \/ ConfirmRollback \/ ConfirmForce \/ OthersCommit \/ Expires
    \/ \E t \in Texts : Edit(t)
    \/ \E rev \in Revisions :
          \/ OpenRollback(rev) \/ OpenForce(rev) \/ TypeRevision(rev)
          \/ \E use \in {"view", "compare"} : AskRevision(rev, use)
    \/ \E r \in flight :
          \/ LoadAnswered(r) \/ PreviewRefused(r) \/ Previewed(r) \/ ApplyAnswered(r) \/ ApplyFailed(r)
          \/ AbortAnswered(r) \/ RevisionAnswered(r) \/ RollbackAnswered(r)

Spec == Init /\ [][Next]_pageVars
----------------------------------------------------------------------------
\* A rollback or a forced re-apply runs alone, for the revision that was typed into
\* the dialog, which stays open on it until the page shows the outcome: no late
\* reload, lost answer or commit of another document closes it or puts another
\* revision under it (ConfigEditor.vue:401-481, DestructiveActionDialog).
RollbackAsTyped ==
    \A r \in InFlight("rollback") \cup InFlight("force") :
        /\ InFlight("rollback") \cup InFlight("force") = {r}
        /\ r.rev = ui.typed
        /\ r.rev = IF r.op = "rollback" THEN ui.rollback ELSE ui.force

\* The editor holds the text of the page, which Preview sends, whichever of loads,
\* viewed revisions, typing and its own late arrival comes last, and a closed
\* comparison leaves no editor behind (CodeEditor.vue:116-154, DiffViewer.vue:6-9).
\* Apply sends the id of the document prepared, whatever the editor holds by then.
EditorInStep ==
    /\ ui.editor # NoEditor => ui.editor = ui.yaml
    /\ ui.viewer.shows # "nothing" => ui.viewer.open

\* "commit performs a CAS write at <prefix>/config guarded by expected_rev"
\* (twophase.lua:12-14): a document does not land over a revision that its preview
\* was not made against.
NoLostUpdate ==
    \A r \in InFlight("commit") : Lands(r) => Doc(r.id).base = Newest
============================================================================
