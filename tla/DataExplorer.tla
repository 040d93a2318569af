--------------------------- MODULE DataExplorer ----------------------------
(* The data explorer (DataExplorer.vue) with the dialogs it opens: the list of     *)
(* spaces, the grid of tuples with its filter and pager, row edits, and the forms   *)
(* that create, alter, truncate and drop a space.  A cursor is the number of the    *)
(* page it leads to; 0 is no cursor, and '' on the pager's stack.                   *)
EXTENDS Browser, Sequences

CONSTANTS
    Spaces, System,      \* all spaces, and those whose names start with '_'
    NoSpace,
    LastPage             \* bound: pages of a space

Cursors == 0..LastPage
NoRows == [op |-> "rows", space |-> NoSpace]
NoAwait == [op |-> "none"]
NoForm == [mode |-> "none", of |-> NoSpace]

\* The checkbox of the truncation dialog, and whether the clicks since the dialog was
\* opened have ticked it.
Unticked == [on |-> FALSE, here |-> FALSE]

\* What the page asks of the backend, its forms included.
Operations == {"spaces", "tuples", "delete", "write", "schema", "drop", "truncate"}

SpacesQuery(sys) == [op |-> "spaces", sys |-> sys]
TuplesQuery(u) == [op |-> "tuples", space |-> u.selected, after |-> u.after]

Init ==
    /\ ui = [listed |-> {}, loadingSpaces |-> TRUE, system |-> FALSE,
             selected |-> NoSpace, shown |-> NoRows, loading |-> FALSE,
             stack |-> <<>>, after |-> 0, next |-> 0,
             form |-> NoForm,         \* the tuple form, and whose row it was opened on
             schema |-> "none",       \* the space form
             target |-> NoSpace, typed |-> NoSpace, pending |-> FALSE,
             reset |-> Unticked,      \* the reset of the sequence
             await |-> NoAwait,       \* what the running confirmTruncate() waits for
             emptied |-> NoSpace]     \* the space it truncated
    /\ flight = {SpacesQuery(FALSE)}
    /\ backend = Spaces

\* A modal dialog covers the page.
FormShown == ui.form.mode # "none" /\ ui.selected # NoSpace
Covered == FormShown \/ ui.schema # "none" \/ ui.target # NoSpace
Editable == ui.selected # NoSpace /\ ui.selected \notin System

\* A form is gone: what it sent is answered to nobody.
Orphaned(op, f) == {IF r.op = op THEN [r EXCEPT !.heard = FALSE] ELSE r : r \in f}
Kept(u, f) == IF u.selected = NoSpace THEN Orphaned("write", f) ELSE f
Submitting(op) == \E r \in InFlight(op) : r.heard

\* loadSpaces() and loadTuples() in a page that is u by now, f already in flight.
LoadSpaces(u, f) ==
    /\ ui' = [u EXCEPT !.loadingSpaces = TRUE]
    /\ Sends(Kept(u, f) \cup {SpacesQuery(u.system)})

LoadTuples(u, f) ==
    IF u.selected = NoSpace
    THEN ui' = u /\ Sends(f)
    ELSE ui' = [u EXCEPT !.loading = TRUE] /\ Sends(f \cup {TuplesQuery(u)})

\* Mutant: the cursor stays where it was.
HalfRewound(u) == [u EXCEPT !.stack = <<>>]

Rewound(u) == [u EXCEPT !.stack = <<>>, !.after = 0]
On(u, s) == [Rewound(u) EXCEPT !.selected = s]

SelectSpace(s) ==
    /\ ~Covered
    /\ ~ui.loadingSpaces
    /\ s \in ui.listed
    /\ LoadTuples(On(ui, s), flight)
    /\ UNCHANGED backend

ToggleSystem ==
    /\ ~Covered
    /\ LoadSpaces([ui EXCEPT !.system = ~@, !.selected = NoSpace], flight)
    /\ UNCHANGED backend

Listing(sys) == IF sys THEN backend ELSE backend \ System

\* The first user space, or the first space, when nothing is selected.
Default(l) == IF l \ System # {} THEN l \ System ELSE l

\* confirmTruncate() goes on once its loadSpaces() is back, whatever came of it: the
\* page of the emptied space, if still shown, is loaded from its start.
Resumed(u, f, r) ==
    IF u.await # r THEN ui' = u /\ Sends(f)
    ELSE IF u.selected = u.emptied /\ u.selected # NoSpace
    THEN LoadTuples([Rewound(u) EXCEPT !.await = TuplesQuery(Rewound(u))], f)
    ELSE /\ ui' = [u EXCEPT !.await = NoAwait, !.pending = FALSE, !.emptied = NoSpace]
         /\ Sends(f)

SpacesAnswered(r) ==
    /\ r.op = "spaces"
    /\ LET l == Listing(r.sys)
           u == [ui EXCEPT !.listed = l, !.loadingSpaces = FALSE]
           f == flight \ {r}
       IN  \/ Resumed([ui EXCEPT !.loadingSpaces = FALSE], f, r)     \* it failed
           \/ (ui.selected # NoSpace \/ l = {}) /\ Resumed(u, f, r)
           \/ /\ ui.selected = NoSpace
              /\ \E s \in Default(l) :
                    Resumed([On(u, s) EXCEPT !.loading = TRUE],
                            f \cup {TuplesQuery(On(u, s))}, r)
    /\ UNCHANGED backend

\* The end of a load ends the truncation that waits for it.
Settled(u, r) ==
    IF u.await # r THEN [u EXCEPT !.loading = FALSE]
    ELSE [u EXCEPT !.loading = FALSE, !.await = NoAwait, !.pending = FALSE,
                   !.emptied = NoSpace]

\* The answer is shown whatever is selected by now; an error leaves the grid alone.
TuplesAnswered(r) ==
    /\ r.op = "tuples"
    /\ \/ ui' = Settled(ui, r)
       \/ \E c \in {0, r.after + 1} \cap Cursors :
             ui' = Settled([ui EXCEPT !.shown = [op |-> "rows", space |-> r.space],
                                      !.next = c], r)
    /\ Answered(r)
    /\ UNCHANGED backend

\* A filter chip is added or removed: the pager starts over.
Refilter ==
    /\ ~Covered
    /\ ui.selected # NoSpace
    /\ LoadTuples(Rewound(ui), flight)
    /\ UNCHANGED backend

\* Full scans are allowed or not, or the page size is another: the pager stays.
Reload ==
    /\ ~Covered
    /\ ui.selected # NoSpace
    /\ LoadTuples(ui, flight)
    /\ UNCHANGED backend

NextPage ==
    /\ ~Covered
    /\ ui.selected # NoSpace
    /\ ui.next # 0
    /\ Len(ui.stack) <= LastPage
    /\ LoadTuples([ui EXCEPT !.stack = Append(@, ui.after), !.after = ui.next], flight)
    /\ UNCHANGED backend

PrevPage ==
    /\ ~Covered
    /\ ui.selected # NoSpace
    /\ ui.stack # <<>>
    /\ LoadTuples([ui EXCEPT !.after = ui.stack[Len(ui.stack)],
                             !.stack = SubSeq(@, 1, Len(@) - 1)], flight)
    /\ UNCHANGED backend

\* The buttons of a row lie under the loading mask of the grid.
RowClickable == ~Covered /\ Editable /\ ~ui.loading /\ ui.shown # NoRows

DeleteRow ==
    /\ RowClickable
    /\ Posts([op |-> "delete", space |-> ui.selected, of |-> ui.shown.space, n |-> 0])
    /\ UNCHANGED <<ui, backend>>

DeleteAnswered(r) ==
    /\ r.op = "delete"
    /\ \/ Answered(r) /\ UNCHANGED ui
       \/ LoadTuples(ui, flight \ {r})
    /\ UNCHANGED backend

OpenTuple(mode) ==
    /\ ~Covered
    /\ Editable
    /\ mode = "edit" => RowClickable
    /\ ui' = [ui EXCEPT !.form = [mode |-> mode,
                                  of |-> IF mode = "edit" THEN ui.shown.space
                                                          ELSE NoSpace]]
    /\ UNCHANGED <<flight, backend>>

CloseTuple ==
    /\ FormShown
    /\ ui' = [ui EXCEPT !.form = NoForm]
    /\ Sends(Orphaned("write", flight))
    /\ UNCHANGED backend

\* TupleForm writes into the space that is selected by now.
SubmitTuple ==
    /\ FormShown
    /\ ~Submitting("write")
    /\ Posts([op |-> "write", space |-> ui.selected, of |-> ui.form.of,
              heard |-> TRUE, n |-> 0])
    /\ UNCHANGED <<ui, backend>>

WriteAnswered(r) ==
    /\ r.op = "write"
    /\ \/ Answered(r) /\ UNCHANGED ui                     \* it failed, or nobody hears
       \/ r.heard /\ LoadTuples([ui EXCEPT !.form = NoForm], flight \ {r})
    /\ UNCHANGED backend

OpenSchema(mode) ==
    /\ ~Covered
    /\ mode = "alter" => Editable
    /\ ui' = [ui EXCEPT !.schema = mode]
    /\ UNCHANGED <<flight, backend>>

CloseSchema ==
    /\ ui.schema # "none"
    /\ ui' = [ui EXCEPT !.schema = "none"]
    /\ Sends(Orphaned("schema", flight))
    /\ UNCHANGED backend

\* SpaceForm sends the whole form; one without a named field is not sent.
SubmitSchema ==
    /\ ui.schema # "none"
    /\ ~Submitting("schema")
    /\ Posts([op |-> "schema", mode |-> ui.schema, heard |-> TRUE, n |-> 0])
    /\ UNCHANGED <<ui, backend>>

SchemaAnswered(r) ==
    /\ r.op = "schema"
    /\ \/ Answered(r) /\ UNCHANGED <<ui, backend>>
       \/ /\ IF r.heard THEN LoadSpaces([ui EXCEPT !.schema = "none"], flight \ {r})
             ELSE Answered(r) /\ UNCHANGED ui
          /\ IF r.mode = "create"
             THEN \E s \in Spaces \ System : backend' = backend \cup {s}
             ELSE UNCHANGED backend

\* The prompt holds the page until the name is typed.
DropSpace ==
    /\ ~Covered
    /\ Editable
    /\ Posts([op |-> "drop", of |-> ui.selected, n |-> 0])
    /\ UNCHANGED <<ui, backend>>

DropAnswered(r) ==
    /\ r.op = "drop"
    /\ \/ Answered(r) /\ UNCHANGED <<ui, backend>>
       \/ /\ backend' = backend \ {r.of}
          /\ LoadSpaces(IF ui.selected = r.of
                        THEN [ui EXCEPT !.selected = NoSpace, !.shown = NoRows]
                        ELSE ui, flight \ {r})

\* Mutant: the checkbox stays as the last dialog left it.
Sticky(reset) == [reset EXCEPT !.here = FALSE]

Cleared(reset) == Unticked

OpenTruncate ==
    /\ ~Covered
    /\ Editable
    /\ ui' = [ui EXCEPT !.target = ui.selected, !.reset = Cleared(@)]
    /\ UNCHANGED <<flight, backend>>

TickReset ==
    /\ ui.target # NoSpace
    /\ ui' = [ui EXCEPT !.reset = [on |-> ~@.on, here |-> ~@.here]]
    /\ UNCHANGED <<flight, backend>>

\* DestructiveActionDialog empties the field when it opens; here when it closes,
\* which nothing can tell.
TypeName(s) ==
    /\ ui.target # NoSpace
    /\ ui' = [ui EXCEPT !.typed = s]
    /\ UNCHANGED <<flight, backend>>

CancelTruncate ==
    /\ ui.target # NoSpace
    /\ ~ui.pending
    /\ ui' = [ui EXCEPT !.target = NoSpace, !.typed = NoSpace]
    /\ UNCHANGED <<flight, backend>>

\* Mutant: the dialog does not wait for the truncation under way.
CanConfirmAgain == ui.target # NoSpace /\ ui.typed = ui.target

CanConfirm == ui.target # NoSpace /\ ui.typed = ui.target /\ ~ui.pending

ConfirmTruncate ==
    /\ CanConfirm
    /\ ui' = [ui EXCEPT !.pending = TRUE]
    /\ Posts([op |-> "truncate", of |-> ui.target, reset |-> ui.reset,
              typed |-> ui.typed, n |-> 0])
    /\ UNCHANGED backend

TruncateAnswered(r) ==
    /\ r.op = "truncate"
    /\ \/ ui' = [ui EXCEPT !.pending = FALSE] /\ Answered(r)
       \/ LoadSpaces([ui EXCEPT !.target = NoSpace, !.typed = NoSpace,
                                !.emptied = r.of, !.await = SpacesQuery(ui.system)], flight \ {r})
    /\ UNCHANGED backend

Next ==
    \/ ToggleSystem \/ Refilter \/ Reload
    \/ NextPage \/ PrevPage \/ DeleteRow \/ CloseTuple \/ SubmitTuple
    \/ CloseSchema \/ SubmitSchema \/ DropSpace
    \/ OpenTruncate \/ TickReset \/ CancelTruncate \/ ConfirmTruncate
    \/ \E s \in Spaces : SelectSpace(s) \/ TypeName(s)
    \/ \E mode \in {"create", "edit"} : OpenTuple(mode)
    \/ \E mode \in {"create", "alter"} : OpenSchema(mode)
    \/ \E r \in flight :
          \/ SpacesAnswered(r) \/ TuplesAnswered(r) \/ DeleteAnswered(r)
          \/ WriteAnswered(r) \/ SchemaAnswered(r) \/ DropAnswered(r)
          \/ TruncateAnswered(r)

Spec == Init /\ [][Next]_pageVars
----------------------------------------------------------------------------
\* Prev leads back to the first page: the stack is empty exactly on the first page,
\* and only its bottom is ''; whatever filters, spaces, pages and late answers
\* crossed (DataExplorer.vue:402-413, and every reset of the pager).
PagerRooted ==
    /\ (ui.stack = <<>>) <=> (ui.after = 0)
    /\ \A i \in DOMAIN ui.stack : ui.stack[i] = 0 <=> i = 1

\* A truncation travels alone, under the pending flag, for the space whose name was
\* typed, and resets the sequence only if that was ticked since that dialog was opened,
\* though the checkbox outlives dialogs that were cancelled, refused or answered, and
\* one may open while an earlier truncation is still reloading the page
\* (DataExplorer.vue:491-534, DestructiveActionDialog).
TruncateAsTyped ==
    \A r \in InFlight("truncate") :
        /\ InFlight("truncate") = {r} /\ ui.pending
        /\ r.typed = r.of
        /\ r.reset.on => r.reset.here
============================================================================
