-------------------------------- MODULE Audit -------------------------------
(* The audit page (Audit.vue): filters, presets and "Load more" over a store       *)
(* (entities/audit-entry/model/store.ts) that outlives the page, so an answer to    *)
(* an earlier visit is still heard.  The backend pages the log by its newest        *)
(* entries (resolvers/audit.lua).  Left out: the texts of the filters, of which      *)
(* one stands for all that select the same entries, and the export, which downloads  *)
(* and changes nothing here.                                                        *)
EXTENDS Browser, SequencesExt

CONSTANTS
    Criteria,          \* filters told apart by what they select
    Everything,        \* the empty one
    Matching,          \* the ids each criterion selects
    MaxEntry,          \* bound: entries of the log
    PageSize,
    MaxShown           \* bound: entries shown at which no more are asked for

\* The newest PageSize entries before `after` that a filter selects, when the log
\* held `newest` of them; 0 stands for no cursor.
Rows(criterion, newest, after) ==
    {e \in Matching[criterion] : e <= newest /\ (after = 0 \/ e < after)}

Newest(n, rows) == {e \in rows : Cardinality({d \in rows : d >= e}) <= n}

\* Newest first.
Descending(rows) ==
    CHOOSE s \in [1..Cardinality(rows) -> rows] :
        \A i, j \in DOMAIN s : i < j => s[i] > s[j]

Page(criterion, newest, after) ==
    LET rows == Rows(criterion, newest, after)
        taken == Newest(PageSize, rows)
    IN  [entries |-> Descending(taken),
         more |-> taken # rows]

\* Mutant: the cursor is taken before the row too many is cut off.
NextCursorOfCut(page, rows) ==
    IF page.more THEN CHOOSE e \in rows : Cardinality({d \in rows : d > e}) = PageSize ELSE 0

\* The last of the page, when there are more.
NextCursor(page, rows) == IF page.more THEN Last(page.entries) ELSE 0

\* Loads that share one answer do their own part of it each, hence a number.
Ask(criterion, append, after) ==
    [op |-> "audit", filter |-> criterion, append |-> append, after |-> after, n |-> 0]

\* The store as it is made; the page adds its filter and the verifier of the chain.
Init ==
    /\ backend \in 0..MaxEntry                   \* the id of the newest entry
    /\ ui = [entries |-> <<>>, cursor |-> 0, more |-> FALSE, pending |-> TRUE,
             error |-> FALSE, filter |-> Everything,
             verifying |-> FALSE, chain |-> "unknown"]
    /\ flight = {[Ask(Everything, FALSE, 0) EXCEPT !.n = 1]}

\* load(): a first page empties the table and forgets the cursor, but not whether
\* there are more.
LoadFirst(u) ==
    /\ ui' = [u EXCEPT !.pending = TRUE, !.error = FALSE, !.entries = <<>>, !.cursor = 0]
    /\ Posts(Ask(u.filter, FALSE, 0))
    /\ UNCHANGED backend

\* What is typed into the fields is not asked for until it is applied.
TypeFilter(c) ==
    /\ c # ui.filter
    /\ ui' = [ui EXCEPT !.filter = c]
    /\ UNCHANGED <<flight, backend>>

Apply == LoadFirst(ui)
SetPreset(c) == LoadFirst([ui EXCEPT !.filter = c])
ResetFilters == ui.filter # Everything /\ LoadFirst([ui EXCEPT !.filter = Everything])

\* The button is there while there are more, also during a load; it asks with what
\* the fields hold by now.
LoadMore ==
    /\ ui.more
    /\ Len(ui.entries) < MaxShown
    /\ ui' = [ui EXCEPT !.pending = TRUE, !.error = FALSE]
    /\ Posts(Ask(ui.filter, TRUE, ui.cursor))
    /\ UNCHANGED backend

\* The page as it is, or as urql's cache kept it from earlier.
Loaded(r) ==
    /\ r.op = "audit"
    /\ Answered(r)
    /\ \E newest \in 0..backend :
          LET page == Page(r.filter, newest, r.after)
          IN  ui' = [ui EXCEPT
                 !.pending = FALSE,
                 !.entries = IF r.append THEN @ \o page.entries ELSE page.entries,
                 !.cursor = NextCursor(page, Rows(r.filter, newest, r.after)),
                 !.more = page.more]
    /\ UNCHANGED backend

LoadFailed(r) ==
    /\ r.op = "audit"
    /\ Answered(r)
    /\ ui' = [ui EXCEPT !.pending = FALSE, !.error = TRUE]
    /\ UNCHANGED backend

VerifyChain ==
    /\ ~ui.verifying
    /\ ui' = [ui EXCEPT !.verifying = TRUE]
    /\ Posts([op |-> "verify", n |-> 0])
    /\ UNCHANGED backend

\* An error of the call is shown as a broken chain.
Verified(r) ==
    /\ r.op = "verify"
    /\ Answered(r)
    /\ \E chain \in {"ok", "broken"} : ui' = [ui EXCEPT !.verifying = FALSE, !.chain = chain]
    /\ UNCHANGED backend

\* Another visit: the fields are empty and the first page is asked for, but the store
\* still has its entries and hears what it asked for before; the verifier does not.
Revisit ==
    LET mounted == [ui EXCEPT !.filter = Everything, !.verifying = FALSE,
                              !.chain = "unknown"]
        heard == {r \in flight : r.op = "audit"}
        first(i) == [Ask(Everything, FALSE, 0) EXCEPT !.n = i]
    IN  /\ ui' = [mounted EXCEPT !.pending = TRUE, !.error = FALSE, !.entries = <<>>,
                                 !.cursor = 0]
        /\ \E i \in 1..MaxFlight :
              first(i) \notin heard /\ Sends(heard \cup {first(i)})
        /\ UNCHANGED backend

\* Somebody does what is recorded.
EntryAdded ==
    /\ backend < MaxEntry
    /\ backend' = backend + 1
    /\ UNCHANGED <<ui, flight>>

Next ==
    \/ Apply \/ ResetFilters \/ LoadMore \/ VerifyChain \/ Revisit \/ EntryAdded
    \/ \E c \in Criteria : TypeFilter(c) \/ SetPreset(c)
    \/ \E r \in flight : Loaded(r) \/ LoadFailed(r) \/ Verified(r)

Spec == Init /\ [][Next]_pageVars
----------------------------------------------------------------------------
\* "Load more" goes on where the table ends: whichever of several loads is answered
\* last, first pages and further ones, of this filter or another, of this visit or an
\* earlier one, the cursor is the last entry on show, and there are no more only if
\* there is no cursor (store.ts:46-84, audit.lua:57-77).
ContinuesFromLast ==
    ui.entries # <<>> =>
        /\ ui.more => ui.cursor = Last(ui.entries)
        /\ ~ui.more => ui.cursor = 0
============================================================================
