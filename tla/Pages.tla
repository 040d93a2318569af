------------------------------- MODULE Pages -------------------------------
(* The pages of the browser application.  The router mounts one at a time and the  *)
(* refs of a page go with it, so an execution is about one page; the answers to an  *)
(* unmounted page are heard by nobody.  What outlives pages is in Spa (session,     *)
(* live feed) and, of the operator actions, in ClusterOps, which is two pages.      *)
EXTENDS Naturals, Sequences, FiniteSets

CONSTANTS
    MaxFlight, MaxCalls,                                           \* bounds
    Requests, NoRequest, Token, NoToken, Targets, Wizards, NoWizard, Reviews,
    Diagnosing, Worlds, Mark, RiskyIn,                             \* Recovery
    Spaces, System, NoSpace, LastPage,                             \* DataExplorer
    Words, Blank, Digits, Zero, True, False, Jsons, Nearest, Wides, Bytes, NoBytes,
    Utf8,                                                          \* TupleForm
    Tables, NoTable, SequenceOf, Indexes,                          \* SpacePanels
    Texts, Broken, NoText, NoEditor, MaxRevision, MaxPrepared,               \* ConfigEditor
    Instances, NoInstance, Modes,                                  \* ClusterOps
    Sqls, Scans, NoSql,                                            \* Sql
    Filters, Periods,                                              \* Logs
    Criteria, Everything, Matching, MaxEntry, PageSize, MaxShown,  \* Audit
    Choices, NoChoice,                                             \* Bootstrap
    Langs, Opening, Codes, NoCode, Guarded                         \* Console

\* What the proofs ask of the constants: bounds leave room for what every page starts
\* with, what stands for nothing is not something, a request that may be dangerous asks
\* for a token, the empty text reads neither as a number nor as JSON, a filter selects
\* entries by their ids, and what a page opens with is among what it can show.
ASSUME PagesAssumption ==
    /\ {MaxFlight, MaxCalls, MaxRevision, PageSize} \subseteq Nat \ {0}
    /\ {LastPage, MaxPrepared, MaxEntry} \subseteq Nat
    /\ \A q \in Requests : RiskyIn[q] # {} => Token[q] # NoToken
    /\ 0 \notin Periods
    /\ NoSql \notin Sqls
    /\ Blank \in Words
    /\ Digits \cup {True, False} \cup Jsons \cup Wides \subseteq Words \ {Blank}
    /\ Digits \cap Wides = {}
    /\ Everything \in Criteria
    /\ \A c \in Criteria : Matching[c] \subseteq Nat \ {0}
    /\ "off" \in Modes
    /\ "lua" \in Langs
    /\ \A lang \in Langs : Opening[lang] \in Codes

VARIABLES page, ui, flight, backend

vars == <<page, ui, flight, backend>>

R == INSTANCE Recovery
D == INSTANCE DataExplorer
T == INSTANCE TupleForm
P == INSTANCE SpacePanels
E == INSTANCE ConfigEditor
C == INSTANCE ClusterOps WITH MaxFlight <- MaxCalls
S == INSTANCE Sql
L == INSTANCE Logs
A == INSTANCE Audit WITH MaxFlight <- MaxCalls
B == INSTANCE Bootstrap
K == INSTANCE Console

Init ==
    \/ page = "recovery" /\ R!Init
    \/ page = "explorer" /\ D!Init
    \/ page = "tuple" /\ T!Init
    \/ page = "panels" /\ P!Init
    \/ page = "config" /\ E!Init
    \/ page = "cluster" /\ C!Init
    \/ page = "sql" /\ S!Init
    \/ page = "logs" /\ L!Init
    \/ page = "audit" /\ A!Init
    \/ page = "bootstrap" /\ B!Init
    \/ page = "console" /\ K!Init

Recovering == page = "recovery" /\ R!Next /\ UNCHANGED page
Exploring == page = "explorer" /\ D!Next /\ UNCHANGED page
EditingTuple == page = "tuple" /\ T!Next /\ UNCHANGED page
UsingPanels == page = "panels" /\ P!Next /\ UNCHANGED page
Configuring == page = "config" /\ E!Next /\ UNCHANGED page
Operating == page = "cluster" /\ C!Next /\ UNCHANGED page
Querying == page = "sql" /\ S!Next /\ UNCHANGED page
Tailing == page = "logs" /\ L!Next /\ UNCHANGED page
Auditing == page = "audit" /\ A!Next /\ UNCHANGED page
Starting == page = "bootstrap" /\ B!Next /\ UNCHANGED page
Evaluating == page = "console" /\ K!Next /\ UNCHANGED page

Next ==
    \/ Recovering \/ Exploring \/ EditingTuple \/ UsingPanels
    \/ Configuring \/ Operating \/ Querying \/ Tailing \/ Auditing
    \/ Starting \/ Evaluating

Spec == Init /\ [][Next]_vars
----------------------------------------------------------------------------
\* The refs that choose what a page shows hold only what it can show.
TypeOK ==
    /\ Cardinality(flight) <= MaxFlight + MaxCalls
    /\ page = "recovery" =>
          /\ ui.action \in Requests \cup {NoRequest} /\ ui.busy \in BOOLEAN
          /\ \A r \in flight : r.op \in R!Operations
    /\ page = "explorer" =>
          /\ \A r \in flight : r.op \in D!Operations
          /\ ui.selected \in Spaces \cup {NoSpace}
          /\ {ui.after, ui.next} \subseteq D!Cursors
    /\ page = "tuple" => ui.row.raw \in Words /\ ui.row.bytes \in Bytes \cup {NoBytes}
    /\ page = "panels" =>
          /\ ui.seq.info \in P!SequenceNames \cup {NoTable}
          /\ \A r \in flight : r.op \in P!Operations
    /\ page = "config" =>
          /\ ui.prepared \in 0..MaxPrepared /\ Len(backend.log) <= MaxRevision
          /\ \A r \in flight : r.op \in E!Operations
    /\ page = "cluster" => ui.pick \in Modes /\ ui.expel \in Instances \cup {NoInstance}
    /\ page = "sql" => ui.sql \in Sqls /\ ui.saved \subseteq Sqls
    /\ page = "logs" => backend \in L!Prefs
    /\ page = "audit" => ui.filter \in Criteria /\ ui.cursor \in 0..MaxEntry
    /\ page = "bootstrap" => ui.choice \in Choices /\ backend.checked \subseteq flight
    /\ page = "console" => ui.lang \in Langs /\ {ui.code, ui.result} \subseteq Codes \cup {NoCode}

\* A dangerous recovery action runs only on a token typed for that very action, and
\* only while what its verdict rests on has not moved (Recovery).
ConsentKept == page = "recovery" => R!ConsentKept

\* Whatever loads, filters and spaces cross, Prev leads back to the first page of
\* the tuples (DataExplorer).
PagerRooted == page = "explorer" => D!PagerRooted

\* A truncation travels alone, for the name typed, and resets the sequence only if that
\* was ticked since its own dialog was opened (DataExplorer).
TruncateAsTyped == page = "explorer" => D!TruncateAsTyped

\* A field of a typed column that nobody touched is written back as it was read, the
\* decimals of a number column as doubles (TupleForm).
UntouchedKept == page = "tuple" => T!UntouchedKept

\* Whatever file arrives late, the bytes are shown in a view that is offered for
\* them (BinaryField, in TupleForm).
ViewOffered == page = "tuple" => T!ViewOffered

\* One menu and one spinner serve all indexes, and no row gets what belongs to
\* another (SpacePanels).
ResultUnderItsIndex == page = "panels" => P!ResultUnderItsIndex

\* A sequence is dropped once, as typed, under the dialog that asked (SpacePanels).
DropAsTyped == page = "panels" => P!DropAsTyped

\* A rollback runs alone, for the revision typed and still on show (ConfigEditor).
RollbackAsTyped == page = "config" => E!RollbackAsTyped

\* A commit does not land over a revision its preview was not made against
\* (ConfigEditor).
NoLostUpdate == page = "config" => E!NoLostUpdate

\* One operator action at a time, over both pages that begin them (ClusterOps).
PendingHonest == page = "cluster" => C!PendingHonest

\* No setting the form shows as not valid is sent (ClusterOps).
SentIsValid == page = "cluster" => C!SentIsValid

\* The toggle of a disabled instance enables it (ClusterOps).
ToggleEnables == page = "cluster" => C!ToggleEnables

\* Result, banner and spinner are those of the run started last (Sql).
ResultOfLastRun == page = "sql" => S!ResultOfLastRun

\* What an editor or viewer shows is what its page holds: the statement (Sql), the
\* text of the configuration and no closed comparison (ConfigEditor), the lines (Logs),
\* the template rendered last (Bootstrap), the code and the result (Console).  Running
\* and Preview send that text; Apply does not: it sends the id of the prepared document
\* (ConfigEditor), or the choice of now, for which no template may be rendered yet
\* (Bootstrap).
EditorInStep ==
    /\ page = "sql" => S!RunsWhatIsShown
    /\ page = "config" => E!EditorInStep
    /\ page = "logs" => L!ViewerInStep
    /\ page = "bootstrap" => B!PreviewInStep
    /\ page = "console" => K!EditorsInStep

\* The live tail runs on one timer, of the period shown (Logs).
OneTail == page = "logs" => L!OneTail

\* "Load more" goes on where the table ends (Audit).
ContinuesFromLast == page = "audit" => A!ContinuesFromLast
============================================================================
