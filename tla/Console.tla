------------------------------- MODULE Console ------------------------------
(* The Lua and SQL console (Console.vue): one editor for both languages, and one    *)
(* result, shown in an editor of its own.  The button waits for a run to end, the    *)
(* shortcut of the editor and the button that grants a full scan do not.             *)
EXTENDS Browser

CONSTANTS
    Langs, Opening,        \* the languages, and the code each one starts with
    Codes, NoCode,         \* all codes; no code, or no editor to hold one
    Guarded                \* the SQL that is refused without leave for a full scan

Init ==
    /\ ui = [lang |-> "lua", code |-> Opening["lua"], editor |-> NoCode,
             running |-> FALSE, allow |-> FALSE,
             result |-> NoCode, refused |-> FALSE,    \* the code a result is of
             viewer |-> NoCode]                       \* and the one in its viewer
    /\ flight = {}
    /\ backend = "up"

MountEditor ==
    /\ ui.editor = NoCode
    /\ ui' = [ui EXCEPT !.editor = ui.code]
    /\ UNCHANGED <<flight, backend>>

TypeCode(c) ==
    /\ ui.editor \notin {NoCode, c}
    /\ ui' = [ui EXCEPT !.editor = c, !.code = c]
    /\ UNCHANGED <<flight, backend>>

\* Another language brings its default, unless something was typed.
Pick(lang) ==
    /\ lang # ui.lang
    /\ LET code == IF ui.code = Opening[ui.lang] THEN Opening[lang] ELSE ui.code
       IN  ui' = [ui EXCEPT !.lang = lang, !.code = code,
                            !.editor = IF @ = NoCode THEN NoCode ELSE code]
    /\ UNCHANGED <<flight, backend>>

AllowFullScan ==
    /\ ui.lang = "sql"
    /\ ui' = [ui EXCEPT !.allow = ~@]
    /\ UNCHANGED <<flight, backend>>

\* The offer of a full scan is up for an error of that kind while SQL is picked.
SeqscanRequired == ui.lang = "sql" /\ ui.refused

\* run(): what was on show goes, with its viewer.
Run(leave) ==
    /\ IF leave THEN SeqscanRequired ELSE ~ui.running \/ ui.editor # NoCode
    /\ ui' = [ui EXCEPT !.running = TRUE, !.result = NoCode, !.refused = FALSE,
                        !.viewer = NoCode]
    /\ Posts([op |-> "eval", code |-> ui.code, lang |-> ui.lang,
              scan |-> leave \/ ui.allow, n |-> 0])
    /\ UNCHANGED backend

\* An answer: a result, or an error beside the result of another run.
Ran(r) ==
    /\ r.op = "eval"
    /\ Answered(r)
    /\ IF r.lang = "sql" /\ r.code \in Guarded /\ ~r.scan
       THEN ui' = [ui EXCEPT !.running = FALSE, !.refused = TRUE]
       ELSE \/ ui' = [ui EXCEPT !.running = FALSE, !.result = r.code,
                                !.viewer = IF @ = NoCode THEN NoCode ELSE r.code]
            \/ ui' = [ui EXCEPT !.running = FALSE, !.refused = FALSE]
    /\ UNCHANGED backend

\* The viewer is there with a result, once its modules have come.
MountViewer ==
    /\ ui.result # NoCode
    /\ ui.viewer = NoCode
    /\ ui' = [ui EXCEPT !.viewer = ui.result]
    /\ UNCHANGED <<flight, backend>>

Next ==
    \/ MountEditor \/ AllowFullScan \/ MountViewer
    \/ \E c \in Codes : TypeCode(c)
    \/ \E lang \in Langs : Pick(lang)
    \/ \E leave \in BOOLEAN : Run(leave)
    \/ \E r \in flight : Ran(r)

Spec == Init /\ [][Next]_pageVars
----------------------------------------------------------------------------
\* The code that would run is the code in the editor, through changes of language,
\* and the viewer shows the result there is (Console.vue:35-39, 67-99, 173-175).
EditorsInStep ==
    /\ ui.editor # NoCode => ui.editor = ui.code
    /\ ui.viewer # NoCode => ui.viewer = ui.result
============================================================================
