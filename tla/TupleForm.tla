----------------------------- MODULE TupleForm -----------------------------
(* The dialog that writes one tuple (TupleForm.vue), for one field of it, and the  *)
(* editor of its bytes (BinaryField.vue).  A value is what JSON makes of it: its    *)
(* kind and its text; bytes are their own kind.                                     *)
EXTENDS Browser

CONSTANTS
    Words, Blank,                \* texts, and the empty one
    Digits, Zero, True, False, Jsons,      \* the ones that read as something
    Nearest,                     \* the double JavaScript reads for each of the Digits
    Wides,                       \* 64-bit integers as Lua writes them, with LL or ULL
    Bytes, NoBytes, Utf8         \* byte strings, and which of them decode as UTF-8

Boolish == {True, False}
Null == [kind |-> "null", text |-> Blank]
Value(k, t) == [kind |-> k, text |-> t]
Strings == {Value("string", t) : t \in Words}
Numbers == {Value("number", t) : t \in {d \in Digits : Nearest[d] = d}}
Decimals == {Value("string", t) : t \in Digits}
WideInts == {Value("string", t) : t \in Wides}
Booleans == {Value("boolean", t) : t \in Boolish}
Maps == {Value("map", t) : t \in Jsons}
Blobs == {Value("bytes", b) : b \in Bytes}

\* What a column of each type holds, as encode_field() (data_explorer/types.lua) puts
\* it into JSON: strings that are not UTF-8 as bytes, decimals and integers beyond a
\* double as strings.  "unsigned" stands for integer, double and float, "decimal" for
\* uuid, "map" for array.
Types == {"unsigned", "number", "decimal", "boolean", "map", "any", "string",
          "varbinary", "scalar"}
Untyped == {"any", "scalar"}
Holds(type) ==
    CASE type = "unsigned" -> Numbers \cup WideInts
      [] type = "number" -> Numbers \cup WideInts \cup Decimals
      [] type = "decimal" -> Decimals
      [] type = "boolean" -> Booleans
      [] type = "map" -> Maps
      [] type = "string" -> Strings \cup {Value("bytes", b) : b \in Bytes \ Utf8}
      [] type = "varbinary" -> Blobs
      [] type = "any" -> Strings \cup Numbers \cup Booleans \cup Maps
      [] type = "scalar" -> Strings \cup Numbers \cup Booleans

Fields == [type : Types, nullable : BOOLEAN]
NoField == [type |-> "none", nullable |-> FALSE]

\* rebuildRows(): the state of the input a stored value is edited in.
Row(f, mode, v) ==
    LET edit == mode = "edit"
        binary == f.type = "varbinary" \/ (edit /\ v.kind = "bytes")
    IN  [isBinary |-> binary,
         raw |-> IF binary \/ ~edit \/ v.kind = "null" THEN Blank ELSE v.text,
         bytes |-> IF edit /\ v.kind = "bytes" THEN v.text ELSE NoBytes,
         isNull |-> edit /\ f.nullable /\ v.kind = "null"]

\* parseValue(): what is sent for an input.  JavaScript reads '' as the number 0, and
\* any other number as the double next to it.
ParsedJson(t) ==
    IF t \in Jsons THEN Value("map", t)
    ELSE IF t \in Digits THEN Value("number", Nearest[t])
    ELSE IF t \in Boolish THEN Value("boolean", t)
    ELSE Value("string", t)

\* Mutant: any text at all is true.
TruthyBoolean(t) == Value("boolean", IF t = Blank THEN False ELSE True)

\* The text 1 reads as true as well; it is not among the Words.
ParsedBoolean(t) == Value("boolean", IF t = True THEN True ELSE False)

ParseValue(f, row) ==
    CASE row.isNull -> Null
      [] ~row.isNull /\ row.isBinary -> Value("bytes", row.bytes)
      [] ~row.isNull /\ ~row.isBinary /\ f.type \in {"unsigned", "number"} ->
            IF row.raw = Blank THEN Value("number", Zero)
            ELSE IF row.raw \in Digits THEN Value("number", Nearest[row.raw])
            ELSE Value("string", row.raw)
      [] ~row.isNull /\ ~row.isBinary /\ f.type = "boolean" ->
            ParsedBoolean(row.raw)
      [] ~row.isNull /\ ~row.isBinary /\ f.type \in {"map", "any"} ->
            IF row.raw = Blank THEN Null ELSE ParsedJson(row.raw)
      [] OTHER -> Value("string", row.raw)

Unmounted ==
    [visible |-> FALSE, mode |-> "create", field |-> NoField, initial |-> Null,
     row |-> Row(NoField, "create", Null),
     touched |-> FALSE,      \* the input is not as the form filled it
     view |-> "hex", badText |-> FALSE, reading |-> {}]

Init == ui = Unmounted /\ flight = {} /\ backend = "up"

Edits(row) == ui' = [ui EXCEPT !.row = row, !.touched = TRUE, !.badText = FALSE]

\* The form is mounted when it opens: a field, and the value it has when one is edited.
Open(f, mode) ==
    /\ ~ui.visible
    /\ \E v \in IF mode = "create" THEN {Null}
                ELSE Holds(f.type) \cup IF f.nullable THEN {Null} ELSE {} :
          ui' = [Unmounted EXCEPT !.visible = TRUE, !.mode = mode, !.field = f,
                                  !.initial = v, !.row = Row(f, mode, v)]
    /\ UNCHANGED <<flight, backend>>

Editing == ui.visible /\ ~ui.row.isNull

TypeText(t) ==
    /\ Editing
    /\ ~ui.row.isBinary
    /\ Edits([ui.row EXCEPT !.raw = t])
    /\ UNCHANGED <<flight, backend>>

ToggleNull ==
    /\ ui.visible
    /\ ui.field.nullable
    /\ ui' = [ui EXCEPT !.row.isNull = ~@]
    /\ UNCHANGED <<flight, backend>>

\* The tab of a text is offered only for bytes that are one, and left when they are
\* one no more.
Decodes(b) == b = NoBytes \/ b \in Utf8
Views(b) == {"hex", "base64"} \cup IF Decodes(b) THEN {"utf8"} ELSE {}

SwitchView(v) ==
    /\ ui.visible
    /\ ui.row.isBinary
    /\ v \in Views(ui.row.bytes)
    /\ ui' = [ui EXCEPT !.view = v]
    /\ UNCHANGED <<flight, backend>>

\* Mutant: the view stays whatever the bytes are.
NewBytesStranded(b, u) ==
    ui' = [u EXCEPT !.row.bytes = b, !.touched = TRUE, !.badText = FALSE]

\* emitBytes(): new bytes, and the view that is still offered for them.
NewBytes(b, u) ==
    ui' = [u EXCEPT !.row.bytes = b, !.touched = TRUE, !.badText = FALSE,
                    !.view = IF @ \in Views(b) THEN @ ELSE "hex"]

TypeBytes(b) ==
    /\ Editing
    /\ ui.row.isBinary
    /\ ui.view = "base64" \/ (ui.view = "utf8" /\ Decodes(b))
    /\ NewBytes(b, ui)
    /\ UNCHANGED <<flight, backend>>

\* Text that is not base64 shows an error and leaves the bytes alone.
TypeBadBase64 ==
    /\ Editing
    /\ ui.row.isBinary
    /\ ui.view = "base64"
    /\ ui' = [ui EXCEPT !.badText = TRUE]
    /\ UNCHANGED <<flight, backend>>

\* A file is read in its own time: the bytes come whatever was typed meanwhile.
PickFile(b) ==
    /\ Editing
    /\ ui.row.isBinary
    /\ ui' = [ui EXCEPT !.reading = @ \cup {b}]
    /\ UNCHANGED <<flight, backend>>

FileRead(b) ==
    /\ b \in ui.reading
    /\ NewBytes(b, [ui EXCEPT !.reading = @ \ {b}])
    /\ UNCHANGED <<flight, backend>>

Sent == ParseValue(ui.field, ui.row)

\* tupleInsert or tupleReplace of what the row parses to; the button waits for the
\* answer.
Submit ==
    /\ ui.visible
    /\ \A r \in flight : ~r.heard
    /\ Posts([op |-> ui.mode, sent |-> Sent.kind, heard |-> TRUE, n |-> 0])
    /\ UNCHANGED <<ui, backend>>

\* The file readers go with the form, and so does who would hear the answer.
Close ==
    /\ ui.visible
    /\ ui' = Unmounted
    /\ flight' = {[r EXCEPT !.heard = FALSE] : r \in flight}
    /\ UNCHANGED backend

WriteAnswered(r) ==
    /\ Answered(r)
    /\ \/ UNCHANGED ui                   \* an error is shown in the form, if it is open
       \/ r.heard /\ ui' = Unmounted
    /\ UNCHANGED backend

Next ==
    \/ ToggleNull \/ TypeBadBase64 \/ Submit \/ Close
    \/ \E f \in Fields, mode \in {"create", "edit"} : Open(f, mode)
    \/ \E t \in Words : TypeText(t)
    \/ \E v \in {"hex", "base64", "utf8"} : SwitchView(v)
    \/ \E b \in Bytes : TypeBytes(b) \/ PickFile(b) \/ FileRead(b)
    \/ \E r \in flight : WriteAnswered(r)

Spec == Init /\ [][Next]_pageVars
----------------------------------------------------------------------------
\* A field of a typed column that nobody touched is written back as it was read,
\* through the text it is edited as, an opened and closed NULL, and the views of its
\* bytes (TupleForm.vue:136-208), but for the decimals of a number column: they arrive
\* as strings and leave as the nearest double.  The untyped columns are left out: a
\* string there that reads as JSON, or a scalar number, comes back as something else.
UntouchedKept ==
    LET decimal == ui.field.type = "number" /\ ui.initial \in Decimals
    IN  ui.mode = "edit" /\ ~ui.touched /\ (ui.row.isNull <=> ui.initial = Null)
            /\ ui.field.type \notin Untyped =>
          Sent = IF decimal THEN Value("number", Nearest[ui.initial.text]) ELSE ui.initial

\* The view never strands on a tab that is no longer rendered, whichever file or
\* typing replaced the bytes (BinaryField.vue:102-110).
ViewOffered ==
    ui.view \in Views(ui.row.bytes)
============================================================================
