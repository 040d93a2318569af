-------------------------- MODULE PageTypesProofs --------------------------
(* Proofs about the data of the pages: a field that nobody touched is written back   *)
(* as it was read, "Load more" goes on where the table ends, and the refs of every   *)
(* page hold only what it can show, with a bounded number of requests in flight.     *)
EXTENDS PagesProofs, FiniteSetTheorems, SequenceTheorems

----------------------------------------------------------------------------
(* The tuple form. *)

RowRefs == {"isBinary", "raw", "bytes", "isNull"}

\* The row is the one a value read from a column is edited in, its NULL switch apart.
AsRead(f, v, row) ==
    LET filled == T!Row(f, "edit", v)
    IN  /\ f \in T!Fields
        /\ v \in T!Holds(f.type) \cup {T!Null}
        /\ row.isBinary = filled.isBinary
        /\ row.raw = filled.raw
        /\ row.bytes = filled.bytes

FieldInv ==
    /\ {"row", "mode", "field", "initial", "touched"} \subseteq DOMAIN ui
    /\ DOMAIN ui.row = RowRefs
    /\ ui.row.raw \in Words /\ ui.row.bytes \in Bytes \cup {NoBytes}
    /\ ui.mode = "edit" /\ ~ui.touched => AsRead(ui.field, ui.initial, ui.row)

\* What each kind of value reads as when its text is parsed again.
LEMMA HeldValues ==
    ASSUME NEW type \in T!Types, NEW v \in T!Holds(type)
    PROVE  \/ type \in {"unsigned", "number"} /\ v \in T!Numbers
           \/ type \in {"unsigned", "number"} /\ v \in T!WideInts
           \/ type \in {"number", "decimal"} /\ v \in T!Decimals
           \/ type = "boolean" /\ v \in T!Booleans
           \/ type = "map" /\ v \in T!Maps
           \/ type = "string" /\ v \in T!Strings
           \/ type \in {"string", "varbinary"} /\ v \in T!Blobs
           \/ type \in T!Untyped /\ v \in T!Strings \cup T!Numbers \cup T!Booleans \cup T!Maps
BY DEF T!Types, T!Holds, T!Untyped, T!Blobs

\* What comes back of a value: itself, or the double next to a decimal of a number column.
Returned(f, v) ==
    IF f.type = "number" /\ v \in T!Decimals THEN T!Value("number", Nearest[v.text]) ELSE v

\* A column's own value comes back through the row it was edited in.
LEMMA WrittenAsRead ==
    ASSUME NEW f, NEW v, NEW row, AsRead(f, v, row), f.type \notin T!Untyped,
           DOMAIN row = RowRefs, row.isNull <=> v = T!Null
    PROVE  T!ParseValue(f, row) = Returned(f, v)
<1>1. f.type \in T!Types /\ f.type \notin {"any", "scalar"}
  BY DEF AsRead, T!Fields, T!Untyped
<1>2. CASE v = T!Null
  <2>1. v \notin T!Decimals
    BY <1>2 DEF T!Null, T!Decimals, T!Value
  <2> QED
    BY <1>2, <2>1 DEF T!ParseValue, Returned
<1>3. CASE v # T!Null
  <2>1. ~row.isNull /\ v \in T!Holds(f.type)
    BY <1>3 DEF AsRead
  <2>0. f.type # "number" \/ v \notin T!Decimals => Returned(f, v) = v
    BY DEF Returned
  <2>2. CASE f.type \in {"unsigned", "number"} /\ v \in T!Numbers
    <3>1. PICK t \in Digits : Nearest[t] = t /\ v = [kind |-> "number", text |-> t]
      BY <2>2 DEF T!Numbers, T!Value
    <3>4. v \notin T!Decimals
      BY <3>1 DEF T!Decimals, T!Value
    <3>2. t # Blank
      BY PagesAssumption
    <3>3. ~row.isBinary /\ row.raw = t
      BY <2>2, <3>1 DEF AsRead, T!Row
    <3> QED
      BY <2>0, <2>1, <2>2, <3>1, <3>2, <3>3, <3>4 DEF T!ParseValue, T!Value
  <2>7. CASE f.type \in {"unsigned", "number"} /\ v \in T!WideInts
    <3>1. PICK t \in Wides : v = [kind |-> "string", text |-> t]
      BY <2>7 DEF T!WideInts, T!Value
    <3>2. t # Blank /\ t \notin Digits
      BY PagesAssumption
    <3>3. ~row.isBinary /\ row.raw = t
      BY <2>7, <3>1 DEF AsRead, T!Row
    <3>4. v \notin T!Decimals
      BY <3>1, <3>2 DEF T!Decimals, T!Value
    <3> QED
      BY <2>0, <2>1, <2>7, <3>1, <3>2, <3>3, <3>4 DEF T!ParseValue, T!Value
  <2>8. CASE f.type \in {"number", "decimal"} /\ v \in T!Decimals
    <3>1. PICK t \in Digits : v = [kind |-> "string", text |-> t]
      BY <2>8 DEF T!Decimals, T!Value
    <3>2. t # Blank
      BY PagesAssumption
    <3>3. ~row.isBinary /\ row.raw = t
      BY <2>8, <3>1 DEF AsRead, T!Row
    <3>4. CASE f.type = "number"
      BY <2>1, <2>8, <3>1, <3>2, <3>3, <3>4 DEF T!ParseValue, T!Value, Returned
    <3>5. CASE f.type = "decimal"
      BY <2>0, <2>1, <3>1, <3>3, <3>5 DEF T!ParseValue, T!Value
    <3> QED
      BY <2>8, <3>4, <3>5
  <2>3. CASE f.type = "boolean" /\ v \in T!Booleans
    <3>1. PICK t \in {True, False} : v = [kind |-> "boolean", text |-> t]
      BY <2>3 DEF T!Booleans, T!Value, T!Boolish
    <3>2. ~row.isBinary /\ row.raw = t
      BY <2>3, <3>1 DEF AsRead, T!Row
    <3> QED
      BY <2>0, <2>1, <2>3, <3>1, <3>2 DEF T!ParseValue, T!ParsedBoolean, T!Value
  <2>4. CASE f.type = "map" /\ v \in T!Maps
    <3>1. PICK t \in Jsons : v = [kind |-> "map", text |-> t]
      BY <2>4 DEF T!Maps, T!Value
    <3>2. t # Blank
      BY PagesAssumption
    <3>3. ~row.isBinary /\ row.raw = t
      BY <2>4, <3>1 DEF AsRead, T!Row
    <3> QED
      BY <2>0, <2>1, <2>4, <3>1, <3>2, <3>3 DEF T!ParseValue, T!ParsedJson, T!Value
  <2>5. CASE f.type = "string" /\ v \in T!Strings
    <3>1. PICK t \in Words : v = [kind |-> "string", text |-> t]
      BY <2>5 DEF T!Strings, T!Value
    <3>2. ~row.isBinary /\ row.raw = t
      BY <2>5, <3>1 DEF AsRead, T!Row
    <3> QED
      BY <2>0, <2>1, <2>5, <3>1, <3>2 DEF T!ParseValue, T!Value
  <2>6. CASE f.type \in {"string", "varbinary"} /\ v \in T!Blobs
    <3>1. PICK b \in Bytes : v = [kind |-> "bytes", text |-> b]
      BY <2>6 DEF T!Blobs, T!Value
    <3>2. row.isBinary /\ row.bytes = b
      BY <2>6, <3>1 DEF AsRead, T!Row
    <3> QED
      BY <2>0, <2>1, <2>6, <3>1, <3>2 DEF T!ParseValue, T!Value
  <2> QED
    BY <1>1, <2>1, <2>2, <2>3, <2>4, <2>5, <2>6, <2>7, <2>8, HeldValues DEF T!Untyped
<1> QED
  BY <1>2, <1>3

\* The row a value is edited in holds a text and bytes of the kinds there are.
LEMMA RowHolds ==
    ASSUME NEW f \in T!Fields, NEW mode,
           NEW v \in T!Holds(f.type) \cup {T!Null}
    PROVE  LET row == T!Row(f, mode, v)
           IN  /\ DOMAIN row = RowRefs
               /\ row.raw \in Words /\ row.bytes \in Bytes \cup {NoBytes}
               /\ mode = "edit" => AsRead(f, v, row)
<1>1. f.type \in T!Types
  BY DEF T!Fields
<1>2. v.kind = "bytes" => v.text \in Bytes
  BY <1>1, HeldValues
     DEF T!Null, T!Numbers, T!WideInts, T!Decimals, T!Booleans, T!Maps, T!Strings, T!Blobs,
         T!Value
<1>3. v.kind # "bytes" => v.text \in Words
  BY <1>1, HeldValues, PagesAssumption
     DEF T!Null, T!Numbers, T!WideInts, T!Decimals, T!Booleans, T!Boolish, T!Maps,
         T!Strings, T!Blobs, T!Value
<1>4. Blank \in Words
  BY PagesAssumption
<1> QED
  BY <1>2, <1>3, <1>4 DEF T!Row, RowRefs, AsRead

FieldKeeps ==
    /\ {"row", "mode", "field", "initial", "touched"} \subseteq DOMAIN ui'
    /\ DOMAIN ui'.row = RowRefs
    /\ ui'.row.raw \in Words /\ ui'.row.bytes \in Bytes \cup {NoBytes}
    /\ \/ ui'.touched = TRUE
       \/ /\ ui'.mode = ui.mode /\ ui'.field = ui.field /\ ui'.initial = ui.initial
          /\ ui'.touched = ui.touched /\ ui'.row.isBinary = ui.row.isBinary
          /\ ui'.row.raw = ui.row.raw /\ ui'.row.bytes = ui.row.bytes

LEMMA FieldKept == FieldInv /\ FieldKeeps => FieldInv'
BY DEF FieldInv, FieldKeeps, AsRead

\* A form that opens to edit shows what was read, and one that is gone edits nothing.
LEMMA FreshField ==
    /\ {"row", "mode", "field", "initial", "touched", "visible"} \subseteq DOMAIN T!Unmounted
    /\ T!Unmounted.mode = "create"
    /\ DOMAIN T!Unmounted.row = RowRefs
    /\ T!Unmounted.row.raw \in Words
    /\ T!Unmounted.row.bytes \in Bytes \cup {NoBytes}
BY PagesAssumption DEF T!Unmounted, T!Row, RowRefs

LEMMA UnmountedField == ui' = T!Unmounted => FieldInv'
BY FreshField DEF FieldInv

LEMMA FieldStep ==
    ASSUME FieldInv, T!Next
    PROVE  FieldInv'
<1>1. CASE T!ToggleNull
  <2>1. FieldKeeps
    BY <1>1 DEF T!ToggleNull, FieldKeeps, FieldInv, RowRefs
  <2> QED
    BY <2>1, FieldKept
<1>2. CASE \/ T!TypeBadBase64 \/ T!Submit \/ \E b \in Bytes : T!PickFile(b)
           \/ \E v \in {"hex", "base64", "utf8"} : T!SwitchView(v)
  <2>1. FieldKeeps
    BY <1>2 DEF T!TypeBadBase64, T!Submit, T!PickFile, T!SwitchView, FieldKeeps, FieldInv
  <2> QED
    BY <2>1, FieldKept
<1>3. CASE T!Close \/ \E r \in flight : T!WriteAnswered(r)
  <2>1. ui' = ui \/ ui' = T!Unmounted
    BY <1>3 DEF T!Close, T!WriteAnswered
  <2>2. CASE ui' = ui
    BY <2>2 DEF FieldInv, AsRead
  <2> QED
    BY <2>1, <2>2, UnmountedField
<1>4. ASSUME NEW f \in T!Fields, NEW mode \in {"create", "edit"}, T!Open(f, mode)
      PROVE  FieldInv'
  <2>1. PICK v \in T!Holds(f.type) \cup {T!Null} :
          ui' = [T!Unmounted EXCEPT !.visible = TRUE, !.mode = mode, !.field = f,
                                    !.initial = v, !.row = T!Row(f, mode, v)]
    BY <1>4 DEF T!Open
  <2> DEFINE row == T!Row(f, mode, v)
  <2>2. /\ DOMAIN row = RowRefs
        /\ row.raw \in Words /\ row.bytes \in Bytes \cup {NoBytes}
        /\ mode = "edit" => AsRead(f, v, row)
    BY RowHolds
  <2> HIDE DEF row
  <2>3. /\ DOMAIN ui' = DOMAIN T!Unmounted
        /\ ui'.mode = mode /\ ui'.field = f /\ ui'.initial = v /\ ui'.row = row
    BY <2>1, FreshField DEF row
  <2> QED
    BY <2>2, <2>3, FreshField DEF FieldInv
<1>5. ASSUME NEW t \in Words, T!TypeText(t) PROVE FieldInv'
  <2>1. FieldKeeps
    BY <1>5 DEF T!TypeText, T!Edits, FieldKeeps, FieldInv, RowRefs
  <2> QED
    BY <2>1, FieldKept
<1>6. ASSUME NEW b \in Bytes, T!TypeBytes(b) \/ T!FileRead(b) PROVE FieldInv'
  <2>1. PICK u : /\ DOMAIN u = DOMAIN ui /\ u.row = ui.row
                 /\ T!NewBytes(b, u)
    <3>1. CASE T!TypeBytes(b)
      BY <3>1 DEF T!TypeBytes
    <3>2. CASE T!FileRead(b)
      <4> DEFINE u == [ui EXCEPT !.reading = ui.reading \ {b}]
      <4>1. T!NewBytes(b, u)
        BY <3>2 DEF T!FileRead
      <4>2. DOMAIN u = DOMAIN ui /\ u.row = ui.row
        BY DEF FieldInv
      <4> QED
        BY <4>1, <4>2
    <3> QED
      BY <1>6, <3>1, <3>2
  <2> DEFINE row == [u.row EXCEPT !.bytes = b]
             view == IF u.view \in T!Views(b) THEN u.view ELSE "hex"
  <2>2. ui' = [u EXCEPT !.row = row, !.touched = TRUE, !.badText = FALSE, !.view = view]
    BY <2>1 DEF T!NewBytes
  <2>3. DOMAIN row = RowRefs /\ row.raw \in Words /\ row.bytes = b
    BY <2>1 DEF FieldInv, RowRefs
  <2> HIDE DEF row, view
  <2>4. FieldKeeps
    BY <2>1, <2>2, <2>3 DEF FieldKeeps, FieldInv
  <2> QED
    BY <2>4, FieldKept
<1> QED
  BY <1>1, <1>2, <1>3, <1>4, <1>5, <1>6 DEF T!Next

LEMMA FieldStart == T!Init => FieldInv
BY FreshField DEF T!Init, FieldInv

LEMMA FieldMeans == FieldInv => T!UntouchedKept
<1> SUFFICES ASSUME FieldInv, ui.mode = "edit", ~ui.touched,
                    ui.row.isNull <=> ui.initial = T!Null, ui.field.type \notin T!Untyped
             PROVE  T!ParseValue(ui.field, ui.row) = Returned(ui.field, ui.initial)
  BY DEF T!UntouchedKept, T!Sent, Returned
<1> QED
  BY WrittenAsRead DEF FieldInv

----------------------------------------------------------------------------
(* The audit page. *)

LEMMA AuditCounts == \A ids : A!Cardinality(ids) = Cardinality(ids)
BY DEF A!Cardinality, Cardinality

\* Place of an entry in a set of them, the newest first.
Rank(ids, e) == Cardinality({d \in ids : d >= e})

LEMMA RankFalls ==
    ASSUME NEW ids \in SUBSET Nat, IsFiniteSet(ids)
    PROVE  /\ \A e \in ids : Rank(ids, e) \in 1..Cardinality(ids)
           /\ \A d, e \in ids : d < e => Rank(ids, d) > Rank(ids, e)
<1> DEFINE From(e) == {d \in ids : d >= e}
<1>1. ASSUME NEW e \in ids
      PROVE  /\ From(e) \in SUBSET ids /\ IsFiniteSet(From(e)) /\ e \in From(e)
             /\ Cardinality(From(e)) \in Nat /\ Cardinality(From(e)) <= Cardinality(ids)
             /\ Cardinality(From(e)) # 0
  <2>1. From(e) \in SUBSET ids /\ e \in From(e)
    OBVIOUS
  <2> HIDE DEF From
  <2> QED
    BY <2>1, FS_Subset, FS_CardinalityType, FS_EmptySet
<1>2. Cardinality(ids) \in Nat
  BY FS_CardinalityType
<1>3. ASSUME NEW d \in ids, NEW e \in ids, d < e
      PROVE  Cardinality(From(d)) > Cardinality(From(e))
  <2>0. \A x \in ids : x \in Nat
    OBVIOUS
  <2>1. From(e) \in SUBSET From(d) /\ d \notin From(e)
    <3>1. \A x \in From(e) : x \in From(d)
      BY <1>3, <2>0
    <3>2. ~(d >= e)
      BY <1>3, <2>0
    <3> QED
      BY <3>1, <3>2
  <2>2. From(d) # From(e)
    BY <1>1, <2>1
  <2>3. /\ IsFiniteSet(From(d))
        /\ Cardinality(From(d)) \in Nat /\ Cardinality(From(e)) \in Nat
    BY <1>1
  <2> HIDE DEF From
  <2>4. Cardinality(From(e)) <= Cardinality(From(d))
        /\ Cardinality(From(e)) # Cardinality(From(d))
    BY <2>1, <2>2, <2>3, FS_Subset
  <2> QED
    BY <2>3, <2>4
<1> QED
  BY <1>1, <1>2, <1>3 DEF Rank

\* Every place is taken by an entry.
LEMMA EveryRank ==
    ASSUME NEW ids \in SUBSET Nat, IsFiniteSet(ids), NEW i \in 1..Cardinality(ids)
    PROVE  \E e \in ids : Rank(ids, e) = i
<1> DEFINE n == Cardinality(ids)
           rank == [e \in ids |-> Rank(ids, e)]
<1>1. n \in Nat
  BY FS_CardinalityType
<1>2. IsFiniteSet(1..n) /\ Cardinality(1..n) = n
  BY <1>1, FS_Interval
<1>3. rank \in [ids -> 1..n]
  BY RankFalls
<1>4. \A d, e \in ids : rank[d] = rank[e] => d = e
  BY RankFalls
<1>5. rank \in Injection(ids, 1..n)
  BY <1>3, <1>4 DEF Injection, IsInjective
<1>6. rank \in Surjection(ids, 1..n)
  <2> HIDE DEF rank, n
  <2> QED
    BY <1>2, <1>5, FS_Injection DEF n
<1> QED
  BY <1>6 DEF Surjection

\* A finite set of entries can be put in order.
LEMMA InOrder ==
    ASSUME NEW ids \in SUBSET Nat, IsFiniteSet(ids)
    PROVE  /\ A!Descending(ids) \in [1..Cardinality(ids) -> ids]
           /\ Cardinality(ids) \in Nat
<1> DEFINE n == Cardinality(ids)
           s == [i \in 1..n |-> CHOOSE e \in ids : Rank(ids, e) = i]
<1>1. n \in Nat
  BY FS_CardinalityType
<1>2. ASSUME NEW i \in 1..n PROVE s[i] \in ids /\ Rank(ids, s[i]) = i
  BY EveryRank
<1>3. s \in [1..n -> ids]
  BY <1>2
<1>4. ASSUME NEW i \in 1..n, NEW j \in 1..n, i < j PROVE s[i] > s[j]
  <2>1. /\ s[i] \in ids /\ s[j] \in ids
        /\ Rank(ids, s[i]) = i /\ Rank(ids, s[j]) = j
    BY <1>2
  <2> HIDE DEF s, n
  <2>2. s[i] \in Nat /\ s[j] \in Nat /\ i \in Int /\ j \in Int
    <3>1. \A x \in ids : x \in Nat
      OBVIOUS
    <3>2. \A k \in 1..n : k \in Int
      BY <1>1
    <3> QED
      BY <2>1, <3>1, <3>2
  <2>3. s[i] # s[j] /\ ~(s[i] < s[j])
    BY <1>4, <2>1, <2>2, RankFalls
  <2> QED
    BY <2>2, <2>3
<1>5. \A i, j \in DOMAIN s : i < j => s[i] > s[j]
  BY <1>4
<1> HIDE DEF s
<1> QED
  BY <1>1, <1>3, <1>5, AuditCounts DEF A!Descending


LEMMA NumberedIsSeq ==
    ASSUME NEW Ids, NEW ids \in SUBSET Ids, NEW n \in Nat, NEW s \in [1..n -> ids]
    PROVE  /\ s \in Seq(Ids) /\ Len(s) = n
           /\ n # 0 => s # <<>> /\ s[Len(s)] \in Ids
<1>1. s \in [1..n -> Ids]
  OBVIOUS
<1>2. s \in Seq(Ids) /\ Len(s) = n
  BY <1>1
<1>3. ASSUME n # 0 PROVE n \in 1..n
  BY <1>3
<1>4. n # 0 => s[n] \in Ids
  BY <1>1, <1>3
<1>5. n # 0 => s # <<>>
  BY <1>2
<1> QED
  BY <1>2, <1>4, <1>5

\* A page of the log: its last entry is the cursor when there are more.
LEMMA PageOfLog ==
    ASSUME NEW c \in Criteria, NEW newest \in 0..MaxEntry, NEW after
    PROVE  LET rows == A!Rows(c, newest, after)
               p == A!Page(c, newest, after)
               cursor == A!NextCursor(p, rows)
           IN  /\ p.entries \in Seq(1..MaxEntry)
               /\ p.more \in BOOLEAN
               /\ p.more => /\ p.entries # <<>>
                            /\ cursor \in 1..MaxEntry
                            /\ cursor = p.entries[Len(p.entries)]
               /\ ~p.more => cursor = 0
<1> DEFINE rows == A!Rows(c, newest, after)
           taken == A!Newest(PageSize, rows)
           s == A!Descending(taken)
<1>1. MaxEntry \in Nat /\ PageSize \in Nat /\ PageSize # 0 /\ Matching[c] \subseteq Nat \ {0}
  BY PagesAssumption
<1>2. rows \in SUBSET (1..newest) /\ rows \in SUBSET (1..MaxEntry) /\ rows \in SUBSET Nat
  BY <1>1 DEF A!Rows
<1>3. IsFiniteSet(rows)
  <2>1. IsFiniteSet(1..MaxEntry)
    BY <1>1, FS_Interval
  <2> QED
    BY <1>2, <2>1, FS_Subset
<1>4. taken \in SUBSET rows /\ IsFiniteSet(taken)
  <2>1. taken \in SUBSET rows
    BY DEF A!Newest
  <2> QED
    BY <1>3, <2>1, FS_Subset
<1>5. ASSUME taken # rows PROVE taken # {}
  <2>1. Cardinality(rows) \in Nat /\ Cardinality(rows) # 0
    BY <1>3, <1>4, <1>5, FS_CardinalityType, FS_EmptySet
  <2>2. 1 \in 1..Cardinality(rows)
    BY <2>1
  <2>3. PICK e \in rows : Rank(rows, e) = 1
    BY <1>2, <1>3, <2>2, EveryRank
  <2>4. e \in taken
    BY <1>1, <2>3, AuditCounts DEF Rank, A!Newest
  <2> QED
    BY <2>4
<1> HIDE DEF rows, taken
<1>6. s \in [1..Cardinality(taken) -> taken] /\ Cardinality(taken) \in Nat
  BY <1>2, <1>4, InOrder
<1>7. /\ s \in Seq(1..MaxEntry) /\ Len(s) = Cardinality(taken)
      /\ Cardinality(taken) # 0 => s # <<>> /\ s[Len(s)] \in 1..MaxEntry
  <2> DEFINE Ids == 1..MaxEntry
             n == Cardinality(taken)
  <2>1. taken \in SUBSET Ids /\ n \in Nat /\ s \in [1..n -> taken]
    BY <1>2, <1>4, <1>6
  <2> HIDE DEF s, Ids, n
  <2>2. s \in Seq(Ids) /\ Len(s) = n /\ (n # 0 => s # <<>> /\ s[Len(s)] \in Ids)
    BY <2>1, NumberedIsSeq
  <2> QED
    BY <2>2 DEF Ids, n
<1>8. ASSUME taken # rows
      PROVE  s # <<>> /\ s[Len(s)] \in 1..MaxEntry
  <2>1. Cardinality(taken) # 0
    BY <1>4, <1>5, <1>8, FS_EmptySet
  <2> QED
    BY <1>7, <2>1
<1>9. A!Page(c, newest, after) = [entries |-> s, more |-> taken # rows]
  BY DEF A!Page, rows, taken
<1> DEFINE p == A!Page(c, newest, after)
           cursor == A!NextCursor(p, A!Rows(c, newest, after))
<1> HIDE DEF s
<1>10. p.entries = s /\ p.more = (taken # rows)
  BY <1>9
<1>11. cursor = IF p.more THEN s[Len(s)] ELSE 0
  BY <1>10 DEF A!NextCursor, A!Last
<1> HIDE DEF p, cursor
<1> QED
  BY <1>7, <1>8, <1>10, <1>11 DEF p, cursor


AuditRefs == {"entries", "cursor", "more", "pending", "error", "filter", "verifying", "chain"}

\* The table, the cursor behind it, and the filters asked for.
AuditInv ==
    /\ backend \in 0..MaxEntry
    /\ DOMAIN ui = AuditRefs
    /\ ui.filter \in Criteria
    /\ ui.entries \in Seq(1..MaxEntry)
    /\ ui.cursor \in 0..MaxEntry
    /\ ui.more \in BOOLEAN
    /\ \A r \in flight : r.op = "audit" => r.filter \in Criteria
    /\ A!ContinuesFromLast

LEMMA AuditStart == A!Init => AuditInv
BY PagesAssumption DEF A!Init, A!Ask, AuditInv, AuditRefs, A!ContinuesFromLast

\* What a load asks for is of the filter it names.
LEMMA AuditAsked ==
    ASSUME AuditInv, NEW c \in Criteria, NEW append, NEW after,
           A!Posts(A!Ask(c, append, after))
    PROVE  \A r \in flight' : r.op = "audit" => r.filter \in Criteria
<1>1. PICK i \in 1..MaxCalls :
        flight' = flight \cup {[op |-> "audit", filter |-> c, append |-> append,
                                after |-> after, n |-> i]}
  BY DEF A!Posts, A!Sends, A!Ask
<1> QED
  BY <1>1 DEF AuditInv

LEMMA AuditLoadsFirst ==
    ASSUME AuditInv, NEW u, DOMAIN u = AuditRefs, u.filter \in Criteria,
           u.more \in BOOLEAN, A!LoadFirst(u)
    PROVE  AuditInv'
<1>1. /\ ui' = [u EXCEPT !.pending = TRUE, !.error = FALSE, !.entries = <<>>, !.cursor = 0]
      /\ backend' = backend
      /\ \A r \in flight' : r.op = "audit" => r.filter \in Criteria
  BY AuditAsked DEF A!LoadFirst
<1> QED
  BY <1>1, PagesAssumption DEF AuditInv, AuditRefs, A!ContinuesFromLast

AuditKeeps ==
    /\ backend' \in 0..MaxEntry
    /\ DOMAIN ui' = AuditRefs /\ ui'.filter \in Criteria
    /\ ui'.entries = ui.entries /\ ui'.cursor = ui.cursor /\ ui'.more = ui.more
    /\ \A r \in flight' : r.op = "audit" => r.filter \in Criteria

LEMMA AuditKept == AuditInv /\ AuditKeeps => AuditInv'
BY DEF AuditInv, AuditKeeps, A!ContinuesFromLast, A!Last

\* A page put behind the table, or in its place, ends the table.
LEMMA AuditLoaded ==
    ASSUME AuditInv, NEW r \in flight, A!Loaded(r)
    PROVE  AuditInv'
<1>1. PICK newest \in 0..backend :
        LET p == A!Page(r.filter, newest, r.after)
        IN  ui' = [ui EXCEPT
               !.pending = FALSE,
               !.entries = IF r.append THEN ui.entries \o p.entries ELSE p.entries,
               !.cursor = A!NextCursor(p, A!Rows(r.filter, newest, r.after)),
               !.more = p.more]
  BY DEF A!Loaded, AuditInv, AuditRefs
<1> DEFINE p == A!Page(r.filter, newest, r.after)
           cursor == A!NextCursor(p, A!Rows(r.filter, newest, r.after))
           before == IF r.append THEN ui.entries ELSE <<>>
           after == before \o p.entries
           Ids == 1..MaxEntry
<1>2. newest \in 0..MaxEntry
  BY PagesAssumption DEF AuditInv
<1>3. r.filter \in Criteria
  BY DEF A!Loaded, AuditInv
<1>4. /\ p.entries \in Seq(Ids) /\ p.more \in BOOLEAN
      /\ p.more => /\ p.entries # <<>> /\ cursor \in Ids
                   /\ cursor = p.entries[Len(p.entries)]
      /\ ~p.more => cursor = 0
  BY <1>2, <1>3, PageOfLog
<1>5. before \in Seq(Ids)
  <2>1. <<>> \in Seq(Ids) /\ ui.entries \in Seq(Ids)
    BY DEF AuditInv
  <2> QED
    BY <2>1
<1>6. ui' = [ui EXCEPT !.pending = FALSE, !.entries = after, !.cursor = cursor,
                       !.more = p.more]
  <2> HIDE DEF cursor
  <2>1. p.entries = <<>> \o p.entries
    BY <1>4
  <2> QED
    BY <1>1, <2>1 DEF cursor
<1>7. /\ after \in Seq(Ids)
      /\ p.more => after # <<>> /\ after[Len(after)] = cursor
  <2> HIDE DEF p, before, cursor, Ids
  <2>1. after \in Seq(Ids) /\ Len(after) = Len(before) + Len(p.entries)
    BY <1>4, <1>5
  <2>2. ASSUME p.more PROVE Len(p.entries) \in Nat /\ Len(p.entries) # 0
    BY <1>4, <2>2
  <2>3. ASSUME p.more PROVE after[Len(after)] = p.entries[Len(p.entries)]
    BY <1>4, <1>5, <2>1, <2>2, <2>3
  <2>4. ASSUME p.more PROVE after # <<>>
    BY <1>5, <2>1, <2>2, <2>4
  <2> QED
    BY <1>4, <2>1, <2>3, <2>4
<1>8. cursor \in 0..MaxEntry
  BY <1>4, PagesAssumption
<1>9. /\ backend' = backend
      /\ flight' \subseteq flight
  BY DEF A!Loaded, A!Answered
<1> HIDE DEF p, cursor, before, after
<1>10. /\ DOMAIN ui' = AuditRefs /\ ui'.filter = ui.filter
       /\ ui'.entries = after /\ ui'.cursor = cursor /\ ui'.more = p.more
  BY <1>6 DEF AuditInv, AuditRefs
<1>11. A!ContinuesFromLast'
  BY <1>4, <1>7, <1>10 DEF A!ContinuesFromLast, A!Last
<1> QED
  BY <1>4, <1>7, <1>8, <1>9, <1>10, <1>11 DEF AuditInv

LEMMA AuditStep ==
    ASSUME AuditInv, A!Next
    PROVE  AuditInv'
<1>1. CASE A!Apply
  BY <1>1, AuditLoadsFirst DEF A!Apply, AuditInv
<1>2. ASSUME NEW c \in Criteria, A!LoadFirst([ui EXCEPT !.filter = c]) PROVE AuditInv'
  <2> DEFINE u == [ui EXCEPT !.filter = c]
  <2>1. DOMAIN u = AuditRefs /\ u.filter = c /\ u.more = ui.more
    BY DEF AuditInv, AuditRefs
  <2>2. A!LoadFirst(u)
    BY <1>2
  <2> HIDE DEF u
  <2> QED
    BY <2>1, <2>2, AuditLoadsFirst DEF AuditInv
<1>3. CASE A!ResetFilters \/ \E c \in Criteria : A!SetPreset(c)
  BY <1>2, <1>3, PagesAssumption DEF A!ResetFilters, A!SetPreset
<1>4. CASE A!LoadMore
  <2>1. \A r \in flight' : r.op = "audit" => r.filter \in Criteria
    BY <1>4, AuditAsked DEF A!LoadMore, AuditInv
  <2>2. AuditKeeps
    BY <1>4, <2>1 DEF A!LoadMore, AuditKeeps, AuditInv, AuditRefs
  <2> QED
    BY <2>2, AuditKept
<1>5. CASE A!VerifyChain
  <2>1. PICK i \in 1..MaxCalls : flight' = flight \cup {[op |-> "verify", n |-> i]}
    BY <1>5 DEF A!VerifyChain, A!Posts, A!Sends
  <2>2. \A r \in flight' : r.op = "audit" => r.filter \in Criteria
    BY <2>1 DEF AuditInv
  <2>3. AuditKeeps
    BY <1>5, <2>2 DEF A!VerifyChain, AuditKeeps, AuditInv, AuditRefs
  <2> QED
    BY <2>3, AuditKept
<1>6. CASE A!Revisit
  <2>1. PICK i \in 1..MaxCalls :
          flight' = {r \in flight : r.op = "audit"}
                      \cup {[A!Ask(Everything, FALSE, 0) EXCEPT !.n = i]}
    BY <1>6 DEF A!Revisit, A!Sends
  <2> DEFINE first == [A!Ask(Everything, FALSE, 0) EXCEPT !.n = i]
  <2>2. first.filter = Everything
    BY DEF A!Ask
  <2> HIDE DEF first
  <2>3. \A r \in flight' : r.op = "audit" => r.filter \in Criteria
    BY <2>1, <2>2, PagesAssumption DEF AuditInv, first
  <2>4. /\ DOMAIN ui' = AuditRefs /\ ui'.filter = Everything
        /\ ui'.entries = <<>> /\ ui'.cursor = 0 /\ ui'.more = ui.more
        /\ backend' = backend
    BY <1>6 DEF A!Revisit, AuditInv, AuditRefs
  <2> QED
    BY <2>3, <2>4, PagesAssumption DEF AuditInv, A!ContinuesFromLast
<1>7. CASE A!EntryAdded \/ \E c \in Criteria : A!TypeFilter(c)
  <2>1. AuditKeeps
    BY <1>7, PagesAssumption DEF A!EntryAdded, A!TypeFilter, AuditKeeps, AuditInv, AuditRefs
  <2> QED
    BY <2>1, AuditKept
<1>8. ASSUME NEW r \in flight, A!LoadFailed(r) \/ A!Verified(r) PROVE AuditInv'
  <2>1. AuditKeeps
    BY <1>8 DEF A!LoadFailed, A!Verified, A!Answered, AuditKeeps, AuditInv, AuditRefs
  <2> QED
    BY <2>1, AuditKept
<1> QED
  BY <1>1, <1>3, <1>4, <1>5, <1>6, <1>7, <1>8, AuditLoaded DEF A!Next

----------------------------------------------------------------------------
(* Requests in flight. *)

Bounded(f) == IsFiniteSet(f) /\ Cardinality(f) <= MaxFlight + MaxCalls

\* Some page sends, under its bound.
Sending(g) ==
    \/ R!Sends(g) \/ D!Sends(g) \/ T!Sends(g) \/ P!Sends(g) \/ E!Sends(g) \/ C!Sends(g)
    \/ S!Sends(g) \/ L!Sends(g) \/ A!Sends(g) \/ B!Sends(g) \/ K!Sends(g)

Posting(r) ==
    \/ R!Posts(r) \/ D!Posts(r) \/ T!Posts(r) \/ P!Posts(r) \/ E!Posts(r) \/ C!Posts(r)
    \/ S!Posts(r) \/ L!Posts(r) \/ A!Posts(r) \/ B!Posts(r) \/ K!Posts(r)

LEMMA Counts ==
    ASSUME NEW X
    PROVE  /\ R!Cardinality(X) = Cardinality(X) /\ D!Cardinality(X) = Cardinality(X)
           /\ T!Cardinality(X) = Cardinality(X) /\ P!Cardinality(X) = Cardinality(X)
           /\ E!Cardinality(X) = Cardinality(X) /\ C!Cardinality(X) = Cardinality(X)
           /\ S!Cardinality(X) = Cardinality(X) /\ L!Cardinality(X) = Cardinality(X)
           /\ A!Cardinality(X) = Cardinality(X) /\ B!Cardinality(X) = Cardinality(X)
           /\ K!Cardinality(X) = Cardinality(X)
<1>1. R!Cardinality(X) = Cardinality(X)
  BY DEF R!Cardinality, Cardinality
<1>2. D!Cardinality(X) = Cardinality(X)
  BY DEF D!Cardinality, Cardinality
<1>3. T!Cardinality(X) = Cardinality(X)
  BY DEF T!Cardinality, Cardinality
<1>4. P!Cardinality(X) = Cardinality(X)
  BY DEF P!Cardinality, Cardinality
<1>5. E!Cardinality(X) = Cardinality(X)
  BY DEF E!Cardinality, Cardinality
<1>6. C!Cardinality(X) = Cardinality(X)
  BY DEF C!Cardinality, Cardinality
<1>7. S!Cardinality(X) = Cardinality(X)
  BY DEF S!Cardinality, Cardinality
<1>8. L!Cardinality(X) = Cardinality(X)
  BY DEF L!Cardinality, Cardinality
<1>9. B!Cardinality(X) = Cardinality(X)
  BY DEF B!Cardinality, Cardinality
<1>10. K!Cardinality(X) = Cardinality(X)
  BY DEF K!Cardinality, Cardinality
<1> QED
  BY <1>1, <1>2, <1>3, <1>4, <1>5, <1>6, <1>7, <1>8, <1>9, <1>10, AuditCounts

LEMMA SendingCounts ==
    ASSUME NEW g, Sending(g)
    PROVE  /\ flight' = g
           /\ Cardinality(g) <= MaxFlight \/ Cardinality(g) <= MaxCalls
BY Counts DEF Sending, R!Sends, D!Sends, T!Sends, P!Sends, E!Sends, C!Sends, S!Sends,
              L!Sends, A!Sends, B!Sends, K!Sends

LEMMA FewerBounded ==
    ASSUME NEW f, Bounded(f), NEW g \in SUBSET f
    PROVE  Bounded(g)
<1>1. /\ IsFiniteSet(g) /\ Cardinality(g) <= Cardinality(f)
      /\ Cardinality(g) \in Nat /\ Cardinality(f) \in Nat
  BY FS_Subset, FS_CardinalityType DEF Bounded
<1>2. MaxFlight + MaxCalls \in Nat
  BY PagesAssumption
<1> QED
  BY <1>1, <1>2 DEF Bounded

\* What a page sends stays within the bounds.
LEMMA SentFinite ==
    ASSUME NEW g, IsFiniteSet(g), Sending(g)
    PROVE  flight' = g /\ Bounded(flight')
<1>1. Cardinality(g) \in Nat
  BY FS_CardinalityType
<1>2. MaxFlight \in Nat /\ MaxCalls \in Nat
  BY PagesAssumption
<1>3. Cardinality(g) <= MaxFlight + MaxCalls
  BY <1>1, <1>2, SendingCounts
<1> QED
  BY <1>3, SendingCounts DEF Bounded

LEMMA SentBounded ==
    ASSUME Bounded(flight), NEW g, NEW Q, IsFiniteSet(Q), g \subseteq flight \cup Q,
           Sending(g)
    PROVE  flight' = g /\ Bounded(flight')
<1>1. IsFiniteSet(flight \cup Q)
  BY FS_Union DEF Bounded
<1>2. IsFiniteSet(g)
  BY <1>1, FS_Subset
<1> QED
  BY <1>2, SentFinite

LEMMA PostedBounded ==
    ASSUME Bounded(flight), NEW r, Posting(r)
    PROVE  /\ Bounded(flight')
           /\ \E i : flight' = flight \cup {[r EXCEPT !.n = i]}
<1>1. PICK i : Sending(flight \cup {[r EXCEPT !.n = i]})
  BY DEF Posting, Sending, R!Posts, D!Posts, T!Posts, P!Posts, E!Posts, C!Posts, S!Posts,
         L!Posts, A!Posts, B!Posts, K!Posts
<1> DEFINE q == [r EXCEPT !.n = i]
<1>2. IsFiniteSet({q})
  BY FS_Singleton
<1>3. Sending(flight \cup {q})
  BY <1>1
<1> HIDE DEF q
<1>4. flight' = flight \cup {q} /\ Bounded(flight')
  BY <1>2, <1>3, SentBounded
<1> QED
  BY <1>4 DEF q

LEMMA SmallBounded ==
    ASSUME NEW a, NEW b, NEW f \in SUBSET {a, b}
    PROVE  Bounded(f)
<1>1. IsFiniteSet({a}) /\ Cardinality({a}) = 1
  BY FS_Singleton
<1>2. IsFiniteSet({a} \cup {b}) /\ Cardinality({a} \cup {b}) <= 2
  BY <1>1, FS_AddElement
<1>3. {a} \cup {b} = {a, b}
  OBVIOUS
<1>4. IsFiniteSet({a, b}) /\ Cardinality({a, b}) <= 2
  BY <1>2, <1>3
<1>5. Cardinality({a, b}) \in Nat
  BY <1>4, FS_CardinalityType
<1>6. MaxFlight \in Nat \ {0} /\ MaxCalls \in Nat \ {0}
  BY PagesAssumption
<1>7. Bounded({a, b})
  BY <1>4, <1>5, <1>6 DEF Bounded
<1> QED
  BY <1>7, FewerBounded

\* One request in the place of another.
LEMMA SwapBounded ==
    ASSUME NEW f, Bounded(f), NEW r \in f, NEW q
    PROVE  Bounded((f \ {r}) \cup {q})
<1> DEFINE g == f \ {r}
<1>1. IsFiniteSet(g) /\ Cardinality(g) = Cardinality(f) - 1
  BY FS_RemoveElement DEF Bounded
<1>2. Cardinality(f) \in Nat /\ Cardinality(g) \in Nat
  BY <1>1, FS_CardinalityType DEF Bounded
<1> HIDE DEF g
<1>3. IsFiniteSet(g \cup {q}) /\ Cardinality(g \cup {q}) <= Cardinality(g) + 1
  BY <1>1, <1>2, FS_AddElement
<1>4. Cardinality(g \cup {q}) \in Nat
  BY <1>3, FS_CardinalityType
<1>5. MaxFlight + MaxCalls \in Nat
  BY PagesAssumption
<1>6. Cardinality(g \cup {q}) <= MaxFlight + MaxCalls
  BY <1>1, <1>2, <1>3, <1>4, <1>5 DEF Bounded
<1> QED
  BY <1>3, <1>6 DEF Bounded, g

----------------------------------------------------------------------------
(* What the pages keep: the recovery page. *)

RecoveryData ==
    /\ Bounded(flight)
    /\ {"action", "busy"} \subseteq DOMAIN ui
    /\ ui.action \in Requests \cup {NoRequest} /\ ui.busy \in BOOLEAN
    /\ \A r \in flight : r.op \in R!Operations

LEMMA RecoveryAsks ==
    ASSUME RecoveryData, NEW r, "op" \in DOMAIN r, r.op \in R!Operations, Posting(r)
    PROVE  Bounded(flight') /\ \A q \in flight' : q.op \in R!Operations
<1>1. PICK i : flight' = flight \cup {[r EXCEPT !.n = i]}
  BY PostedBounded DEF RecoveryData
<1>2. [r EXCEPT !.n = i].op = r.op
  OBVIOUS
<1> QED
  BY <1>1, <1>2, PostedBounded DEF RecoveryData

LEMMA RecoveryDataStep ==
    ASSUME RecoveryData, R!Next
    PROVE  RecoveryData'
<1>1. CASE \/ R!Acknowledge \/ R!Cancel \/ R!CloseWizard \/ R!ClusterMoves \/ R!PauseChanges
           \/ \E t \in R!Tokens : R!TypeToken(t)
  BY <1>1 DEF R!Acknowledge, R!Cancel, R!CloseWizard, R!ClusterMoves, R!PauseChanges,
              R!TypeToken, RecoveryData, Bounded
<1>2. ASSUME NEW q \in Requests, R!OpensOn(q) PROVE RecoveryData'
  <2> DEFINE query == [op |-> "preflight", of |-> q]
  <2>1. /\ {"action", "busy"} \subseteq DOMAIN ui'
        /\ ui'.action = q /\ ui'.busy = TRUE
    BY <1>2 DEF R!OpensOn, RecoveryData
  <2>2. Sending(flight \cup {query})
    BY <1>2 DEF R!OpensOn, R!Queries, Sending
  <2>3. query.op \in R!Operations
    BY DEF R!Operations
  <2> HIDE DEF query
  <2>4. flight' = flight \cup {query} /\ Bounded(flight')
    BY <2>2, FS_Singleton, SentBounded DEF RecoveryData
  <2> QED
    BY <2>1, <2>3, <2>4 DEF RecoveryData
<1>3. ASSUME NEW w \in Wizards, R!OpenWizard(w) PROVE RecoveryData'
  <2>1. {"action", "busy"} \subseteq DOMAIN ui' /\ ui'.action = ui.action /\ ui'.busy = ui.busy
    BY <1>3 DEF R!OpenWizard, RecoveryData
  <2>2. CASE w \in Diagnosing
    <3>1. Posting([op |-> "diagnose", of |-> w, n |-> 0])
      BY <1>3, <2>2 DEF R!OpenWizard, Posting
    <3>2. Bounded(flight') /\ \A q \in flight' : q.op \in R!Operations
      BY <3>1, RecoveryAsks DEF R!Operations
    <3> QED
      BY <2>1, <3>2 DEF RecoveryData
  <2>3. CASE w \notin Diagnosing
    BY <1>3, <2>1, <2>3 DEF R!OpenWizard, RecoveryData, Bounded
  <2> QED
    BY <2>2, <2>3
<1>4. CASE R!Apply
  <2>1. /\ {"action", "busy"} \subseteq DOMAIN ui' /\ ui'.action = ui.action
        /\ ui'.busy = TRUE
    BY <1>4 DEF R!Apply, RecoveryData
  <2>2. PICK r : "op" \in DOMAIN r /\ r.op = "apply" /\ Posting(r)
    BY <1>4 DEF R!Apply, Posting
  <2>3. Bounded(flight') /\ \A q \in flight' : q.op \in R!Operations
    BY <2>2, RecoveryAsks DEF R!Operations
  <2> QED
    BY <2>1, <2>3 DEF RecoveryData
<1>5. ASSUME NEW r \in flight,
             \/ R!PreflightAnswered(r) \/ R!DiagnoseAnswered(r) \/ R!RefreshAnswered(r)
             \/ R!ApplyLost(r)
      PROVE  RecoveryData'
  <2>1. flight' \in SUBSET flight
    BY <1>5 DEF R!PreflightAnswered, R!DiagnoseAnswered, R!RefreshAnswered, R!ApplyLost,
                R!Answered
  <2>2. /\ {"action", "busy"} \subseteq DOMAIN ui' /\ ui'.action = ui.action
        /\ ui'.busy \in BOOLEAN
    BY <1>5 DEF R!PreflightAnswered, R!DiagnoseAnswered, R!RefreshAnswered, R!ApplyLost,
                RecoveryData
  <2> QED
    BY <2>1, <2>2, FewerBounded DEF RecoveryData
<1>6. ASSUME NEW r \in flight, R!ApplyStale(r) \/ R!ApplyDone(r) PROVE RecoveryData'
  <2>1. PICK q : flight' = (flight \ {r}) \cup {q} /\ q.op \in R!Operations
    <3>1. [op |-> "preflight", of |-> ui.action].op \in R!Operations
          /\ R!Refresh(r.of).op \in R!Operations
      BY DEF R!Operations, R!Refresh
    <3> QED
      BY <1>6, <3>1 DEF R!ApplyStale, R!ApplyDone
  <2>2. /\ {"action", "busy"} \subseteq DOMAIN ui' /\ ui'.action = ui.action
        /\ ui'.busy = ui.busy
    BY <1>6 DEF R!ApplyStale, R!ApplyDone, RecoveryData
  <2> QED
    BY <2>1, <2>2, SwapBounded DEF RecoveryData
<1> QED
  BY <1>1, <1>2, <1>3, <1>4, <1>5, <1>6 DEF R!Next, R!OpenAssessment, R!Review

LEMMA RecoveryDataStart == R!Init => RecoveryData
BY SmallBounded DEF R!Init, RecoveryData

----------------------------------------------------------------------------
(* The tuple form, the audit page, the log page and the console: their flights. *)

\* Requests that change on their way are no more than they were.
LEMMA ChangedBounded ==
    ASSUME NEW f, Bounded(f), NEW m, m = [r \in f |-> m[r]]
    PROVE  Bounded({m[r] : r \in f})
<1> DEFINE g == {m[r] : r \in f}
<1>1. m \in Surjection(f, g)
  BY DEF Surjection
<1> HIDE DEF g
<1>2. IsFiniteSet(g) /\ Cardinality(g) <= Cardinality(f)
  BY <1>1, FS_Surjection DEF Bounded
<1>3. Cardinality(g) \in Nat /\ Cardinality(f) \in Nat
  BY <1>2, FS_CardinalityType DEF Bounded
<1>4. MaxFlight + MaxCalls \in Nat
  BY PagesAssumption
<1>5. Bounded(g)
  BY <1>2, <1>3, <1>4 DEF Bounded
<1> QED
  BY <1>5 DEF g

LEMMA TupleFlight ==
    ASSUME Bounded(flight), T!Next
    PROVE  Bounded(flight')
<1>1. CASE \/ T!ToggleNull \/ T!TypeBadBase64
           \/ \E f \in T!Fields, mode \in {"create", "edit"} : T!Open(f, mode)
           \/ \E t \in Words : T!TypeText(t)
           \/ \E v \in {"hex", "base64", "utf8"} : T!SwitchView(v)
           \/ \E b \in Bytes : T!TypeBytes(b) \/ T!PickFile(b) \/ T!FileRead(b)
  <2>1. flight' = flight
    BY <1>1 DEF T!ToggleNull, T!TypeBadBase64, T!Open, T!TypeText, T!SwitchView,
                T!TypeBytes, T!PickFile, T!FileRead
  <2> QED
    BY <2>1
<1>2. CASE T!Submit
  BY <1>2, PostedBounded DEF T!Submit, Posting
<1>3. CASE T!Close
  <2> DEFINE m == [r \in flight |-> [r EXCEPT !.heard = FALSE]]
  <2>1. flight' = {m[r] : r \in flight}
    BY <1>3 DEF T!Close
  <2>2. m = [r \in flight |-> m[r]]
    OBVIOUS
  <2> HIDE DEF m
  <2> QED
    BY <2>1, <2>2, ChangedBounded
<1>4. ASSUME NEW r \in flight, T!WriteAnswered(r) PROVE Bounded(flight')
  <2>1. flight' \in SUBSET flight
    BY <1>4 DEF T!WriteAnswered, T!Answered
  <2> QED
    BY <2>1, FewerBounded
<1> QED
  BY <1>1, <1>2, <1>3, <1>4 DEF T!Next

LEMMA AuditFlight ==
    ASSUME Bounded(flight), A!Next
    PROVE  Bounded(flight')
<1>1. ASSUME NEW u, A!LoadFirst(u) PROVE Bounded(flight')
  BY <1>1, PostedBounded DEF A!LoadFirst, Posting
<1>2. CASE A!Apply \/ A!ResetFilters \/ \E c \in Criteria : A!SetPreset(c)
  BY <1>1, <1>2 DEF A!Apply, A!ResetFilters, A!SetPreset
<1>3. CASE A!LoadMore
  BY <1>3, PostedBounded DEF A!LoadMore, Posting
<1>4. CASE A!VerifyChain
  BY <1>4, PostedBounded DEF A!VerifyChain, Posting
<1>5. CASE A!Revisit
  <2> DEFINE heard == {r \in flight : r.op = "audit"}
  <2>1. PICK q : A!Sends(heard \cup {q})
    BY <1>5 DEF A!Revisit
  <2>2. heard \cup {q} \subseteq flight \cup {q} /\ Sending(heard \cup {q})
    BY <2>1 DEF Sending
  <2> HIDE DEF heard
  <2> QED
    BY <2>2, FS_Singleton, SentBounded
<1>6. CASE A!EntryAdded \/ \E c \in Criteria : A!TypeFilter(c)
  BY <1>6 DEF A!EntryAdded, A!TypeFilter, Bounded
<1>7. ASSUME NEW r \in flight, A!Loaded(r) \/ A!LoadFailed(r) \/ A!Verified(r)
      PROVE  Bounded(flight')
  <2>1. flight' \in SUBSET flight
    BY <1>7 DEF A!Loaded, A!LoadFailed, A!Verified, A!Answered
  <2> QED
    BY <2>1, FewerBounded
<1> QED
  BY <1>2, <1>3, <1>4, <1>5, <1>6, <1>7 DEF A!Next

LEMMA LogsFlight ==
    ASSUME Bounded(flight), L!Next
    PROVE  Bounded(flight')
<1>1. ASSUME NEW u, L!Load(u) PROVE Bounded(flight')
  BY <1>1, PostedBounded DEF L!Load, Posting
<1>2. CASE L!Reload \/ L!DebounceFires \/ L!Tick
  BY <1>1, <1>2 DEF L!Reload, L!DebounceFires, L!Tick
<1>3. CASE \/ L!ToggleLive \/ L!MountViewer
           \/ \E f \in Filters : L!SetFilter(f)
           \/ \E p \in Periods : L!SetPeriod(p)
  BY <1>3 DEF L!ToggleLive, L!MountViewer, L!SetFilter, L!SetPeriod, Bounded
<1>4. CASE \E f \in Filters : L!PickFilter(f)
  BY <1>4, PostedBounded DEF L!PickFilter, Posting
<1>5. CASE L!Revisit
  <2>1. PICK q : flight' = {q}
    BY <1>5 DEF L!Revisit
  <2> QED
    BY <2>1, SmallBounded
<1>6. ASSUME NEW r \in flight, L!LoadAnswered(r) PROVE Bounded(flight')
  <2>1. flight' \in SUBSET flight
    BY <1>6 DEF L!LoadAnswered, L!Answered
  <2> QED
    BY <2>1, FewerBounded
<1> QED
  BY <1>2, <1>3, <1>4, <1>5, <1>6 DEF L!Next

ConsoleData ==
    /\ Bounded(flight)
    /\ {"lang", "code", "result"} \subseteq DOMAIN ui
    /\ ui.lang \in Langs /\ ui.code \in Codes /\ ui.result \in Codes \cup {NoCode}
    /\ \A r \in flight : r.code \in Codes

LEMMA ConsoleDataStep ==
    ASSUME ConsoleData, K!Next
    PROVE  ConsoleData'
<1>1. CASE \/ K!MountEditor \/ K!AllowFullScan \/ K!MountViewer
           \/ \E c \in Codes : K!TypeCode(c)
           \/ \E lang \in Langs : K!Pick(lang)
  <2>1. flight' = flight
    BY <1>1 DEF K!MountEditor, K!AllowFullScan, K!MountViewer, K!TypeCode, K!Pick
  <2>2. /\ {"lang", "code", "result"} \subseteq DOMAIN ui'
        /\ ui'.lang \in Langs /\ ui'.code \in Codes /\ ui'.result = ui.result
    BY <1>1, PagesAssumption DEF K!MountEditor, K!AllowFullScan, K!MountViewer, K!TypeCode,
                                 K!Pick, ConsoleData
  <2> QED
    BY <2>1, <2>2 DEF ConsoleData
<1>2. ASSUME NEW leave \in BOOLEAN, K!Run(leave) PROVE ConsoleData'
  <2> DEFINE r == [op |-> "eval", code |-> ui.code, lang |-> ui.lang,
                   scan |-> leave \/ ui.allow, n |-> 0]
  <2>1. /\ {"lang", "code", "result"} \subseteq DOMAIN ui'
        /\ ui'.lang = ui.lang /\ ui'.code = ui.code /\ ui'.result = NoCode
    BY <1>2 DEF K!Run, ConsoleData
  <2>2. Posting(r)
    BY <1>2 DEF K!Run, Posting
  <2>3. \A i : [r EXCEPT !.n = i].code = ui.code
    OBVIOUS
  <2> HIDE DEF r
  <2>4. Bounded(flight') /\ \E i : flight' = flight \cup {[r EXCEPT !.n = i]}
    BY <2>2, PostedBounded DEF ConsoleData
  <2>5. \A q \in flight' : q.code \in Codes
    BY <2>3, <2>4 DEF ConsoleData
  <2> QED
    BY <2>1, <2>4, <2>5 DEF ConsoleData
<1>3. ASSUME NEW r \in flight, K!Ran(r) PROVE ConsoleData'
  <2>1. flight' \in SUBSET flight
    BY <1>3 DEF K!Ran, K!Answered
  <2>2. /\ {"lang", "code", "result"} \subseteq DOMAIN ui'
        /\ ui'.lang = ui.lang /\ ui'.code = ui.code /\ ui'.result \in {ui.result, r.code}
    BY <1>3 DEF K!Ran, ConsoleData
  <2> QED
    BY <2>1, <2>2, FewerBounded DEF ConsoleData
<1> QED
  BY <1>1, <1>2, <1>3 DEF K!Next

LEMMA ConsoleDataStart == K!Init => ConsoleData
BY SmallBounded, PagesAssumption DEF K!Init, ConsoleData

----------------------------------------------------------------------------
(* The SQL page, the wizard, and the cluster pages. *)

\* Every request but the one for the library is about some SQL, and so is the library.
SqlData ==
    /\ Bounded(flight)
    /\ {"sql", "saved"} \subseteq DOMAIN ui
    /\ ui.sql \in Sqls /\ ui.saved \in SUBSET Sqls /\ backend \in SUBSET Sqls
    /\ \A r \in flight : r.op # "library" => r.sql \in Sqls

LEMMA SqlAsks ==
    ASSUME SqlData, NEW r, "sql" \in DOMAIN r, r.sql \in Sqls, Posting(r)
    PROVE  Bounded(flight') /\ \A q \in flight' : q.op # "library" => q.sql \in Sqls
<1>1. PICK i : flight' = flight \cup {[r EXCEPT !.n = i]}
  BY PostedBounded DEF SqlData
<1>2. [r EXCEPT !.n = i].sql = r.sql
  OBVIOUS
<1> QED
  BY <1>1, <1>2, PostedBounded DEF SqlData

LEMMA SqlDataStep ==
    ASSUME SqlData, S!Next
    PROVE  SqlData'
<1>1. CASE \/ S!MountEditor \/ S!AllowFullScan \/ S!OpenSaveDialog \/ S!NameIt
           \/ S!CloseSaveDialog \/ \E t \in Sqls : S!TypeSql(t) \/ S!LoadIntoEditor(t)
  <2>1. flight' = flight /\ backend' = backend
    BY <1>1 DEF S!MountEditor, S!AllowFullScan, S!OpenSaveDialog, S!NameIt,
                S!CloseSaveDialog, S!TypeSql, S!LoadIntoEditor
  <2>2. {"sql", "saved"} \subseteq DOMAIN ui' /\ ui'.sql \in Sqls /\ ui'.saved = ui.saved
    BY <1>1 DEF S!MountEditor, S!AllowFullScan, S!OpenSaveDialog, S!NameIt,
                S!CloseSaveDialog, S!TypeSql, S!LoadIntoEditor, S!Loaded, SqlData
  <2> QED
    BY <2>1, <2>2 DEF SqlData
<1>2. CASE \/ S!RunExplain \/ S!SaveCurrentQuery \/ \E leave \in BOOLEAN : S!RunQuery(leave)
           \/ \E t \in Sqls : S!DeleteSnippet(t)
  <2>1. /\ {"sql", "saved"} \subseteq DOMAIN ui' /\ ui'.sql = ui.sql /\ ui'.saved = ui.saved
        /\ backend' = backend
    BY <1>2 DEF S!RunExplain, S!SaveCurrentQuery, S!RunQuery, S!DeleteSnippet, SqlData
  <2>2. PICK r : "sql" \in DOMAIN r /\ r.sql \in Sqls /\ Posting(r)
    BY <1>2 DEF S!RunExplain, S!SaveCurrentQuery, S!RunQuery, S!DeleteSnippet, SqlData,
                Posting
  <2>3. Bounded(flight') /\ \A q \in flight' : q.op # "library" => q.sql \in Sqls
    BY <2>2, SqlAsks
  <2> QED
    BY <2>1, <2>3 DEF SqlData
<1>3. ASSUME NEW r \in flight,
             \/ S!QueryRan(r) \/ S!QueryFailed(r) \/ S!Explained(r)
             \/ S!LibraryAnswered(r) \/ S!ChangeFailed(r)
      PROVE  SqlData'
  <2>1. flight' \in SUBSET flight /\ backend' = backend
    BY <1>3 DEF S!QueryRan, S!QueryFailed, S!Explained, S!LibraryAnswered, S!ChangeFailed,
                S!Answered
  <2>2. /\ {"sql", "saved"} \subseteq DOMAIN ui' /\ ui'.sql = ui.sql
        /\ ui'.saved \in {ui.saved, backend}
    BY <1>3 DEF S!QueryRan, S!QueryFailed, S!Explained, S!LibraryAnswered, S!ChangeFailed,
                SqlData
  <2> QED
    BY <2>1, <2>2, FewerBounded DEF SqlData
<1>4. ASSUME NEW r \in flight, S!LibraryChanged(r) PROVE SqlData'
  <2>1. {"sql", "saved"} \subseteq DOMAIN ui' /\ ui'.sql = ui.sql /\ ui'.saved = ui.saved
    BY <1>4 DEF S!LibraryChanged, SqlData
  <2>2. r.sql \in Sqls /\ backend' \in {backend \cup {r.sql}, backend \ {r.sql}}
    BY <1>4 DEF S!LibraryChanged, SqlData
  <2>3. Sending((flight \ {r}) \cup {S!Library})
    BY <1>4 DEF S!LibraryChanged, Sending
  <2>4. flight' = (flight \ {r}) \cup {S!Library} /\ Bounded(flight')
    <3>1. (flight \ {r}) \cup {S!Library} \subseteq flight \cup {S!Library}
      OBVIOUS
    <3> QED
      BY <2>3, <3>1, FS_Singleton, SentBounded DEF SqlData
  <2>5. S!Library.op = "library"
    BY DEF S!Library
  <2> QED
    BY <2>1, <2>2, <2>4, <2>5 DEF SqlData
<1> QED
  BY <1>1, <1>2, <1>3, <1>4 DEF S!Next

LEMMA SqlDataStart == S!Init => SqlData
<1> SUFFICES ASSUME S!Init PROVE SqlData
  OBVIOUS
<1>1. flight = {S!Library} /\ S!Library.op = "library" /\ backend = {}
  BY DEF S!Init, S!Library
<1>2. {"sql", "saved"} \subseteq DOMAIN ui /\ ui.sql \in Sqls /\ ui.saved = {}
  BY DEF S!Init
<1> QED
  BY <1>1, <1>2, SmallBounded DEF SqlData

\* What was checked is still on its way.
BootstrapData ==
    /\ Bounded(flight)
    /\ {"choice"} \subseteq DOMAIN ui
    /\ ui.choice \in Choices
    /\ DOMAIN backend = {"config", "checked"}
    /\ backend.checked \in SUBSET flight
    /\ \A r \in backend.checked : r.op = "initialize"

LEMMA BootstrapDataStep ==
    ASSUME BootstrapData, B!Next
    PROVE  BootstrapData'
<1>1. CASE B!MountEditor
  BY <1>1 DEF B!MountEditor, BootstrapData
<1>2. CASE B!Apply
  <2>1. {"choice"} \subseteq DOMAIN ui' /\ ui'.choice = ui.choice /\ backend' = backend
    BY <1>2 DEF B!Apply, BootstrapData
  <2>2. PICK r : Posting(r)
    BY <1>2 DEF B!Apply, Posting
  <2>3. Bounded(flight') /\ flight \subseteq flight'
    BY <2>2, PostedBounded DEF BootstrapData
  <2> QED
    BY <2>1, <2>3 DEF BootstrapData
<1>3. CASE B!Leave
  <2>1. PICK c \in Choices : ui' = B!Mounted(c)
    BY <1>3 DEF B!Leave
  <2>2. {"choice"} \subseteq DOMAIN ui' /\ ui'.choice = c
    BY <2>1 DEF B!Mounted
  <2>3. flight' = {B!StatusQuery} /\ Bounded(flight')
    BY <1>3, SmallBounded DEF B!Leave
  <2>4. DOMAIN backend' = {"config", "checked"} /\ backend'.checked = {}
    BY <1>3 DEF B!Leave, BootstrapData
  <2> QED
    BY <2>2, <2>3, <2>4 DEF BootstrapData
<1>4. CASE B!OthersInitialize
  BY <1>4 DEF B!OthersInitialize, BootstrapData
<1>5. ASSUME NEW c \in Choices, B!Choose(c) PROVE BootstrapData'
  <2>1. {"choice"} \subseteq DOMAIN ui' /\ ui'.choice = c /\ backend' = backend
    BY <1>5 DEF B!Choose, BootstrapData
  <2>2. Sending(flight \cup {B!Render(c)})
    BY <1>5 DEF B!Choose, B!Queries, Sending
  <2>3. flight' = flight \cup {B!Render(c)} /\ Bounded(flight')
    BY <2>2, FS_Singleton, SentBounded DEF BootstrapData
  <2> QED
    BY <2>1, <2>3 DEF BootstrapData
<1>6. ASSUME NEW r \in flight, B!StatusAnswered(r) \/ B!Rendered(r) PROVE BootstrapData'
  <2>1. {"choice"} \subseteq DOMAIN ui' /\ ui'.choice = ui.choice /\ backend' = backend
    BY <1>6 DEF B!StatusAnswered, B!Rendered, B!Previewing, BootstrapData
  <2>2. r \notin backend.checked
    <3>1. B!StatusQuery.op = "status"
      BY DEF B!StatusQuery
    <3>2. r = B!StatusQuery \/ r.op = "render"
      BY <1>6 DEF B!StatusAnswered, B!Rendered
    <3>3. r.op # "initialize"
      BY <3>1, <3>2
    <3> QED
      BY <3>3 DEF BootstrapData
  <2>3. PICK Q : /\ IsFiniteSet(Q)
                 /\ flight' = (flight \ {r}) \cup Q
                 /\ flight' \in SUBSET flight \/ Sending((flight \ {r}) \cup Q)
    <3>1. CASE B!Answered(r)
      <4>1. flight' = (flight \ {r}) \cup {}
        BY <3>1 DEF B!Answered
      <4> QED
        BY <4>1, FS_EmptySet
    <3>2. CASE B!Sends((flight \ {r}) \cup {B!Render(ui.choice)})
      <4>1. flight' = (flight \ {r}) \cup {B!Render(ui.choice)}
        BY <3>2 DEF B!Sends
      <4>2. Sending((flight \ {r}) \cup {B!Render(ui.choice)})
        BY <3>2 DEF Sending
      <4> QED
        BY <4>1, <4>2, FS_Singleton
    <3> QED
      BY <1>6, <3>1, <3>2 DEF B!StatusAnswered, B!Rendered
  <2>4. Bounded(flight')
    <3>1. CASE flight' \in SUBSET flight
      BY <3>1, FewerBounded DEF BootstrapData
    <3>2. CASE Sending((flight \ {r}) \cup Q)
      <4>1. (flight \ {r}) \cup Q \subseteq flight \cup Q
        OBVIOUS
      <4> QED
        BY <2>3, <3>2, <4>1, SentBounded DEF BootstrapData
    <3> QED
      BY <2>3, <3>1, <3>2
  <2> QED
    BY <2>1, <2>2, <2>3, <2>4 DEF BootstrapData
<1>7. ASSUME NEW r \in flight, B!Checked(r) PROVE BootstrapData'
  BY <1>7 DEF B!Checked, BootstrapData
<1>8. ASSUME NEW r \in flight, B!Initialized(r) \/ B!InitializeFailed(r)
      PROVE  BootstrapData'
  <2>1. {"choice"} \subseteq DOMAIN ui' /\ ui'.choice = ui.choice
    BY <1>8 DEF B!Initialized, B!InitializeFailed, BootstrapData
  <2>2. DOMAIN backend' = {"config", "checked"} /\ backend'.checked = backend.checked \ {r}
    BY <1>8 DEF B!Initialized, B!InitializeFailed
  <2>3. flight' = flight \ {r} /\ flight \ {r} \in SUBSET flight
    BY <1>8 DEF B!Initialized, B!InitializeFailed, B!Answered
  <2>4. Bounded(flight')
    BY <2>3, FewerBounded DEF BootstrapData
  <2> QED
    BY <2>1, <2>2, <2>3, <2>4 DEF BootstrapData
<1> QED
  BY <1>1, <1>2, <1>3, <1>4, <1>5, <1>6, <1>7, <1>8 DEF B!Next

LEMMA BootstrapDataStart == B!Init => BootstrapData
<1> SUFFICES ASSUME B!Init PROVE BootstrapData
  OBVIOUS
<1>1. PICK c \in Choices : ui = B!Mounted(c)
  BY DEF B!Init
<1>2. {"choice"} \subseteq DOMAIN ui /\ ui.choice = c
  BY <1>1 DEF B!Mounted
<1>3. flight = {B!StatusQuery} /\ Bounded(flight)
  BY SmallBounded DEF B!Init
<1>4. DOMAIN backend = {"config", "checked"} /\ backend.checked = {}
  BY DEF B!Init
<1> QED
  BY <1>2, <1>3, <1>4 DEF BootstrapData

ClusterData ==
    /\ Bounded(flight)
    /\ {"pick", "expel"} \subseteq DOMAIN ui
    /\ ui.pick \in Modes /\ ui.expel \in Instances \cup {NoInstance}

\* The page is mounted anew on the mode it opens with.
ClusterRefs ==
    /\ {"pick", "expel"} \subseteq DOMAIN ui'
    /\ ui'.pick \in Modes /\ ui'.expel \in Instances \cup {NoInstance}

LEMMA ClusterDataStep ==
    ASSUME ClusterData, C!Next
    PROVE  ClusterData'
<1>1. "off" \in Modes
  BY PagesAssumption
<1>2. CASE \/ C!OpenPause \/ C!CancelPause \/ C!TypeAlias \/ C!CloseExpel
           \/ C!PauseExpires \/ \E i \in Instances : C!OpenExpel(i)
  <2>1. flight' = flight
    BY <1>2 DEF C!OpenPause, C!CancelPause, C!TypeAlias, C!CloseExpel, C!PauseExpires,
                C!OpenExpel
  <2>2. ClusterRefs
    BY <1>2 DEF C!OpenPause, C!CancelPause, C!TypeAlias, C!CloseExpel, C!PauseExpires,
                C!OpenExpel, ClusterRefs, ClusterData
  <2> QED
    BY <2>1, <2>2 DEF ClusterRefs, ClusterData
<1>3. CASE \/ C!OpenSettings \/ C!CancelSettings \/ C!CloseTimer \/ \E m \in Modes : C!Pick(m)
           \/ \E k \in C!Knobs, worth \in {"empty", "good", "bad"} : C!Fill(k, worth)
  <2>1. flight' = flight
    BY <1>3 DEF C!OpenSettings, C!CancelSettings, C!CloseTimer, C!Pick, C!Fill
  <2>2. ClusterRefs
    BY <1>1, <1>3 DEF C!OpenSettings, C!EffectiveMode, C!CancelSettings, C!CloseTimer,
                      C!Closed, C!Pick, C!Fill, ClusterRefs, ClusterData
  <2> QED
    BY <2>1, <2>2 DEF ClusterRefs, ClusterData
<1>4. ASSUME NEW r, C!Calls(r) PROVE ClusterData'
  <2>1. ClusterRefs
    BY <1>4 DEF C!Calls, ClusterRefs, ClusterData
  <2>2. Bounded(flight')
    BY <1>4, PostedBounded DEF C!Calls, Posting, ClusterData
  <2> QED
    BY <2>1, <2>2 DEF ClusterRefs, ClusterData
<1>5. CASE \/ C!DoPause \/ C!DoResume \/ C!ConfirmExpel
           \/ \E i \in Instances : C!DoPromote(i) \/ C!DoToggleEnabled(i)
           \/ \E apply \in BOOLEAN : C!Submit(apply)
  BY <1>4, <1>5 DEF C!DoPause, C!DoResume, C!ConfirmExpel, C!DoPromote,
                    C!DoToggleEnabled, C!Submit
<1>6. CASE C!FeedFrame
  <2> DEFINE Q == {C!SnapshotQuery, C!PageQuery(ui.tab)}
  <2>1. IsFiniteSet(Q)
    BY SmallBounded DEF Bounded
  <2>2. Sending(flight \cup Q) /\ ui' = ui
    BY <1>6 DEF C!FeedFrame, Sending
  <2> HIDE DEF Q
  <2>3. Bounded(flight')
    BY <2>1, <2>2, SentBounded DEF ClusterData
  <2> QED
    BY <2>2, <2>3 DEF ClusterData
<1>7. ASSUME NEW tab \in {"cluster", "failover"}, C!Visit(tab) PROVE ClusterData'
  <2>1. ui' = C!Mounted(tab, ui.data, ui.pending)
        /\ Sending((flight \ {C!PauseQuery, C!FailoverQuery}) \cup {C!PageQuery(tab)})
    BY <1>7 DEF C!Visit, Sending
  <2>2. ClusterRefs
    BY <1>1, <2>1 DEF C!Mounted, ClusterRefs
  <2>3. (flight \ {C!PauseQuery, C!FailoverQuery}) \cup {C!PageQuery(tab)}
          \subseteq flight \cup {C!PageQuery(tab)}
    OBVIOUS
  <2>4. Bounded(flight')
    BY <2>1, <2>3, FS_Singleton, SentBounded DEF ClusterData
  <2> QED
    BY <2>2, <2>4 DEF ClusterRefs, ClusterData
<1>8. ASSUME NEW r \in flight,
             C!SnapshotAnswered(r) \/ C!PauseStatusAnswered(r) \/ C!FailoverAnswered(r)
      PROVE  ClusterData'
  <2>1. flight' \in SUBSET flight
    BY <1>8 DEF C!SnapshotAnswered, C!PauseStatusAnswered, C!FailoverAnswered, C!Answered
  <2>2. ClusterRefs
    BY <1>8 DEF C!SnapshotAnswered, C!PauseStatusAnswered, C!FailoverAnswered, ClusterRefs,
                ClusterData
  <2> QED
    BY <2>1, <2>2, FewerBounded DEF ClusterRefs, ClusterData
<1>9. ASSUME NEW r \in flight, C!CallAnswered(r) PROVE ClusterData'
  <2>1. ClusterRefs
    BY <1>9 DEF C!CallAnswered, ClusterRefs, ClusterData
  <2>2. PICK Q \in SUBSET {C!FailoverQuery, C!PauseQuery} : Sending((flight \ {r}) \cup Q)
    BY <1>9 DEF C!CallAnswered, Sending
  <2>3. IsFiniteSet(Q) /\ (flight \ {r}) \cup Q \subseteq flight \cup Q
    BY SmallBounded DEF Bounded
  <2>4. Bounded(flight')
    BY <2>2, <2>3, SentBounded DEF ClusterData
  <2> QED
    BY <2>1, <2>4 DEF ClusterRefs, ClusterData
<1> QED
  BY <1>2, <1>3, <1>5, <1>6, <1>7, <1>8, <1>9 DEF C!Next

LEMMA ClusterDataStart == C!Init => ClusterData
<1> SUFFICES ASSUME C!Init PROVE ClusterData
  OBVIOUS
<1>1. {"pick", "expel"} \subseteq DOMAIN ui /\ ui.pick = "off" /\ ui.expel = NoInstance
  BY DEF C!Init, C!Mounted
<1>2. flight \in SUBSET {C!SnapshotQuery, C!PauseQuery}
  BY DEF C!Init
<1> QED
  BY <1>1, <1>2, SmallBounded, PagesAssumption DEF ClusterData
----------------------------------------------------------------------------
(* The panels. *)

\* The sequence on show is one there is, and so is every one asked for.
PanelsData ==
    /\ Bounded(flight)
    /\ {"space", "seq"} \subseteq DOMAIN ui
    /\ ui.space \in Tables
    /\ {"info", "dialog"} \subseteq DOMAIN ui.seq
    /\ ui.seq.info \in P!SequenceNames \cup {NoTable}
    /\ ui.seq.dialog \in {"none", "set", "alter", "drop"}
    /\ \A r \in flight : r.op \in P!Operations
    /\ \A r \in flight : r.op = "sequence" => r.of \in P!SequenceNames

PanelsRefs ==
    /\ {"space", "seq"} \subseteq DOMAIN ui'
    /\ ui'.space \in Tables
    /\ {"info", "dialog"} \subseteq DOMAIN ui'.seq
    /\ ui'.seq.info \in P!SequenceNames \cup {NoTable}
    /\ ui'.seq.dialog \in {"none", "set", "alter", "drop"}

PanelsFlight ==
    /\ Bounded(flight')
    /\ \A r \in flight' : r.op \in P!Operations
    /\ \A r \in flight' : r.op = "sequence" => r.of \in P!SequenceNames

LEMMA PanelsTogether == PanelsRefs /\ PanelsFlight => PanelsData'
BY DEF PanelsRefs, PanelsFlight, PanelsData

LEMMA PanelsFewer ==
    ASSUME PanelsData, flight' \in SUBSET flight
    PROVE  PanelsFlight
BY FewerBounded DEF PanelsData, PanelsFlight

\* The queries the panels send on their own.
LEMMA PanelQueries ==
    ASSUME NEW u, u.space \in Tables
    PROVE  /\ P!StatsQuery(u).op = "stats"
           /\ P!SequenceQuery(u).op = "sequence"
           /\ P!SequenceQuery(u).of \in P!SequenceNames
BY DEF P!StatsQuery, P!SequenceQuery, P!Named, P!SequenceNames

LEMMA PanelsSend ==
    ASSUME PanelsData, NEW u, u.space \in Tables,
           NEW kept \in SUBSET flight,
           NEW Q \in SUBSET {P!StatsQuery(u), P!SequenceQuery(u)},
           P!Sends(kept \cup Q)
    PROVE  PanelsFlight
<1>1. IsFiniteSet(Q) /\ kept \cup Q \subseteq flight \cup Q
  BY SmallBounded DEF Bounded
<1>2. Sending(kept \cup Q)
  BY DEF Sending
<1>3. flight' = kept \cup Q /\ Bounded(flight')
  BY <1>1, <1>2, SentBounded DEF PanelsData
<1>4. \A q \in Q : /\ q.op \in P!Operations
                   /\ q.op = "sequence" => q.of \in P!SequenceNames
  BY PanelQueries DEF P!Operations, P!SequenceOperations
<1> QED
  BY <1>3, <1>4 DEF PanelsData, PanelsFlight

LEMMA PanelsPost ==
    ASSUME PanelsData, NEW r, "op" \in DOMAIN r,
           r.op \in {"set", "alter", "drop", "reset"}, P!Posts(r)
    PROVE  PanelsFlight
<1>1. Bounded(flight') /\ \E i : flight' = flight \cup {[r EXCEPT !.n = i]}
  BY PostedBounded DEF PanelsData, Posting
<1>2. PICK i : flight' = flight \cup {[r EXCEPT !.n = i]}
  BY <1>1
<1>3. [r EXCEPT !.n = i].op = r.op
  OBVIOUS
<1> QED
  BY <1>1, <1>2, <1>3 DEF PanelsData, PanelsFlight, P!Operations, P!SequenceOperations

LEMMA PanelsDataStep ==
    ASSUME PanelsData, P!Next
    PROVE  PanelsData'
<1>1. ASSUME NEW t \in Tables, P!ShowSpace(t) PROVE PanelsData'
  <2> DEFINE s == [ui EXCEPT !.space = t]
             u == IF P!Named(s) = NoTable THEN [s EXCEPT !.seq = P!FreshSequence] ELSE s
             kept == {r \in flight : r.op \in {"stats", "index"} \/ P!Named(u) # NoTable}
  <2>1. /\ ui' = [u EXCEPT !.statsLoading = P!StatsDue(u) \/ u.statsLoading,
                           !.seq.loading = P!SequenceDue(u) \/ u.seq.loading]
        /\ P!Sends(kept \cup {q \in {P!StatsQuery(u)} : P!StatsDue(u)}
                        \cup {q \in {P!SequenceQuery(u)} : P!SequenceDue(u)})
    BY <1>1 DEF P!ShowSpace
  <2>2. /\ {"space", "seq"} \subseteq DOMAIN s /\ s.space = t /\ s.seq = ui.seq
    BY DEF PanelsData
  <2>3. /\ {"info", "dialog"} \subseteq DOMAIN P!FreshSequence
        /\ P!FreshSequence.info = NoTable /\ P!FreshSequence.dialog = "none"
    BY DEF P!FreshSequence
  <2>4. /\ {"space", "seq"} \subseteq DOMAIN u /\ u.space = t
        /\ u.seq \in {ui.seq, P!FreshSequence}
    <3> HIDE DEF s
    <3> QED
      BY <2>2
  <2> DEFINE Q == {q \in {P!StatsQuery(u)} : P!StatsDue(u)}
                    \cup {q \in {P!SequenceQuery(u)} : P!SequenceDue(u)}
  <2>5. kept \in SUBSET flight /\ Q \in SUBSET {P!StatsQuery(u), P!SequenceQuery(u)}
    <3> HIDE DEF u
    <3> QED
      OBVIOUS
  <2>6. P!Sends(kept \cup Q)
    <3> HIDE DEF kept, u
    <3>1. kept \cup Q = kept \cup {q \in {P!StatsQuery(u)} : P!StatsDue(u)}
                             \cup {q \in {P!SequenceQuery(u)} : P!SequenceDue(u)}
      OBVIOUS
    <3> QED
      BY <2>1, <3>1
  <2> HIDE DEF kept, Q, u
  <2>7. PanelsFlight
    BY <2>4, <2>5, <2>6, PanelsSend
  <2>8. PanelsRefs
    BY <2>1, <2>3, <2>4 DEF PanelsRefs, PanelsData
  <2> QED
    BY <2>7, <2>8, PanelsTogether
<1>2. CASE P!FoldStats
  <2> DEFINE u == [ui EXCEPT !.statsOpen = ~ui.statsOpen]
             Q == {q \in {P!StatsQuery(u)} : P!StatsDue(u)}
  <2>1. /\ ui' = [u EXCEPT !.statsLoading = P!StatsDue(u) \/ u.statsLoading]
        /\ P!Sends(flight \cup Q)
    BY <1>2 DEF P!FoldStats
  <2>2. {"space", "seq"} \subseteq DOMAIN u /\ u.space = ui.space /\ u.seq = ui.seq
    BY DEF PanelsData
  <2>3. u.space \in Tables /\ Q \in SUBSET {P!StatsQuery(u), P!SequenceQuery(u)}
    BY <2>2 DEF PanelsData
  <2> HIDE DEF Q, u
  <2>4. PanelsFlight
    BY <2>1, <2>3, PanelsSend
  <2>5. PanelsRefs
    BY <2>1, <2>2 DEF PanelsRefs, PanelsData
  <2> QED
    BY <2>4, <2>5, PanelsTogether
<1>3. CASE P!FoldSequence
  <2> DEFINE u == [ui EXCEPT !.seq.open = ~ui.seq.open]
             Q == {q \in {P!SequenceQuery(u)} : P!SequenceDue(u)}
  <2>1. /\ ui' = [u EXCEPT !.seq.loading = P!SequenceDue(u) \/ u.seq.loading]
        /\ P!Sends(flight \cup Q)
    BY <1>3 DEF P!FoldSequence
  <2>2. /\ {"space", "seq"} \subseteq DOMAIN u /\ u.space = ui.space
        /\ DOMAIN u.seq = DOMAIN ui.seq
        /\ u.seq.info = ui.seq.info /\ u.seq.dialog = ui.seq.dialog
    BY DEF PanelsData
  <2>3. u.space \in Tables /\ Q \in SUBSET {P!StatsQuery(u), P!SequenceQuery(u)}
    BY <2>2 DEF PanelsData
  <2> HIDE DEF Q, u
  <2>4. PanelsFlight
    BY <2>1, <2>3, PanelsSend
  <2>5. PanelsRefs
    BY <2>1, <2>2 DEF PanelsRefs, PanelsData
  <2> QED
    BY <2>4, <2>5, PanelsTogether
<1>4. CASE P!ReloadSequence
  <2>1. /\ ui' = [ui EXCEPT !.seq.loading = TRUE]
        /\ P!Sends(flight \cup {P!SequenceQuery(ui)})
    BY <1>4 DEF P!ReloadSequence, P!Queries
  <2>2. PanelsFlight
    BY <2>1, PanelsSend DEF PanelsData
  <2>3. PanelsRefs
    BY <2>1 DEF PanelsRefs, PanelsData
  <2> QED
    BY <2>2, <2>3, PanelsTogether
<1>5. CASE \/ P!CloseDialog \/ P!CloseStat
           \/ \E d \in {"set", "alter", "drop"} : P!OpenDialog(d)
           \/ \E name \in P!SequenceNames : P!TypeSequence(name)
           \/ \E i \in Indexes : P!OpenMenu(i) \/ P!ClearResult(i)
  <2>1. flight' \in SUBSET flight
    BY <1>5 DEF P!CloseDialog, P!CloseStat, P!OpenDialog, P!TypeSequence, P!OpenMenu,
                P!ClearResult
  <2>2. PanelsRefs
    <3>1. CASE P!CloseDialog
      BY <3>1 DEF P!CloseDialog, PanelsRefs, PanelsData
    <3>2. ASSUME NEW d \in {"set", "alter", "drop"}, P!OpenDialog(d) PROVE PanelsRefs
      BY <3>2 DEF P!OpenDialog, PanelsRefs, PanelsData
    <3>3. ASSUME NEW name, P!TypeSequence(name) PROVE PanelsRefs
      BY <3>3 DEF P!TypeSequence, PanelsRefs, PanelsData
    <3>4. CASE P!CloseStat \/ \E i \in Indexes : P!OpenMenu(i) \/ P!ClearResult(i)
      BY <3>4 DEF P!CloseStat, P!OpenMenu, P!ClearResult, PanelsRefs, PanelsData
    <3> QED
      BY <1>5, <3>1, <3>2, <3>3, <3>4
  <2> QED
    BY <2>1, <2>2, PanelsFewer, PanelsTogether
<1>6. CASE P!Confirm
  <2>1. ui' = [ui EXCEPT !.seq.pending = ui.seq.pending \cup {ui.seq.dialog}]
        /\ ui.seq.dialog \in {"set", "alter", "drop"}
    BY <1>6 DEF P!Confirm
  <2>2. P!Posts([op |-> ui.seq.dialog, of |-> ui.seq.info, typed |-> ui.seq.typed,
                 filled |-> ui.seq.filled, n |-> 0])
    BY <1>6 DEF P!Confirm
  <2>3. PanelsFlight
    BY <2>1, <2>2, PanelsPost
  <2>4. PanelsRefs
    BY <2>1 DEF PanelsRefs, PanelsData
  <2> QED
    BY <2>3, <2>4, PanelsTogether
<1>7. CASE P!ResetSequence
  <2>1. PanelsFlight
    BY <1>7, PanelsPost DEF P!ResetSequence
  <2>2. PanelsRefs
    BY <1>7 DEF P!ResetSequence, PanelsRefs, PanelsData
  <2> QED
    BY <2>1, <2>2, PanelsTogether
<1>8. ASSUME NEW a \in P!Actions, P!RunAction(a) PROVE PanelsData'
  <2> DEFINE q == [op |-> "index", of |-> ui.space, index |-> ui.menu, action |-> a]
  <2>1. Sending(flight \cup {q})
    BY <1>8 DEF P!RunAction, P!Queries, Sending
  <2>2. q.op = "index"
    OBVIOUS
  <2> HIDE DEF q
  <2>3. flight' = flight \cup {q} /\ Bounded(flight')
    BY <2>1, FS_Singleton, SentBounded DEF PanelsData
  <2>4. PanelsFlight
    BY <2>2, <2>3 DEF PanelsFlight, PanelsData, P!Operations
  <2>5. PanelsRefs
    BY <1>8 DEF P!RunAction, PanelsRefs, PanelsData
  <2> QED
    BY <2>4, <2>5, PanelsTogether
<1>9. ASSUME NEW r \in flight,
             P!StatsAnswered(r) \/ P!SequenceAnswered(r) \/ P!ActionAnswered(r)
      PROVE  PanelsData'
  <2>1. flight' \in SUBSET flight
    BY <1>9 DEF P!StatsAnswered, P!SequenceAnswered, P!ActionAnswered, P!Answered
  <2>2. PanelsRefs
    BY <1>9 DEF P!StatsAnswered, P!SequenceAnswered, P!ActionAnswered, PanelsRefs,
                PanelsData
  <2> QED
    BY <2>1, <2>2, PanelsFewer, PanelsTogether
<1>10. ASSUME NEW r \in flight, P!MutationAnswered(r) PROVE PanelsData'
  <2> DEFINE here == ui.seq.dialog = r.op
             shut(v) == IF here THEN [v EXCEPT !.seq.dialog = "none", !.seq.typed = NoTable,
                                               !.seq.filled = NoTable] ELSE v
             u == [ui EXCEPT !.seq.pending = ui.seq.pending \ {r.op}]
  <2>1. \/ /\ ui' = IF r.op = "drop" THEN shut(u) ELSE u
           /\ P!Answered(r)
        \/ /\ ui' = [shut(u) EXCEPT !.seq.loading = TRUE,
                        !.seq.info = IF r.op = "drop" THEN NoTable ELSE shut(u).seq.info]
           /\ P!Sends((flight \ {r}) \cup {P!SequenceQuery(ui)})
    BY <1>10 DEF P!MutationAnswered
  <2>2. /\ {"space", "seq"} \subseteq DOMAIN u /\ u.space = ui.space
        /\ {"info", "dialog"} \subseteq DOMAIN u.seq
        /\ u.seq.info = ui.seq.info /\ u.seq.dialog = ui.seq.dialog
    BY DEF PanelsData
  <2>3. /\ {"space", "seq"} \subseteq DOMAIN shut(u) /\ shut(u).space = ui.space
        /\ {"info", "dialog"} \subseteq DOMAIN shut(u).seq
        /\ shut(u).seq.info = ui.seq.info
        /\ shut(u).seq.dialog \in {ui.seq.dialog, "none"}
    <3> HIDE DEF u
    <3> QED
      BY <2>2
  <2> HIDE DEF u, shut
  <2>4. PanelsRefs
    BY <2>1, <2>2, <2>3 DEF PanelsRefs, PanelsData
  <2>5. PanelsFlight
    <3>1. CASE P!Answered(r)
      BY <3>1, PanelsFewer DEF P!Answered
    <3>2. CASE P!Sends((flight \ {r}) \cup {P!SequenceQuery(ui)})
      BY <3>2, PanelsSend DEF PanelsData
    <3> QED
      BY <2>1, <3>1, <3>2
  <2> QED
    BY <2>4, <2>5, PanelsTogether
<1> QED
  BY <1>1, <1>2, <1>3, <1>4, <1>5, <1>6, <1>7, <1>8, <1>9, <1>10 DEF P!Next

LEMMA PanelsDataStart == P!Init => PanelsData
<1> SUFFICES ASSUME P!Init PROVE PanelsData
  OBVIOUS
<1>1. /\ {"space", "seq"} \subseteq DOMAIN ui /\ ui.space \in Tables
      /\ ui.seq = P!FreshSequence
  BY DEF P!Init
<1>2. /\ {"info", "dialog"} \subseteq DOMAIN P!FreshSequence
      /\ P!FreshSequence.info = NoTable /\ P!FreshSequence.dialog = "none"
  BY DEF P!FreshSequence
<1>3. flight = {} /\ Bounded(flight)
  BY SmallBounded DEF P!Init
<1> QED
  BY <1>1, <1>2, <1>3 DEF PanelsData

----------------------------------------------------------------------------
(* The data explorer. *)

\* The refs of a page, and of one on the way to the next.
ExplorerRefs(u) ==
    /\ {"selected", "stack", "after", "next"} \subseteq DOMAIN u
    /\ u.selected \in Spaces \cup {NoSpace}
    /\ u.stack \in Seq(D!Cursors)
    /\ u.after \in D!Cursors /\ u.next \in D!Cursors

Asked(f) == IsFiniteSet(f) /\ \A r \in f : "op" \in DOMAIN r /\ r.op \in D!Operations

ExplorerMoves == ExplorerRefs(ui') /\ Asked(flight') /\ Bounded(flight')

ExplorerData ==
    /\ ExplorerRefs(ui)
    /\ Asked(flight) /\ Bounded(flight)
    /\ backend \in SUBSET Spaces

LEMMA ExplorerTogether ==
    ExplorerMoves /\ backend' \in SUBSET Spaces => ExplorerData'
BY DEF ExplorerMoves, ExplorerData, ExplorerRefs, Asked, Bounded

\* What the explorer sends on top of what was asked.
LEMMA AskedMore ==
    ASSUME NEW f, Asked(f), NEW q, "op" \in DOMAIN q, q.op \in D!Operations
    PROVE  Asked(f \cup {q})
BY FS_AddElement DEF Asked

LEMMA AskedFewer ==
    ASSUME NEW f, Asked(f), NEW g \in SUBSET f
    PROVE  Asked(g)
BY FS_Subset DEF Asked

LEMMA AskedSends ==
    ASSUME NEW f, Asked(f), D!Sends(f)
    PROVE  Asked(flight') /\ Bounded(flight')
<1>1. Sending(f) /\ IsFiniteSet(f)
  BY DEF Sending, Asked
<1> QED
  BY <1>1, SentFinite

LEMMA AskedPosts ==
    ASSUME ExplorerData, NEW r, "op" \in DOMAIN r, r.op \in D!Operations, D!Posts(r)
    PROVE  Asked(flight') /\ Bounded(flight')
<1>1. Bounded(flight') /\ \E i : flight' = flight \cup {[r EXCEPT !.n = i]}
  BY PostedBounded DEF ExplorerData, Posting
<1>2. PICK i : flight' = flight \cup {[r EXCEPT !.n = i]}
  BY <1>1
<1>3. "op" \in DOMAIN [r EXCEPT !.n = i] /\ [r EXCEPT !.n = i].op = r.op
  OBVIOUS
<1>4. Asked(flight')
  BY <1>2, <1>3, AskedMore DEF ExplorerData
<1> QED
  BY <1>1, <1>4

LEMMA Orphans ==
    ASSUME NEW f, Asked(f), NEW op
    PROVE  Asked(D!Orphaned(op, f))
<1> DEFINE m == [r \in f |-> IF r.op = op THEN [r EXCEPT !.heard = FALSE] ELSE r]
           g == {m[r] : r \in f}
<1>1. D!Orphaned(op, f) = g
  BY DEF D!Orphaned
<1>2. m \in Surjection(f, g)
  BY DEF Surjection
<1>3. ASSUME NEW r \in f PROVE "op" \in DOMAIN m[r] /\ m[r].op = r.op
  BY DEF Asked
<1>4. \A q \in g : "op" \in DOMAIN q /\ q.op \in D!Operations
  BY <1>3 DEF Asked
<1> HIDE DEF g, m
<1>5. IsFiniteSet(g)
  BY <1>2, FS_Surjection DEF Asked
<1> QED
  BY <1>1, <1>4, <1>5 DEF Asked

LEMMA ExplorerQueries ==
    /\ \A u : "op" \in DOMAIN D!TuplesQuery(u) /\ D!TuplesQuery(u).op \in D!Operations
    /\ \A s : "op" \in DOMAIN D!SpacesQuery(s) /\ D!SpacesQuery(s).op \in D!Operations
BY DEF D!TuplesQuery, D!SpacesQuery, D!Operations

LEMMA TuplesAsked ==
    ASSUME NEW u, ExplorerRefs(u), NEW f, Asked(f), D!LoadTuples(u, f)
    PROVE  ExplorerMoves
<1>1. CASE u.selected = NoSpace
  BY <1>1, AskedSends DEF D!LoadTuples, ExplorerMoves
<1>2. CASE u.selected # NoSpace
  <2>1. ui' = [u EXCEPT !.loading = TRUE] /\ D!Sends(f \cup {D!TuplesQuery(u)})
    BY <1>2 DEF D!LoadTuples
  <2>2. Asked(f \cup {D!TuplesQuery(u)})
    BY AskedMore, ExplorerQueries
  <2>3. ExplorerRefs(ui')
    BY <2>1 DEF ExplorerRefs
  <2> QED
    BY <2>1, <2>2, <2>3, AskedSends DEF ExplorerMoves
<1> QED
  BY <1>1, <1>2

LEMMA SpacesAsked ==
    ASSUME NEW u, ExplorerRefs(u), NEW f, Asked(f), D!LoadSpaces(u, f)
    PROVE  ExplorerMoves
<1>1. /\ ui' = [u EXCEPT !.loadingSpaces = TRUE]
      /\ D!Sends(D!Kept(u, f) \cup {D!SpacesQuery(u.system)})
  BY DEF D!LoadSpaces
<1>2. Asked(D!Kept(u, f))
  BY Orphans DEF D!Kept
<1>3. Asked(D!Kept(u, f) \cup {D!SpacesQuery(u.system)})
  BY <1>2, AskedMore, ExplorerQueries
<1>4. ExplorerRefs(ui')
  BY <1>1 DEF ExplorerRefs
<1> QED
  BY <1>1, <1>3, <1>4, AskedSends DEF ExplorerMoves

\* The pager of a page that starts over leads nowhere.
LEMMA RewoundRefs ==
    ASSUME NEW u, ExplorerRefs(u)
    PROVE  /\ ExplorerRefs(D!Rewound(u))
           /\ \A s \in Spaces : ExplorerRefs(D!On(u, s))
<1>1. <<>> \in Seq(D!Cursors) /\ 0 \in D!Cursors
  BY PagesAssumption DEF D!Cursors
<1>2. ExplorerRefs(D!Rewound(u))
  BY <1>1 DEF D!Rewound, ExplorerRefs
<1>3. ASSUME NEW s \in Spaces PROVE ExplorerRefs(D!On(u, s))
  BY <1>2 DEF D!On, ExplorerRefs
<1> QED
  BY <1>2, <1>3

LEMMA ResumedRefs ==
    ASSUME NEW u, ExplorerRefs(u), NEW f, Asked(f), NEW r, D!Resumed(u, f, r)
    PROVE  ExplorerMoves
<1>1. CASE ui' = u /\ D!Sends(f)
  BY <1>1, AskedSends DEF ExplorerMoves
<1>2. CASE D!LoadTuples([D!Rewound(u) EXCEPT !.await = D!TuplesQuery(D!Rewound(u))], f)
  <2> DEFINE v == [D!Rewound(u) EXCEPT !.await = D!TuplesQuery(D!Rewound(u))]
  <2>1. ExplorerRefs(v)
    BY RewoundRefs DEF ExplorerRefs
  <2> HIDE DEF v
  <2>2. D!LoadTuples(v, f)
    BY <1>2 DEF v
  <2> QED
    BY <2>1, <2>2, TuplesAsked
<1>3. CASE /\ ui' = [u EXCEPT !.await = D!NoAwait, !.pending = FALSE, !.emptied = NoSpace]
           /\ D!Sends(f)
  <2>1. ExplorerRefs(ui')
    BY <1>3 DEF ExplorerRefs
  <2> QED
    BY <1>3, <2>1, AskedSends DEF ExplorerMoves
<1> QED
  BY <1>1, <1>2, <1>3 DEF D!Resumed

\* The pager one page on, and one page back.
LEMMA TurnedRefs ==
    ASSUME ExplorerRefs(ui)
    PROVE  /\ ExplorerRefs([ui EXCEPT !.stack = Append(ui.stack, ui.after),
                                      !.after = ui.next])
           /\ ui.stack # <<>> =>
                 ExplorerRefs([ui EXCEPT !.after = ui.stack[Len(ui.stack)],
                                         !.stack = SubSeq(ui.stack, 1, Len(ui.stack) - 1)])
<1>1. /\ {"selected", "stack", "after", "next"} \subseteq DOMAIN ui
      /\ ui.selected \in Spaces \cup {NoSpace}
      /\ ui.stack \in Seq(D!Cursors) /\ ui.after \in D!Cursors /\ ui.next \in D!Cursors
  BY DEF ExplorerRefs
<1>2. Append(ui.stack, ui.after) \in Seq(D!Cursors)
  BY <1>1
<1>3. ASSUME ui.stack # <<>>
      PROVE  /\ ui.stack[Len(ui.stack)] \in D!Cursors
             /\ SubSeq(ui.stack, 1, Len(ui.stack) - 1) \in Seq(D!Cursors)
  <2>1. Len(ui.stack) \in Nat \ {0}
    BY <1>1, <1>3
  <2>2. ui.stack[Len(ui.stack)] \in D!Cursors
    BY <1>1, <2>1, ElementOfSeq
  <2>3. \A i \in 1..Len(ui.stack) - 1 : ui.stack[i] \in D!Cursors
    BY <1>1, <2>1, ElementOfSeq
  <2>4. SubSeq(ui.stack, 1, Len(ui.stack) - 1) \in Seq(D!Cursors)
    BY <1>1, <2>1, <2>3, SubSeqProperties
  <2> QED
    BY <2>2, <2>4
<1>4. ASSUME NEW c \in D!Cursors, NEW t \in Seq(D!Cursors)
      PROVE  ExplorerRefs([ui EXCEPT !.stack = t, !.after = c])
  BY <1>1 DEF ExplorerRefs
<1>5. ASSUME NEW c \in D!Cursors, NEW t \in Seq(D!Cursors)
      PROVE  ExplorerRefs([ui EXCEPT !.after = c, !.stack = t])
  BY <1>1 DEF ExplorerRefs
<1> QED
  BY <1>1, <1>2, <1>3, <1>4, <1>5

\* The refs that the steps of forms and dialogs leave as they are.
ExplorerSame ==
    /\ DOMAIN ui' = DOMAIN ui
    /\ ui'.selected = ui.selected /\ ui'.stack = ui.stack
    /\ ui'.after = ui.after /\ ui'.next = ui.next

LEMMA ExplorerSameRefs == ExplorerData /\ ExplorerSame => ExplorerRefs(ui')
BY DEF ExplorerData, ExplorerRefs, ExplorerSame

LEMMA ExplorerDialogs ==
    ASSUME ExplorerData,
           \/ D!OpenTruncate \/ D!TickReset \/ D!CancelTruncate
           \/ \E s \in Spaces : D!TypeName(s)
           \/ \E mode \in {"create", "edit"} : D!OpenTuple(mode)
           \/ \E mode \in {"create", "alter"} : D!OpenSchema(mode)
    PROVE  ExplorerData'
<1>1. flight' = flight /\ backend' = backend
  BY DEF D!OpenTruncate, D!TickReset, D!CancelTruncate, D!TypeName, D!OpenTuple,
         D!OpenSchema
<1>2. ExplorerSame
  <2>1. CASE D!OpenTruncate
    BY <2>1 DEF D!OpenTruncate, ExplorerSame
  <2>2. CASE D!TickReset
    BY <2>2 DEF D!TickReset, ExplorerSame
  <2>3. CASE D!CancelTruncate
    BY <2>3 DEF D!CancelTruncate, ExplorerSame
  <2>4. ASSUME NEW s, D!TypeName(s) PROVE ExplorerSame
    BY <2>4 DEF D!TypeName, ExplorerSame
  <2>5. ASSUME NEW mode, D!OpenTuple(mode) PROVE ExplorerSame
    BY <2>5 DEF D!OpenTuple, ExplorerSame
  <2>6. ASSUME NEW mode, D!OpenSchema(mode) PROVE ExplorerSame
    BY <2>6 DEF D!OpenSchema, ExplorerSame
  <2> QED
    BY <2>1, <2>2, <2>3, <2>4, <2>5, <2>6
<1> QED
  BY <1>1, <1>2, ExplorerSameRefs, ExplorerTogether DEF ExplorerData, ExplorerMoves

LEMMA ExplorerForms ==
    ASSUME ExplorerData,
           \/ D!DeleteRow \/ D!CloseTuple \/ D!SubmitTuple \/ D!CloseSchema
           \/ D!SubmitSchema \/ D!DropSpace \/ D!ConfirmTruncate
    PROVE  ExplorerData'
<1>1. backend' = backend
  BY DEF D!DeleteRow, D!CloseTuple, D!SubmitTuple, D!CloseSchema, D!SubmitSchema,
         D!DropSpace, D!ConfirmTruncate
<1>2. ExplorerSame
  <2>1. CASE D!CloseTuple
    BY <2>1 DEF D!CloseTuple, ExplorerSame
  <2>2. CASE D!CloseSchema
    BY <2>2 DEF D!CloseSchema, ExplorerSame
  <2>3. CASE D!ConfirmTruncate
    BY <2>3 DEF D!ConfirmTruncate, ExplorerSame
  <2>4. CASE D!DeleteRow \/ D!SubmitTuple \/ D!SubmitSchema \/ D!DropSpace
    BY <2>4 DEF D!DeleteRow, D!SubmitTuple, D!SubmitSchema, D!DropSpace, ExplorerSame
  <2> QED
    BY <2>1, <2>2, <2>3, <2>4
<1>3. Asked(flight') /\ Bounded(flight')
  <2>1. CASE D!CloseTuple \/ D!CloseSchema
    <3>1. PICK op : D!Sends(D!Orphaned(op, flight))
      BY <2>1 DEF D!CloseTuple, D!CloseSchema
    <3>2. Asked(D!Orphaned(op, flight))
      BY Orphans DEF ExplorerData
    <3> QED
      BY <3>1, <3>2, AskedSends
  <2>2. CASE D!DeleteRow
    BY <2>2, AskedPosts DEF D!DeleteRow, D!Operations
  <2>3. CASE D!SubmitTuple
    BY <2>3, AskedPosts DEF D!SubmitTuple, D!Operations
  <2>4. CASE D!SubmitSchema
    BY <2>4, AskedPosts DEF D!SubmitSchema, D!Operations
  <2>5. CASE D!DropSpace
    BY <2>5, AskedPosts DEF D!DropSpace, D!Operations
  <2>6. CASE D!ConfirmTruncate
    BY <2>6, AskedPosts DEF D!ConfirmTruncate, D!Operations
  <2> QED
    BY <2>1, <2>2, <2>3, <2>4, <2>5, <2>6
<1> QED
  BY <1>1, <1>2, <1>3, ExplorerSameRefs, ExplorerTogether DEF ExplorerData, ExplorerMoves

LEMMA ExplorerLoads ==
    ASSUME ExplorerData,
           \/ D!ToggleSystem \/ D!Refilter \/ D!Reload \/ D!NextPage \/ D!PrevPage
           \/ \E s \in Spaces : D!SelectSpace(s)
    PROVE  ExplorerData'
<1>1. backend' = backend
  BY DEF D!ToggleSystem, D!Refilter, D!Reload, D!NextPage, D!PrevPage, D!SelectSpace
<1>2. ExplorerRefs(ui) /\ Asked(flight)
  BY DEF ExplorerData
<1>3. ExplorerMoves
  <2>1. CASE D!ToggleSystem
    <3> DEFINE u == [ui EXCEPT !.system = ~ui.system, !.selected = NoSpace]
    <3>1. ExplorerRefs(u)
      BY <1>2 DEF ExplorerRefs
    <3>2. D!LoadSpaces(u, flight)
      BY <2>1 DEF D!ToggleSystem
    <3> HIDE DEF u
    <3> QED
      BY <1>2, <3>1, <3>2, SpacesAsked
  <2>2. CASE D!Refilter
    BY <1>2, <2>2, RewoundRefs, TuplesAsked DEF D!Refilter
  <2>3. CASE D!Reload
    BY <1>2, <2>3, TuplesAsked DEF D!Reload
  <2>4. CASE D!NextPage
    <3> DEFINE u == [ui EXCEPT !.stack = Append(ui.stack, ui.after), !.after = ui.next]
    <3>1. ExplorerRefs(u)
      BY <1>2, TurnedRefs
    <3>2. D!LoadTuples(u, flight)
      BY <2>4 DEF D!NextPage
    <3> HIDE DEF u
    <3> QED
      BY <1>2, <3>1, <3>2, TuplesAsked
  <2>5. CASE D!PrevPage
    <3> DEFINE u == [ui EXCEPT !.after = ui.stack[Len(ui.stack)],
                               !.stack = SubSeq(ui.stack, 1, Len(ui.stack) - 1)]
    <3>1. ExplorerRefs(u)
      BY <1>2, <2>5, TurnedRefs DEF D!PrevPage
    <3>2. D!LoadTuples(u, flight)
      BY <2>5 DEF D!PrevPage
    <3> HIDE DEF u
    <3> QED
      BY <1>2, <3>1, <3>2, TuplesAsked
  <2>6. ASSUME NEW s \in Spaces, D!SelectSpace(s) PROVE ExplorerMoves
    BY <1>2, <2>6, RewoundRefs, TuplesAsked DEF D!SelectSpace
  <2> QED
    BY <2>1, <2>2, <2>3, <2>4, <2>5, <2>6
<1> QED
  BY <1>1, <1>3, ExplorerTogether DEF ExplorerData

\* Spaces answered: nothing new is selected, or the first of the list is.
LEMMA SpacesCome ==
    ASSUME ExplorerData, NEW r \in flight, D!SpacesAnswered(r)
    PROVE  ExplorerData'
<1> DEFINE l == D!Listing(r.sys)
           u == [ui EXCEPT !.listed = l, !.loadingSpaces = FALSE]
           v == [ui EXCEPT !.loadingSpaces = FALSE]
           f == flight \ {r}
<1>1. /\ backend' = backend
      /\ \/ D!Resumed(v, f, r)
         \/ D!Resumed(u, f, r)
         \/ \E s \in D!Default(l) :
               D!Resumed([D!On(u, s) EXCEPT !.loading = TRUE],
                         f \cup {D!TuplesQuery(D!On(u, s))}, r)
  BY DEF D!SpacesAnswered
<1>2. ExplorerRefs(u) /\ ExplorerRefs(v)
  BY DEF ExplorerData, ExplorerRefs
<1>3. Asked(f)
  BY AskedFewer DEF ExplorerData
<1>4. D!Default(l) \subseteq Spaces
  BY DEF D!Default, D!Listing, ExplorerData
<1> HIDE DEF u, v, f, l
<1>5. ASSUME NEW s \in D!Default(l),
             D!Resumed([D!On(u, s) EXCEPT !.loading = TRUE],
                       f \cup {D!TuplesQuery(D!On(u, s))}, r)
      PROVE  ExplorerMoves
  <2> DEFINE w == [D!On(u, s) EXCEPT !.loading = TRUE]
             g == f \cup {D!TuplesQuery(D!On(u, s))}
  <2>1. ExplorerRefs(D!On(u, s))
    BY <1>2, <1>4, RewoundRefs
  <2>2. ExplorerRefs(w)
    BY <2>1 DEF ExplorerRefs
  <2>3. Asked(g)
    BY <1>3, AskedMore, ExplorerQueries
  <2>4. D!Resumed(w, g, r)
    BY <1>5
  <2> HIDE DEF w, g
  <2> QED
    BY <2>2, <2>3, <2>4, ResumedRefs
<1>6. ExplorerMoves
  <2>1. CASE D!Resumed(v, f, r)
    BY <1>2, <1>3, <2>1, ResumedRefs
  <2>2. CASE D!Resumed(u, f, r)
    BY <1>2, <1>3, <2>2, ResumedRefs
  <2> QED
    BY <1>1, <1>5, <2>1, <2>2
<1> QED
  BY <1>1, <1>6, ExplorerTogether DEF ExplorerData

LEMMA SettledRefs ==
    ASSUME NEW u, ExplorerRefs(u), NEW r
    PROVE  ExplorerRefs(D!Settled(u, r))
<1>1. CASE u.await # r
  <2>1. D!Settled(u, r) = [u EXCEPT !.loading = FALSE]
    BY <1>1 DEF D!Settled
  <2> QED
    BY <2>1 DEF ExplorerRefs
<1>2. CASE u.await = r
  <2>1. D!Settled(u, r) = [u EXCEPT !.loading = FALSE, !.await = D!NoAwait,
                                    !.pending = FALSE, !.emptied = NoSpace]
    BY <1>2 DEF D!Settled
  <2> QED
    BY <2>1 DEF ExplorerRefs
<1> QED
  BY <1>1, <1>2

LEMMA TuplesCome ==
    ASSUME ExplorerData, NEW r \in flight, D!TuplesAnswered(r)
    PROVE  ExplorerData'
<1>1. /\ flight' = flight \ {r} /\ backend' = backend
      /\ \/ ui' = D!Settled(ui, r)
         \/ \E c \in {0, r.after + 1} \cap D!Cursors :
               ui' = D!Settled([ui EXCEPT !.shown = [op |-> "rows", space |-> r.space],
                                          !.next = c], r)
  BY DEF D!TuplesAnswered, D!Answered
<1>2. Asked(flight') /\ Bounded(flight')
  BY <1>1, AskedFewer, FewerBounded DEF ExplorerData
<1>3. ExplorerRefs(ui')
  <2>1. CASE ui' = D!Settled(ui, r)
    BY <2>1, SettledRefs DEF ExplorerData
  <2>2. ASSUME NEW c \in D!Cursors,
               ui' = D!Settled([ui EXCEPT !.shown = [op |-> "rows", space |-> r.space],
                                          !.next = c], r)
        PROVE  ExplorerRefs(ui')
    <3> DEFINE u == [ui EXCEPT !.shown = [op |-> "rows", space |-> r.space], !.next = c]
    <3>1. ExplorerRefs(u)
      BY DEF ExplorerData, ExplorerRefs
    <3>2. ui' = D!Settled(u, r)
      BY <2>2
    <3> HIDE DEF u
    <3> QED
      BY <3>1, <3>2, SettledRefs
  <2> QED
    BY <1>1, <2>1, <2>2
<1> QED
  BY <1>1, <1>2, <1>3, ExplorerTogether DEF ExplorerData, ExplorerMoves

LEMMA ChangesCome ==
    ASSUME ExplorerData, NEW r \in flight,
           D!DeleteAnswered(r) \/ D!WriteAnswered(r) \/ D!SchemaAnswered(r)
           \/ D!DropAnswered(r) \/ D!TruncateAnswered(r)
    PROVE  ExplorerData'
<1>1. backend' \in SUBSET Spaces
  BY DEF D!DeleteAnswered, D!WriteAnswered, D!SchemaAnswered, D!DropAnswered,
         D!TruncateAnswered, ExplorerData
<1>2. ExplorerRefs(ui) /\ Asked(flight \ {r}) /\ Bounded(flight \ {r})
  BY AskedFewer, FewerBounded DEF ExplorerData
<1>3. ASSUME D!Answered(r), ExplorerRefs(ui') PROVE ExplorerMoves
  BY <1>2, <1>3 DEF D!Answered, ExplorerMoves
<1>4. CASE D!DeleteAnswered(r)
  BY <1>1, <1>2, <1>3, <1>4, TuplesAsked, ExplorerTogether DEF D!DeleteAnswered
<1>5. CASE D!WriteAnswered(r)
  <2> DEFINE u == [ui EXCEPT !.form = D!NoForm]
  <2>1. ExplorerRefs(u)
    BY <1>2 DEF ExplorerRefs
  <2>2. (D!Answered(r) /\ UNCHANGED ui) \/ D!LoadTuples(u, flight \ {r})
    BY <1>5 DEF D!WriteAnswered
  <2> HIDE DEF u
  <2> QED
    BY <1>1, <1>2, <1>3, <2>1, <2>2, TuplesAsked, ExplorerTogether
<1>6. CASE D!SchemaAnswered(r)
  <2> DEFINE u == [ui EXCEPT !.schema = "none"]
  <2>1. ExplorerRefs(u)
    BY <1>2 DEF ExplorerRefs
  <2>2. (D!Answered(r) /\ UNCHANGED ui) \/ D!LoadSpaces(u, flight \ {r})
    BY <1>6 DEF D!SchemaAnswered
  <2> HIDE DEF u
  <2> QED
    BY <1>1, <1>2, <1>3, <2>1, <2>2, SpacesAsked, ExplorerTogether
<1>7. CASE D!DropAnswered(r)
  <2> DEFINE u == [ui EXCEPT !.selected = NoSpace, !.shown = D!NoRows]
  <2>1. ExplorerRefs(u)
    BY <1>2 DEF ExplorerRefs
  <2>2. \/ D!Answered(r) /\ UNCHANGED ui
        \/ D!LoadSpaces(u, flight \ {r})
        \/ D!LoadSpaces(ui, flight \ {r})
    BY <1>7 DEF D!DropAnswered
  <2> HIDE DEF u
  <2> QED
    BY <1>1, <1>2, <1>3, <2>1, <2>2, SpacesAsked, ExplorerTogether
<1>8. CASE D!TruncateAnswered(r)
  <2> DEFINE u == [ui EXCEPT !.target = NoSpace, !.typed = NoSpace, !.emptied = r.of,
                             !.await = D!SpacesQuery(ui.system)]
  <2>1. ExplorerRefs(u) /\ ExplorerRefs([ui EXCEPT !.pending = FALSE])
    BY <1>2 DEF ExplorerRefs
  <2>2. \/ ui' = [ui EXCEPT !.pending = FALSE] /\ D!Answered(r)
        \/ D!LoadSpaces(u, flight \ {r})
    BY <1>8 DEF D!TruncateAnswered
  <2> HIDE DEF u
  <2> QED
    BY <1>1, <1>2, <1>3, <2>1, <2>2, SpacesAsked, ExplorerTogether
<1> QED
  BY <1>4, <1>5, <1>6, <1>7, <1>8

LEMMA ExplorerDataStep ==
    ASSUME ExplorerData, D!Next
    PROVE  ExplorerData'
BY ExplorerDialogs, ExplorerForms, ExplorerLoads, SpacesCome, TuplesCome, ChangesCome
   DEF D!Next

LEMMA ExplorerDataStart == D!Init => ExplorerData
<1> SUFFICES ASSUME D!Init PROVE ExplorerData
  OBVIOUS
<1>1. /\ {"selected", "stack", "after", "next"} \subseteq DOMAIN ui
      /\ ui.selected = NoSpace /\ ui.stack = <<>> /\ ui.after = 0 /\ ui.next = 0
  BY DEF D!Init
<1>2. <<>> \in Seq(D!Cursors) /\ 0 \in D!Cursors
  BY PagesAssumption DEF D!Cursors
<1>3. flight = {D!SpacesQuery(FALSE)} /\ backend = Spaces
  BY DEF D!Init
<1>4. Bounded(flight)
  BY <1>3, SmallBounded
<1>5. Asked(flight)
  BY <1>3, <1>4, ExplorerQueries DEF Asked, Bounded
<1> QED
  BY <1>1, <1>2, <1>3, <1>4, <1>5 DEF ExplorerData, ExplorerRefs

----------------------------------------------------------------------------
(* The configuration page. *)

\* The store of a backend: its log is as long as the bound allows.
ConfigStore(b) ==
    /\ {"log", "prepared", "ids"} \subseteq DOMAIN b
    /\ b.ids \in 0..MaxPrepared
    /\ \E X : b.log \in Seq(X)
    /\ Len(b.log) <= MaxRevision

ConfigRefs(u) == "prepared" \in DOMAIN u /\ u.prepared \in 0..MaxPrepared

ConfigFlight(f) == Bounded(f) /\ \A r \in f : r.op \in E!Operations

ConfigData == ConfigRefs(ui) /\ ConfigFlight(flight) /\ ConfigStore(backend)

LEMMA ConfigTogether ==
    ConfigRefs(ui') /\ ConfigFlight(flight') /\ ConfigStore(backend') => ConfigData'
BY DEF ConfigData, ConfigRefs, ConfigFlight, ConfigStore, Bounded

\* One more revision, if there is room for it; any documents are prepared.
LEMMA StoreWritten ==
    ASSUME ConfigStore(backend), NEW text, E!Newest < MaxRevision
    PROVE  ConfigStore(E!Written(text))
<1> DEFINE log == Append(backend.log, text)
<1>1. PICK X : backend.log \in Seq(X)
  BY DEF ConfigStore
<1>2. backend.log \in Seq(X \cup {text})
  BY <1>1
<1>3. log \in Seq(X \cup {text}) /\ Len(log) = Len(backend.log) + 1
  BY <1>2
<1>4. Len(backend.log) \in Nat /\ MaxRevision \in Nat
  BY <1>1, PagesAssumption
<1>5. Len(log) <= MaxRevision
  BY <1>3, <1>4 DEF E!Newest
<1>6. E!Written(text) = [backend EXCEPT !.log = log]
  BY DEF E!Written
<1> HIDE DEF log
<1> QED
  BY <1>3, <1>5, <1>6 DEF ConfigStore

LEMMA StorePrepares ==
    ASSUME NEW b, ConfigStore(b), NEW p
    PROVE  ConfigStore([b EXCEPT !.prepared = p])
BY DEF ConfigStore

LEMMA EndedRefs ==
    ASSUME NEW u, ConfigRefs(u), NEW ops
    PROVE  ConfigRefs(E!Ended(u, ops))
BY DEF ConfigRefs, E!Ended

LEMMA ShowingRefs ==
    ASSUME NEW u, ConfigRefs(u), NEW t
    PROVE  ConfigRefs(E!Showing(u, t))
BY DEF ConfigRefs, E!Showing

LEMMA ConfigFewer ==
    ASSUME ConfigData, flight' \in SUBSET flight
    PROVE  ConfigFlight(flight')
BY FewerBounded DEF ConfigData, ConfigFlight

LEMMA ConfigPosts ==
    ASSUME ConfigData, NEW r, "op" \in DOMAIN r, r.op \in E!Operations, E!Posts(r)
    PROVE  ConfigFlight(flight')
<1>1. Bounded(flight') /\ \E i : flight' = flight \cup {[r EXCEPT !.n = i]}
  BY PostedBounded DEF ConfigData, ConfigFlight, Posting
<1>2. PICK i : flight' = flight \cup {[r EXCEPT !.n = i]}
  BY <1>1
<1>3. [r EXCEPT !.n = i].op = r.op
  OBVIOUS
<1> QED
  BY <1>1, <1>2, <1>3 DEF ConfigData, ConfigFlight

\* A reload, on top of some of what was asked.
LEMMA ConfigLoads ==
    ASSUME ConfigData, NEW f \in SUBSET flight, E!Sends(f \cup {E!Load})
    PROVE  ConfigFlight(flight')
<1>1. Sending(f \cup {E!Load})
  BY DEF Sending
<1>2. IsFiniteSet({E!Load}) /\ f \cup {E!Load} \subseteq flight \cup {E!Load}
  BY FS_Singleton
<1>3. flight' = f \cup {E!Load} /\ Bounded(flight')
  BY <1>1, <1>2, SentBounded DEF ConfigData, ConfigFlight
<1>4. E!Load.op \in E!Operations
  BY DEF E!Load, E!Operations
<1> QED
  BY <1>3, <1>4 DEF ConfigData, ConfigFlight

\* Typing, dialogs and comparisons: what is prepared, asked and stored stays.
LEMMA ConfigDialogs ==
    ASSUME ConfigData,
           \/ E!MountEditor \/ E!DiffMounted \/ E!CloseViewer \/ E!Cancel
           \/ \E t \in Texts : E!Edit(t)
           \/ \E rev \in E!Revisions :
                 E!OpenRollback(rev) \/ E!OpenForce(rev) \/ E!TypeRevision(rev)
    PROVE  ConfigData'
<1>1. flight' = flight /\ backend' = backend
  BY DEF E!MountEditor, E!DiffMounted, E!CloseViewer, E!Cancel, E!Edit, E!OpenRollback,
         E!OpenForce, E!TypeRevision
<1>2. ConfigRefs(ui')
  <2>1. CASE E!MountEditor \/ E!Cancel \/ E!CloseViewer
    BY <2>1 DEF E!MountEditor, E!Cancel, E!CloseViewer, ConfigData, ConfigRefs
  <2>2. CASE E!DiffMounted
    BY <2>2 DEF E!DiffMounted, ConfigData, ConfigRefs
  <2>3. ASSUME NEW t, E!Edit(t) PROVE ConfigRefs(ui')
    BY <2>3 DEF E!Edit, ConfigData, ConfigRefs
  <2>4. ASSUME NEW rev, E!OpenRollback(rev) \/ E!OpenForce(rev) \/ E!TypeRevision(rev)
        PROVE  ConfigRefs(ui')
    BY <2>4 DEF E!OpenRollback, E!OpenForce, E!TypeRevision, ConfigData, ConfigRefs
  <2> QED
    BY <2>1, <2>2, <2>3, <2>4
<1> QED
  BY <1>1, <1>2, ConfigTogether DEF ConfigData

LEMMA ConfigAsks ==
    ASSUME ConfigData,
           \/ E!Reload \/ E!Preview \/ E!Apply \/ E!Abort
           \/ E!ConfirmRollback \/ E!ConfirmForce
           \/ \E rev, use : E!AskRevision(rev, use)
    PROVE  ConfigData'
<1>1. backend' = backend
  BY DEF E!Reload, E!Preview, E!Apply, E!Abort, E!ConfirmRollback, E!ConfirmForce,
         E!AskRevision
<1>2. ConfigRefs(ui')
  <2>1. CASE E!Preview
    BY <2>1 DEF E!Preview, ConfigData, ConfigRefs
  <2>2. CASE E!Apply \/ E!ConfirmRollback \/ E!ConfirmForce
    BY <2>2 DEF E!Apply, E!ConfirmRollback, E!ConfirmForce, ConfigData, ConfigRefs
  <2>3. CASE E!Reload \/ E!Abort \/ \E rev, use : E!AskRevision(rev, use)
    BY <2>3 DEF E!Reload, E!Abort, E!AskRevision, ConfigData, ConfigRefs
  <2> QED
    BY <2>1, <2>2, <2>3
<1>3. ConfigFlight(flight')
  <2>1. CASE E!Reload
    BY <2>1, ConfigLoads DEF E!Reload, E!Queries
  <2>2. CASE E!Preview
    BY <2>2, ConfigPosts DEF E!Preview, E!Operations
  <2>3. CASE E!Apply
    BY <2>3, ConfigPosts DEF E!Apply, E!Operations
  <2>4. CASE E!Abort
    BY <2>4, ConfigPosts DEF E!Abort, E!Operations
  <2>5. CASE E!ConfirmRollback
    BY <2>5, ConfigPosts DEF E!ConfirmRollback, E!Operations
  <2>6. CASE E!ConfirmForce
    BY <2>6, ConfigPosts DEF E!ConfirmForce, E!Operations
  <2>7. ASSUME NEW rev, NEW use, E!AskRevision(rev, use) PROVE ConfigFlight(flight')
    BY <2>7, ConfigPosts DEF E!AskRevision, E!Operations
  <2> QED
    BY <2>1, <2>2, <2>3, <2>4, <2>5, <2>6, <2>7
<1> QED
  BY <1>1, <1>2, <1>3, ConfigTogether DEF ConfigData

\* What the answers and other operators leave in the store.
LEMMA StoreCommitted ==
    ASSUME ConfigStore(backend), NEW r, E!Lands(r), E!Committed(r)
    PROVE  ConfigStore(backend')
<1> DEFINE w == E!Written(E!Doc(r.id).text)
<1>1. ConfigStore(w)
  BY StoreWritten DEF E!Lands
<1>2. backend' = [w EXCEPT !.prepared = w.prepared \ {E!Doc(r.id)}]
  BY DEF E!Committed
<1> HIDE DEF w
<1> QED
  BY <1>1, <1>2, StorePrepares

LEMMA ConfigOthers ==
    ASSUME ConfigData, E!OthersCommit \/ E!Expires
    PROVE  ConfigData'
<1>1. ui' = ui /\ flight' = flight
  BY DEF E!OthersCommit, E!Expires
<1>2. ConfigStore(backend')
  <2>1. CASE E!OthersCommit
    BY <2>1, StoreWritten DEF E!OthersCommit, ConfigData
  <2>2. CASE E!Expires
    BY <2>2, StorePrepares DEF E!Expires, ConfigData
  <2> QED
    BY <2>1, <2>2
<1> QED
  BY <1>1, <1>2, ConfigTogether DEF ConfigData

LEMMA ConfigShown ==
    ASSUME ConfigData, NEW r \in flight, E!LoadAnswered(r) \/ E!RevisionAnswered(r)
    PROVE  ConfigData'
<1>1. backend' = backend /\ flight' \in SUBSET flight
  BY DEF E!LoadAnswered, E!RevisionAnswered, E!Answered
<1>2. ConfigRefs(ui')
  <2>1. CASE E!LoadAnswered(r)
    <3> DEFINE shown == E!Showing(ui, backend.log[E!Newest])
               u == [shown EXCEPT !.revision = E!Newest]
    <3>1. ConfigRefs(shown)
      BY ShowingRefs DEF ConfigData
    <3>2. ui' = E!Ended(ui, ui.wait) \/ ui' = E!Ended(u, ui.wait)
      BY <2>1 DEF E!LoadAnswered
    <3> HIDE DEF shown
    <3>3. ConfigRefs(u)
      BY <3>1 DEF ConfigRefs
    <3> HIDE DEF u
    <3> QED
      BY <3>2, <3>3, EndedRefs DEF ConfigData
  <2>2. CASE E!RevisionAnswered(r)
    <3>1. CASE UNCHANGED ui
      BY <3>1 DEF ConfigData
    <3>2. CASE ui' = E!Showing(ui, backend.log[r.rev])
      BY <3>2, ShowingRefs DEF ConfigData
    <3>3. CASE ui' = [ui EXCEPT !.viewer = E!Comparing]
      BY <3>3 DEF ConfigData, ConfigRefs
    <3> QED
      BY <2>2, <3>1, <3>2, <3>3 DEF E!RevisionAnswered
  <2> QED
    BY <2>1, <2>2
<1> QED
  BY <1>1, <1>2, ConfigFewer, ConfigTogether DEF ConfigData

LEMMA ConfigPreviewed ==
    ASSUME ConfigData, NEW r \in flight,
           E!PreviewRefused(r) \/ E!Previewed(r) \/ E!AbortAnswered(r)
    PROVE  ConfigData'
<1>1. flight' \in SUBSET flight
  BY DEF E!PreviewRefused, E!Previewed, E!AbortAnswered, E!Answered
<1>2. 0 \in 0..MaxPrepared
  BY PagesAssumption
<1>3. CASE E!PreviewRefused(r)
  <2>1. ConfigRefs(ui') /\ backend' = backend
    BY <1>3 DEF E!PreviewRefused, ConfigData, ConfigRefs
  <2> QED
    BY <1>1, <2>1, ConfigFewer, ConfigTogether DEF ConfigData
<1>4. CASE E!AbortAnswered(r)
  <2>1. ConfigRefs(ui')
    BY <1>2, <1>4 DEF E!AbortAnswered, ConfigData, ConfigRefs
  <2>2. ConfigStore(backend')
    BY <1>4, StorePrepares DEF E!AbortAnswered, ConfigData
  <2> QED
    BY <1>1, <2>1, <2>2, ConfigFewer, ConfigTogether
<1>5. CASE E!Previewed(r)
  <2> DEFINE id == backend.ids + 1
  <2>1. backend.ids < MaxPrepared /\ backend.ids \in 0..MaxPrepared
    BY <1>5 DEF E!Previewed, ConfigData, ConfigStore
  <2>2. id \in 0..MaxPrepared
    BY <2>1, PagesAssumption
  <2>3. /\ \E p : backend' = [backend EXCEPT !.ids = id, !.prepared = p]
        /\ ui' = [ui EXCEPT !.busy = ui.busy \ {"preparing"}, !.prepared = id,
                            !.diff = TRUE]
    BY <1>5 DEF E!Previewed
  <2> HIDE DEF id
  <2>4. ConfigRefs(ui')
    BY <2>2, <2>3 DEF ConfigData, ConfigRefs
  <2>5. ConfigStore(backend')
    BY <2>2, <2>3 DEF ConfigData, ConfigStore
  <2> QED
    BY <1>1, <2>4, <2>5, ConfigFewer, ConfigTogether
<1> QED
  BY <1>3, <1>4, <1>5

LEMMA ConfigApplied ==
    ASSUME ConfigData, NEW r \in flight,
           E!ApplyAnswered(r) \/ E!ApplyFailed(r) \/ E!RollbackAnswered(r)
    PROVE  ConfigData'
<1>1. 0 \in 0..MaxPrepared /\ flight \ {r} \in SUBSET flight
  BY PagesAssumption
<1>2. CASE E!ApplyAnswered(r)
  <2>1. ConfigRefs(ui')
    BY <1>1, <1>2 DEF E!ApplyAnswered, ConfigData, ConfigRefs
  <2>2. ConfigStore(backend')
    BY <1>2, StoreCommitted DEF E!ApplyAnswered, ConfigData
  <2>3. ConfigFlight(flight')
    BY <1>1, <1>2, ConfigLoads DEF E!ApplyAnswered
  <2> QED
    BY <2>1, <2>2, <2>3, ConfigTogether
<1>3. CASE E!ApplyFailed(r)
  <2>1. ConfigRefs(ui')
    BY <1>3 DEF E!ApplyFailed, ConfigData, ConfigRefs
  <2>2. ConfigStore(backend')
    BY <1>3, StoreCommitted DEF E!ApplyFailed, ConfigData
  <2>3. flight' \in SUBSET flight
    BY <1>3 DEF E!ApplyFailed, E!Answered
  <2> QED
    BY <2>1, <2>2, <2>3, ConfigFewer, ConfigTogether
<1>4. CASE E!RollbackAnswered(r)
  <2>1. ConfigStore(backend')
    BY <1>4, StoreWritten DEF E!RollbackAnswered, E!ReturnsTo, ConfigData
  <2>2. CASE ui' = E!Ended(ui, {r.op}) /\ E!Answered(r)
    <3>1. ConfigRefs(ui') /\ flight' \in SUBSET flight
      BY <2>2, EndedRefs DEF E!Answered, ConfigData
    <3> QED
      BY <2>1, <3>1, ConfigFewer, ConfigTogether
  <2>3. CASE /\ ui' = [ui EXCEPT
                          !.wait = ui.wait \cup {r.op},
                          !.prepared = IF r.op = "rollback" THEN 0 ELSE ui.prepared,
                          !.diff = IF r.op = "rollback" THEN FALSE ELSE ui.diff]
             /\ E!Sends((flight \ {r}) \cup {E!Load})
    <3>1. ConfigRefs(ui')
      BY <1>1, <2>3 DEF ConfigData, ConfigRefs
    <3>2. ConfigFlight(flight')
      BY <1>1, <2>3, ConfigLoads
    <3> QED
      BY <2>1, <3>1, <3>2, ConfigTogether
  <2> QED
    BY <1>4, <2>2, <2>3 DEF E!RollbackAnswered
<1> QED
  BY <1>2, <1>3, <1>4

LEMMA ConfigDataStep ==
    ASSUME ConfigData, E!Next
    PROVE  ConfigData'
BY ConfigDialogs, ConfigAsks, ConfigOthers, ConfigShown, ConfigPreviewed, ConfigApplied
   DEF E!Next

LEMMA ConfigDataStart == E!Init => ConfigData
<1> SUFFICES ASSUME E!Init PROVE ConfigData
  OBVIOUS
<1>1. /\ ui.prepared = 0 /\ "prepared" \in DOMAIN ui
      /\ flight = {E!Load}
  BY DEF E!Init
<1>2. PICK t : backend \in [log : {<<t>>}, prepared : {{}}, ids : {0}]
  BY DEF E!Init
<1>3. /\ {"log", "prepared", "ids"} \subseteq DOMAIN backend
      /\ backend.log \in {<<t>>} /\ backend.ids \in {0}
  BY <1>2
<1>4. backend.log \in Seq({t}) /\ Len(backend.log) = 1
  <2>1. backend.log = <<t>>
    BY <1>3
  <2>2. <<t>> \in Seq({t}) /\ Len(<<t>>) = 1
    OBVIOUS
  <2> QED
    BY <2>1, <2>2, Zenon
<1>5. MaxRevision \in Nat \ {0} /\ MaxPrepared \in Nat
  BY PagesAssumption
<1>6. ConfigStore(backend)
  <2>1. \E X : backend.log \in Seq(X)
    BY <1>4
  <2>2. Len(backend.log) <= MaxRevision /\ backend.ids \in 0..MaxPrepared
    BY <1>3, <1>4, <1>5
  <2> QED
    BY <1>3, <2>1, <2>2 DEF ConfigStore
<1>7. ConfigRefs(ui)
  BY <1>1, <1>5 DEF ConfigRefs
<1>8. Bounded(flight)
  BY <1>1, SmallBounded
<1>9. ConfigFlight(flight)
  BY <1>1, <1>8 DEF ConfigFlight, E!Load, E!Operations
<1> QED
  BY <1>6, <1>7, <1>9 DEF ConfigData

----------------------------------------------------------------------------
(* All pages. *)

DataInv ==
    /\ page = "recovery" => RecoveryData
    /\ page = "explorer" => ExplorerData
    /\ page = "tuple" => FieldInv /\ Bounded(flight)
    /\ page = "panels" => PanelsData
    /\ page = "config" => ConfigData
    /\ page = "cluster" => ClusterData
    /\ page = "sql" => SqlData
    /\ page = "logs" => Bounded(flight)
    /\ page = "audit" => AuditInv /\ Bounded(flight)
    /\ page = "bootstrap" => BootstrapData
    /\ page = "console" => ConsoleData
    /\ page \in {"recovery", "explorer", "tuple", "panels", "config", "cluster", "sql",
                 "logs", "audit", "bootstrap", "console"}

LEMMA FlightStarts ==
    /\ T!Init => Bounded(flight)
    /\ L!Init => Bounded(flight)
    /\ A!Init => Bounded(flight)
<1>1. \A q : Bounded({q}) /\ Bounded({})
  BY SmallBounded
<1> QED
  BY <1>1 DEF T!Init, L!Init, A!Init

LEMMA DataStarts == Init => DataInv
<1> SUFFICES ASSUME Init PROVE DataInv
  OBVIOUS
<1>1. CASE page = "recovery" /\ R!Init
  BY <1>1, RecoveryDataStart DEF DataInv
<1>2. CASE page = "explorer" /\ D!Init
  BY <1>2, ExplorerDataStart DEF DataInv
<1>3. CASE page = "tuple" /\ T!Init
  BY <1>3, FieldStart, FlightStarts DEF DataInv
<1>4. CASE page = "panels" /\ P!Init
  BY <1>4, PanelsDataStart DEF DataInv
<1>5. CASE page = "config" /\ E!Init
  BY <1>5, ConfigDataStart DEF DataInv
<1>6. CASE page = "cluster" /\ C!Init
  BY <1>6, ClusterDataStart DEF DataInv
<1>7. CASE page = "sql" /\ S!Init
  BY <1>7, SqlDataStart DEF DataInv
<1>8. CASE page = "logs" /\ L!Init
  BY <1>8, FlightStarts DEF DataInv
<1>9. CASE page = "audit" /\ A!Init
  BY <1>9, AuditStart, FlightStarts DEF DataInv
<1>10. CASE page = "bootstrap" /\ B!Init
  BY <1>10, BootstrapDataStart DEF DataInv
<1>11. CASE page = "console" /\ K!Init
  BY <1>11, ConsoleDataStart DEF DataInv
<1> QED
  BY <1>1, <1>2, <1>3, <1>4, <1>5, <1>6, <1>7, <1>8, <1>9, <1>10, <1>11 DEF Init

LEMMA DataStutters ==
    ASSUME DataInv, UNCHANGED vars
    PROVE  DataInv'
<1>1. page' = page /\ ui' = ui /\ flight' = flight /\ backend' = backend
  BY DEF vars
<1>2. (Bounded(flight))' <=> Bounded(flight)
  BY <1>1 DEF Bounded
<1>3. /\ RecoveryData => RecoveryData'
      /\ ExplorerData => ExplorerData'
      /\ PanelsData => PanelsData'
      /\ ConfigData => ConfigData'
      /\ ClusterData => ClusterData'
  BY <1>1, <1>2 DEF RecoveryData, ExplorerData, ExplorerRefs, Asked, PanelsData,
                    ConfigData, ConfigRefs, ConfigFlight, ConfigStore, ClusterData
<1>4. /\ SqlData => SqlData'
      /\ BootstrapData => BootstrapData'
      /\ ConsoleData => ConsoleData'
  BY <1>1, <1>2 DEF SqlData, BootstrapData, ConsoleData
<1>5. FieldInv => FieldInv'
  BY <1>1 DEF FieldInv, AsRead
<1>6. AuditInv => AuditInv'
  BY <1>1 DEF AuditInv, A!ContinuesFromLast
<1> QED
  BY <1>1, <1>2, <1>3, <1>4, <1>5, <1>6 DEF DataInv

LEMMA DataSteps == DataInv /\ [Next]_vars => DataInv'
<1> SUFFICES ASSUME DataInv, [Next]_vars PROVE DataInv'
  OBVIOUS
<1>1. CASE UNCHANGED vars
  BY <1>1, DataStutters
<1>2. CASE Next
  <2>1. page' = page
    BY <1>2, PageSteps
  <2>2. CASE page = "recovery"
    BY <1>2, <2>1, <2>2, PageSteps, RecoveryDataStep DEF DataInv
  <2>3. CASE page = "explorer"
    BY <1>2, <2>1, <2>3, PageSteps, ExplorerDataStep DEF DataInv
  <2>4. CASE page = "tuple"
    BY <1>2, <2>1, <2>4, PageSteps, FieldStep, TupleFlight DEF DataInv
  <2>5. CASE page = "panels"
    BY <1>2, <2>1, <2>5, PageSteps, PanelsDataStep DEF DataInv
  <2>6. CASE page = "config"
    BY <1>2, <2>1, <2>6, PageSteps, ConfigDataStep DEF DataInv
  <2>7. CASE page = "cluster"
    BY <1>2, <2>1, <2>7, PageSteps, ClusterDataStep DEF DataInv
  <2>8. CASE page = "sql"
    BY <1>2, <2>1, <2>8, PageSteps, SqlDataStep DEF DataInv
  <2>9. CASE page = "logs"
    BY <1>2, <2>1, <2>9, PageSteps, LogsFlight DEF DataInv
  <2>10. CASE page = "audit"
    BY <1>2, <2>1, <2>10, PageSteps, AuditStep, AuditFlight DEF DataInv
  <2>11. CASE page = "bootstrap"
    BY <1>2, <2>1, <2>11, PageSteps, BootstrapDataStep DEF DataInv
  <2>12. CASE page = "console"
    BY <1>2, <2>1, <2>12, PageSteps, ConsoleDataStep DEF DataInv
  <2> QED
    BY <2>2, <2>3, <2>4, <2>5, <2>6, <2>7, <2>8, <2>9, <2>10, <2>11, <2>12 DEF DataInv
<1> QED
  BY <1>1, <1>2

\* The invariant behind the data of all pages: what their refs hold, what they have
\* asked for, and what of it the backend keeps (the refs and requests of every page
\* under src/frontend/src/pages).
THEOREM DataKept == Spec => []DataInv
<1> QED
  BY DataStarts, DataSteps, PTL DEF Spec

\* A field of a typed column that is opened for editing and not touched is written back
\* as the value it was read as, and a decimal of a number column, which arrives as a
\* string, as the nearest double (types.lua, encode_field; TupleForm.vue, parseValue).
THEOREM UntouchedComesBack == Spec => []UntouchedKept
<1>1. DataInv => UntouchedKept
  BY FieldMeans DEF DataInv, UntouchedKept
<1> QED
  BY <1>1, DataKept, PTL

\* "Load more" asks for the entries behind the last one of the table, for logs of any
\* length and filters that select any of them (Audit.vue, resolvers/audit.lua).
THEOREM LoadMoreContinues == Spec => []ContinuesFromLast
<1>1. DataInv => ContinuesFromLast
  BY DEF DataInv, AuditInv, ContinuesFromLast
<1> QED
  BY <1>1, DataKept, PTL

\* What the refs of the pages hold is of what they can show, and no page has more
\* requests in flight than its bounds allow (every page under src/frontend/src/pages).
THEOREM PagesTypeCorrect == Spec => []TypeOK
<1>1. ASSUME DataInv, IInv PROVE TypeOK
  <2>1. Bounded(flight)
    BY <1>1 DEF DataInv, RecoveryData, ExplorerData, PanelsData, ConfigData, ConfigFlight,
                ClusterData, SqlData, BootstrapData, ConsoleData
  <2>2. Cardinality(flight) <= MaxFlight + MaxCalls
    BY <2>1 DEF Bounded
  <2>3. page = "recovery" =>
          /\ ui.action \in Requests \cup {NoRequest} /\ ui.busy \in BOOLEAN
          /\ \A r \in flight : r.op \in R!Operations
    BY <1>1 DEF DataInv, RecoveryData
  <2>4. page = "explorer" =>
          /\ \A r \in flight : r.op \in D!Operations
          /\ ui.selected \in Spaces \cup {NoSpace}
          /\ {ui.after, ui.next} \subseteq D!Cursors
    BY <1>1 DEF DataInv, ExplorerData, ExplorerRefs, Asked
  <2>5. page = "tuple" => ui.row.raw \in Words /\ ui.row.bytes \in Bytes \cup {NoBytes}
    BY <1>1 DEF DataInv, FieldInv
  <2>6. page = "panels" =>
          /\ ui.seq.info \in P!SequenceNames \cup {NoTable}
          /\ \A r \in flight : r.op \in P!Operations
    BY <1>1 DEF DataInv, PanelsData
  <2>7. page = "config" =>
          /\ ui.prepared \in 0..MaxPrepared /\ Len(backend.log) <= MaxRevision
          /\ \A r \in flight : r.op \in E!Operations
    BY <1>1 DEF DataInv, ConfigData, ConfigRefs, ConfigFlight, ConfigStore
  <2>8. page = "cluster" => ui.pick \in Modes /\ ui.expel \in Instances \cup {NoInstance}
    BY <1>1 DEF DataInv, ClusterData
  <2>9. page = "sql" => ui.sql \in Sqls /\ ui.saved \subseteq Sqls
    BY <1>1 DEF DataInv, SqlData
  <2>10. page = "logs" => backend \in L!Prefs
    BY <1>1 DEF IInv, LogsInv
  <2>11. page = "audit" => ui.filter \in Criteria /\ ui.cursor \in 0..MaxEntry
    BY <1>1 DEF DataInv, AuditInv
  <2>12. page = "bootstrap" => ui.choice \in Choices /\ backend.checked \subseteq flight
    BY <1>1 DEF DataInv, BootstrapData
  <2>13. page = "console" =>
          ui.lang \in Langs /\ {ui.code, ui.result} \subseteq Codes \cup {NoCode}
    BY <1>1 DEF DataInv, ConsoleData
  <2> QED
    BY <2>2, <2>3, <2>4, <2>5, <2>6, <2>7, <2>8, <2>9, <2>10, <2>11, <2>12, <2>13
       DEF TypeOK
<1> QED
  BY <1>1, DataKept, ShownIsHeld, PTL
============================================================================
