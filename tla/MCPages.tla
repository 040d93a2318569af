------------------------------ MODULE MCPages ------------------------------
(* Small instances of Pages for TLC. *)
EXTENDS Pages, TLC

\* Two actions on one peer that share a token, as orphan.lua's do, and one on the
\* cluster that is never dangerous.
Three == {"wipe i1", "promote i1", "restart i2"}
TwoTokens == [q \in Three |-> IF q = "restart i2" THEN "none" ELSE "ORPHAN i1"]
OnePeer == [q \in Three |-> IF q = "restart i2" THEN {} ELSE {"i1"}]
TwoReviews ==
    [w \in {"orphan", "topology"} |->
        IF w = "orphan" THEN {"wipe i1", "promote i1"} ELSE {"restart i2"}]
LagUnmarked == [w \in {"calm", "lag", "moved"} |-> IF w = "moved" THEN 1 ELSE 0]
Risks ==
    [q \in Three |-> CASE q = "wipe i1" -> {"calm", "lag", "moved"}
                       [] q = "promote i1" -> {"lag", "moved"}
                       [] OTHER -> {}]

\* Two spaces with a sequence of their own, and one without.
TwoSequences == [t \in {"a", "b", "c"} |->
    CASE t = "a" -> "sa" [] t = "b" -> "sb" [] OTHER -> "none"]

\* A decimal of more digits than a double has.
Doubles == [t \in {"0", "0.1", "0.10000000000000000001"} |-> IF t = "0" THEN t ELSE "0.1"]

\* The odd entries of the log are the ones a filter selects.
OddOnes == [c \in {"all", "odd"} |-> IF c = "all" THEN 1..4 ELSE {1, 3}]

\* The code the console opens with.
Greetings ==
    [lang \in {"lua", "sql"} |-> IF lang = "lua" THEN "lua identity" ELSE "sql identity"]

\* Texts and the names of user spaces are only compared.
Interchangeable == Permutations(Texts) \cup Permutations(Spaces)
============================================================================
