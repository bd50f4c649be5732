----------------------------- MODULE MCMatching -----------------------------
(* A letter in two cases and a separator that is no letter, and '_', which *)
(* separates tokens but not words.                                         *)
EXTENDS Matching

MCChar == {"a", "A", "-", "_"}
MCLower == [x \in MCChar |-> IF x = "A" THEN "a" ELSE x]

OfLength(S, lens) == UNION {[1..n -> S] : n \in lens}

MCTexts == OfLength({"a", "A", "-"}, 0..5) \cup OfLength(MCChar, {4})
MCQueries == OfLength({"a", "A", "-"}, {2, 3}) \cup OfLength({"a", "_"}, {2})
=============================================================================
