-------------------------- MODULE MCSearchWindow --------------------------
(* Two queries of at least two characters; with the option set the second  *)
(* finds less.                                                             *)
EXTENDS SearchWindow

MCText == {"", "ab", "ac"}

MCMatch == [t \in MCText |->
               CASE t = ""   -> [o \in BOOLEAN |-> {}]
                 [] t = "ab" -> [o \in BOOLEAN |-> {1, 2}]
                 [] t = "ac" -> [o \in BOOLEAN |-> IF o THEN {2} ELSE {2, 3}]]
=============================================================================
