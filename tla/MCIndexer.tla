------------------------------ MODULE MCIndexer ------------------------------
(***************************************************************************)
(* Two disjoint roots, c with two paths and d with one; g may be a folder, *)
(* with f in it.                                                           *)
(***************************************************************************)
EXTENDS Indexer

CONSTANTS c, d, f, g, h, l

MCUnder == [r \in Root |-> IF r = c THEN {f, g} \cap File ELSE {h}]

MCBelow == [e \in Folder |-> {f}]

MCAny == {{c}, {d}, {c, d}}
MCOne == {{c}}
=============================================================================
