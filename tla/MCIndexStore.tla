---------------------------- MODULE MCIndexStore ----------------------------
(***************************************************************************)
(* A drive d with a file X, and a directory s with a file x: paths of two  *)
(* lengths.  The directory is removed under another spelling.              *)
(***************************************************************************)
EXTENDS IndexStoreRefinement

MCComponent == {"d", "s", "S", "x", "X"}
MCLower == [e \in MCComponent |-> CASE e = "X" -> "x"
                                    [] e = "S" -> "s"
                                    [] OTHER   -> e]

MCPaths == {<<"d", "X">>, <<"d", "s", "x">>}
MCPrefixes == {<<"d", "S">>}
=============================================================================
