---------------------------- MODULE MCDriveScan ----------------------------
(* On the drive the folder dirD; in it the folder dirE with the file fileF, *)
(* an empty folder dirK that may not be listed, a link linkJ to dirD, and   *)
(* the file fileG.                                                          *)
EXTENDS DriveScan

CONSTANTS dirD, dirE, linkJ, dirK, fileF, fileG

MCLayout == (dirD :> Drive) @@ (dirE :> dirD) @@ (linkJ :> dirD) @@
            (dirK :> dirD) @@ (fileF :> dirE) @@ (fileG :> dirD)

MCTarget == linkJ :> dirD

\* Folders are moved into each other; a file is deleted, created again, moved.
MCMayMove == [x \in Node |-> CASE x \in {dirD, dirE} -> {Drive, dirD, dirE}
                               [] x = fileF -> {Gone, dirD}
                               [] OTHER -> {}]

MCOptionKeys == <<"UseRegex">>

MCFixedDrives == <<<<Drive>>>>

MCFolders == {<<Drive, dirD>>}

MCDefaultExcludedPaths == <<<<Drive, dirD, dirE>>>>

\* The folders come before or after each other and what is in them.
MCFrnOrders == {<<dirD, dirE, linkJ, dirK, fileF, fileG>>,
                 <<fileG, fileF, dirK, linkJ, dirE, dirD>>}
=============================================================================
