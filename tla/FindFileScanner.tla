-------------------------- MODULE FindFileScanner --------------------------
(***************************************************************************)
(* FindFileScanner::ScanDirectory (src/core/indexer): the breadth-first    *)
(* scan.  Its queue holds paths, and a path names whatever is there when   *)
(* it is opened.  An open listing returns what is in the folder all the    *)
(* time once; what comes or goes meanwhile it may return or not.           *)
(***************************************************************************)
EXTENDS ScannedVolume

CONSTANTS
    PathLimit,    \* the length up to which FindFirstFileW takes a path
    Denied        \* folders that may not be listed

ASSUME FindFileAssumption == PathLimit \in Nat \ {0} /\ Denied \subseteq Dirs

VARIABLES
    dirQueue,
    listing       \* hFind

findFile == <<dirQueue, listing>>

NoListing == [path |-> <<>>, dir |-> Gone, must |-> {}, may |-> {}]

Listing(path) ==
    LET dir == Resolve(path)
    IN  [path |-> path, dir |-> dir, must |-> Children(dir), may |-> {}]

Open == listing # NoListing

FindFileStart(root) ==
    /\ dirQueue' = <<root>>
    /\ listing' = NoListing

CanList(path) ==
    /\ Len(path) <= PathLimit
    /\ Resolve(path) \notin Denied \cup {Gone}

\* Mutant: an excluded folder is skipped before it is taken from the queue.
NextDirectoryStuck ==
    /\ ~Open /\ ~cancel /\ dirQueue # <<>>
    /\ LET current == Head(dirQueue)
       IN  IF IsExcluded(current, scan.excludedPaths) THEN UNCHANGED findFile
           ELSE /\ dirQueue' = Tail(dirQueue)
                /\ listing' = IF CanList(current)
                              THEN Listing(current) ELSE NoListing
    /\ UNCHANGED collected

\* The outer loop: the next folder is opened, if it is not excluded and can be.
NextDirectory ==
    /\ ~Open /\ ~cancel /\ dirQueue # <<>>
    /\ LET current == Head(dirQueue)
       IN  listing' = IF CanList(current)
                         /\ ~IsExcluded(current, scan.excludedPaths)
                      THEN Listing(current) ELSE NoListing
    /\ dirQueue' = Tail(dirQueue)
    /\ UNCHANGED collected

\* Mutant: reparse points are not skipped.
EntryFollowingReparse(x) ==
    /\ Open /\ ~cancel /\ x \in listing.must \cup listing.may
    /\ listing' = [listing EXCEPT !.must = @ \ {x}, !.may = @ \ {x}]
    /\ LET fullPath == Append(listing.path, x)
       IN  IF x \in Dirs
           THEN dirQueue' = Append(dirQueue, fullPath) /\ UNCHANGED collected
           ELSE OnFile(x, fullPath) /\ UNCHANGED dirQueue

\* The inner loop: an entry is skipped, queued or collected.
Entry(x) ==
    /\ Open /\ ~cancel /\ x \in listing.must \cup listing.may
    /\ listing' = [listing EXCEPT !.must = @ \ {x}, !.may = @ \ {x}]
    /\ LET fullPath == Append(listing.path, x)
       IN  CASE x \in Reparse -> UNCHANGED <<dirQueue, collected>>
             [] x \in Dirs \ Reparse -> /\ dirQueue' = Append(dirQueue, fullPath)
                                        /\ UNCHANGED collected
             [] OTHER -> OnFile(x, fullPath) /\ UNCHANGED dirQueue

\* FindNextFileW has no more, or the cancel token is seen: FindClose.
EndListing ==
    /\ Open
    /\ cancel \/ listing.must = {}
    /\ listing' = NoListing
    /\ UNCHANGED <<dirQueue, collected>>

FindFileEnded == ~Open /\ (cancel \/ dirQueue = <<>>)

FindFileStep == NextDirectory \/ EndListing \/ \E x \in Node : Entry(x)

\* What x was moved from or to while the scan has a listing of it open.
DuringListing(x, to) ==
    IF Open /\ listing.dir \in {parent[x], to}
    THEN listing' = [listing EXCEPT !.must = @ \ {x}, !.may = @ \cup {x}]
    ELSE UNCHANGED listing
=============================================================================
