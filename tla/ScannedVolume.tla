--------------------------- MODULE ScannedVolume ---------------------------
(***************************************************************************)
(* A volume while it is scanned, modelled from how the scanners use it     *)
(* (FindFirstFileW and FindNextFileW, FSCTL_ENUM_USN_DATA), and what the   *)
(* two of them share: the ScanOptions, the cancel token, the files given   *)
(* to onFile.                                                              *)
(*                                                                         *)
(* A path is the sequence of the names from the drive on.  A file or       *)
(* folder keeps its name when other programs move it, so that one value    *)
(* stands for the thing and for its name; case is folded already.          *)
(***************************************************************************)
EXTENDS Integers, SequencesExt

CONSTANTS
    Drive,        \* the root of the volume
    Dirs,         \* folders
    Files,
    Reparse,      \* those of both that are reparse points
    Target,       \* the folder that a folder which is one stands for
    Gone,         \* where what is not on the volume is
    Layout,       \* where everything is when the program starts
    MayMove,      \* bound: where other programs move a file or folder
    MaxMoves      \* bound: how often

Node == Dirs \cup Files

ASSUME VolumeAssumption ==
    /\ Dirs \cap Files = {} /\ IsFiniteSet(Node)
    /\ Reparse \subseteq Node
    /\ Target \in [Reparse \cap Dirs -> Dirs]
    /\ Layout \in [Node -> (Dirs \ Reparse) \cup {Drive, Gone}]
    /\ MayMove \in [Node -> SUBSET ((Dirs \ Reparse) \cup {Drive, Gone})]
    /\ Drive \notin Node /\ Gone \notin Node \cup {Drive}
    /\ MaxMoves \in Nat

\* Nothing is in itself, and nothing in a folder that is not there.
ASSUME LayoutAssumption ==
    /\ \A S \in SUBSET Node : S # {} => \E x \in S : Layout[x] \notin S
    /\ \A x \in Node : Layout[x] \in Node => Layout[Layout[x]] # Gone

VARIABLES
    parent,       \* the folder a file or folder is in
    moves,
    touched,      \* history: what had another path in the course of the scan
    scan,         \* the ScanOptions of the scan
    cancel,       \* m_cancel
    collected     \* the files given to onFile: a bag of [file, path]

volume == <<parent, moves>>

Container == (Dirs \ Reparse) \cup {Drive}
Path == Seq(Node \cup {Drive})

Children(dir) == {x \in Node : parent[x] = dir}

PathOf(x) ==
    LET up[n \in Node \cup {Drive, Gone}] ==
            IF n \in {Drive, Gone} THEN <<n>> ELSE Append(up[parent[n]], n)
    IN  up[x]

Below(x) == {y \in Node : x \in Range(PathOf(y))}

\* What a name stands for in a folder, if for a folder: it, or Gone.
Within(dir, x) ==
    IF dir = Gone \/ x \notin Children(dir) \cap Dirs THEN Gone
    ELSE IF x \in Reparse THEN Target[x] ELSE x

\* The folder the file system finds at a path, or Gone.
Resolve(path) ==
    LET at[i \in 0..Len(path)] ==
            IF i = 0 THEN Gone
            ELSE IF i = 1 THEN IF path[1] = Drive THEN Drive ELSE Gone
            ELSE Within(at[i - 1], path[i])
    IN  at[Len(path)]

\* Another program creates, moves or deletes x; a folder must be empty to go,
\* and be there to get something.
Relocate(x, to) ==
    /\ moves < MaxMoves
    /\ to # parent[x] /\ x \notin Range(PathOf(to))
    /\ to = Gone => Children(x) = {}
    /\ to \in Dirs => parent[to] # Gone
    /\ parent' = [parent EXCEPT ![x] = to]
    /\ moves' = moves + 1
    /\ touched' = touched \cup Below(x)

\* IsExcluded of either scanner: the path is an excluded one or below it.
IsExcluded(path, excludedPaths) ==
    \E p \in Range(excludedPaths) : IsPrefix(p, path)

\* A call of onFile.
OnFile(x, path) ==
    collected' = collected (+) SetToBag({[file |-> x, path |-> path]})
=============================================================================
