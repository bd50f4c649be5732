----------------------------- MODULE FileIndex -----------------------------
(***************************************************************************)
(* What IndexStore promises its clients, without pools, offsets, locks or  *)
(* records: files in the order of their arrival, a rebuild that is staged  *)
(* and takes effect at once, and a copy on disk.                           *)
(*                                                                         *)
(* The copy is exact only while the index is compact, that is, has lost no *)
(* entry since it was last replaced as a whole.  Saving an index that has  *)
(* lost one keeps the number of entries and their stamps and promises      *)
(* nothing about their paths; so does everything loaded from that copy.    *)
(***************************************************************************)
EXTENDS Integers, Sequences

CONSTANTS
    AnyPath,             \* the paths an entry may show
    SamePath(_, _),      \* equal when lowercased
    Below(_, _),         \* Below(p, r): p lies strictly below directory r
    Inputs,              \* the entries the file system may hold
    Directories          \* the directories RemoveAllBelow is asked for

VARIABLES
    index,       \* arrival number -> an entry a search can find
    compact,     \* no entry was removed since the last Replace
    disk,        \* [state, entries, compact]
    up,          \* the index was loaded, or found not to be loadable
    rebuilding,  \* a rebuild is being staged
    staged       \* its entries, oldest first

ivars == <<index, compact, disk, up, rebuilding, staged>>

NoDisk   == [state |-> "none", entries |-> <<>>, compact |-> TRUE]
TornDisk == [state |-> "torn", entries |-> <<>>, compact |-> TRUE]

Init ==
    /\ index = <<>>
    /\ compact = TRUE
    /\ disk = NoDisk
    /\ up = FALSE
    /\ rebuilding = FALSE
    /\ staged = <<>>

\* g has the entries of f whose numbers are in S.
Keeps(f, S, g) == g = [i \in S |-> f[i]]

\* g has the entries of f whose numbers are in S, and n, which arrived last.
Arrives(f, S, n, g) ==
    /\ \A i \in DOMAIN f : i < n
    /\ DOMAIN g = S \cup {n}
    /\ \A i \in S : g[i] = f[i]

\* The first entry of its path.
Oldest(i) ==
    \A j \in DOMAIN index : j < i => ~SamePath(index[j].path, index[i].path)

\* The order-preserving functions from S onto T.
Renumberings(S, T) ==
    {h \in [S -> T] :
        /\ \A i, j \in S : i < j => h[i] < h[j]
        /\ \A t \in T : \E i \in S : h[i] = t}

Add ==
    /\ \E n \in DOMAIN index' :
          /\ Arrives(index, DOMAIN index, n, index')
          /\ index'[n] \in Inputs
    /\ UNCHANGED <<compact, disk, up, rebuilding, staged>>

\* The first entry of some path goes, every other one stays in place.
RemoveOne ==
    /\ \E i \in DOMAIN index :
          /\ Oldest(i)
          /\ Keeps(index, DOMAIN index \ {i}, index')
    /\ compact' = FALSE
    /\ UNCHANGED <<disk, up, rebuilding, staged>>

\* An entry moves to the end under another path, with the same stamp.
Rename ==
    /\ \E i \in DOMAIN index, n \in DOMAIN index' :
          /\ Oldest(i)
          /\ Arrives(index, DOMAIN index \ {i}, n, index')
          /\ index'[n] \in Inputs
          /\ index'[n].stamp = index[i].stamp
    /\ compact' = FALSE
    /\ UNCHANGED <<disk, up, rebuilding, staged>>

RemoveAllBelow(r) ==
    LET Stays(e) == ~Below(e.path, r)
    IN  /\ \E i \in DOMAIN index : ~Stays(index[i])
        /\ Keeps(index, {i \in DOMAIN index : Stays(index[i])}, index')
        /\ compact' = FALSE
        /\ UNCHANGED <<disk, up, rebuilding, staged>>

BeginRebuild ==
    /\ ~rebuilding
    /\ rebuilding' = TRUE
    /\ staged' = <<>>
    /\ UNCHANGED <<index, compact, disk, up>>

Stage ==
    /\ rebuilding
    /\ \E e \in Inputs : staged' = Append(staged, e)
    /\ UNCHANGED <<index, compact, disk, up, rebuilding>>

\* A rebuild replaces the whole index in one step, by exactly what was staged.
Replace ==
    /\ rebuilding
    /\ rebuilding' = FALSE
    /\ index' = staged
    /\ staged' = <<>>
    /\ compact' = TRUE
    /\ up' = TRUE
    /\ UNCHANGED disk

Truncate ==
    /\ ~rebuilding
    /\ disk' = TornDisk
    /\ UNCHANGED <<index, compact, up, rebuilding, staged>>

Save ==
    /\ ~rebuilding
    /\ disk.state = "torn"
    /\ disk'.state = "ok"
    /\ disk'.compact = compact
    /\ \E h \in Renumberings(DOMAIN disk'.entries, DOMAIN index) :
          \A n \in DOMAIN disk'.entries :
              /\ disk'.entries[n].path \in AnyPath
              /\ disk'.entries[n].stamp = index[h[n]].stamp
              /\ compact => disk'.entries[n] = index[h[n]]
    /\ UNCHANGED <<index, compact, up, rebuilding, staged>>

Load ==
    /\ ~up
    /\ ~rebuilding
    /\ up' = TRUE
    /\ index' = disk.entries
    /\ compact' = disk.compact
    /\ UNCHANGED <<disk, rebuilding, staged>>

Crash ==
    /\ index' = <<>>
    /\ compact' = TRUE
    /\ up' = FALSE
    /\ rebuilding' = FALSE
    /\ staged' = <<>>
    /\ UNCHANGED disk

Next ==
    \/ Add \/ RemoveOne \/ Rename
    \/ \E r \in Directories : RemoveAllBelow(r)
    \/ BeginRebuild \/ Stage \/ Replace
    \/ Truncate \/ Save \/ Load \/ Crash

Spec == Init /\ [][Next]_ivars
=============================================================================
