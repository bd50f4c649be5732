------------------------ MODULE IndexStoreRefinement ------------------------
(***************************************************************************)
(* IndexStore implements FileIndex: the index is the live metas, numbered  *)
(* as they are, each with the path its offset leads to; the disk is what   *)
(* Deserialize would make of the file; a rebuild is what EndWrite has      *)
(* built, followed by what it still has to.                                *)
(***************************************************************************)
EXTENDS IndexStore

\* The entry meta i stands for.
EntryAt(pl, i) == [path |-> GetPath(pl, i), stamp |-> pl.meta[i].stamp]

LiveEntries(pl) == [i \in LiveIndices(pl) |-> EntryAt(pl, i)]

\* Where Deserialize puts each of the records, and after the last one.
RecordOffset(records) ==
    LET offset[n \in 1..(Len(records) + 1)] ==
            IF n = 1 THEN 0 ELSE offset[n - 1] + records[n - 1].pathLen
    IN  offset

\* The entries Load would find in f.
Decode(f) ==
    LET offset == RecordOffset(f.entries)
    IN  [n \in 1..Len(f.entries) |->
            [path  |-> View(f.pathPool, offset[n], f.entries[n].pathLen),
             stamp |-> f.entries[n].stamp]]

\* Records and characters of f account for each other exactly.
FileCompact(f) ==
    RecordOffset(f.entries)[Len(f.entries) + 1] = Len(f.pathPool)

\* Where the path before meta i ends.
EndBefore(pl, i) ==
    IF i = 1 THEN 0 ELSE PathOffset(pl, i - 1) + PathLen(pl, i - 1)

\* Nothing but the live entries, one after the other.
PoolCompact(pl) ==
    /\ \A i \in 1..Size(pl) :
          /\ ~pl.meta[i].deleted
          /\ PathOffset(pl, i) = EndBefore(pl, i)
    /\ EndBefore(pl, Size(pl) + 1) = PathCells(pl)

SameLower(p, q) == LowerSeq(p) = LowerSeq(q)

Rebuilding == pc \in {"staging", "building"}

\* What EndWrite has built, then what is left in stagingBuf.
Staged ==
    IF Rebuilding
    THEN [i \in 1..(Size(fresh) + Len(stagingBuf)) |->
             IF i <= Size(fresh) THEN EntryAt(fresh, i)
                                 ELSE stagingBuf[i - Size(fresh)]]
    ELSE <<>>

Index == INSTANCE FileIndex WITH
    AnyPath <- Path,
    SamePath <- SameLower,
    Below <- Under,
    Inputs <- Entries,
    Directories <- Prefixes,
    index <- LiveEntries(pool),
    compact <- PoolCompact(pool),
    disk <- [state |-> file.state, entries |-> Decode(file),
             compact |-> FileCompact(file)],
    up <- phase # "start",
    rebuilding <- Rebuilding,
    staged <- Staged

\* Every step of the store is a step of FileIndex or leaves it unchanged:
\* readers see an addition, a removal, a rename or a whole rebuild at once, in
\* the order it was applied; Save copies the index it locked; Load brings back
\* that copy or nothing, a crash in the middle of Save included.
ImplementsFileIndex == Index!Spec

\* IndexSerializer.cpp:63, "deleted entries are dropped on Save", and the test
\* TombstonedEntriesNotPersisted: what is saved is the live entries, and
\* loading brings the same ones back.
SaveKeepsLiveEntries ==
    [][SaveWrite =>
          \E h \in Index!Renumberings(DOMAIN Decode(file'), LiveIndices(pool)) :
              \A n \in DOMAIN Decode(file') :
                  Decode(file')[n] = LiveEntries(pool)[h[n]]]_vars
=============================================================================
