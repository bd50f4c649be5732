----------------------------- MODULE IndexPool -----------------------------
(***************************************************************************)
(* The flat in-memory index (src/core/storage/IndexPool): one EntryMeta    *)
(* per file, and two shared character pools that the metas address by      *)
(* offset and length.  An entry is never erased: it is tombstoned.         *)
(*                                                                         *)
(* A path is a sequence of components and a pool is a sequence of          *)
(* components: the unit of length is one component instead of one wchar_t  *)
(* (separators are left out).  Paths still differ in length, which is all  *)
(* the offset arithmetic depends on.  The entry's size, modification time  *)
(* and attributes, which are only copied, are one "stamp".                 *)
(***************************************************************************)
EXTENDS Integers, Sequences, FiniteSets

CONSTANTS
    Component,   \* path components: drive, directory and file names
    Lower,       \* towlower, on components
    Stamp        \* values of (size, lastModified, attributes)

ASSUME LowerAssumption ==
    /\ Lower \in [Component -> Component]
    /\ \A c \in Component : Lower[Lower[c]] = Lower[c]

Path == Seq(Component) \ {<<>>}

FileEntry == [path : Path, stamp : Stamp]

EntryMeta == [pathOffset : Nat, pathLen : Nat, nameStart : Nat,
              nameLowerOffset : Nat, nameLowerLen : Nat,
              stamp : Stamp, deleted : BOOLEAN]

Pool == [meta : Seq(EntryMeta), nameLowerPool : Seq(Component),
         pathPool : Seq(Component)]

\* IndexPool::Clear, and a pool just constructed.
EmptyPool == [meta |-> <<>>, nameLowerPool |-> <<>>, pathPool |-> <<>>]

LowerSeq(s) == [i \in 1..Len(s) |-> Lower[s[i]]]

Size(pool) == Len(pool.meta)

PathCells(pool) == Len(pool.pathPool)
NameCells(pool) == Len(pool.nameLowerPool)

PathOffset(pool, i)      == pool.meta[i].pathOffset
PathLen(pool, i)         == pool.meta[i].pathLen
NameStart(pool, i)       == pool.meta[i].nameStart
NameLowerOffset(pool, i) == pool.meta[i].nameLowerOffset
NameLowerLen(pool, i)    == pool.meta[i].nameLowerLen

\* The string_view {cells.data() + offset, len}.
View(cells, offset, len) == SubSeq(cells, offset + 1, offset + len)

GetPath(pool, i) ==
    View(pool.pathPool, PathOffset(pool, i), PathLen(pool, i))

GetName(pool, i) ==
    View(pool.pathPool, PathOffset(pool, i) + NameStart(pool, i),
         PathLen(pool, i) - NameStart(pool, i))

GetNameLower(pool, i) ==
    View(pool.nameLowerPool, NameLowerOffset(pool, i), NameLowerLen(pool, i))

\* Mutants: the offset is read after the path was appended; the name is not
\* lowercased.
AddEntryOffsetLate(pool, e) ==
    LET n == Len(e.path)
        m == [pathOffset |-> Len(pool.pathPool) + n, pathLen |-> n,
              nameStart |-> n - 1, nameLowerOffset |-> Len(pool.nameLowerPool),
              nameLowerLen |-> 1, stamp |-> e.stamp, deleted |-> FALSE]
    IN  [meta |-> Append(pool.meta, m),
         nameLowerPool |-> Append(pool.nameLowerPool, Lower[e.path[n]]),
         pathPool |-> pool.pathPool \o e.path]

AddEntryNotLowered(pool, e) ==
    LET n == Len(e.path)
        m == [pathOffset |-> Len(pool.pathPool), pathLen |-> n,
              nameStart |-> n - 1, nameLowerOffset |-> Len(pool.nameLowerPool),
              nameLowerLen |-> 1, stamp |-> e.stamp, deleted |-> FALSE]
    IN  [meta |-> Append(pool.meta, m),
         nameLowerPool |-> Append(pool.nameLowerPool, e.path[n]),
         pathPool |-> pool.pathPool \o e.path]

\* The path goes to the end of pathPool; the name is its last component.
AddEntry(pool, e) ==
    LET n    == Len(e.path)
        name == <<Lower[e.path[n]]>>
        m    == [pathOffset |-> Len(pool.pathPool), pathLen |-> n,
                 nameStart |-> n - 1,
                 nameLowerOffset |-> Len(pool.nameLowerPool),
                 nameLowerLen |-> 1,
                 stamp |-> e.stamp, deleted |-> FALSE]
    IN  [meta |-> Append(pool.meta, m),
         nameLowerPool |-> pool.nameLowerPool \o name,
         pathPool |-> pool.pathPool \o e.path]

\* meta[i].deleted = 1 for the entries whose index is in I.
Tombstone(pool, I) ==
    [pool EXCEPT !.meta =
        [i \in 1..Size(pool) |->
            IF i \in I THEN [pool.meta[i] EXCEPT !.deleted = TRUE]
                       ELSE pool.meta[i]]]

LiveIndices(pool) == {i \in 1..Size(pool) : ~pool.meta[i].deleted}

\* GetEntryCount.
LiveCount(pool) == Cardinality(LiveIndices(pool))

\* The live entries whose path equals p when both are lowercased.
Matches(pool, p) ==
    {i \in LiveIndices(pool) : LowerSeq(GetPath(pool, i)) = LowerSeq(p)}

\* The loops of ApplyRemove and ApplyRename stop at the first match.
FirstMatch(pool, p) ==
    {i \in Matches(pool, p) : \A j \in Matches(pool, p) : i <= j}

\* compare(0, lp.size(), lp) == 0 with a '\' appended to the prefix: a file
\* strictly below it.
Under(p, prefix) ==
    /\ Len(prefix) < Len(p)
    /\ SubSeq(LowerSeq(p), 1, Len(prefix)) = LowerSeq(prefix)

=============================================================================
