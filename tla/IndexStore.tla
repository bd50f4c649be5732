----------------------------- MODULE IndexStore -----------------------------
(***************************************************************************)
(* IndexStore (src/core/storage): one IndexPool behind a shared_mutex, a   *)
(* staging buffer for bulk rebuilds, and one index file written and read   *)
(* by IndexSerializer.                                                     *)
(*                                                                         *)
(* Its clients, as Indexer and MainWindow use it:                          *)
(*   - the indexing thread (or, before any worker exists, the UI thread):  *)
(*     Load once after start-up, then BeginWrite/AddEntry/EndWrite, Save,  *)
(*     RemoveEntriesUnderPath, ApplyAdd.  Its position is pc;              *)
(*   - watcher threads: ApplyAdd, ApplyRemove, ApplyRename;                *)
(*   - search threads: hold the lock shared while they read the pool.      *)
(* The process may die at any step; the file survives.                     *)
(***************************************************************************)
EXTENDS IndexPool

CONSTANTS
    Searcher,    \* search threads
    Saver,       \* the indexing thread as a holder of the shared lock
    MaxMeta,     \* bound: metas in a pool
    MaxCells,    \* bound: components in pathPool, which only a rebuild shrinks
    MaxStage     \* bound: entries staged by one rebuild

ASSUME StoreAssumption ==
    /\ Saver \notin Searcher
    /\ MaxMeta \in Nat
    /\ MaxCells \in Nat
    /\ MaxStage \in Nat

VARIABLES
    pool,        \* m_pool
    stagingBuf,  \* m_stagingBuf
    readers,     \* holders of m_mutex in shared mode
    file,        \* winindex.idx
    phase,       \* "start" until Load or a rebuild, "rebuild" after a failed Load
    pc,          \* what the indexing thread is doing
    fresh,       \* its local pool: EndWrite's fresh, Load's tmp, Serialize's image
    buf,         \* its DiskEntry records: being written, or just read
    k,           \* its position in the loop over metas or records
    runningPathOffset

vars == <<pool, stagingBuf, readers, file, phase, pc, fresh, buf, k,
          runningPathOffset>>

scratch == <<fresh, buf, k, runningPathOffset>>

\* A DiskEntry has the length of its path and not its offset.
DiskEntry == [pathLen : Nat, nameStart : Nat, stamp : Stamp]

NoFile == [state |-> "none", pathPool |-> <<>>, entries |-> <<>>]

\* Truncated and not completely rewritten: the CRC-32 does not match.
TornFile == [state |-> "torn", pathPool |-> <<>>, entries |-> <<>>]

File == [state : {"none", "torn", "ok"}, pathPool : Seq(Component),
         entries : Seq(DiskEntry)]

Init ==
    /\ pool = EmptyPool
    /\ stagingBuf = <<>>
    /\ readers = {}
    /\ file = NoFile
    /\ phase = "start"
    /\ pc = "idle"
    /\ fresh = EmptyPool
    /\ buf = <<>>
    /\ k = 1
    /\ runningPathOffset = 0

\* A unique_lock on m_mutex can be held: the critical sections of the writers
\* are single actions, those of the readers are not.
CanLockExclusive == readers = {}

----------------------------------------------------------------------------
(* Search threads. *)

SearchLock(s) ==
    /\ s \notin readers
    /\ readers' = readers \cup {s}
    /\ UNCHANGED <<pool, stagingBuf, file, phase, pc, scratch>>

SearchUnlock(s) ==
    /\ s \in readers
    /\ readers' = readers \ {s}
    /\ UNCHANGED <<pool, stagingBuf, file, phase, pc, scratch>>

----------------------------------------------------------------------------
(* Incremental changes, from the watcher threads and from IndexPaths. *)

\* The bounds of the model.
RoomFor(p) ==
    /\ Size(pool) < MaxMeta
    /\ PathCells(pool) + Len(p) <= MaxCells

\* Mutant: without the exclusive lock.
AddUnlocked(e) ==
    /\ phase = "run"
    /\ RoomFor(e.path)
    /\ pool' = AddEntry(pool, e)
    /\ UNCHANGED <<stagingBuf, readers, file, phase, pc, scratch>>

ApplyAdd(e) ==
    /\ phase = "run"
    /\ CanLockExclusive
    /\ RoomFor(e.path)
    /\ pool' = AddEntry(pool, e)
    /\ UNCHANGED <<stagingBuf, readers, file, phase, pc, scratch>>

\* Mutant: does not stop at the first match.
RemoveEveryMatch(p) ==
    /\ phase = "run"
    /\ CanLockExclusive
    /\ pool' = Tombstone(pool, Matches(pool, p))
    /\ UNCHANGED <<stagingBuf, readers, file, phase, pc, scratch>>

ApplyRemove(p) ==
    /\ phase = "run"
    /\ CanLockExclusive
    /\ pool' = Tombstone(pool, FirstMatch(pool, p))
    /\ UNCHANGED <<stagingBuf, readers, file, phase, pc, scratch>>

ApplyRename(oldPath, newPath) ==
    /\ phase = "run"
    /\ CanLockExclusive
    /\ RoomFor(newPath)
    /\ \E i \in FirstMatch(pool, oldPath) :
          pool' = AddEntry(Tombstone(pool, {i}),
                           [path |-> newPath, stamp |-> pool.meta[i].stamp])
    /\ UNCHANGED <<stagingBuf, readers, file, phase, pc, scratch>>

RemoveEntriesUnderPath(prefix) ==
    /\ phase = "run"
    /\ pc = "idle"
    /\ CanLockExclusive
    /\ pool' = Tombstone(pool, {i \in LiveIndices(pool) :
                                   Under(GetPath(pool, i), prefix)})
    /\ UNCHANGED <<stagingBuf, readers, file, phase, pc, scratch>>

----------------------------------------------------------------------------
(* A bulk rebuild: the staging buffer is filled and turned into a pool     *)
(* without the lock, and swapped in under it.                              *)

BeginWrite ==
    /\ pc = "idle"
    /\ pc' = "staging"
    /\ stagingBuf' = <<>>
    /\ UNCHANGED <<pool, readers, file, phase, scratch>>

StageEntry(e) ==
    /\ pc = "staging"
    /\ Len(stagingBuf) < MaxStage
    /\ stagingBuf' = Append(stagingBuf, e)
    /\ UNCHANGED <<pool, readers, file, phase, pc, scratch>>

EndWriteBegin ==
    /\ pc = "staging"
    /\ pc' = "building"
    /\ fresh' = EmptyPool
    /\ UNCHANGED <<pool, stagingBuf, readers, file, phase, buf, k,
                   runningPathOffset>>

EndWriteBuild ==
    /\ pc = "building"
    /\ stagingBuf # <<>>
    /\ fresh' = AddEntry(fresh, Head(stagingBuf))
    /\ stagingBuf' = Tail(stagingBuf)
    /\ UNCHANGED <<pool, readers, file, phase, pc, buf, k, runningPathOffset>>

EndWriteSwap ==
    /\ pc = "building"
    /\ stagingBuf = <<>>
    /\ CanLockExclusive
    /\ pool' = fresh
    /\ fresh' = EmptyPool
    /\ phase' = "run"
    /\ pc' = "idle"
    /\ UNCHANGED <<stagingBuf, readers, file, buf, k, runningPathOffset>>

----------------------------------------------------------------------------
(* Save: Serialize under the shared lock.  The whole pathPool is written,  *)
(* then a record for each live entry; the file is truncated in place.  The *)
(* result of Serialize is ignored.                                         *)

SaveLock ==
    /\ pc = "idle"
    /\ phase = "run"
    /\ readers' = readers \cup {Saver}
    /\ fresh' = [EmptyPool EXCEPT !.pathPool = pool.pathPool]
    /\ buf' = <<>>
    /\ k' = 1
    /\ pc' = "serializing"
    /\ UNCHANGED <<pool, stagingBuf, file, phase, runningPathOffset>>

SerializeEntry ==
    /\ pc = "serializing"
    /\ k <= Size(pool)
    /\ LET m == pool.meta[k]
       IN  buf' = IF m.deleted
                  THEN buf
                  ELSE Append(buf, [pathLen |-> m.pathLen,
                                    nameStart |-> m.nameStart,
                                    stamp |-> m.stamp])
    /\ k' = k + 1
    /\ UNCHANGED <<pool, stagingBuf, readers, file, phase, pc, fresh,
                   runningPathOffset>>

SaveDone ==
    /\ readers' = readers \ {Saver}
    /\ pc' = "idle"
    /\ fresh' = EmptyPool
    /\ buf' = <<>>
    /\ k' = 1
    /\ UNCHANGED <<pool, stagingBuf, phase, runningPathOffset>>

\* Mutant: the shared lock is released before the file is written.
SaveOpenUnlocked ==
    /\ pc = "serializing"
    /\ k > Size(pool)
    /\ file' = TornFile
    /\ readers' = readers \ {Saver}
    /\ pc' = "writing"
    /\ UNCHANGED <<pool, stagingBuf, phase, scratch>>

\* ofstream with ios::trunc.
SaveOpen ==
    /\ pc = "serializing"
    /\ k > Size(pool)
    /\ file' = TornFile
    /\ pc' = "writing"
    /\ UNCHANGED <<pool, stagingBuf, readers, phase, scratch>>

SaveOpenFails ==
    /\ pc = "serializing"
    /\ k > Size(pool)
    /\ UNCHANGED file
    /\ SaveDone

SaveWrite ==
    /\ pc = "writing"
    /\ file' = [state |-> "ok", pathPool |-> fresh.pathPool, entries |-> buf]
    /\ SaveDone

SaveWriteFails ==
    /\ pc = "writing"
    /\ UNCHANGED file
    /\ SaveDone

----------------------------------------------------------------------------
(* Load: Deserialize into a local pool without the lock, then swap it in,  *)
(* or clear the pool if the file is missing or its CRC-32 is wrong.        *)

LoadRejects ==
    /\ pc = "idle"
    /\ phase = "start"
    /\ file.state # "ok"
    /\ CanLockExclusive
    /\ pool' = EmptyPool
    /\ phase' = "rebuild"
    /\ UNCHANGED <<stagingBuf, readers, file, pc, scratch>>

LoadOpen ==
    /\ pc = "idle"
    /\ phase = "start"
    /\ file.state = "ok"
    /\ fresh' = [EmptyPool EXCEPT !.pathPool = file.pathPool]
    /\ buf' = file.entries
    /\ k' = 1
    /\ runningPathOffset' = 0
    /\ pc' = "loading"
    /\ UNCHANGED <<pool, stagingBuf, readers, file, phase>>

\* Mutant: the length of the name with its operands swapped.
AddRecordSwapped(pl, d, offset) ==
    LET nameLen == d.nameStart - d.pathLen
        m       == [pathOffset |-> offset, pathLen |-> d.pathLen,
                    nameStart |-> d.nameStart,
                    nameLowerOffset |-> NameCells(pl), nameLowerLen |-> nameLen,
                    stamp |-> d.stamp, deleted |-> FALSE]
    IN  [pl EXCEPT !.meta = Append(@, m)]

\* Both passes for one record: its offset is the sum of the lengths of the
\* records before it, and its lowercased name is rebuilt from there.
AddRecord(pl, d, offset) ==
    LET nameLen == d.pathLen - d.nameStart
        m       == [pathOffset |-> offset, pathLen |-> d.pathLen,
                    nameStart |-> d.nameStart,
                    nameLowerOffset |-> NameCells(pl), nameLowerLen |-> nameLen,
                    stamp |-> d.stamp, deleted |-> FALSE]
        name    == LowerSeq(View(pl.pathPool, offset + d.nameStart, nameLen))
    IN  [meta |-> Append(pl.meta, m),
         nameLowerPool |-> pl.nameLowerPool \o name,
         pathPool |-> pl.pathPool]

LoadEntry ==
    /\ pc = "loading"
    /\ k <= Len(buf)
    /\ fresh' = AddRecord(fresh, buf[k], runningPathOffset)
    /\ runningPathOffset' = runningPathOffset + buf[k].pathLen
    /\ k' = k + 1
    /\ UNCHANGED <<pool, stagingBuf, readers, file, phase, pc, buf>>

\* An index without entries sends StartIndexing to a rebuild.
LoadSwap ==
    /\ pc = "loading"
    /\ k > Len(buf)
    /\ CanLockExclusive
    /\ pool' = fresh
    /\ phase' = IF fresh.meta = <<>> THEN "rebuild" ELSE "run"
    /\ pc' = "idle"
    /\ fresh' = EmptyPool
    /\ buf' = <<>>
    /\ k' = 1
    /\ runningPathOffset' = 0
    /\ UNCHANGED <<stagingBuf, readers, file>>

----------------------------------------------------------------------------
\* The process ends, wherever its threads are, and is started again.
Crash ==
    /\ pool' = EmptyPool
    /\ stagingBuf' = <<>>
    /\ readers' = {}
    /\ phase' = "start"
    /\ pc' = "idle"
    /\ fresh' = EmptyPool
    /\ buf' = <<>>
    /\ k' = 1
    /\ runningPathOffset' = 0
    /\ UNCHANGED file

\* The paths and entries of the file system, a bound on the inputs.
CONSTANTS Paths, Prefixes

ASSUME InputsAssumption ==
    /\ Paths \subseteq Path
    /\ Prefixes \subseteq Path

Entries == [path : Paths, stamp : Stamp]

Next ==
    \/ \E s \in Searcher : SearchLock(s) \/ SearchUnlock(s)
    \/ \E e \in Entries : ApplyAdd(e) \/ StageEntry(e)
    \/ \E p \in Paths : ApplyRemove(p)
    \/ \E p, q \in Paths : ApplyRename(p, q)
    \/ \E r \in Prefixes : RemoveEntriesUnderPath(r)
    \/ BeginWrite \/ EndWriteBegin \/ EndWriteBuild \/ EndWriteSwap
    \/ SaveLock \/ SerializeEntry \/ SaveOpen \/ SaveOpenFails
    \/ SaveWrite \/ SaveWriteFails
    \/ LoadRejects \/ LoadOpen \/ LoadEntry \/ LoadSwap
    \/ Crash

Spec == Init /\ [][Next]_vars

----------------------------------------------------------------------------
(* Invariants. *)

TypeOK ==
    /\ pool \in Pool
    /\ stagingBuf \in Seq(FileEntry)
    /\ readers \subseteq Searcher \cup {Saver}
    /\ file \in File
    /\ phase \in {"start", "rebuild", "run"}
    /\ pc \in {"idle", "staging", "building", "serializing", "writing",
               "loading"}
    /\ fresh \in Pool
    /\ buf \in Seq(DiskEntry)
    /\ k \in Nat \ {0}
    /\ runningPathOffset \in Nat

\* No view of pl reaches outside the character pools, tombstones included.
ViewsInside(pl) ==
    \A i \in 1..Size(pl) :
        /\ NameStart(pl, i) <= PathLen(pl, i)
        /\ PathOffset(pl, i) + PathLen(pl, i) <= PathCells(pl)
        /\ NameLowerOffset(pl, i) + NameLowerLen(pl, i) <= NameCells(pl)

\* GetPath, GetName and GetNameLower hand out views without a range check;
\* the offsets come from AddEntry, or from summing the lengths found in a file
\* whose pathPool may hold the paths of dropped entries as well.  Whatever the
\* history of additions, tombstones, saves, loads and crashes, every view the
\* search threads take stays inside the pools.
ViewsInBounds == ViewsInside(pool)

\* nameLower is the lowercase of the name of the same entry, whether it came
\* from the FileEntry (AddEntry) or was rebuilt from path + nameStart
\* (Deserialize), so a name search and the displayed name agree.
NameLowerMatchesName ==
    \A i \in LiveIndices(pool) :
        GetNameLower(pool, i) = LowerSeq(GetName(pool, i))

\* While a search thread holds the lock shared, the pool it iterates over and
\* takes zero-copy views of is not changed under it by any writer.
PoolStableUnderReaders ==
    [][readers \cap readers' # {} => pool' = pool]_vars

\* A file that Load would accept is replaced only by way of a torn file that
\* it rejects, and becomes acceptable again only with a full image of the
\* pool, records and characters: a crash in the middle of Save can cost the
\* index, never turn it into a mixture of two.
NoMixedFile ==
    [][file' # file /\ file'.state = "ok" =>
          /\ file.state = "torn"
          /\ file'.pathPool = pool.pathPool
          /\ Len(file'.entries) = LiveCount(pool)]_vars
=============================================================================
