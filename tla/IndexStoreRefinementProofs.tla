--------------------- MODULE IndexStoreRefinementProofs ---------------------
(***************************************************************************)
(* For every set of paths, threads and every bound: IndexStore implements  *)
(* FileIndex.                                                              *)
(*                                                                         *)
(* The initial state maps to an initial state, and each action to a step   *)
(* of FileIndex or to a step that leaves its variables unchanged.  What an *)
(* action does to the pool shows directly in LiveEntries; what Save and    *)
(* Load do takes RefinementInv: the records written so far are those of    *)
(* the live metas, in order, and account for all the characters before     *)
(* them exactly when no meta was deleted and none left a gap; the metas    *)
(* loaded so far are where RecordOffset puts the records.                  *)
(***************************************************************************)
EXTENDS IndexStoreRefinement, IndexStoreProofs, WellFoundedInduction

----------------------------------------------------------------------------
(* Where Deserialize puts the records.                                     *)

\* Every set of naturals with an element has a least one.
LEMMA LeastElement ==
    ASSUME NEW T, T \subseteq Nat, T # {}
    PROVE  \E n \in T : \A m \in T : n <= m
<1>1. PICK n \in T : \A m \in T : ~(<<m, n>> \in OpToRel(<, Nat))
  BY NatLessThanWellFounded, WFMin
<1>2. \A m \in T : ~(m < n)
  BY <1>1 DEF OpToRel
<1> QED
  BY <1>2

\* offset is where Deserialize puts each record, and after the last one.
Offsets(offset, records) ==
    /\ offset \in [1..(Len(records) + 1) -> Nat]
    /\ offset[1] = 0
    /\ \A i \in 1..Len(records) :
          offset[i + 1] = offset[i] + RecordLen(records, i)

LEMMA RecordNumbers ==
    ASSUME NEW records \in Seq(DiskEntry)
    PROVE  /\ Len(records) \in Nat
           /\ \A i \in 1..Len(records) : /\ RecordLen(records, i) \in Nat
                                         /\ records[i].stamp \in Stamp
<1>1. \A i \in 1..Len(records) : records[i] \in DiskEntry
  OBVIOUS
<1> QED
  BY <1>1 DEF RecordLen, DiskEntry

\* There is only one such function, and RecordOffset is it: at the least record
\* where two of them differed, they would agree about the one before.
LEMMA RecordOffsetIs ==
    ASSUME NEW records \in Seq(DiskEntry), NEW offset, Offsets(offset, records)
    PROVE  RecordOffset(records) = offset
<1> DEFINE n == Len(records)
           e(g) == [i \in 1..(n + 1) |->
                       IF i = 1 THEN 0 ELSE g[i - 1] + records[i - 1].pathLen]
           f == RecordOffset(records)
<1>1. /\ n \in Nat
      /\ \A i \in 1..n : RecordLen(records, i) = records[i].pathLen
  BY DEF RecordLen
<1>2. offset = e(offset)
  <2>1. \A i \in 1..(n + 1) : i # 1 => i - 1 \in 1..n /\ (i - 1) + 1 = i
    BY <1>1
  <2>2. \A i \in 1..(n + 1) : offset[i] = e(offset)[i]
    BY <1>1, <2>1 DEF Offsets
  <2> QED
    BY <2>2 DEF Offsets
<1>3. f = CHOOSE g : g = e(g)
  BY DEF RecordOffset
<1>4. f = e(f)
  BY <1>2, <1>3
<1> HIDE DEF f
<1> DEFINE T == {i \in 1..(n + 1) : f[i] # offset[i]}
<1>5. T = {}
  <2> SUFFICES ASSUME T # {} PROVE FALSE
    OBVIOUS
  <2>1. PICK i \in T : \A m \in T : i <= m
    <3>1. T \subseteq Nat
      BY <1>1
    <3> QED
      BY <3>1, LeastElement
  <2>2. i # 1
    BY <1>4, <2>1 DEF Offsets
  <2>3. /\ i - 1 \in 1..n /\ i - 1 \in 1..(n + 1) /\ i - 1 + 1 = i
        /\ ~(i <= i - 1)
    BY <1>1, <2>1, <2>2
  <2>4. f[i - 1] = offset[i - 1]
    BY <2>1, <2>3
  <2>5. f[i] = f[i - 1] + records[i - 1].pathLen
    BY <1>4, <2>1, <2>2
  <2>6. offset[i] = offset[i - 1] + records[i - 1].pathLen
    BY <1>1, <2>3 DEF Offsets
  <2> QED
    BY <2>1, <2>4, <2>5, <2>6
<1>6. f = [i \in 1..(n + 1) |-> f[i]]
  BY <1>4
<1>7. f = offset
  BY <1>5, <1>6 DEF Offsets
<1> QED
  BY <1>7 DEF f

\* Records that fit have such a function, and it stays inside.
LEMMA FittingOffsets ==
    ASSUME NEW records \in Seq(DiskEntry), NEW n \in Nat, Fits(records, n)
    PROVE  /\ Offsets(RecordOffset(records), records)
           /\ \A i \in 1..(Len(records) + 1) : RecordOffset(records)[i] <= n
<1>1. PICK offset \in [1..(Len(records) + 1) -> 0..n] :
         IsOffsets(offset, records, n)
  BY DEF Fits
<1>2. Offsets(offset, records)
  BY <1>1 DEF Offsets, IsOffsets
<1> QED
  BY <1>1, <1>2, RecordOffsetIs

\* A file without records, as there is none yet or it is torn.
LEMMA EmptyFile ==
    ASSUME NEW f, f.entries = <<>>, f.pathPool = <<>>
    PROVE  Decode(f) = <<>> /\ FileCompact(f) = TRUE
<1>1. Decode(f) = <<>>
  BY DEF Decode
<1>2. <<>> \in Seq(DiskEntry) /\ Fits(<<>>, 0)
  BY FitsEmpty
<1>3. Offsets(RecordOffset(<<>>), <<>>)
  BY <1>2, FittingOffsets
<1> QED
  BY <1>1, <1>3 DEF FileCompact, Offsets

----------------------------------------------------------------------------
(* What the operations of IndexPool do to its entries.                     *)

\* Every path has a character, so that no two entries start at one offset.
Positive(pl) == \A i \in 1..Size(pl) : PathLen(pl, i) > 0

\* The metas before the n-th are live and leave no gap.
Tiled(pl, n) ==
    \A i \in 1..(n - 1) :
        ~pl.meta[i].deleted /\ PathOffset(pl, i) = EndBefore(pl, i)

LEMMA CompactIsTiled ==
    ASSUME NEW pl \in Pool
    PROVE  PoolCompact(pl) <=> /\ Tiled(pl, Size(pl) + 1)
                               /\ EndBefore(pl, Size(pl) + 1) = PathCells(pl)
<1>1. Size(pl) \in Nat /\ Size(pl) + 1 - 1 = Size(pl)
  BY PoolNumbers
<1> QED
  BY <1>1 DEF PoolCompact, Tiled

\* No path begins before the end of the one before it.
LEMMA EndBeforeBound ==
    ASSUME NEW pl \in Pool, Layout(pl)
    PROVE  /\ \A i \in 1..(Size(pl) + 1) : EndBefore(pl, i) \in Nat
           /\ \A i \in 1..Size(pl) : /\ EndBefore(pl, i) <= PathOffset(pl, i)
                                     /\ EndBefore(pl, i + 1) = End(pl, i)
           /\ EndBefore(pl, Size(pl) + 1) <= PathCells(pl)
<1>1. /\ Size(pl) \in Nat /\ PathCells(pl) \in Nat
      /\ \A i \in 1..Size(pl) : PathOffset(pl, i) \in Nat /\ PathLen(pl, i) \in Nat
  BY PoolNumbers
<1>2. ASSUME NEW i \in 1..Size(pl)
      PROVE  EndBefore(pl, i + 1) = End(pl, i) /\ End(pl, i) \in Nat
  <2>1. i + 1 # 1 /\ i + 1 - 1 = i
    BY <1>1
  <2> QED
    BY <1>1, <2>1 DEF EndBefore, End
<1>3. EndBefore(pl, 1) = 0
  BY DEF EndBefore
<1>4. \A i \in 1..(Size(pl) + 1) : i = 1 \/ i - 1 \in 1..Size(pl)
  BY <1>1
<1>5. \A i \in 1..(Size(pl) + 1) :
         EndBefore(pl, i) = IF i = 1 THEN 0 ELSE End(pl, i - 1)
  BY DEF EndBefore, End
<1>6. \A i \in 1..(Size(pl) + 1) : EndBefore(pl, i) \in Nat
  BY <1>2, <1>4, <1>5
<1>7. ASSUME NEW i \in 1..Size(pl)
      PROVE  EndBefore(pl, i) <= PathOffset(pl, i)
  <2>1. CASE i = 1
    BY <1>1, <1>3, <2>1
  <2>2. CASE i # 1
    <3>1. i - 1 \in 1..Size(pl) /\ i - 1 < i /\ i \in 1..(Size(pl) + 1)
      BY <1>1, <2>2
    <3>2. End(pl, i - 1) <= PathOffset(pl, i)
      BY <3>1 DEF Layout, Ordered
    <3> QED
      BY <1>5, <2>2, <3>1, <3>2
  <2> QED
    BY <2>1, <2>2
<1>8. EndBefore(pl, Size(pl) + 1) <= PathCells(pl)
  <2>1. CASE Size(pl) = 0
    BY <1>1, <1>3, <2>1
  <2>2. CASE Size(pl) # 0
    <3>1. Size(pl) \in 1..Size(pl)
      BY <1>1, <2>2
    <3>2. End(pl, Size(pl)) <= PathCells(pl)
      BY <3>1 DEF Layout, ViewsInside, End
    <3> QED
      BY <1>2, <3>1, <3>2
  <2> QED
    BY <2>1, <2>2
<1> QED
  BY <1>2, <1>6, <1>7, <1>8

\* AddEntry adds one entry, the last, as it was handed over, and makes nothing
\* compact that was not.
LEMMA AddEntryEntries ==
    ASSUME NEW pl \in Pool, NEW e \in FileEntry, Layout(pl)
    PROVE  LET new  == AddEntry(pl, e)
               last == Size(pl) + 1
           IN  /\ Size(new) = last
               /\ LiveIndices(new) = LiveIndices(pl) \cup {last}
               /\ last \notin LiveIndices(pl)
               /\ \A i \in 1..Size(pl) : EntryAt(new, i) = EntryAt(pl, i)
               /\ EntryAt(new, last) = e
               /\ PoolCompact(new) = PoolCompact(pl)
               /\ Positive(pl) => Positive(new)
<1> DEFINE new  == AddEntry(pl, e)
           last == Size(pl) + 1
<1>1. /\ new \in Pool
      /\ Size(new) = last
      /\ PathCells(new) = PathCells(pl) + Len(e.path)
      /\ \A i \in 1..Size(pl) : new.meta[i] = pl.meta[i]
      /\ new.meta[last] =
            [pathOffset |-> PathCells(pl), pathLen |-> Len(e.path),
             nameStart |-> Len(e.path) - 1,
             nameLowerOffset |-> NameCells(pl), nameLowerLen |-> 1,
             stamp |-> e.stamp, deleted |-> FALSE]
  BY AddEntryFacts
<1>2. new.pathPool = pl.pathPool \o e.path
  BY DEF AddEntry
<1>3. /\ e.path \in Seq(Component) /\ Len(e.path) \in Nat /\ Len(e.path) > 0
      /\ e = [path |-> e.path, stamp |-> e.stamp]
      /\ pl.pathPool \in Seq(Component)
      /\ Size(pl) \in Nat
  BY PoolNumbers DEF FileEntry, Path, Pool
<1> HIDE DEF new
<1>4. /\ PathOffset(new, last) = Len(pl.pathPool)
      /\ PathLen(new, last) = Len(e.path)
      /\ new.meta[last].stamp = e.stamp
      /\ ~new.meta[last].deleted
  BY <1>1 DEF PathOffset, PathLen, PathCells
<1>5. \A i \in 1..Size(pl) :
         PathOffset(new, i) = PathOffset(pl, i) /\ PathLen(new, i) = PathLen(pl, i)
  BY <1>1 DEF PathOffset, PathLen
<1>6. 1..Size(new) = 1..Size(pl) \cup {last} /\ last \notin 1..Size(pl)
  BY <1>1, <1>3
<1>7. /\ LiveIndices(new) = LiveIndices(pl) \cup {last}
      /\ last \notin LiveIndices(pl)
  BY <1>1, <1>4, <1>6 DEF LiveIndices
<1>8. ASSUME NEW i \in 1..Size(pl)
      PROVE  EntryAt(new, i) = EntryAt(pl, i)
  <2> DEFINE o == PathOffset(pl, i)
             l == PathLen(pl, i)
  <2>1. o \in Nat /\ l \in Nat /\ o + l <= Len(pl.pathPool)
    BY PoolNumbers DEF Layout, ViewsInside, PathCells
  <2> HIDE DEF o, l
  <2>2. View(pl.pathPool \o e.path, o, l) = View(pl.pathPool, o, l)
    BY <1>3, <2>1, ViewConcat
  <2> QED
    BY <1>1, <1>2, <1>5, <2>2 DEF EntryAt, GetPath, o, l
<1>9. EntryAt(new, last) = e
  <2>1. View(pl.pathPool \o e.path, Len(pl.pathPool), Len(e.path)) = e.path
    BY <1>3, ViewAppended
  <2> QED
    BY <1>2, <1>3, <1>4, <2>1 DEF EntryAt, GetPath
<1>10. PoolCompact(new) = PoolCompact(pl)
  <2>1. \A i \in 1..Size(pl) : i = 1 \/ i - 1 \in 1..Size(pl)
    BY <1>3
  <2>2. \A i \in 1..Size(pl) : EndBefore(new, i) = EndBefore(pl, i)
    BY <1>5, <2>1 DEF EndBefore
  <2>3. EndBefore(new, last) = EndBefore(pl, last)
    <3>1. last = 1 \/ last - 1 \in 1..Size(pl)
      BY <1>3
    <3> QED
      BY <1>5, <3>1 DEF EndBefore
  <2>4. EndBefore(new, last + 1) = PathCells(new)
    <3>1. last + 1 # 1 /\ last + 1 - 1 = last
      BY <1>3
    <3>2. EndBefore(new, last + 1) = PathOffset(new, last) + PathLen(new, last)
      BY <1>3, <3>1 DEF EndBefore
    <3> QED
      BY <1>1, <1>4, <3>2 DEF PathCells
  <2>5. PoolCompact(new) <=> PoolCompact(pl)
    BY <1>1, <1>4, <1>5, <1>6, <2>2, <2>3, <2>4 DEF PoolCompact, PathCells
  <2> QED
    BY <2>5 DEF PoolCompact
<1>11. Positive(pl) => Positive(new)
  BY <1>3, <1>4, <1>5, <1>6 DEF Positive
<1> QED
  BY <1>1, <1>7, <1>8, <1>9, <1>10, <1>11 DEF new

\* A tombstone takes its entries away and leaves all others as they are; the
\* pool is no longer compact.
LEMMA TombstoneEntries ==
    ASSUME NEW pl \in Pool, NEW I
    PROVE  LET new == Tombstone(pl, I)
           IN  /\ Size(new) = Size(pl)
               /\ LiveIndices(new) = LiveIndices(pl) \ I
               /\ \A i \in 1..Size(pl) : EntryAt(new, i) = EntryAt(pl, i)
               /\ I \cap 1..Size(pl) # {} => PoolCompact(new) = FALSE
               /\ I \cap 1..Size(pl) = {} => new = pl
               /\ Positive(pl) => Positive(new)
<1> DEFINE new   == Tombstone(pl, I)
           metas == [i \in 1..Size(pl) |->
                        IF i \in I THEN [pl.meta[i] EXCEPT !.deleted = TRUE]
                                   ELSE pl.meta[i]]
<1>1. /\ pl.meta \in Seq(EntryMeta)
      /\ pl = [meta |-> pl.meta, nameLowerPool |-> pl.nameLowerPool,
               pathPool |-> pl.pathPool]
      /\ Size(pl) \in Nat
  BY PoolNumbers DEF Pool
<1> HIDE DEF metas
<1>2. new = [meta |-> metas, nameLowerPool |-> pl.nameLowerPool,
             pathPool |-> pl.pathPool]
  <2>1. new = [pl EXCEPT !.meta = metas]
    BY DEF Tombstone, metas
  <2> QED
    BY <1>1, <2>1
<1> HIDE DEF new
<1>3. ASSUME NEW i \in 1..Size(pl)
      PROVE  /\ metas[i] \in EntryMeta
             /\ metas[i].pathOffset = pl.meta[i].pathOffset
             /\ metas[i].pathLen = pl.meta[i].pathLen
             /\ metas[i].stamp = pl.meta[i].stamp
             /\ metas[i].deleted <=> pl.meta[i].deleted \/ i \in I
             /\ i \notin I => metas[i] = pl.meta[i]
  <2>1. pl.meta[i] \in EntryMeta
    BY <1>1 DEF Size
  <2>2. metas[i] = IF i \in I THEN [pl.meta[i] EXCEPT !.deleted = TRUE]
                              ELSE pl.meta[i]
    BY DEF metas
  <2> QED
    BY <2>1, <2>2 DEF EntryMeta
<1>4. metas \in Seq(EntryMeta) /\ Len(metas) = Size(pl)
  <2>1. metas \in [1..Size(pl) -> EntryMeta]
    BY <1>3 DEF metas
  <2> QED
    BY <1>1, <2>1
<1>5. Size(new) = Size(pl)
  BY <1>2, <1>4 DEF Size
<1>6. LiveIndices(new) = LiveIndices(pl) \ I
  BY <1>2, <1>3, <1>5 DEF LiveIndices
<1>7. \A i \in 1..Size(pl) :
         PathOffset(new, i) = PathOffset(pl, i) /\ PathLen(new, i) = PathLen(pl, i)
  BY <1>2, <1>3 DEF PathOffset, PathLen
<1>8. \A i \in 1..Size(pl) : EntryAt(new, i) = EntryAt(pl, i)
  BY <1>2, <1>3, <1>7 DEF EntryAt, GetPath
<1>9. I \cap 1..Size(pl) # {} => PoolCompact(new) = FALSE
  BY <1>2, <1>3, <1>5 DEF PoolCompact
<1>10. I \cap 1..Size(pl) = {} => new = pl
  <2> SUFFICES ASSUME I \cap 1..Size(pl) = {} PROVE metas = pl.meta
    BY <1>1, <1>2
  <2>1. Len(metas) = Len(pl.meta) /\ \A i \in 1..Len(metas) : metas[i] = pl.meta[i]
    BY <1>3, <1>4 DEF Size
  <2> QED
    BY <1>1, <1>4, <2>1, SeqEqual
<1>11. Positive(pl) => Positive(new)
  BY <1>5, <1>7 DEF Positive
<1> QED
  BY <1>5, <1>6, <1>8, <1>9, <1>10, <1>11 DEF new

LEMMA EmptyPoolEntries ==
    /\ LiveEntries(EmptyPool) = <<>>
    /\ PoolCompact(EmptyPool) = TRUE
    /\ Positive(EmptyPool)
    /\ Size(EmptyPool) = 0
BY DEF EmptyPool, LiveEntries, LiveIndices, PoolCompact, EndBefore, Positive,
       Size, PathCells

----------------------------------------------------------------------------
(* The invariant. *)

\* The records are those of the live metas before the n-th, in order.  Together
\* they are as long as everything before the n-th exactly if that is all live
\* and without a gap, and then each record is where its meta is.
Recorded(pl, records, n) ==
    LET offset == RecordOffset(records)
        total  == offset[Len(records) + 1]
    IN  /\ \E h \in Index!Renumberings(1..Len(records), LiveBefore(pl, n)) :
              \A i \in 1..Len(records) :
                  /\ RecordLen(records, i) = PathLen(pl, h[i])
                  /\ records[i].stamp = pl.meta[h[i]].stamp
                  /\ Tiled(pl, n) => offset[i] = PathOffset(pl, h[i])
        /\ total <= EndBefore(pl, n)
        /\ Tiled(pl, n) <=> total = EndBefore(pl, n)

\* The metas are the first records, each at its offset.
Loaded(pl, records) ==
    \A i \in 1..Size(pl) :
        /\ ~pl.meta[i].deleted
        /\ PathOffset(pl, i) = RecordOffset(records)[i]
        /\ PathLen(pl, i) = RecordLen(records, i)
        /\ pl.meta[i].stamp = records[i].stamp

PositiveLens(records) == \A i \in 1..Len(records) : RecordLen(records, i) > 0

LengthsInv ==
    /\ Positive(pool) /\ Positive(fresh)
    /\ PositiveLens(buf) /\ PositiveLens(file.entries)

NoImageInv ==
    file.state # "ok" => file.entries = <<>> /\ file.pathPool = <<>>

BuildingInv ==
    /\ pc \in {"idle", "staging"} => Size(fresh) = 0
    /\ pc = "building" => PoolCompact(fresh)

RecordedInv ==
    /\ pc \in {"serializing", "writing"} => Recorded(pool, buf, k)
    /\ pc = "writing" => k = Size(pool) + 1

LoadedInv ==
    pc = "loading" =>
        /\ phase = "start"
        /\ file.state = "ok"
        /\ fresh.pathPool = file.pathPool
        /\ buf = file.entries
        /\ k = Size(fresh) + 1
        /\ runningPathOffset = RecordOffset(buf)[k]
        /\ Loaded(fresh, buf)

RefinementInv ==
    /\ LengthsInv
    /\ NoImageInv
    /\ BuildingInv
    /\ RecordedInv
    /\ LoadedInv

----------------------------------------------------------------------------
(* Save, one meta.                                                         *)

\* A record more leaves the others where they were.
LEMMA RecordAppended ==
    ASSUME NEW records \in Seq(DiskEntry), NEW d \in DiskEntry,
           Offsets(RecordOffset(records), records)
    PROVE  LET more == Append(records, d)
               n    == Len(records)
           IN  /\ \A i \in 1..(n + 1) :
                     RecordOffset(more)[i] = RecordOffset(records)[i]
               /\ RecordOffset(more)[n + 2] =
                     RecordOffset(records)[n + 1] + d.pathLen
<1> DEFINE more   == Append(records, d)
           n      == Len(records)
           offset == RecordOffset(records)
           longer == [i \in 1..(n + 2) |->
                        IF i = n + 2 THEN offset[n + 1] + d.pathLen
                                     ELSE offset[i]]
<1>1. /\ n \in Nat /\ Len(more) = n + 1 /\ d.pathLen \in Nat
      /\ more \in Seq(DiskEntry)
  BY DEF DiskEntry
<1>2. /\ \A i \in 1..n : RecordLen(more, i) = RecordLen(records, i)
      /\ RecordLen(more, n + 1) = d.pathLen
  <2>1. (\A i \in 1..n : more[i] = records[i]) /\ more[n + 1] = d
    OBVIOUS
  <2> QED
    BY <2>1 DEF RecordLen
<1>3. /\ offset \in [1..(n + 1) -> Nat] /\ offset[1] = 0
      /\ \A i \in 1..n : offset[i + 1] = offset[i] + RecordLen(records, i)
  BY DEF Offsets
<1> HIDE DEF more, n, offset
<1>4. /\ \A i \in 1..(n + 1) : longer[i] = offset[i]
      /\ longer[n + 2] = offset[n + 1] + d.pathLen
  BY <1>1
<1>5. longer \in [1..(n + 2) -> Nat]
  <2>1. ASSUME NEW i \in 1..(n + 2) PROVE longer[i] \in Nat
    <3>1. offset[n + 1] \in Nat
      BY <1>1, <1>3
    <3>2. i = n + 2 \/ i \in 1..(n + 1)
      BY <1>1
    <3> QED
      BY <1>1, <1>3, <1>4, <3>1, <3>2
  <2>2. longer = [i \in 1..(n + 2) |-> longer[i]]
    OBVIOUS
  <2> HIDE DEF longer
  <2> QED
    BY <2>1, <2>2
<1> HIDE DEF longer
<1>6. ASSUME NEW i \in 1..(n + 1)
      PROVE  longer[i + 1] = longer[i] + RecordLen(more, i)
  <2>1. CASE i \in 1..n
    <3>1. i \in 1..(n + 1) /\ i + 1 \in 1..(n + 1)
      BY <1>1, <2>1
    <3> QED
      BY <1>2, <1>3, <1>4, <2>1, <3>1
  <2>2. CASE i = n + 1
    BY <1>1, <1>2, <1>4, <2>2
  <2> QED
    BY <1>1, <2>1, <2>2
<1>7. Offsets(longer, more)
  <2>1. longer[1] = 0
    BY <1>1, <1>3, <1>4
  <2> QED
    BY <1>1, <1>5, <1>6, <2>1 DEF Offsets
<1>8. RecordOffset(more) = longer
  BY <1>1, <1>7, RecordOffsetIs
<1> QED
  BY <1>4, <1>8 DEF more, n, offset

LEMMA TiledGrows ==
    ASSUME NEW pl, NEW n \in Nat \ {0}
    PROVE  /\ Tiled(pl, n + 1) <=> /\ Tiled(pl, n)
                                   /\ ~pl.meta[n].deleted
                                   /\ PathOffset(pl, n) = EndBefore(pl, n)
           /\ LiveBefore(pl, n + 1) =
                 LiveBefore(pl, n) \cup (IF pl.meta[n].deleted THEN {} ELSE {n})
           /\ \A i \in LiveBefore(pl, n) : i < n
<1>1. 1..(n + 1 - 1) = 1..(n - 1) \cup {n}
  OBVIOUS
<1>2. Tiled(pl, n + 1) <=> /\ Tiled(pl, n)
                           /\ ~pl.meta[n].deleted
                           /\ PathOffset(pl, n) = EndBefore(pl, n)
  BY <1>1 DEF Tiled
<1>3. LiveBefore(pl, n + 1) =
         LiveBefore(pl, n) \cup (IF pl.meta[n].deleted THEN {} ELSE {n})
  BY <1>1 DEF LiveBefore
<1>4. \A i \in LiveBefore(pl, n) : i < n
  BY DEF LiveBefore
<1> QED
  BY <1>2, <1>3, <1>4

\* A meta that was deleted is passed over: its characters stay in the pool, so
\* from here on the records are too short to account for all of them.
LEMMA RecordedSkips ==
    ASSUME NEW pl \in Pool, Layout(pl), Positive(pl),
           NEW records \in Seq(DiskEntry),
           Offsets(RecordOffset(records), records),
           NEW n \in 1..Size(pl), Recorded(pl, records, n), pl.meta[n].deleted
    PROVE  Recorded(pl, records, n + 1)
<1> DEFINE total == RecordOffset(records)[Len(records) + 1]
<1>1. n \in Nat \ {0} /\ n \in 1..(Size(pl) + 1) /\ total \in Nat
  <2>1. n \in Nat \ {0} /\ n \in 1..(Size(pl) + 1)
    BY PoolNumbers
  <2>2. Len(records) + 1 \in 1..(Len(records) + 1)
    BY RecordNumbers
  <2> QED
    BY <2>1, <2>2 DEF Offsets
<1>2. /\ PathOffset(pl, n) \in Nat /\ PathLen(pl, n) \in Nat
      /\ PathLen(pl, n) > 0
      /\ EndBefore(pl, n) <= PathOffset(pl, n)
      /\ EndBefore(pl, n + 1) = PathOffset(pl, n) + PathLen(pl, n)
      /\ EndBefore(pl, n) \in Nat
  BY <1>1, PoolNumbers, EndBeforeBound DEF Positive, End
<1>3. total <= EndBefore(pl, n)
  BY DEF Recorded
<1>4. ~Tiled(pl, n + 1) /\ LiveBefore(pl, n + 1) = LiveBefore(pl, n)
  <2>1. LiveBefore(pl, n + 1) =
           LiveBefore(pl, n) \cup (IF pl.meta[n].deleted THEN {} ELSE {n})
    BY <1>1, TiledGrows
  <2>2. Tiled(pl, n + 1) => ~pl.meta[n].deleted
    BY <1>1, TiledGrows
  <2> QED
    BY <2>1, <2>2
<1>5. total <= EndBefore(pl, n + 1) /\ total # EndBefore(pl, n + 1)
  BY <1>1, <1>2, <1>3
<1>6. \E h \in Index!Renumberings(1..Len(records), LiveBefore(pl, n + 1)) :
         \A i \in 1..Len(records) :
             /\ RecordLen(records, i) = PathLen(pl, h[i])
             /\ records[i].stamp = pl.meta[h[i]].stamp
  BY <1>4 DEF Recorded
<1> QED
  BY <1>4, <1>5, <1>6 DEF Recorded

\* A live one is recorded behind the others.
LEMMA RecordedGrows ==
    ASSUME NEW pl \in Pool, Layout(pl), Positive(pl),
           NEW records \in Seq(DiskEntry), NEW d \in DiskEntry,
           Offsets(RecordOffset(records), records),
           NEW n \in 1..Size(pl), Recorded(pl, records, n),
           ~pl.meta[n].deleted,
           d.pathLen = PathLen(pl, n), d.stamp = pl.meta[n].stamp
    PROVE  Recorded(pl, Append(records, d), n + 1)
<1> DEFINE more   == Append(records, d)
           m      == Len(records)
           offset == RecordOffset(records)
           longer == RecordOffset(more)
           live   == LiveBefore(pl, n)
           live1  == LiveBefore(pl, n + 1)
<1>1. /\ n \in Nat \ {0} /\ n \in 1..(Size(pl) + 1) /\ m \in Nat
      /\ Len(more) = m + 1
      /\ \A i \in 1..m : more[i] = records[i]
      /\ more[m + 1] = d
      /\ offset[m + 1] \in Nat
  <2>1. n \in Nat \ {0} /\ n \in 1..(Size(pl) + 1)
    BY PoolNumbers
  <2>2. m \in Nat /\ Len(more) = m + 1
        /\ (\A i \in 1..m : more[i] = records[i]) /\ more[m + 1] = d
    OBVIOUS
  <2> QED
    BY <2>1, <2>2 DEF Offsets
<1>2. /\ PathOffset(pl, n) \in Nat /\ PathLen(pl, n) \in Nat
      /\ EndBefore(pl, n) <= PathOffset(pl, n)
      /\ EndBefore(pl, n + 1) = PathOffset(pl, n) + PathLen(pl, n)
      /\ EndBefore(pl, n) \in Nat
  BY <1>1, PoolNumbers, EndBeforeBound DEF End
<1>3. /\ \A i \in 1..(m + 1) : longer[i] = offset[i]
      /\ longer[m + 2] = offset[m + 1] + PathLen(pl, n)
  BY RecordAppended
<1>4. /\ live1 = live \cup {n}
      /\ \A i \in live : i < n
      /\ Tiled(pl, n + 1) <=> Tiled(pl, n) /\ PathOffset(pl, n) = EndBefore(pl, n)
  BY <1>1, TiledGrows
<1>5. /\ offset[m + 1] <= EndBefore(pl, n)
      /\ Tiled(pl, n) <=> offset[m + 1] = EndBefore(pl, n)
  BY DEF Recorded
<1>6. PICK h \in Index!Renumberings(1..m, live) :
         \A i \in 1..m :
             /\ RecordLen(records, i) = PathLen(pl, h[i])
             /\ records[i].stamp = pl.meta[h[i]].stamp
             /\ Tiled(pl, n) => offset[i] = PathOffset(pl, h[i])
  BY DEF Recorded
<1>7. /\ h \in [1..m -> live]
      /\ \A i, j \in 1..m : i < j => h[i] < h[j]
      /\ \A t \in live : \E i \in 1..m : h[i] = t
  BY <1>6 DEF Index!Renumberings
<1> DEFINE g == [i \in 1..(m + 1) |-> IF i = m + 1 THEN n ELSE h[i]]
<1> HIDE DEF more, m, offset, longer, live, live1
<1>8. /\ \A i \in 1..m : g[i] = h[i]
      /\ g[m + 1] = n
      /\ \A i \in 1..(m + 1) : i \in 1..m \/ i = m + 1
  BY <1>1
<1>9. g \in Index!Renumberings(1..(m + 1), live1)
  <2>1. g \in [1..(m + 1) -> live1]
    BY <1>4, <1>7, <1>8
  <2> HIDE DEF g
  <2>2. ASSUME NEW i \in 1..(m + 1), NEW j \in 1..(m + 1), i < j
        PROVE  g[i] < g[j]
    <3>1. i \in 1..m
      BY <1>1, <2>2
    <3>2. CASE j \in 1..m
      BY <1>7, <1>8, <2>2, <3>1, <3>2
    <3>3. CASE j = m + 1
      BY <1>4, <1>7, <1>8, <3>1, <3>3
    <3> QED
      BY <1>8, <3>2, <3>3
  <2>3. ASSUME NEW t \in live1 PROVE \E i \in 1..(m + 1) : g[i] = t
    <3>1. CASE t = n
      BY <1>1, <1>8, <3>1
    <3>2. CASE t \in live
      <4>1. PICK i \in 1..m : h[i] = t
        BY <1>7, <3>2
      <4>2. i \in 1..(m + 1) /\ g[i] = t
        BY <1>1, <1>8, <4>1
      <4> QED
        BY <4>2
    <3> QED
      BY <1>4, <3>1, <3>2
  <2> QED
    BY <2>1, <2>2, <2>3 DEF Index!Renumberings
<1> HIDE DEF g
<1>10. ASSUME NEW i \in 1..(m + 1)
       PROVE  /\ RecordLen(more, i) = PathLen(pl, g[i])
              /\ more[i].stamp = pl.meta[g[i]].stamp
              /\ Tiled(pl, n + 1) => longer[i] = PathOffset(pl, g[i])
  <2>1. CASE i \in 1..m
    BY <1>1, <1>3, <1>4, <1>6, <1>8, <2>1 DEF RecordLen
  <2>2. CASE i = m + 1
    BY <1>1, <1>3, <1>4, <1>5, <1>8, <2>2 DEF RecordLen
  <2> QED
    BY <1>8, <2>1, <2>2
<1>11. /\ longer[m + 2] <= EndBefore(pl, n + 1)
       /\ Tiled(pl, n + 1) <=> longer[m + 2] = EndBefore(pl, n + 1)
  BY <1>1, <1>2, <1>3, <1>4, <1>5
<1>12. Len(more) + 1 = m + 2
  BY <1>1
<1> QED
  BY <1>1, <1>9, <1>10, <1>11, <1>12 DEF Recorded, more, longer, live1

----------------------------------------------------------------------------
(* The invariant is inductive.                                             *)

LEMMA SerializingFacts ==
    ASSUME IInv, ImageInv, pc \in {"serializing", "writing"}
    PROVE  /\ readers # {}
           /\ fresh.pathPool = pool.pathPool
           /\ Offsets(RecordOffset(buf), buf)
<1>1. buf \in Seq(DiskEntry) /\ pool \in Pool /\ fresh \in Pool
  BY DEF IInv, TypeOK
<1>2. /\ \A i \in 1..Size(pool) : PathOffset(pool, i) \in Nat
      /\ PathCells(pool) \in Nat /\ PathCells(fresh) \in Nat
      /\ Size(pool) \in Nat
  BY <1>1, PoolNumbers
<1>3. CASE pc = "serializing"
  <2>1. Saver \in readers /\ fresh.pathPool = pool.pathPool
        /\ Fits(buf, SerializeBound)
    BY <1>3 DEF IInv, SerializingInv
  <2>2. SerializeBound \in Nat
    BY <1>2 DEF SerializeBound, IInv, TypeOK
  <2> QED
    BY <1>1, <2>1, <2>2, FittingOffsets
<1>4. CASE pc = "writing"
  <2>1. Fits(buf, PathCells(fresh))
    BY <1>4 DEF IInv, WritingInv
  <2>2. Saver \in readers /\ fresh.pathPool = pool.pathPool
    BY <1>4 DEF ImageInv
  <2> QED
    BY <1>1, <1>2, <2>1, <2>2, FittingOffsets
<1> QED
  BY <1>3, <1>4

\* ApplyAdd, ApplyRemove, ApplyRename and RemoveEntriesUnderPath: nobody is
\* in the middle of Save.
LEMMA ChangeRefinement ==
    ASSUME IInv, ImageInv, RefinementInv,
           \/ \E e \in Entries : ApplyAdd(e)
           \/ \E p \in Paths : ApplyRemove(p)
           \/ \E p, q \in Paths : ApplyRename(p, q)
           \/ \E r \in Prefixes : RemoveEntriesUnderPath(r)
    PROVE  RefinementInv'
<1>1. pool \in Pool /\ Layout(pool) /\ Positive(pool)
  BY DEF IInv, TypeOK, RefinementInv, LengthsInv
<1>2. /\ readers = {}
      /\ UNCHANGED <<stagingBuf, readers, file, phase, pc, scratch>>
  BY DEF ApplyAdd, ApplyRemove, ApplyRename, RemoveEntriesUnderPath,
         CanLockExclusive
<1>3. Positive(pool')
  <2>1. ASSUME NEW I, pool' = Tombstone(pool, I)
        PROVE  Positive(pool')
    BY <1>1, <2>1, TombstoneEntries
  <2>2. ASSUME NEW e \in Entries, ApplyAdd(e)
        PROVE  Positive(pool')
    <3>1. e \in FileEntry
      BY EntriesAreFileEntries
    <3>2. pool' = AddEntry(pool, e)
      BY <2>2 DEF ApplyAdd
    <3> QED
      BY <1>1, <3>1, <3>2, AddEntryEntries
  <2>3. ASSUME NEW p \in Paths, NEW q \in Paths, ApplyRename(p, q)
        PROVE  Positive(pool')
    <3>1. PICK i \in FirstMatch(pool, p) :
             pool' = AddEntry(Tombstone(pool, {i}),
                              [path |-> q, stamp |-> pool.meta[i].stamp])
      BY <2>3 DEF ApplyRename
    <3>2. i \in 1..Size(pool)
      BY DEF FirstMatch, Matches, LiveIndices
    <3>3. pool.meta[i] \in EntryMeta
      BY <1>1, <3>2 DEF Pool, Size
    <3>4. [path |-> q, stamp |-> pool.meta[i].stamp] \in FileEntry
      BY <3>3, InputsAssumption DEF EntryMeta, FileEntry
    <3>5. /\ Tombstone(pool, {i}) \in Pool /\ Layout(Tombstone(pool, {i}))
          /\ Positive(Tombstone(pool, {i}))
      BY <1>1, TombstoneLayout, TombstoneEntries
    <3> QED
      BY <3>1, <3>4, <3>5, AddEntryEntries
  <2>4. ASSUME NEW p \in Paths, ApplyRemove(p) PROVE Positive(pool')
    BY <2>1, <2>4 DEF ApplyRemove
  <2>5. ASSUME NEW r \in Prefixes, RemoveEntriesUnderPath(r)
        PROVE  Positive(pool')
    BY <2>1, <2>5 DEF RemoveEntriesUnderPath
  <2> QED
    BY <2>2, <2>3, <2>4, <2>5
<1>4. pc \notin {"serializing", "writing"}
  BY <1>2, SerializingFacts
<1>5. LengthsInv' /\ NoImageInv' /\ BuildingInv' /\ RecordedInv' /\ LoadedInv'
  BY <1>2, <1>3, <1>4
  DEF RefinementInv, LengthsInv, NoImageInv, BuildingInv, RecordedInv,
      LoadedInv, scratch
<1> QED
  BY <1>5 DEF RefinementInv

\* Serialize, one meta.
LEMMA SerializeRefinement ==
    ASSUME IInv, ImageInv, RefinementInv, SerializeEntry
    PROVE  RefinementInv'
<1> DEFINE m == pool.meta[k]
           d == [pathLen |-> m.pathLen, nameStart |-> m.nameStart,
                 stamp |-> m.stamp]
<1>1. /\ pool \in Pool /\ Layout(pool) /\ Positive(pool)
      /\ k \in 1..Size(pool) /\ buf \in Seq(DiskEntry)
  BY DEF IInv, TypeOK, SerializeEntry, RefinementInv, LengthsInv
<1>2. /\ buf' = IF m.deleted THEN buf ELSE Append(buf, d)
      /\ k' = k + 1
      /\ UNCHANGED <<pool, stagingBuf, readers, file, phase, pc, fresh,
                     runningPathOffset>>
      /\ pc = "serializing"
  BY DEF SerializeEntry
<1>3. m \in EntryMeta
  BY <1>1 DEF Pool, Size
<1>4. /\ d \in DiskEntry /\ d.pathLen = PathLen(pool, k) /\ d.stamp = m.stamp
      /\ d.pathLen > 0
  BY <1>1, <1>3 DEF EntryMeta, DiskEntry, PathLen, Positive
<1>5. Offsets(RecordOffset(buf), buf) /\ Recorded(pool, buf, k)
  BY <1>2, SerializingFacts DEF RefinementInv, RecordedInv
<1> HIDE DEF d
<1>6. Recorded(pool, buf', k + 1)
  <2>1. CASE m.deleted
    BY <1>1, <1>2, <1>5, <2>1, RecordedSkips
  <2>2. CASE ~m.deleted
    BY <1>1, <1>2, <1>4, <1>5, <2>2, RecordedGrows
  <2> QED
    BY <2>1, <2>2
<1>7. PositiveLens(buf')
  <2>1. PositiveLens(buf)
    BY DEF RefinementInv, LengthsInv
  <2>2. CASE buf' = Append(buf, d)
    <3>1. /\ Len(buf') = Len(buf) + 1
          /\ \A i \in 1..Len(buf) : buf'[i] = buf[i]
          /\ buf'[Len(buf) + 1] = d
      BY <1>1, <1>4, <2>2
    <3> QED
      BY <1>1, <1>4, <2>1, <3>1 DEF PositiveLens, RecordLen
  <2> QED
    BY <1>2, <2>1, <2>2
<1>8. LengthsInv' /\ NoImageInv' /\ BuildingInv' /\ RecordedInv' /\ LoadedInv'
  BY <1>2, <1>6, <1>7
  DEF RefinementInv, LengthsInv, NoImageInv, BuildingInv, RecordedInv,
      LoadedInv
<1> QED
  BY <1>8 DEF RefinementInv

\* Deserialize, one record.
LEMMA LoadingFacts ==
    ASSUME IInv, RefinementInv, pc = "loading"
    PROVE  /\ Offsets(RecordOffset(buf), buf)
           /\ \A i \in 1..(Len(buf) + 1) : RecordOffset(buf)[i] <= PathCells(fresh)
           /\ NamesInside(buf)
           /\ k <= Len(buf) + 1
<1>1. buf \in Seq(DiskEntry) /\ fresh \in Pool /\ PathCells(fresh) \in Nat
  BY PoolNumbers DEF IInv, TypeOK
<1>2. Fits(buf, PathCells(fresh)) /\ NamesInside(buf) /\ k <= Len(buf) + 1
  BY DEF IInv, LoadingInv, Fits
<1> QED
  BY <1>1, <1>2, FittingOffsets

LEMMA LoadRefinement ==
    ASSUME IInv, ImageInv, RefinementInv, LoadEntry
    PROVE  RefinementInv'
<1> DEFINE d == buf[k]
           offset == RecordOffset(buf)
           size == Size(fresh)
<1>1. /\ pc = "loading" /\ k \in Nat \ {0} /\ k <= Len(buf)
      /\ fresh \in Pool /\ buf \in Seq(DiskEntry) /\ runningPathOffset \in Nat
      /\ fresh' = AddRecord(fresh, d, runningPathOffset)
      /\ runningPathOffset' = runningPathOffset + d.pathLen
      /\ k' = k + 1
      /\ UNCHANGED <<pool, stagingBuf, readers, file, phase, pc, buf>>
  BY DEF IInv, TypeOK, LoadEntry
<1>2. /\ k \in 1..Len(buf) /\ k + 1 \in 1..(Len(buf) + 1) /\ Len(buf) \in Nat
      /\ size \in Nat
  BY <1>1, PoolNumbers
<1>3. /\ d \in DiskEntry /\ d.pathLen \in Nat /\ d.pathLen = RecordLen(buf, k)
      /\ d.stamp = buf[k].stamp
  <2>1. d \in DiskEntry
    BY <1>1, <1>2
  <2> QED
    BY <2>1 DEF DiskEntry, RecordLen
<1>4. /\ Offsets(offset, buf)
      /\ offset[k + 1] <= PathCells(fresh)
      /\ d.nameStart <= d.pathLen
  BY <1>1, <1>2, LoadingFacts DEF NamesInside, RecordLen
<1>5. /\ k = size + 1 /\ runningPathOffset = offset[k]
      /\ Loaded(fresh, buf)
      /\ fresh.pathPool = file.pathPool
      /\ phase = "start" /\ file.state = "ok" /\ buf = file.entries
  BY <1>1 DEF RefinementInv, LoadedInv
<1> HIDE DEF d, offset, size
<1>6. offset[k + 1] = runningPathOffset + d.pathLen
  BY <1>2, <1>3, <1>4, <1>5 DEF Offsets
<1>7. runningPathOffset + d.pathLen <= PathCells(fresh)
  BY <1>4, <1>6
<1>8. /\ Size(fresh') = size + 1
      /\ \A i \in 1..size : fresh'.meta[i] = fresh.meta[i]
      /\ fresh'.meta[size + 1] =
            [pathOffset |-> runningPathOffset, pathLen |-> d.pathLen,
             nameStart |-> d.nameStart,
             nameLowerOffset |-> NameCells(fresh),
             nameLowerLen |-> d.pathLen - d.nameStart,
             stamp |-> d.stamp, deleted |-> FALSE]
      /\ fresh'.pathPool = fresh.pathPool
  BY <1>1, <1>3, <1>4, <1>7, AddRecordFacts DEF AddRecord, size
<1>9. \A i \in 1..(size + 1) : i \in 1..size \/ i = k
  BY <1>2, <1>5
<1>10. Loaded(fresh', buf)
  <2> SUFFICES ASSUME NEW i \in 1..(size + 1)
               PROVE  /\ ~fresh'.meta[i].deleted
                      /\ PathOffset(fresh', i) = offset[i]
                      /\ PathLen(fresh', i) = RecordLen(buf, i)
                      /\ fresh'.meta[i].stamp = buf[i].stamp
    BY <1>8 DEF Loaded, offset
  <2>1. CASE i \in 1..size
    BY <1>5, <1>8, <2>1 DEF Loaded, PathOffset, PathLen, offset, size
  <2>2. CASE i = k
    BY <1>3, <1>5, <1>8, <2>2 DEF PathOffset, PathLen
  <2> QED
    BY <1>9, <2>1, <2>2
<1>11. Positive(fresh')
  <2>1. PositiveLens(buf)
    BY DEF RefinementInv, LengthsInv
  <2>2. \A i \in 1..(size + 1) : i \in 1..Len(buf)
    BY <1>2, <1>5
  <2> QED
    BY <1>8, <1>10, <2>1, <2>2 DEF Positive, PositiveLens, Loaded
<1>12. LengthsInv' /\ NoImageInv' /\ BuildingInv' /\ RecordedInv'
  BY <1>1, <1>11
  DEF RefinementInv, LengthsInv, NoImageInv, BuildingInv, RecordedInv
<1>13. LoadedInv'
  BY <1>1, <1>5, <1>6, <1>8, <1>10 DEF LoadedInv, offset
<1> QED
  BY <1>12, <1>13 DEF RefinementInv

LEMMA NoRecords ==
    /\ RecordOffset(<<>>)[1] = 0
    /\ PositiveLens(<<>>)
    /\ \A pl : Recorded(pl, <<>>, 1)
<1>1. RecordOffset(<<>>)[1] = 0
  <2>1. <<>> \in Seq(DiskEntry) /\ Fits(<<>>, 0)
    BY FitsEmpty
  <2> QED
    BY <2>1, FittingOffsets DEF Offsets
<1>2. PositiveLens(<<>>)
  BY DEF PositiveLens
<1>3. ASSUME NEW pl PROVE Recorded(pl, <<>>, 1)
  <2>1. /\ LiveBefore(pl, 1) = {} /\ Tiled(pl, 1) /\ EndBefore(pl, 1) = 0
    BY DEF LiveBefore, Tiled, EndBefore
  <2>2. 1..Len(<<>>) = {} /\ Len(<<>>) + 1 = 1
    OBVIOUS
  <2>3. [i \in {} |-> i] \in Index!Renumberings({}, {})
    BY DEF Index!Renumberings
  <2>4. [i \in {} |-> i] \in Index!Renumberings(1..Len(<<>>), LiveBefore(pl, 1))
    BY <2>1, <2>2, <2>3
  <2>5. RecordOffset(<<>>)[Len(<<>>) + 1] = 0
    BY <1>1, <2>2
  <2>6. 0 <= EndBefore(pl, 1)
    BY <2>1
  <2> QED
    BY <2>1, <2>2, <2>4, <2>5, <2>6 DEF Recorded
<1> QED
  BY <1>1, <1>2, <1>3

LEMMA InitRefinement == Init => RefinementInv
<1> SUFFICES ASSUME Init PROVE RefinementInv
  OBVIOUS
<1>1. LengthsInv
  BY EmptyPoolEntries, NoRecords DEF Init, LengthsInv, NoFile
<1> QED
  BY <1>1, EmptyPoolEntries
  DEF Init, RefinementInv, NoImageInv, BuildingInv, RecordedInv, LoadedInv,
      NoFile

\* BeginWrite, AddEntry and EndWrite.
LEMMA RebuildRefinement ==
    ASSUME IInv, RefinementInv,
           \/ BeginWrite \/ EndWriteBegin \/ EndWriteBuild \/ EndWriteSwap
           \/ \E e \in Entries : StageEntry(e)
    PROVE  RefinementInv'
<1> USE DEF scratch, RefinementInv
<1>1. CASE BeginWrite
  BY <1>1 DEF BeginWrite, LengthsInv, NoImageInv, BuildingInv, RecordedInv,
              LoadedInv
<1>2. CASE \E e \in Entries : StageEntry(e)
  BY <1>2 DEF StageEntry, LengthsInv, NoImageInv, BuildingInv, RecordedInv,
              LoadedInv
<1>3. CASE EndWriteBegin
  BY <1>3, EmptyPoolEntries
  DEF EndWriteBegin, LengthsInv, NoImageInv, BuildingInv, RecordedInv,
      LoadedInv
<1>4. CASE EndWriteBuild
  <2>1. /\ fresh \in Pool /\ Layout(fresh) /\ Positive(fresh)
        /\ PoolCompact(fresh)
        /\ Head(stagingBuf) \in FileEntry
        /\ fresh' = AddEntry(fresh, Head(stagingBuf))
    BY <1>4 DEF EndWriteBuild, IInv, TypeOK, LengthsInv, BuildingInv
  <2>2. Positive(fresh') /\ PoolCompact(fresh')
    BY <2>1, AddEntryEntries
  <2> QED
    BY <1>4, <2>2
    DEF EndWriteBuild, LengthsInv, NoImageInv, BuildingInv, RecordedInv,
        LoadedInv
<1>5. CASE EndWriteSwap
  BY <1>5, EmptyPoolEntries
  DEF EndWriteSwap, LengthsInv, NoImageInv, BuildingInv, RecordedInv, LoadedInv
<1> QED
  BY <1>1, <1>2, <1>3, <1>4, <1>5

\* Save: its lock, the loop, the file.
LEMMA SaveRefinement ==
    ASSUME IInv, ImageInv, RefinementInv,
           \/ SaveLock \/ SerializeEntry \/ SaveOpen \/ SaveOpenFails
           \/ SaveWrite \/ SaveWriteFails
    PROVE  RefinementInv'
<1>1. CASE SaveLock
  <2>1. Size(fresh') = 0
    BY <1>1, EmptyImage DEF SaveLock
  <2> QED
    BY <1>1, <2>1, NoRecords
    DEF SaveLock, RefinementInv, LengthsInv, Positive, NoImageInv, BuildingInv,
        RecordedInv, LoadedInv
<1>2. CASE SaveOpen
  <2>1. k = Size(pool) + 1
    <3>1. k <= Size(pool) + 1 /\ k > Size(pool)
      BY <1>2 DEF SaveOpen, ImageInv
    <3>2. k \in Nat /\ Size(pool) \in Nat
      BY PoolNumbers DEF IInv, TypeOK
    <3> QED
      BY <3>1, <3>2
  <2> QED
    BY <1>2, <2>1, NoRecords
    DEF SaveOpen, scratch, TornFile, RefinementInv, LengthsInv, NoImageInv,
        BuildingInv, RecordedInv, LoadedInv
<1>3. CASE SaveOpenFails \/ SaveWriteFails
  BY <1>3, EmptyPoolEntries, NoRecords
  DEF SaveOpenFails, SaveWriteFails, SaveDone, RefinementInv, LengthsInv,
      NoImageInv, BuildingInv, RecordedInv, LoadedInv
<1>4. CASE SaveWrite
  BY <1>4, EmptyPoolEntries, NoRecords
  DEF SaveWrite, SaveDone, RefinementInv, LengthsInv, NoImageInv, BuildingInv,
      RecordedInv, LoadedInv
<1> QED
  BY <1>1, <1>2, <1>3, <1>4, SerializeRefinement

LEMMA NextRefinement ==
    IInv /\ ImageInv /\ RefinementInv /\ [Next]_vars => RefinementInv'
<1> SUFFICES ASSUME IInv, ImageInv, RefinementInv, [Next]_vars
             PROVE  RefinementInv'
  OBVIOUS
<1>1. CASE \/ \E s \in Searcher : SearchLock(s) \/ SearchUnlock(s)
           \/ UNCHANGED vars
  BY <1>1
  DEF SearchLock, SearchUnlock, vars, scratch, RefinementInv, LengthsInv,
      NoImageInv, BuildingInv, RecordedInv, LoadedInv
<1>2. CASE LoadRejects
  BY <1>2, EmptyPoolEntries
  DEF LoadRejects, scratch, RefinementInv, LengthsInv, NoImageInv, BuildingInv,
      RecordedInv, LoadedInv
<1>3. CASE LoadOpen
  <2>1. /\ file \in File /\ file.state = "ok"
        /\ pc' = "loading" /\ buf' = file.entries /\ k' = 1
        /\ runningPathOffset' = 0
        /\ fresh' = [EmptyPool EXCEPT !.pathPool = file.pathPool]
        /\ UNCHANGED <<pool, file, phase>> /\ phase = "start"
    BY <1>3 DEF LoadOpen, IInv, TypeOK
  <2>2. Size(fresh') = 0 /\ fresh'.pathPool = file.pathPool
    BY <2>1 DEF EmptyPool, Size
  <2>3. /\ file.entries \in Seq(DiskEntry) /\ Len(file.pathPool) \in Nat
        /\ Fits(file.entries, Len(file.pathPool))
    BY <2>1 DEF File, IInv, FileInv
  <2>4. RecordOffset(file.entries)[1] = 0
    BY <2>3, FittingOffsets DEF Offsets
  <2>5. LoadedInv'
    BY <2>1, <2>2, <2>4 DEF LoadedInv, Loaded
  <2> QED
    BY <2>1, <2>2, <2>5
    DEF RefinementInv, LengthsInv, Positive, NoImageInv, BuildingInv,
        RecordedInv
<1>4. CASE LoadSwap
  BY <1>4, EmptyPoolEntries, NoRecords
  DEF LoadSwap, RefinementInv, LengthsInv, NoImageInv, BuildingInv,
      RecordedInv, LoadedInv
<1>5. CASE Crash
  BY <1>5, EmptyPoolEntries, NoRecords
  DEF Crash, RefinementInv, LengthsInv, NoImageInv, BuildingInv, RecordedInv,
      LoadedInv
<1>6. CASE \/ BeginWrite \/ EndWriteBegin \/ EndWriteBuild \/ EndWriteSwap
           \/ \E e \in Entries : StageEntry(e)
  BY <1>6, RebuildRefinement
<1>7. CASE \/ SaveLock \/ SerializeEntry \/ SaveOpen \/ SaveOpenFails
           \/ SaveWrite \/ SaveWriteFails
  BY <1>7, SaveRefinement
<1>8. CASE \/ \E e \in Entries : ApplyAdd(e)
           \/ \E p \in Paths : ApplyRemove(p)
           \/ \E p, q \in Paths : ApplyRename(p, q)
           \/ \E r \in Prefixes : RemoveEntriesUnderPath(r)
  BY <1>8, ChangeRefinement
<1> QED
  BY <1>1, <1>2, <1>3, <1>4, <1>5, <1>6, <1>7, <1>8, LoadRefinement DEF Next

----------------------------------------------------------------------------
(* Every step of the store is one of FileIndex.                            *)

LEMMA LiveEntriesFacts ==
    ASSUME NEW pl
    PROVE  /\ DOMAIN LiveEntries(pl) = LiveIndices(pl)
           /\ \A i \in LiveIndices(pl) :
                 /\ LiveEntries(pl)[i] = EntryAt(pl, i)
                 /\ LiveEntries(pl)[i].path = GetPath(pl, i)
                 /\ LiveEntries(pl)[i].stamp = pl.meta[i].stamp
BY DEF LiveEntries, EntryAt

\* The first match is the oldest entry of its path.
LEMMA FirstMatchIsOldest ==
    ASSUME NEW p, NEW i \in FirstMatch(pool, p), pool \in Pool
    PROVE  i \in LiveIndices(pool) /\ Index!Oldest(i)
<1>1. /\ i \in LiveIndices(pool)
      /\ LowerSeq(GetPath(pool, i)) = LowerSeq(p)
      /\ \A j \in Matches(pool, p) : i <= j
  BY DEF FirstMatch, Matches
<1>2. ASSUME NEW j \in LiveIndices(pool), j < i
      PROVE  ~SameLower(LiveEntries(pool)[j].path, LiveEntries(pool)[i].path)
  <2>1. j \in Int /\ i \in Int
    BY <1>1, PoolNumbers DEF LiveIndices
  <2>2. j \notin Matches(pool, p)
    BY <1>1, <1>2, <2>1
  <2>3. /\ LiveEntries(pool)[j].path = GetPath(pool, j)
        /\ LiveEntries(pool)[i].path = GetPath(pool, i)
    BY <1>1, LiveEntriesFacts
  <2> QED
    BY <1>1, <2>2, <2>3 DEF Matches, SameLower
<1> QED
  BY <1>1, <1>2, LiveEntriesFacts DEF Index!Oldest

\* Only pool changes.
LEMMA OnlyPool ==
    ASSUME UNCHANGED <<stagingBuf, readers, file, phase, pc, scratch>>
    PROVE  UNCHANGED <<[state |-> file.state, entries |-> Decode(file),
                        compact |-> FileCompact(file)],
                       phase # "start", Rebuilding, Staged>>
BY DEF scratch, Rebuilding, Staged

LEMMA AddIsAdd ==
    ASSUME IInv, NEW e \in Entries, ApplyAdd(e)
    PROVE  Index!Add
<1> DEFINE n == Size(pool) + 1
<1>1. /\ pool \in Pool /\ Layout(pool) /\ e \in FileEntry
      /\ pool' = AddEntry(pool, e)
      /\ UNCHANGED <<stagingBuf, readers, file, phase, pc, scratch>>
  BY EntriesAreFileEntries DEF IInv, TypeOK, ApplyAdd
<1>2. /\ LiveIndices(pool') = LiveIndices(pool) \cup {n}
      /\ \A i \in 1..Size(pool) : EntryAt(pool', i) = EntryAt(pool, i)
      /\ EntryAt(pool', n) = e
      /\ PoolCompact(pool') = PoolCompact(pool)
  BY <1>1, AddEntryEntries
<1>3. LiveIndices(pool) \subseteq 1..Size(pool) /\ Size(pool) \in Nat
  BY <1>1, PoolNumbers DEF LiveIndices
<1>4. /\ n \in LiveIndices(pool')
      /\ LiveEntries(pool')[n] = e
      /\ \A i \in LiveIndices(pool) :
            i < n /\ LiveEntries(pool')[i] = LiveEntries(pool)[i]
  BY <1>2, <1>3, LiveEntriesFacts
<1>5. Index!Arrives(LiveEntries(pool), LiveIndices(pool), n, LiveEntries(pool'))
  BY <1>2, <1>4, LiveEntriesFacts DEF Index!Arrives
<1> HIDE DEF n
<1> QED
  BY <1>1, <1>2, <1>4, <1>5, LiveEntriesFacts, OnlyPool DEF Index!Add

\* The index without the entries of I.
LEMMA TombstoneKeeps ==
    ASSUME NEW pl \in Pool, NEW I
    PROVE  LiveEntries(Tombstone(pl, I)) =
              [i \in LiveIndices(pl) \ I |-> LiveEntries(pl)[i]]
<1> DEFINE new == Tombstone(pl, I)
<1>1. /\ LiveIndices(new) = LiveIndices(pl) \ I
      /\ \A i \in 1..Size(pl) : EntryAt(new, i) = EntryAt(pl, i)
  BY TombstoneEntries
<1>2. LiveIndices(pl) \subseteq 1..Size(pl)
  BY DEF LiveIndices
<1>3. LiveEntries(new) = [i \in LiveIndices(new) |-> EntryAt(new, i)]
  BY DEF LiveEntries
<1> HIDE DEF new
<1>4. \A i \in LiveIndices(pl) \ I : EntryAt(new, i) = LiveEntries(pl)[i]
  BY <1>1, <1>2, LiveEntriesFacts
<1> QED
  BY <1>1, <1>3, <1>4 DEF new

LEMMA RemoveIsRemoveOne ==
    ASSUME IInv, NEW p \in Paths, ApplyRemove(p)
    PROVE  Index!RemoveOne \/ UNCHANGED Index!ivars
<1> DEFINE I == FirstMatch(pool, p)
<1>1. /\ pool \in Pool
      /\ pool' = Tombstone(pool, I)
      /\ UNCHANGED <<stagingBuf, readers, file, phase, pc, scratch>>
  BY DEF IInv, TypeOK, ApplyRemove
<1>2. I \subseteq LiveIndices(pool) /\ LiveIndices(pool) \subseteq 1..Size(pool)
  BY DEF FirstMatch, Matches, LiveIndices
<1>3. \A i, j \in I : i = j
  <2>1. \A i \in I : i \in Int
    BY <1>1, <1>2, PoolNumbers
  <2> QED
    BY <2>1 DEF FirstMatch
<1>4. CASE I = {}
  <2>1. I \cap 1..Size(pool) = {} => Tombstone(pool, I) = pool
    BY <1>1, TombstoneEntries
  <2>2. pool' = pool
    BY <1>1, <1>4, <2>1
  <2> QED
    BY <1>1, <2>2, OnlyPool DEF Index!ivars
<1>5. ASSUME NEW i \in I PROVE Index!RemoveOne
  <2>1. i \in LiveIndices(pool) /\ Index!Oldest(i)
    BY <1>1, FirstMatchIsOldest
  <2>2. I = {i} /\ I \cap 1..Size(pool) # {}
    BY <1>2, <1>3
  <2>3. PoolCompact(pool') = FALSE
    BY <1>1, <2>2, TombstoneEntries
  <2>4. LiveEntries(pool') =
           [j \in LiveIndices(pool) \ {i} |-> LiveEntries(pool)[j]]
    BY <1>1, <2>2, TombstoneKeeps
  <2> HIDE DEF I
  <2>5. Index!Keeps(LiveEntries(pool), LiveIndices(pool) \ {i},
                    LiveEntries(pool'))
    BY <2>4 DEF Index!Keeps
  <2> QED
    BY <1>1, <2>1, <2>3, <2>5, LiveEntriesFacts, OnlyPool DEF Index!RemoveOne
<1> QED
  BY <1>4, <1>5

LEMMA RenameIsRename ==
    ASSUME IInv, NEW p \in Paths, NEW q \in Paths, ApplyRename(p, q)
    PROVE  Index!Rename
<1>1. /\ pool \in Pool /\ Layout(pool)
      /\ UNCHANGED <<stagingBuf, readers, file, phase, pc, scratch>>
  BY DEF IInv, TypeOK, ApplyRename
<1>2. PICK i \in FirstMatch(pool, p) :
         pool' = AddEntry(Tombstone(pool, {i}),
                          [path |-> q, stamp |-> pool.meta[i].stamp])
  BY DEF ApplyRename
<1> DEFINE e   == [path |-> q, stamp |-> pool.meta[i].stamp]
           mid == Tombstone(pool, {i})
           n   == Size(pool) + 1
           S   == LiveIndices(pool) \ {i}
<1>3. i \in LiveIndices(pool) /\ Index!Oldest(i)
  BY <1>1, FirstMatchIsOldest
<1>4. /\ i \in 1..Size(pool) /\ Size(pool) \in Nat
      /\ LiveIndices(pool) \subseteq 1..Size(pool)
  BY <1>1, <1>3, PoolNumbers DEF LiveIndices
<1>5. e \in Entries /\ e \in FileEntry
  <2>1. pool.meta[i] \in EntryMeta
    BY <1>1, <1>4 DEF Pool, Size
  <2>2. e \in Entries
    BY <2>1 DEF EntryMeta, Entries
  <2> QED
    BY <2>2, EntriesAreFileEntries
<1>6. /\ mid \in Pool /\ Layout(mid)
      /\ Size(mid) = Size(pool)
      /\ LiveIndices(mid) = S
      /\ PoolCompact(mid) = FALSE
      /\ \A j \in 1..Size(pool) : EntryAt(mid, j) = EntryAt(pool, j)
  BY <1>1, <1>4, TombstoneLayout, TombstoneEntries
<1> HIDE DEF mid
<1>7. /\ LiveIndices(pool') = S \cup {n}
      /\ \A j \in 1..Size(pool) : EntryAt(pool', j) = EntryAt(pool, j)
      /\ EntryAt(pool', n) = e
      /\ PoolCompact(pool') = FALSE
  <2>1. pool' = AddEntry(mid, e)
    BY <1>2 DEF mid
  <2> HIDE DEF e
  <2>2. /\ LiveIndices(AddEntry(mid, e)) =
              LiveIndices(mid) \cup {Size(mid) + 1}
        /\ \A j \in 1..Size(mid) : EntryAt(AddEntry(mid, e), j) = EntryAt(mid, j)
        /\ EntryAt(AddEntry(mid, e), Size(mid) + 1) = e
        /\ PoolCompact(AddEntry(mid, e)) = PoolCompact(mid)
    BY <1>5, <1>6, AddEntryEntries
  <2> QED
    BY <1>6, <2>1, <2>2
<1>8. /\ n \in LiveIndices(pool')
      /\ LiveEntries(pool')[n] = e
      /\ \A j \in LiveIndices(pool) : j < n
      /\ \A j \in S : LiveEntries(pool')[j] = LiveEntries(pool)[j]
  BY <1>4, <1>7, LiveEntriesFacts
<1>9. Index!Arrives(LiveEntries(pool), S, n, LiveEntries(pool'))
  BY <1>7, <1>8, LiveEntriesFacts DEF Index!Arrives
<1>10. e.stamp = LiveEntries(pool)[i].stamp
  BY <1>3, LiveEntriesFacts
<1> HIDE DEF n, e
<1>11. /\ i \in DOMAIN LiveEntries(pool) /\ n \in DOMAIN LiveEntries(pool')
       /\ DOMAIN LiveEntries(pool) \ {i} = S
       /\ LiveEntries(pool')[n] \in Entries
       /\ LiveEntries(pool')[n].stamp = LiveEntries(pool)[i].stamp
  BY <1>3, <1>5, <1>8, <1>10, LiveEntriesFacts
<1> HIDE DEF S
<1> QED
  BY <1>1, <1>3, <1>7, <1>9, <1>11, OnlyPool DEF Index!Rename

LEMMA RemoveUnderIsRemoveAllBelow ==
    ASSUME IInv, NEW r \in Prefixes, RemoveEntriesUnderPath(r)
    PROVE  Index!RemoveAllBelow(r) \/ UNCHANGED Index!ivars
<1> DEFINE I == {i \in LiveIndices(pool) : Under(GetPath(pool, i), r)}
           S == {i \in LiveIndices(pool) : ~Under(LiveEntries(pool)[i].path, r)}
<1>1. /\ pool \in Pool
      /\ pool' = Tombstone(pool, I)
      /\ UNCHANGED <<stagingBuf, readers, file, phase, pc, scratch>>
  BY DEF IInv, TypeOK, RemoveEntriesUnderPath
<1>2. \A i \in LiveIndices(pool) : LiveEntries(pool)[i].path = GetPath(pool, i)
  BY LiveEntriesFacts
<1>3. CASE I = {}
  <2>1. I \cap 1..Size(pool) = {} => Tombstone(pool, I) = pool
    BY <1>1, TombstoneEntries
  <2>2. pool' = pool
    BY <1>1, <1>3, <2>1
  <2> QED
    BY <1>1, <2>2, OnlyPool DEF Index!ivars
<1>4. CASE I # {}
  <2>1. PoolCompact(pool') = FALSE
    <3>1. I \cap 1..Size(pool) # {}
      BY <1>4 DEF LiveIndices
    <3> QED
      BY <1>1, <3>1, TombstoneEntries
  <2>2. LiveIndices(pool) \ I = S
    BY <1>2
  <2>3. LiveEntries(pool') = [i \in S |-> LiveEntries(pool)[i]]
    BY <1>1, <2>2, TombstoneKeeps
  <2>4. \E i \in LiveIndices(pool) : Under(LiveEntries(pool)[i].path, r)
    BY <1>2, <1>4
  <2> HIDE DEF I
  <2> QED
    BY <1>1, <2>1, <2>3, <2>4, LiveEntriesFacts, OnlyPool
    DEF Index!RemoveAllBelow, Index!Keeps
<1> QED
  BY <1>3, <1>4

\* What a rebuild has been given so far.
LEMMA StagedFacts ==
    IInv /\ RefinementInv =>
        /\ pc = "staging" => Staged = stagingBuf
        /\ ~Rebuilding => Staged = <<>>
        /\ pc = "building" /\ stagingBuf = <<>> =>
              Staged = LiveEntries(fresh)
<1> SUFFICES ASSUME IInv, RefinementInv
             PROVE  /\ pc = "staging" => Staged = stagingBuf
                    /\ ~Rebuilding => Staged = <<>>
                    /\ pc = "building" /\ stagingBuf = <<>> =>
                          Staged = LiveEntries(fresh)
  OBVIOUS
<1>1. stagingBuf \in Seq(FileEntry) /\ Len(stagingBuf) \in Nat
      /\ fresh \in Pool /\ Size(fresh) \in Nat
  BY PoolNumbers, LenProperties DEF IInv, TypeOK
<1>2. ASSUME pc = "staging" PROVE Staged = stagingBuf
  <2>1. Size(fresh) = 0
    BY <1>2 DEF RefinementInv, BuildingInv
  <2>2. Staged = [i \in 1..Len(stagingBuf) |-> stagingBuf[i]]
    BY <1>1, <1>2, <2>1 DEF Staged, Rebuilding
  <2> QED
    BY <1>1, <2>2
<1>3. ASSUME pc = "building", stagingBuf = <<>>
      PROVE  Staged = LiveEntries(fresh)
  <2>1. PoolCompact(fresh)
    BY <1>3 DEF RefinementInv, BuildingInv
  <2>2. LiveIndices(fresh) = 1..Size(fresh)
    BY <2>1 DEF PoolCompact, LiveIndices
  <2>3. Len(stagingBuf) = 0
    BY <1>3
  <2>4. Staged = [i \in 1..Size(fresh) |-> EntryAt(fresh, i)]
    BY <1>1, <1>3, <2>3 DEF Staged, Rebuilding
  <2> QED
    BY <2>2, <2>4 DEF LiveEntries
<1> QED
  BY <1>2, <1>3 DEF Staged

\* Moving an entry from stagingBuf to fresh does not show.
LEMMA BuildIsInvisible ==
    ASSUME IInv, RefinementInv, EndWriteBuild
    PROVE  UNCHANGED Index!ivars
<1> DEFINE e == Head(stagingBuf)
           n == Size(fresh)
           m == Len(stagingBuf)
<1>1. /\ pc = "building" /\ stagingBuf # <<>>
      /\ fresh' = AddEntry(fresh, e)
      /\ stagingBuf' = Tail(stagingBuf)
      /\ UNCHANGED <<pool, readers, file, phase, pc, buf, k, runningPathOffset>>
      /\ fresh \in Pool /\ Layout(fresh)
      /\ stagingBuf \in Seq(FileEntry)
  BY DEF EndWriteBuild, IInv, TypeOK
<1>2. /\ e \in FileEntry /\ e = stagingBuf[1]
      /\ m \in Nat /\ m # 0
      /\ Len(stagingBuf') = m - 1
      /\ \A i \in 1..(m - 1) : stagingBuf'[i] = stagingBuf[i + 1]
  BY <1>1
<1>3. /\ n \in Nat
      /\ Size(fresh') = n + 1
      /\ \A i \in 1..n : EntryAt(fresh', i) = EntryAt(fresh, i)
      /\ EntryAt(fresh', n + 1) = e
  <2> HIDE DEF e
  <2> QED
    BY <1>1, <1>2, PoolNumbers, AddEntryEntries
<1> DEFINE f == [i \in 1..(n + m) |-> IF i <= n THEN EntryAt(fresh, i)
                                      ELSE stagingBuf[i - n]]
           g == [i \in 1..((n + 1) + (m - 1)) |->
                    IF i <= n + 1 THEN EntryAt(fresh', i)
                                  ELSE stagingBuf'[i - (n + 1)]]
<1>4. Staged = f
  BY <1>1 DEF Staged, Rebuilding
<1>5. Staged' = g
  BY <1>1, <1>2, <1>3 DEF Staged, Rebuilding
<1> HIDE DEF e, n, m
<1>6. f = g
  <2>1. (n + 1) + (m - 1) = n + m
    BY <1>2, <1>3
  <2>2. ASSUME NEW i \in 1..(n + m) PROVE f[i] = g[i]
    <3>1. CASE i <= n
      BY <1>2, <1>3, <2>1, <3>1
    <3>2. CASE i = n + 1
      BY <1>2, <1>3, <2>1, <3>2
    <3>3. CASE i > n + 1
      <4>1. /\ i - (n + 1) \in 1..(m - 1) /\ (i - (n + 1)) + 1 = i - n
            /\ ~(i <= n) /\ ~(i <= n + 1)
        BY <1>2, <1>3, <3>3
      <4> QED
        BY <1>2, <2>1, <4>1
    <3> QED
      BY <1>3, <3>1, <3>2, <3>3
  <2>3. f = [i \in 1..(n + m) |-> f[i]] /\ g = [i \in 1..(n + m) |-> g[i]]
    BY <2>1
  <2> HIDE DEF f, g
  <2> QED
    BY <2>2, <2>3
<1> QED
  BY <1>1, <1>4, <1>5, <1>6 DEF Index!ivars, Rebuilding

\* The same, one step later.
LEMMA StagedNext ==
    IInv' /\ RefinementInv' =>
        /\ pc' = "staging" => Staged' = stagingBuf'
        /\ ~Rebuilding' => Staged' = <<>>
        /\ pc' = "building" /\ stagingBuf' = <<>> =>
              Staged' = LiveEntries(fresh')
<1>1. (IInv /\ RefinementInv =>
          /\ pc = "staging" => Staged = stagingBuf
          /\ ~Rebuilding => Staged = <<>>
          /\ pc = "building" /\ stagingBuf = <<>> =>
                Staged = LiveEntries(fresh))'
  BY StagedFacts, PTL
<1> QED
  BY <1>1

LEMMA RebuildIsRebuild ==
    ASSUME IInv, RefinementInv, IInv', RefinementInv',
           \/ BeginWrite \/ EndWriteBegin \/ EndWriteBuild \/ EndWriteSwap
           \/ \E e \in Entries : StageEntry(e)
    PROVE  [Index!Next]_Index!ivars
<1>1. CASE BeginWrite
  <2>1. /\ UNCHANGED <<pool, readers, file, phase, scratch>>
        /\ ~Rebuilding /\ Rebuilding' /\ pc' = "staging" /\ stagingBuf' = <<>>
    BY <1>1 DEF BeginWrite, Rebuilding
  <2>2. Staged' = <<>>
    BY <2>1, StagedNext
  <2>3. Index!BeginRebuild
    BY <2>1, <2>2 DEF Index!BeginRebuild, Rebuilding
  <2> QED
    BY <2>3 DEF Index!Next
<1>2. ASSUME NEW e \in Entries, StageEntry(e)
      PROVE  Index!Stage
  <2>1. /\ UNCHANGED <<pool, readers, file, phase, pc, scratch>>
        /\ Rebuilding /\ Rebuilding' /\ pc = "staging" /\ pc' = "staging"
        /\ stagingBuf' = Append(stagingBuf, e)
    BY <1>2 DEF StageEntry, Rebuilding
  <2>2. Staged = stagingBuf /\ Staged' = stagingBuf'
    BY <2>1, StagedFacts, StagedNext
  <2> QED
    BY <2>1, <2>2 DEF Index!Stage, Rebuilding
<1>3. CASE EndWriteBegin
  <2>1. /\ UNCHANGED <<pool, stagingBuf, readers, file, phase>>
        /\ pc = "staging" /\ pc' = "building" /\ fresh' = EmptyPool
    BY <1>3 DEF EndWriteBegin
  <2>2. stagingBuf \in Seq(FileEntry) /\ Len(stagingBuf) \in Nat
    BY LenProperties DEF IInv, TypeOK
  <2>3. Staged = stagingBuf
    BY <2>1, StagedFacts
  <2>4. Staged' = [i \in 1..(0 + Len(stagingBuf)) |->
                      IF i <= 0 THEN EntryAt(fresh', i) ELSE stagingBuf[i - 0]]
    BY <2>1, EmptyPoolEntries DEF Staged, Rebuilding
  <2>5. Staged' = [i \in 1..Len(stagingBuf) |-> stagingBuf[i]]
    BY <2>2, <2>4
  <2>6. Staged' = stagingBuf
    BY <2>2, <2>5
  <2> QED
    BY <2>1, <2>3, <2>6 DEF Index!ivars, Rebuilding
<1>4. CASE EndWriteBuild
  BY <1>4, BuildIsInvisible
<1>5. CASE EndWriteSwap
  <2>1. /\ UNCHANGED <<stagingBuf, readers, file>>
        /\ pc = "building" /\ pc' = "idle" /\ stagingBuf = <<>>
        /\ pool' = fresh /\ phase' = "run"
    BY <1>5 DEF EndWriteSwap
  <2>2. Staged = LiveEntries(pool') /\ Staged' = <<>>
    BY <2>1, StagedFacts, StagedNext DEF Rebuilding
  <2>3. PoolCompact(pool') = TRUE
    BY <2>1 DEF RefinementInv, BuildingInv, PoolCompact
  <2>4. Index!Replace
    BY <2>1, <2>2, <2>3 DEF Index!Replace, Rebuilding
  <2> QED
    BY <2>4 DEF Index!Next
<1> QED
  BY <1>1, <1>2, <1>3, <1>4, <1>5 DEF Index!Next

\* Save writes the live entries, in order: their stamps in any case, and their
\* paths if nothing was lost.
LEMMA WriteIsSave ==
    ASSUME IInv, ImageInv, RefinementInv, SaveWrite
    PROVE  Index!Save
<1> DEFINE offset == RecordOffset(buf)
           m == Len(buf)
           old == [state |-> file.state, entries |-> Decode(file),
                   compact |-> FileCompact(file)]
           new == [state |-> file'.state, entries |-> Decode(file'),
                   compact |-> FileCompact(file')]
<1>1. /\ pc = "writing" /\ pc' = "idle"
      /\ file' = [state |-> "ok", pathPool |-> fresh.pathPool, entries |-> buf]
      /\ UNCHANGED <<pool, stagingBuf, phase, runningPathOffset>>
      /\ pool \in Pool /\ Layout(pool) /\ buf \in Seq(DiskEntry)
      /\ fresh \in Pool
  BY DEF SaveWrite, SaveDone, IInv, TypeOK
<1>2. /\ file.state = "torn"
      /\ fresh.pathPool = pool.pathPool
      /\ k = Size(pool) + 1
      /\ Recorded(pool, buf, k)
      /\ PositiveLens(buf)
  BY <1>1 DEF ImageInv, RefinementInv, RecordedInv, LengthsInv
<1>3. /\ file'.entries = buf /\ file'.pathPool = pool.pathPool
      /\ file'.state = "ok"
  BY <1>1, <1>2
<1>4. /\ Offsets(offset, buf)
      /\ \A i \in 1..(m + 1) : offset[i] <= PathCells(pool)
  <2>1. Fits(buf, PathCells(pool)) /\ PathCells(pool) \in Nat
    BY <1>1, <1>2, PoolNumbers DEF IInv, WritingInv, PathCells
  <2> QED
    BY <1>1, <2>1, FittingOffsets
<1>5. /\ m \in Nat /\ Size(pool) \in Nat /\ PathCells(pool) \in Nat
      /\ \A i \in 1..m : RecordLen(buf, i) \in Nat /\ RecordLen(buf, i) > 0
  BY <1>1, <1>2, PoolNumbers, RecordNumbers DEF PositiveLens
<1>6. LiveBefore(pool, k) = LiveIndices(pool)
  <2>1. k - 1 = Size(pool)
    BY <1>2, <1>5
  <2> QED
    BY <2>1 DEF LiveBefore, LiveIndices
<1>7. PICK h \in Index!Renumberings(1..m, LiveIndices(pool)) :
         \A i \in 1..m :
             /\ RecordLen(buf, i) = PathLen(pool, h[i])
             /\ buf[i].stamp = pool.meta[h[i]].stamp
             /\ Tiled(pool, k) => offset[i] = PathOffset(pool, h[i])
  BY <1>2, <1>6 DEF Recorded
<1>8. \A i \in 1..m : h[i] \in LiveIndices(pool)
  BY <1>7 DEF Index!Renumberings
<1>9. FileCompact(file') = PoolCompact(pool)
  <2>1. FileCompact(file') <=> offset[m + 1] = PathCells(pool)
    BY <1>3 DEF FileCompact, PathCells
  <2>2. /\ offset[m + 1] <= EndBefore(pool, k)
        /\ Tiled(pool, k) <=> offset[m + 1] = EndBefore(pool, k)
    BY <1>2 DEF Recorded
  <2>3. /\ EndBefore(pool, k) <= PathCells(pool)
        /\ EndBefore(pool, k) \in Nat /\ offset[m + 1] \in Nat
    BY <1>1, <1>2, <1>4, <1>5, EndBeforeBound DEF Offsets
  <2>4. PoolCompact(pool) <=> Tiled(pool, k) /\ EndBefore(pool, k) = PathCells(pool)
    BY <1>1, <1>2, CompactIsTiled
  <2>5. FileCompact(file') <=> PoolCompact(pool)
    BY <1>5, <2>1, <2>2, <2>3, <2>4
  <2> QED
    BY <2>5 DEF FileCompact, PoolCompact
<1>10. /\ DOMAIN Decode(file') = 1..m
       /\ \A i \in 1..m :
             Decode(file')[i] =
                [path |-> View(pool.pathPool, offset[i], RecordLen(buf, i)),
                 stamp |-> buf[i].stamp]
  BY <1>3 DEF Decode, RecordLen
<1>11. ASSUME NEW i \in 1..m
       PROVE  /\ Decode(file')[i].path \in Path
              /\ Decode(file')[i].stamp = LiveEntries(pool)[h[i]].stamp
              /\ PoolCompact(pool) => Decode(file')[i] = LiveEntries(pool)[h[i]]
  <2> DEFINE o == offset[i]
             l == RecordLen(buf, i)
  <2>1. /\ o \in Nat /\ l \in Nat /\ l > 0 /\ o + l <= Len(pool.pathPool)
        /\ pool.pathPool \in Seq(Component)
    <3>1. i \in 1..(m + 1) /\ i + 1 \in 1..(m + 1)
      BY <1>5
    <3>2. offset[i + 1] = o + l /\ o \in Nat /\ offset[i + 1] <= PathCells(pool)
      BY <1>4, <3>1 DEF Offsets
    <3> QED
      BY <1>1, <1>5, <3>2 DEF PathCells, Pool
  <2> HIDE DEF o, l
  <2>2. /\ View(pool.pathPool, o, l) \in Seq(Component)
        /\ Len(View(pool.pathPool, o, l)) = l
    BY <2>1, ViewFacts
  <2>3. View(pool.pathPool, o, l) \in Path
    <3>1. View(pool.pathPool, o, l) # <<>>
      BY <2>1, <2>2
    <3> QED
      BY <2>2, <3>1 DEF Path
  <2>4. Decode(file')[i] = [path |-> View(pool.pathPool, o, l),
                            stamp |-> buf[i].stamp]
    BY <1>10 DEF o, l
  <2>5. h[i] \in LiveIndices(pool)
    BY <1>8
  <2>6. LiveEntries(pool)[h[i]].stamp = buf[i].stamp
    BY <1>7, <2>5, LiveEntriesFacts
  <2>7. ASSUME PoolCompact(pool)
        PROVE  Decode(file')[i] = LiveEntries(pool)[h[i]]
    <3>1. Tiled(pool, k)
      BY <1>1, <1>2, <2>7, CompactIsTiled
    <3>2. o = PathOffset(pool, h[i]) /\ l = PathLen(pool, h[i])
          /\ buf[i].stamp = pool.meta[h[i]].stamp
      BY <1>7, <3>1 DEF o, l
    <3>3. LiveEntries(pool)[h[i]] = EntryAt(pool, h[i])
      BY <2>5, LiveEntriesFacts
    <3> QED
      BY <2>4, <3>2, <3>3 DEF EntryAt, GetPath
  <2> QED
    BY <2>3, <2>4, <2>6, <2>7
<1>12. /\ Rebuilding = FALSE /\ Rebuilding' = FALSE
       /\ Staged = <<>> /\ Staged' = <<>>
  BY <1>1 DEF Staged, Rebuilding
<1> HIDE DEF offset, m
<1>13. \E g \in Index!Renumberings(DOMAIN new.entries, DOMAIN LiveEntries(pool)) :
          \A i \in DOMAIN new.entries :
              /\ new.entries[i].path \in Path
              /\ new.entries[i].stamp = LiveEntries(pool)[g[i]].stamp
              /\ PoolCompact(pool) => new.entries[i] = LiveEntries(pool)[g[i]]
  <2>1. new.entries = Decode(file')
    OBVIOUS
  <2> HIDE DEF new
  <2>2. /\ DOMAIN new.entries = 1..m
        /\ DOMAIN LiveEntries(pool) = LiveIndices(pool)
    BY <1>10, <2>1, LiveEntriesFacts
  <2> QED
    BY <1>7, <1>11, <2>1, <2>2
<1> QED
  BY <1>1, <1>2, <1>3, <1>9, <1>12, <1>13 DEF Index!Save

\* What Deserialize has built when it has read the last record is what the file
\* stands for.
LEMMA LoadedIsDecoded ==
    ASSUME IInv, RefinementInv, pc = "loading", k > Len(buf)
    PROVE  /\ LiveEntries(fresh) = Decode(file)
           /\ PoolCompact(fresh) = FileCompact(file)
<1> DEFINE offset == RecordOffset(buf)
           m == Len(buf)
<1>1. /\ fresh \in Pool /\ buf \in Seq(DiskEntry)
      /\ fresh.pathPool = file.pathPool /\ buf = file.entries
      /\ k = Size(fresh) + 1 /\ k <= m + 1
      /\ Loaded(fresh, buf)
      /\ Offsets(offset, buf)
  BY LoadingFacts DEF IInv, TypeOK, RefinementInv, LoadedInv
<1>2. /\ m \in Nat /\ Size(fresh) = m
      /\ \A i \in 1..m : RecordLen(buf, i) \in Nat
  BY <1>1, PoolNumbers, RecordNumbers
<1>3. \A i \in 1..m : /\ ~fresh.meta[i].deleted
                      /\ PathOffset(fresh, i) = offset[i]
                      /\ PathLen(fresh, i) = RecordLen(buf, i)
                      /\ fresh.meta[i].stamp = buf[i].stamp
  BY <1>1, <1>2 DEF Loaded
<1>4. LiveIndices(fresh) = 1..m
  BY <1>2, <1>3 DEF LiveIndices
<1>5. Decode(file) =
         [i \in 1..m |->
             [path |-> View(fresh.pathPool, offset[i], RecordLen(buf, i)),
              stamp |-> buf[i].stamp]]
  BY <1>1 DEF Decode, RecordLen
<1>6. LiveEntries(fresh) = [i \in 1..m |-> EntryAt(fresh, i)]
  BY <1>4 DEF LiveEntries
<1>7. \A i \in 1..m :
         EntryAt(fresh, i) =
            [path |-> View(fresh.pathPool, offset[i], RecordLen(buf, i)),
             stamp |-> buf[i].stamp]
  BY <1>3 DEF EntryAt, GetPath
<1>8. \A i \in 1..(m + 1) : EndBefore(fresh, i) = offset[i]
  <2> SUFFICES ASSUME NEW i \in 1..(m + 1)
               PROVE  EndBefore(fresh, i) = offset[i]
    OBVIOUS
  <2>1. CASE i = 1
    BY <1>1, <2>1 DEF EndBefore, Offsets
  <2>2. CASE i # 1
    <3>1. i - 1 \in 1..m /\ (i - 1) + 1 = i
      BY <1>2, <2>2
    <3>2. offset[i] = offset[i - 1] + RecordLen(buf, i - 1)
      BY <1>1, <3>1 DEF Offsets
    <3>3. EndBefore(fresh, i) = PathOffset(fresh, i - 1) + PathLen(fresh, i - 1)
      BY <2>2 DEF EndBefore
    <3> QED
      BY <1>3, <3>1, <3>2, <3>3
  <2> QED
    BY <2>1, <2>2
<1>9. PoolCompact(fresh) = FileCompact(file)
  <2>1. EndBefore(fresh, m + 1) = offset[m + 1]
    BY <1>2, <1>8
  <2>2. \A i \in 1..m : EndBefore(fresh, i) = offset[i]
    BY <1>2, <1>8
  <2>3. PoolCompact(fresh) <=> FileCompact(file)
    BY <1>1, <1>2, <1>3, <2>1, <2>2 DEF PoolCompact, FileCompact, PathCells
  <2> QED
    BY <2>3 DEF PoolCompact, FileCompact
<1> QED
  BY <1>5, <1>6, <1>7, <1>9

LEMMA LoadIsLoad ==
    ASSUME IInv, RefinementInv, LoadRejects \/ LoadSwap
    PROVE  Index!Load
<1>1. /\ phase = "start" /\ phase' # "start"
      /\ UNCHANGED <<stagingBuf, readers, file>>
      /\ ~Rebuilding /\ ~Rebuilding'
      /\ Rebuilding = FALSE /\ Rebuilding' = FALSE
      /\ Staged = <<>> /\ Staged' = <<>>
  BY DEF LoadRejects, LoadSwap, Rebuilding, Staged, RefinementInv, LoadedInv
<1>2. /\ LiveEntries(pool') = Decode(file)
      /\ PoolCompact(pool') = FileCompact(file)
  <2>1. CASE LoadRejects
    <3>1. /\ pool' = EmptyPool
          /\ file.entries = <<>> /\ file.pathPool = <<>>
      BY <2>1 DEF LoadRejects, RefinementInv, NoImageInv
    <3> QED
      BY <3>1, EmptyFile, EmptyPoolEntries
  <2>2. CASE LoadSwap
    BY <2>2, LoadedIsDecoded DEF LoadSwap
  <2> QED
    BY <2>1, <2>2
<1> QED
  BY <1>1, <1>2 DEF Index!Load

LEMMA OpenIsTruncate ==
    ASSUME SaveOpen
    PROVE  Index!Truncate
<1>1. /\ file' = TornFile /\ ~Rebuilding /\ ~Rebuilding'
      /\ Rebuilding' = Rebuilding
      /\ UNCHANGED <<pool, phase>>
      /\ Staged = <<>> /\ Staged' = <<>>
  BY DEF SaveOpen, Rebuilding, Staged
<1>2. [state |-> file'.state, entries |-> Decode(file'),
       compact |-> FileCompact(file')] = Index!TornDisk
  <2>1. file'.state = "torn" /\ file'.entries = <<>> /\ file'.pathPool = <<>>
    BY <1>1 DEF TornFile
  <2> QED
    BY <2>1, EmptyFile DEF Index!TornDisk
<1> QED
  BY <1>1, <1>2 DEF Index!Truncate

LEMMA CrashIsCrash == ASSUME Crash PROVE Index!Crash
<1>1. /\ pool' = EmptyPool /\ phase' = "start" /\ ~Rebuilding' /\ UNCHANGED file
      /\ Rebuilding' = FALSE /\ Staged' = <<>>
  BY DEF Crash, Rebuilding, Staged
<1> QED
  BY <1>1, EmptyPoolEntries DEF Index!Crash

\* Locks, records in memory and a failed attempt to write do not show.
LEMMA InvisibleSteps ==
    ASSUME \/ \E s \in Searcher : SearchLock(s) \/ SearchUnlock(s)
           \/ SaveLock \/ SerializeEntry \/ SaveOpenFails \/ SaveWriteFails
           \/ LoadOpen \/ LoadEntry
           \/ UNCHANGED vars
    PROVE  UNCHANGED Index!ivars
<1>1. /\ UNCHANGED <<pool, file, phase>>
      /\ \/ ~Rebuilding /\ ~Rebuilding'
         \/ UNCHANGED <<pc, fresh, stagingBuf>>
  BY DEF SearchLock, SearchUnlock, SaveLock, SerializeEntry, SaveOpenFails,
         SaveWriteFails, SaveDone, LoadOpen, LoadEntry, vars, scratch,
         Rebuilding
<1>2. UNCHANGED Staged /\ UNCHANGED Rebuilding
  <2>1. CASE ~Rebuilding /\ ~Rebuilding'
    BY <2>1 DEF Staged, Rebuilding
  <2>2. CASE UNCHANGED <<pc, fresh, stagingBuf>>
    BY <2>2 DEF Staged, Rebuilding
  <2> QED
    BY <1>1, <2>1, <2>2
<1> QED
  BY <1>1, <1>2 DEF Index!ivars

LEMMA InitIsInit == Init => Index!Init
<1> SUFFICES ASSUME Init PROVE Index!Init
  OBVIOUS
<1>1. /\ file.state = "none" /\ file.entries = <<>> /\ file.pathPool = <<>>
      /\ pool = EmptyPool /\ phase = "start"
      /\ Rebuilding = FALSE /\ Staged = <<>>
  BY DEF Init, NoFile, Rebuilding, Staged
<1>2. [state |-> file.state, entries |-> Decode(file),
       compact |-> FileCompact(file)] = Index!NoDisk
  BY <1>1, EmptyFile DEF Index!NoDisk
<1> QED
  BY <1>1, <1>2, EmptyPoolEntries DEF Index!Init

LEMMA StepIsStep ==
    IInv /\ ImageInv /\ RefinementInv /\ IInv' /\ RefinementInv' /\ [Next]_vars
        => [Index!Next]_Index!ivars
<1> SUFFICES ASSUME IInv, ImageInv, RefinementInv, IInv', RefinementInv',
                    [Next]_vars
             PROVE  [Index!Next]_Index!ivars
  OBVIOUS
<1>1. ASSUME NEW e \in Entries, ApplyAdd(e) PROVE Index!Next
  BY <1>1, AddIsAdd DEF Index!Next
<1>2. ASSUME NEW p \in Paths, ApplyRemove(p) PROVE [Index!Next]_Index!ivars
  BY <1>2, RemoveIsRemoveOne DEF Index!Next
<1>3. ASSUME NEW p \in Paths, NEW q \in Paths, ApplyRename(p, q)
      PROVE  Index!Next
  BY <1>3, RenameIsRename DEF Index!Next
<1>4. ASSUME NEW r \in Prefixes, RemoveEntriesUnderPath(r)
      PROVE  [Index!Next]_Index!ivars
  BY <1>4, RemoveUnderIsRemoveAllBelow DEF Index!Next
<1>5. CASE \/ BeginWrite \/ EndWriteBegin \/ EndWriteBuild \/ EndWriteSwap
           \/ \E e \in Entries : StageEntry(e)
  BY <1>5, RebuildIsRebuild
<1>6. CASE SaveOpen
  BY <1>6, OpenIsTruncate DEF Index!Next
<1>7. CASE SaveWrite
  BY <1>7, WriteIsSave DEF Index!Next
<1>8. CASE LoadRejects \/ LoadSwap
  BY <1>8, LoadIsLoad DEF Index!Next
<1>9. CASE Crash
  BY <1>9, CrashIsCrash DEF Index!Next
<1>10. CASE \/ \E s \in Searcher : SearchLock(s) \/ SearchUnlock(s)
            \/ SaveLock \/ SerializeEntry \/ SaveOpenFails \/ SaveWriteFails
            \/ LoadOpen \/ LoadEntry
            \/ UNCHANGED vars
  BY <1>10, InvisibleSteps
<1> QED
  BY <1>1, <1>2, <1>3, <1>4, <1>5, <1>6, <1>7, <1>8, <1>9, <1>10 DEF Next

\* Clients of IndexStore may think of FileIndex: whatever the interleaving of
\* searches, watchers, a rebuild, Save and Load with one another and with
\* crashes, every step is one atomic operation on a plain index and its copy on
\* disk, or cannot be seen.
THEOREM StoreImplementsFileIndex == Spec => ImplementsFileIndex
<1>1. Init => IInv /\ ImageInv /\ RefinementInv
  BY InitIInv, InitRefinement DEF Init, ImageInv
<1>2. IInv /\ ImageInv /\ RefinementInv /\ [Next]_vars =>
         IInv' /\ ImageInv' /\ RefinementInv'
  BY NextIInv, NextImage, NextRefinement
<1> QED
  BY <1>1, <1>2, InitIsInit, StepIsStep, PTL
  DEF Spec, ImplementsFileIndex, Index!Spec
=============================================================================
