-------------------------- MODULE IndexStoreProofs --------------------------
(***************************************************************************)
(* For every set of paths, threads and every bound: the views IndexStore   *)
(* hands out never reach outside the character pools and do not change     *)
(* while they are read, the name that is searched is the name that is      *)
(* shown, and the file is never a mixture of two saves.                    *)
(*                                                                         *)
(* ViewsInBounds is not inductive by itself: what Deserialize makes of a   *)
(* file depends on the lengths Serialize wrote into it, possibly sessions  *)
(* ago.  The strengthening says that metas never overlap and are in the    *)
(* order of their offsets, and that the records in the writer's buffer, in *)
(* the file and in the reader's buffer can be laid end to end inside the   *)
(* characters stored with them.  LowerInv and ImageInv, further down, add  *)
(* what the other theorems need.                                           *)
(***************************************************************************)
EXTENDS IndexStore, FiniteSetTheorems, SequenceTheorems, TLAPS

End(pl, i) == PathOffset(pl, i) + PathLen(pl, i)

\* Metas are stored in the order of their paths, which do not overlap.
Ordered(pl) ==
    \A i, j \in 1..Size(pl) : i < j => End(pl, i) <= PathOffset(pl, j)

Layout(pl) == ViewsInside(pl) /\ Ordered(pl)

RecordLen(records, i) == records[i].pathLen

NamesInside(records) ==
    \A i \in 1..Len(records) : records[i].nameStart <= RecordLen(records, i)

\* offset is where Deserialize puts each record, and after the last one; all
\* of it within n characters.
IsOffsets(offset, records, n) ==
    /\ offset \in [1..(Len(records) + 1) -> 0..n]
    /\ offset[1] = 0
    /\ \A i \in 1..Len(records) :
          offset[i + 1] = offset[i] + RecordLen(records, i)

\* There is room for the records, laid end to end, in n characters.
Fits(records, n) ==
    /\ NamesInside(records)
    /\ \E offset \in [1..(Len(records) + 1) -> 0..n] :
          IsOffsets(offset, records, n)

\* Where the first meta that is not yet serialized starts.
SerializeBound ==
    IF k <= Size(pool) THEN PathOffset(pool, k) ELSE PathCells(pool)

SerializingInv ==
    pc = "serializing" =>
        /\ Saver \in readers
        /\ fresh.pathPool = pool.pathPool
        /\ Fits(buf, SerializeBound)

WritingInv ==
    pc = "writing" => Fits(buf, PathCells(fresh))

FileInv ==
    file.state = "ok" => Fits(file.entries, Len(file.pathPool))

LoadingInv ==
    pc = "loading" =>
        /\ NamesInside(buf)
        /\ k <= Len(buf) + 1
        /\ \E offset \in [1..(Len(buf) + 1) -> 0..PathCells(fresh)] :
              /\ IsOffsets(offset, buf, PathCells(fresh))
              /\ runningPathOffset = offset[k]
        /\ \A i \in 1..Size(fresh) : End(fresh, i) <= runningPathOffset

IInv ==
    /\ TypeOK
    /\ Layout(pool)
    /\ Layout(fresh)
    /\ SerializingInv
    /\ WritingInv
    /\ FileInv
    /\ LoadingInv

----------------------------------------------------------------------------
(* Lemmas about the operators of IndexPool. *)

\* The numbers a pool is made of are naturals.
LEMMA PoolNumbers ==
    ASSUME NEW pl \in Pool
    PROVE  /\ Size(pl) \in Nat
           /\ PathCells(pl) \in Nat
           /\ NameCells(pl) \in Nat
           /\ \A i \in 1..Size(pl) :
                 /\ PathOffset(pl, i) \in Nat
                 /\ PathLen(pl, i) \in Nat
                 /\ NameStart(pl, i) \in Nat
                 /\ NameLowerOffset(pl, i) \in Nat
                 /\ NameLowerLen(pl, i) \in Nat
<1>1. /\ Size(pl) \in Nat /\ PathCells(pl) \in Nat /\ NameCells(pl) \in Nat
  BY DEF Pool, Size, PathCells, NameCells
<1>2. ASSUME NEW i \in 1..Size(pl)
      PROVE  /\ PathOffset(pl, i) \in Nat
             /\ PathLen(pl, i) \in Nat
             /\ NameStart(pl, i) \in Nat
             /\ NameLowerOffset(pl, i) \in Nat
             /\ NameLowerLen(pl, i) \in Nat
  <2>1. pl.meta \in Seq(EntryMeta) /\ i \in 1..Len(pl.meta)
    BY DEF Pool, Size
  <2>2. pl.meta[i] \in EntryMeta
    BY <2>1
  <2> QED
    BY <2>2 DEF EntryMeta, PathOffset, PathLen, NameStart, NameLowerOffset,
                NameLowerLen
<1> QED
  BY <1>1, <1>2

\* What AddEntry appends to the three sequences.
LEMMA AddEntryFacts ==
    ASSUME NEW pl \in Pool, NEW e \in FileEntry
    PROVE  LET new == AddEntry(pl, e)
           IN  /\ new \in Pool
               /\ Size(new) = Size(pl) + 1
               /\ PathCells(new) = PathCells(pl) + Len(e.path)
               /\ NameCells(new) = NameCells(pl) + 1
               /\ \A i \in 1..Size(pl) : new.meta[i] = pl.meta[i]
               /\ new.meta[Size(pl) + 1] =
                     [pathOffset |-> PathCells(pl), pathLen |-> Len(e.path),
                      nameStart |-> Len(e.path) - 1,
                      nameLowerOffset |-> NameCells(pl), nameLowerLen |-> 1,
                      stamp |-> e.stamp, deleted |-> FALSE]
<1> DEFINE n == Len(e.path)
           m == [pathOffset |-> Len(pl.pathPool), pathLen |-> n,
                 nameStart |-> n - 1,
                 nameLowerOffset |-> Len(pl.nameLowerPool),
                 nameLowerLen |-> 1, stamp |-> e.stamp, deleted |-> FALSE]
           new == AddEntry(pl, e)
<1>1. /\ e.path \in Seq(Component) /\ n \in Nat /\ n > 0
      /\ e.stamp \in Stamp
  BY DEF FileEntry, Path
<1>2. e.path[n] \in Component
  BY <1>1
<1>3. Lower[e.path[n]] \in Component
  BY <1>2, LowerAssumption
<1>4. m \in EntryMeta
  BY <1>1 DEF Pool, EntryMeta
<1>5. /\ new.meta = Append(pl.meta, m)
      /\ new.nameLowerPool = pl.nameLowerPool \o <<Lower[e.path[n]]>>
      /\ new.pathPool = pl.pathPool \o e.path
      /\ new = [meta |-> new.meta, nameLowerPool |-> new.nameLowerPool,
                pathPool |-> new.pathPool]
  BY DEF AddEntry
<1>6. /\ pl.meta \in Seq(EntryMeta) /\ pl.nameLowerPool \in Seq(Component)
      /\ pl.pathPool \in Seq(Component)
  BY DEF Pool
<1> HIDE DEF new
<1>7. /\ new.meta \in Seq(EntryMeta)
      /\ new.nameLowerPool \in Seq(Component)
      /\ new.pathPool \in Seq(Component)
  BY <1>1, <1>3, <1>4, <1>5, <1>6
<1>8. new \in Pool
  BY <1>5, <1>7 DEF Pool
<1>9. /\ Size(new) = Size(pl) + 1
      /\ PathCells(new) = PathCells(pl) + n
      /\ NameCells(new) = NameCells(pl) + 1
  BY <1>1, <1>3, <1>5, <1>6 DEF Size, PathCells, NameCells
<1>10. /\ \A i \in 1..Size(pl) : new.meta[i] = pl.meta[i]
       /\ new.meta[Size(pl) + 1] = m
  BY <1>4, <1>5, <1>6 DEF Size
<1> QED
  BY <1>8, <1>9, <1>10 DEF new, PathCells, NameCells

\* AddEntry keeps the entries in order and inside the pools.
LEMMA AddEntryLayout ==
    ASSUME NEW pl \in Pool, NEW e \in FileEntry, Layout(pl)
    PROVE  Layout(AddEntry(pl, e))
<1> DEFINE new == AddEntry(pl, e)
           last == Size(pl) + 1
<1>1. /\ Size(new) = Size(pl) + 1
      /\ PathCells(new) = PathCells(pl) + Len(e.path)
      /\ NameCells(new) = NameCells(pl) + 1
  BY AddEntryFacts
<1>2. ASSUME NEW i \in 1..Size(pl)
      PROVE  /\ PathOffset(new, i) = PathOffset(pl, i)
             /\ PathLen(new, i) = PathLen(pl, i)
             /\ NameStart(new, i) = NameStart(pl, i)
             /\ NameLowerOffset(new, i) = NameLowerOffset(pl, i)
             /\ NameLowerLen(new, i) = NameLowerLen(pl, i)
  <2>1. new.meta[i] = pl.meta[i]
    BY AddEntryFacts
  <2> QED
    BY <2>1 DEF PathOffset, PathLen, NameStart, NameLowerOffset, NameLowerLen
<1>3. /\ PathOffset(new, last) = PathCells(pl)
      /\ PathLen(new, last) = Len(e.path)
      /\ NameStart(new, last) = Len(e.path) - 1
      /\ NameLowerOffset(new, last) = NameCells(pl)
      /\ NameLowerLen(new, last) = 1
  <2>1. new.meta[last] =
           [pathOffset |-> PathCells(pl), pathLen |-> Len(e.path),
            nameStart |-> Len(e.path) - 1,
            nameLowerOffset |-> NameCells(pl), nameLowerLen |-> 1,
            stamp |-> e.stamp, deleted |-> FALSE]
    BY AddEntryFacts
  <2> QED
    BY <2>1 DEF PathOffset, PathLen, NameStart, NameLowerOffset, NameLowerLen
<1>4. Len(e.path) \in Nat
  BY DEF FileEntry, Path
<1>5. \A i \in 1..Size(new) : i \in 1..Size(pl) \/ i = last
  BY <1>1, PoolNumbers
<1> HIDE DEF new
<1>6. ViewsInside(new)
  <2>1. /\ Size(pl) \in Nat /\ PathCells(pl) \in Nat /\ NameCells(pl) \in Nat
    BY PoolNumbers
  <2>2. ASSUME NEW i \in 1..Size(pl)
        PROVE  /\ NameStart(new, i) <= PathLen(new, i)
               /\ PathOffset(new, i) + PathLen(new, i) <= PathCells(new)
               /\ NameLowerOffset(new, i) + NameLowerLen(new, i)
                     <= NameCells(new)
    <3>1. /\ NameStart(pl, i) <= PathLen(pl, i)
          /\ PathOffset(pl, i) + PathLen(pl, i) <= PathCells(pl)
          /\ NameLowerOffset(pl, i) + NameLowerLen(pl, i) <= NameCells(pl)
      BY DEF Layout, ViewsInside
    <3>2. /\ PathOffset(pl, i) \in Nat /\ PathLen(pl, i) \in Nat
          /\ NameStart(pl, i) \in Nat /\ NameLowerOffset(pl, i) \in Nat
          /\ NameLowerLen(pl, i) \in Nat
      BY PoolNumbers
    <3> QED
      BY <1>1, <1>2, <1>4, <2>1, <3>1, <3>2, SMTT(30)
  <2>3. /\ NameStart(new, last) <= PathLen(new, last)
        /\ PathOffset(new, last) + PathLen(new, last) <= PathCells(new)
        /\ NameLowerOffset(new, last) + NameLowerLen(new, last)
              <= NameCells(new)
    BY <1>1, <1>3, <1>4, <2>1
  <2> QED
    BY <1>5, <2>2, <2>3 DEF ViewsInside
<1>7. Ordered(new)
  <2> SUFFICES ASSUME NEW i \in 1..Size(new), NEW j \in 1..Size(new), i < j
               PROVE  End(new, i) <= PathOffset(new, j)
    BY DEF Ordered
  <2>1. i \in 1..Size(pl)
    BY <1>1, PoolNumbers
  <2>2. CASE j \in 1..Size(pl)
    BY <1>2, <2>1, <2>2 DEF Layout, Ordered, End
  <2>3. CASE j = last
    BY <1>2, <1>3, <2>1, <2>3 DEF Layout, ViewsInside, End
  <2> QED
    BY <1>5, <2>2, <2>3
<1> QED
  BY <1>6, <1>7 DEF Layout, new

\* A tombstone changes no offset and no length.
LEMMA TombstoneLayout ==
    ASSUME NEW pl \in Pool, NEW I, Layout(pl)
    PROVE  Tombstone(pl, I) \in Pool /\ Layout(Tombstone(pl, I))
<1> DEFINE new   == Tombstone(pl, I)
           metas == [i \in 1..Size(pl) |->
                        IF i \in I THEN [pl.meta[i] EXCEPT !.deleted = TRUE]
                                   ELSE pl.meta[i]]
<1>1. /\ pl.meta \in Seq(EntryMeta) /\ pl.nameLowerPool \in Seq(Component)
      /\ pl.pathPool \in Seq(Component)
      /\ pl = [meta |-> pl.meta, nameLowerPool |-> pl.nameLowerPool,
               pathPool |-> pl.pathPool]
  BY DEF Pool
<1> HIDE DEF metas
<1>2. new = [pl EXCEPT !.meta = metas]
  BY DEF Tombstone, metas
<1>3. new = [meta |-> metas, nameLowerPool |-> pl.nameLowerPool,
             pathPool |-> pl.pathPool]
  BY <1>1, <1>2
<1> HIDE DEF new
<1>4. ASSUME NEW i \in 1..Size(pl)
      PROVE  /\ metas[i] \in EntryMeta
             /\ metas[i].pathOffset = pl.meta[i].pathOffset
             /\ metas[i].pathLen = pl.meta[i].pathLen
             /\ metas[i].nameStart = pl.meta[i].nameStart
             /\ metas[i].nameLowerOffset = pl.meta[i].nameLowerOffset
             /\ metas[i].nameLowerLen = pl.meta[i].nameLowerLen
  <2>1. pl.meta[i] \in EntryMeta
    BY <1>1 DEF Size
  <2>2. metas[i] = IF i \in I THEN [pl.meta[i] EXCEPT !.deleted = TRUE]
                              ELSE pl.meta[i]
    BY DEF metas
  <2> QED
    BY <2>1, <2>2 DEF EntryMeta
<1>5. metas \in Seq(EntryMeta) /\ Len(metas) = Size(pl)
  <2>1. metas \in [1..Size(pl) -> EntryMeta]
    BY <1>4 DEF metas
  <2>2. Size(pl) \in Nat
    BY PoolNumbers
  <2> QED
    BY <2>1, <2>2
<1>6. new \in Pool
  BY <1>1, <1>3, <1>5 DEF Pool
<1>7. /\ Size(new) = Size(pl) /\ PathCells(new) = PathCells(pl)
      /\ NameCells(new) = NameCells(pl)
  BY <1>3, <1>5 DEF Size, PathCells, NameCells
<1>8. \A i \in 1..Size(pl) :
         /\ PathOffset(new, i) = PathOffset(pl, i)
         /\ PathLen(new, i) = PathLen(pl, i)
         /\ NameStart(new, i) = NameStart(pl, i)
         /\ NameLowerOffset(new, i) = NameLowerOffset(pl, i)
         /\ NameLowerLen(new, i) = NameLowerLen(pl, i)
  BY <1>3, <1>4 DEF PathOffset, PathLen, NameStart, NameLowerOffset,
                    NameLowerLen
<1>9. Layout(new)
  BY <1>7, <1>8 DEF Layout, ViewsInside, Ordered, End
<1> QED
  BY <1>6, <1>9 DEF new

\* A cleared pool is a pool with no views at all.
LEMMA EmptyPoolLayout == EmptyPool \in Pool /\ Layout(EmptyPool)
BY DEF EmptyPool, Pool, Layout, ViewsInside, Ordered, Size

----------------------------------------------------------------------------
(* Lemmas about records laid end to end. *)

\* No records fit anywhere: where Serialize starts.
LEMMA FitsEmpty == ASSUME NEW n \in Nat PROVE Fits(<<>>, n)
<1> DEFINE offset == [i \in 1..1 |-> 0]
<1>1. IsOffsets(offset, <<>>, n)
  BY DEF IsOffsets
<1>2. offset \in [1..(Len(<<>>) + 1) -> 0..n]
  OBVIOUS
<1> QED
  BY <1>1, <1>2 DEF Fits, NamesInside

\* Records that fit keep fitting when characters are added behind them.
LEMMA FitsMonotone ==
    ASSUME NEW records \in Seq(DiskEntry), NEW a \in Nat, NEW b \in Nat,
           Fits(records, a), a <= b
    PROVE  Fits(records, b)
<1>1. PICK offset \in [1..(Len(records) + 1) -> 0..a] :
         IsOffsets(offset, records, a)
  BY DEF Fits
<1>2. offset \in [1..(Len(records) + 1) -> 0..b]
  OBVIOUS
<1> QED
  BY <1>1, <1>2 DEF Fits, IsOffsets

\* A record whose path starts at or after a, and ends at or before b.
LEMMA FitsAppend ==
    ASSUME NEW records \in Seq(DiskEntry), NEW d \in DiskEntry,
           NEW a \in Nat, NEW b \in Nat, Fits(records, a),
           d.nameStart <= d.pathLen, a + d.pathLen <= b
    PROVE  Fits(Append(records, d), b)
<1> DEFINE more == Append(records, d)
           n    == Len(records)
<1>1. PICK offset \in [1..(n + 1) -> 0..a] : IsOffsets(offset, records, a)
  BY DEF Fits
<1> DEFINE longer == [i \in 1..(n + 2) |->
                        IF i = n + 2 THEN offset[n + 1] + d.pathLen
                                     ELSE offset[i]]
<1>2. n \in Nat /\ Len(more) = n + 1 /\ d.pathLen \in Nat
  BY DEF DiskEntry
<1>3. /\ \A i \in 1..n : more[i] = records[i]
      /\ more[n + 1] = d
  OBVIOUS
<1>4. \A i \in 1..n : RecordLen(more, i) = RecordLen(records, i)
  BY <1>3 DEF RecordLen
<1>5. RecordLen(more, n + 1) = d.pathLen
  BY <1>3 DEF RecordLen
<1> HIDE DEF more, n
<1>6. \A i \in 1..(n + 1) : longer[i] = offset[i] /\ offset[i] \in 0..a
  BY <1>2
<1>7. longer[n + 2] = offset[n + 1] + d.pathLen
  BY <1>2
<1>8. longer \in [1..(n + 2) -> 0..b]
  <2>1. offset[n + 1] \in 0..a
    BY <1>2, <1>6
  <2> QED
    BY <1>2, <2>1, SMTT(30)
<1> HIDE DEF longer
<1>9. IsOffsets(longer, more, b)
  <2>1. longer[1] = 0
    BY <1>1, <1>2, <1>6 DEF IsOffsets
  <2>2. ASSUME NEW i \in 1..(n + 1)
        PROVE  longer[i + 1] = longer[i] + RecordLen(more, i)
    <3>1. CASE i \in 1..n
      <4>1. offset[i + 1] = offset[i] + RecordLen(records, i)
        BY <1>1, <3>1 DEF IsOffsets, n
      <4>2. longer[i + 1] = offset[i + 1] /\ longer[i] = offset[i]
        BY <1>2, <1>6, <3>1
      <4> QED
        BY <1>4, <3>1, <4>1, <4>2
    <3>2. CASE i = n + 1
      <4>1. longer[i + 1] = offset[i] + d.pathLen /\ longer[i] = offset[i]
        BY <1>2, <1>6, <1>7, <3>2
      <4> QED
        BY <1>5, <3>2, <4>1
    <3> QED
      BY <1>2, <3>1, <3>2
  <2> QED
    BY <1>2, <1>8, <2>1, <2>2 DEF IsOffsets
<1>10. NamesInside(more)
  <2> SUFFICES ASSUME NEW i \in 1..(n + 1)
               PROVE  more[i].nameStart <= RecordLen(more, i)
    BY <1>2 DEF NamesInside
  <2>1. CASE i \in 1..n
    <3>1. records[i].nameStart <= RecordLen(records, i)
      BY <2>1 DEF Fits, NamesInside, n
    <3> QED
      BY <1>3, <1>4, <2>1, <3>1
  <2>2. CASE i = n + 1
    BY <1>3, <1>5, <2>2
  <2> QED
    BY <1>2, <2>1, <2>2
<1> QED
  <2>1. longer \in [1..(Len(more) + 1) -> 0..b]
    BY <1>2, <1>8
  <2> QED
    BY <1>9, <1>10, <2>1 DEF Fits, more

----------------------------------------------------------------------------
(* Deserialize, one record. *)

\* The length of two character pools one after the other.
LEMMA LenConcat ==
    ASSUME NEW S, NEW s \in Seq(S), NEW t \in Seq(S)
    PROVE  Len(s \o t) = Len(s) + Len(t)
OBVIOUS

\* What Deserialize appends for one record, and that it is a meta and
\* characters.
LEMMA AddRecordFacts ==
    ASSUME NEW pl \in Pool, NEW d \in DiskEntry, NEW offset \in Nat,
           d.nameStart <= d.pathLen, offset + d.pathLen <= PathCells(pl)
    PROVE  LET new == AddRecord(pl, d, offset)
           IN  /\ new \in Pool
               /\ Size(new) = Size(pl) + 1
               /\ PathCells(new) = PathCells(pl)
               /\ NameCells(new) = NameCells(pl) + (d.pathLen - d.nameStart)
               /\ \A i \in 1..Size(pl) : new.meta[i] = pl.meta[i]
               /\ new.meta[Size(pl) + 1] =
                     [pathOffset |-> offset, pathLen |-> d.pathLen,
                      nameStart |-> d.nameStart,
                      nameLowerOffset |-> NameCells(pl),
                      nameLowerLen |-> d.pathLen - d.nameStart,
                      stamp |-> d.stamp, deleted |-> FALSE]
<1> DEFINE new     == AddRecord(pl, d, offset)
           nameLen == d.pathLen - d.nameStart
           src     == View(pl.pathPool, offset + d.nameStart, nameLen)
           name    == LowerSeq(src)
           m       == [pathOffset |-> offset, pathLen |-> d.pathLen,
                       nameStart |-> d.nameStart,
                       nameLowerOffset |-> NameCells(pl),
                       nameLowerLen |-> nameLen,
                       stamp |-> d.stamp, deleted |-> FALSE]
<1>1. /\ d.pathLen \in Nat /\ d.nameStart \in Nat /\ d.stamp \in Stamp
      /\ nameLen \in Nat
  BY DEF DiskEntry
<1>2. /\ pl.meta \in Seq(EntryMeta) /\ pl.nameLowerPool \in Seq(Component)
      /\ pl.pathPool \in Seq(Component)
  BY DEF Pool
<1>3. src \in Seq(Component) /\ Len(src) = nameLen
  <2> DEFINE from == offset + d.nameStart + 1
             to   == offset + d.nameStart + nameLen
  <2>1. src = SubSeq(pl.pathPool, from, to)
    BY DEF View
  <2>2. /\ from \in Nat /\ to \in Nat /\ 1 <= from /\ to = from - 1 + nameLen
        /\ to <= Len(pl.pathPool)
    BY <1>1, SMTT(30) DEF PathCells
  <2> HIDE DEF from, to, src, nameLen
  <2> QED
    BY <1>1, <1>2, <2>1, <2>2
<1> HIDE DEF src
<1>4. name \in Seq(Component) /\ Len(name) = nameLen
  <2>1. name = [i \in 1..Len(src) |-> Lower[src[i]]]
    BY DEF LowerSeq
  <2>2. \A i \in 1..Len(src) : Lower[src[i]] \in Component
    BY <1>3, LowerAssumption
  <2> HIDE DEF name, nameLen
  <2> QED
    BY <1>1, <1>3, <2>1, <2>2
<1>5. NameCells(pl) \in Nat
  BY PoolNumbers
<1>6. m \in EntryMeta
  BY <1>1, <1>5 DEF EntryMeta
<1>7. /\ new.meta = Append(pl.meta, m)
      /\ new.nameLowerPool = pl.nameLowerPool \o name
      /\ new.pathPool = pl.pathPool
      /\ new = [meta |-> new.meta, nameLowerPool |-> new.nameLowerPool,
                pathPool |-> new.pathPool]
  BY DEF AddRecord, src
<1> HIDE DEF new, name, m, nameLen
<1>8. new \in Pool
  <2>1. /\ new.meta \in Seq(EntryMeta)
        /\ new.nameLowerPool \in Seq(Component)
        /\ new.pathPool \in Seq(Component)
    BY <1>2, <1>4, <1>6, <1>7
  <2> QED
    BY <1>7, <2>1 DEF Pool
<1>9. /\ Size(new) = Size(pl) + 1
      /\ PathCells(new) = PathCells(pl)
      /\ NameCells(new) = NameCells(pl) + nameLen
  <2>1. Len(new.meta) = Len(pl.meta) + 1
    BY <1>2, <1>6, <1>7
  <2>2. Len(new.nameLowerPool) = Len(pl.nameLowerPool) + nameLen
    <3>1. Len(pl.nameLowerPool \o name) = Len(pl.nameLowerPool) + Len(name)
      BY <1>2, <1>4, LenConcat
    <3> QED
      BY <1>4, <1>7, <3>1
  <2> QED
    BY <1>7, <2>1, <2>2 DEF Size, PathCells, NameCells
<1>10. /\ \A i \in 1..Size(pl) : new.meta[i] = pl.meta[i]
       /\ new.meta[Size(pl) + 1] = m
  BY <1>2, <1>6, <1>7 DEF Size
<1> QED
  BY <1>8, <1>9, <1>10 DEF new, m, nameLen

\* A record put at the running offset, at or after the end of all metas before
\* it, keeps them ordered and inside the pools.
LEMMA AddRecordLayout ==
    ASSUME NEW pl \in Pool, NEW d \in DiskEntry, NEW offset \in Nat,
           d.nameStart <= d.pathLen, offset + d.pathLen <= PathCells(pl),
           Layout(pl), \A i \in 1..Size(pl) : End(pl, i) <= offset
    PROVE  LET new == AddRecord(pl, d, offset)
           IN  /\ Layout(new)
               /\ \A i \in 1..Size(new) : End(new, i) <= offset + d.pathLen
<1> DEFINE new  == AddRecord(pl, d, offset)
           last == Size(pl) + 1
<1>1. /\ Size(new) = Size(pl) + 1
      /\ PathCells(new) = PathCells(pl)
      /\ NameCells(new) = NameCells(pl) + (d.pathLen - d.nameStart)
  BY AddRecordFacts
<1>2. ASSUME NEW i \in 1..Size(pl)
      PROVE  /\ PathOffset(new, i) = PathOffset(pl, i)
             /\ PathLen(new, i) = PathLen(pl, i)
             /\ NameStart(new, i) = NameStart(pl, i)
             /\ NameLowerOffset(new, i) = NameLowerOffset(pl, i)
             /\ NameLowerLen(new, i) = NameLowerLen(pl, i)
  <2>1. new.meta[i] = pl.meta[i]
    BY AddRecordFacts
  <2> QED
    BY <2>1 DEF PathOffset, PathLen, NameStart, NameLowerOffset, NameLowerLen
<1>3. /\ PathOffset(new, last) = offset
      /\ PathLen(new, last) = d.pathLen
      /\ NameStart(new, last) = d.nameStart
      /\ NameLowerOffset(new, last) = NameCells(pl)
      /\ NameLowerLen(new, last) = d.pathLen - d.nameStart
  <2>1. new.meta[last] =
           [pathOffset |-> offset, pathLen |-> d.pathLen,
            nameStart |-> d.nameStart, nameLowerOffset |-> NameCells(pl),
            nameLowerLen |-> d.pathLen - d.nameStart,
            stamp |-> d.stamp, deleted |-> FALSE]
    BY AddRecordFacts
  <2> QED
    BY <2>1 DEF PathOffset, PathLen, NameStart, NameLowerOffset, NameLowerLen
<1>4. d.pathLen \in Nat /\ d.nameStart \in Nat
  BY DEF DiskEntry
<1>5. /\ Size(pl) \in Nat /\ PathCells(pl) \in Nat /\ NameCells(pl) \in Nat
  BY PoolNumbers
<1>6. \A i \in 1..Size(new) : i \in 1..Size(pl) \/ i = last
  BY <1>1, <1>5
<1> HIDE DEF new
<1>7. ASSUME NEW i \in 1..Size(pl)
      PROVE  /\ NameStart(new, i) <= PathLen(new, i)
             /\ PathOffset(new, i) + PathLen(new, i) <= PathCells(new)
             /\ NameLowerOffset(new, i) + NameLowerLen(new, i) <= NameCells(new)
             /\ End(new, i) <= offset
  <2>1. /\ NameStart(pl, i) <= PathLen(pl, i)
        /\ PathOffset(pl, i) + PathLen(pl, i) <= PathCells(pl)
        /\ NameLowerOffset(pl, i) + NameLowerLen(pl, i) <= NameCells(pl)
    BY DEF Layout, ViewsInside
  <2>2. /\ PathOffset(pl, i) \in Nat /\ PathLen(pl, i) \in Nat
        /\ NameStart(pl, i) \in Nat /\ NameLowerOffset(pl, i) \in Nat
        /\ NameLowerLen(pl, i) \in Nat
    BY PoolNumbers
  <2>3. End(new, i) <= offset
    BY <1>2 DEF End
  <2> QED
    BY <1>1, <1>2, <1>4, <1>5, <2>1, <2>2, <2>3
<1>8. /\ NameStart(new, last) <= PathLen(new, last)
      /\ PathOffset(new, last) + PathLen(new, last) <= PathCells(new)
      /\ NameLowerOffset(new, last) + NameLowerLen(new, last) <= NameCells(new)
      /\ End(new, last) = offset + d.pathLen
  BY <1>1, <1>3, <1>4, <1>5 DEF End
<1>9. ViewsInside(new)
  BY <1>6, <1>7, <1>8 DEF ViewsInside
<1>10. Ordered(new)
  <2> SUFFICES ASSUME NEW i \in 1..Size(new), NEW j \in 1..Size(new), i < j
               PROVE  End(new, i) <= PathOffset(new, j)
    BY DEF Ordered
  <2>1. i \in 1..Size(pl)
    BY <1>1, <1>5
  <2>2. CASE j \in 1..Size(pl)
    BY <1>2, <2>1, <2>2 DEF Layout, Ordered, End
  <2>3. CASE j = last
    BY <1>3, <1>7, <2>1, <2>3
  <2> QED
    BY <1>6, <2>2, <2>3
<1>11. ASSUME NEW i \in 1..Size(new)
       PROVE  End(new, i) <= offset + d.pathLen
  <2>1. CASE i \in 1..Size(pl)
    <3>1. End(new, i) <= offset
      BY <1>7, <2>1
    <3>2. End(new, i) \in Nat
      <4>1. PathOffset(pl, i) \in Nat /\ PathLen(pl, i) \in Nat
        BY <2>1, PoolNumbers
      <4> QED
        BY <1>2, <2>1, <4>1 DEF End
    <3> QED
      BY <1>4, <3>1, <3>2
  <2>2. CASE i = last
    BY <1>4, <1>8, <2>2
  <2> QED
    BY <1>6, <2>1, <2>2
<1> QED
  BY <1>9, <1>10, <1>11 DEF Layout, new

----------------------------------------------------------------------------
(* The invariant. *)

\* The invariant holds when the program is started for the first time.
LEMMA InitIInv == Init => IInv
<1> SUFFICES ASSUME Init PROVE IInv
  OBVIOUS
<1>1. TypeOK
  BY EmptyPoolLayout DEF Init, TypeOK, File, NoFile
<1>2. Layout(pool) /\ Layout(fresh)
  BY EmptyPoolLayout DEF Init
<1> QED
  BY <1>1, <1>2 DEF Init, IInv, SerializingInv, WritingInv, FileInv,
                    LoadingInv, NoFile

\* The writers that change the pool under the exclusive lock: nobody is in the
\* middle of Save.
LEMMA PoolChange ==
    ASSUME IInv, readers = {}, pool' \in Pool, Layout(pool'),
           UNCHANGED <<stagingBuf, readers, file, phase, pc, scratch>>
    PROVE  IInv'
<1>1. TypeOK'
  BY DEF IInv, TypeOK, scratch
<1>2. Layout(fresh)'
  BY DEF IInv, scratch
<1>3. pc' # "serializing"
  BY DEF IInv, SerializingInv
<1>4. WritingInv' /\ FileInv' /\ LoadingInv'
  BY DEF IInv, WritingInv, FileInv, LoadingInv, scratch
<1> QED
  BY <1>1, <1>2, <1>3, <1>4 DEF IInv, SerializingInv

\* Steps that touch neither pools, records nor the file, and leave the indexing
\* thread outside of Save and Load, or where it was with the lock it holds.
LEMMA FrameStep ==
    ASSUME IInv, TypeOK', UNCHANGED <<pool, file, scratch>>,
           \/ pc' \notin {"serializing", "writing", "loading"}
           \/ pc' = pc /\ (Saver \in readers => Saver \in readers')
    PROVE  IInv'
<1>1. Layout(pool)' /\ Layout(fresh)' /\ FileInv'
  BY DEF IInv, scratch, FileInv
<1>2. SerializingInv'
  BY DEF IInv, SerializingInv, SerializeBound, scratch
<1>3. WritingInv' /\ LoadingInv'
  BY DEF IInv, WritingInv, LoadingInv, scratch
<1> QED
  BY <1>1, <1>2, <1>3 DEF IInv

\* The entries scanners and watchers hand over have their type.
LEMMA EntriesAreFileEntries == Entries \subseteq FileEntry
BY InputsAssumption DEF Entries, FileEntry

\* Searches lock and unlock, and change nothing the invariant speaks of.
LEMMA SearchStep ==
    ASSUME IInv, NEW s \in Searcher, SearchLock(s) \/ SearchUnlock(s)
    PROVE  IInv'
<1>1. TypeOK'
  BY DEF IInv, TypeOK, SearchLock, SearchUnlock, scratch
<1>2. pc' = pc /\ (Saver \in readers => Saver \in readers')
  BY StoreAssumption DEF SearchLock, SearchUnlock
<1>3. UNCHANGED <<pool, file, scratch>>
  BY DEF SearchLock, SearchUnlock
<1> QED
  BY <1>1, <1>2, <1>3, FrameStep

\* ApplyAdd, ApplyRemove, ApplyRename and RemoveEntriesUnderPath.
LEMMA ChangeStep ==
    ASSUME IInv,
           \/ \E e \in Entries : ApplyAdd(e)
           \/ \E p \in Paths : ApplyRemove(p)
           \/ \E p, q \in Paths : ApplyRename(p, q)
           \/ \E r \in Prefixes : RemoveEntriesUnderPath(r)
    PROVE  IInv'
<1>1. pool \in Pool /\ Layout(pool)
  BY DEF IInv, TypeOK
<1>2. /\ readers = {}
      /\ UNCHANGED <<stagingBuf, readers, file, phase, pc, scratch>>
  BY DEF ApplyAdd, ApplyRemove, ApplyRename, RemoveEntriesUnderPath,
         CanLockExclusive
<1>3. pool' \in Pool /\ Layout(pool')
  <2>1. ASSUME NEW e \in Entries, ApplyAdd(e)
        PROVE  pool' \in Pool /\ Layout(pool')
    <3>1. e \in FileEntry
      BY EntriesAreFileEntries
    <3>2. pool' = AddEntry(pool, e)
      BY <2>1 DEF ApplyAdd
    <3> QED
      BY <1>1, <3>1, <3>2, AddEntryFacts, AddEntryLayout
  <2>2. ASSUME NEW I, pool' = Tombstone(pool, I)
        PROVE  pool' \in Pool /\ Layout(pool')
    BY <1>1, <2>2, TombstoneLayout
  <2>3. ASSUME NEW p \in Paths, NEW q \in Paths, ApplyRename(p, q)
        PROVE  pool' \in Pool /\ Layout(pool')
    <3>1. PICK i \in FirstMatch(pool, p) :
             pool' = AddEntry(Tombstone(pool, {i}),
                              [path |-> q, stamp |-> pool.meta[i].stamp])
      BY <2>3 DEF ApplyRename
    <3>2. i \in 1..Size(pool)
      BY DEF FirstMatch, Matches, LiveIndices
    <3>3. pool.meta[i] \in EntryMeta
      BY <1>1, <3>2 DEF Pool, Size
    <3>4. [path |-> q, stamp |-> pool.meta[i].stamp] \in FileEntry
      BY <3>3, InputsAssumption DEF EntryMeta, FileEntry
    <3>5. Tombstone(pool, {i}) \in Pool /\ Layout(Tombstone(pool, {i}))
      BY <1>1, TombstoneLayout
    <3> QED
      BY <3>1, <3>4, <3>5, AddEntryFacts, AddEntryLayout
  <2>4. ASSUME NEW p \in Paths, ApplyRemove(p)
        PROVE  pool' \in Pool /\ Layout(pool')
    BY <2>2, <2>4 DEF ApplyRemove
  <2>5. ASSUME NEW r \in Prefixes, RemoveEntriesUnderPath(r)
        PROVE  pool' \in Pool /\ Layout(pool')
    BY <2>2, <2>5 DEF RemoveEntriesUnderPath
  <2> QED
    BY <2>1, <2>3, <2>4, <2>5
<1> QED
  BY <1>2, <1>3, PoolChange

\* BeginWrite, AddEntry and EndWrite.
LEMMA RebuildStep ==
    ASSUME IInv,
           \/ BeginWrite \/ EndWriteBegin \/ EndWriteBuild \/ EndWriteSwap
           \/ \E e \in Entries : StageEntry(e)
    PROVE  IInv'
<1> USE DEF scratch
<1>1. CASE BeginWrite
  <2>1. TypeOK'
    BY <1>1 DEF IInv, TypeOK, BeginWrite
  <2> QED
    BY <1>1, <2>1, FrameStep DEF BeginWrite
<1>2. ASSUME NEW e \in Entries, StageEntry(e) PROVE IInv'
  <2>1. e \in FileEntry
    BY EntriesAreFileEntries
  <2>2. TypeOK'
    BY <1>2, <2>1 DEF IInv, TypeOK, StageEntry
  <2> QED
    BY <1>2, <2>2, FrameStep DEF StageEntry
<1>3. CASE EndWriteBegin
  <2>1. TypeOK' /\ Layout(fresh)'
    BY <1>3, EmptyPoolLayout DEF IInv, TypeOK, EndWriteBegin
  <2> QED
    BY <1>3, <2>1 DEF IInv, EndWriteBegin, SerializingInv, WritingInv,
                      FileInv, LoadingInv
<1>4. CASE EndWriteBuild
  <2>1. /\ Head(stagingBuf) \in FileEntry
        /\ Tail(stagingBuf) \in Seq(FileEntry)
    BY <1>4 DEF IInv, TypeOK, EndWriteBuild
  <2>2. fresh' \in Pool /\ Layout(fresh')
    <3>1. fresh \in Pool /\ Layout(fresh)
      BY DEF IInv, TypeOK
    <3>2. fresh' = AddEntry(fresh, Head(stagingBuf))
      BY <1>4 DEF EndWriteBuild
    <3> QED
      BY <2>1, <3>1, <3>2, AddEntryFacts, AddEntryLayout
  <2>3. TypeOK'
    BY <1>4, <2>1, <2>2 DEF IInv, TypeOK, EndWriteBuild
  <2> QED
    BY <1>4, <2>2, <2>3 DEF IInv, EndWriteBuild, SerializingInv, WritingInv,
                            FileInv, LoadingInv
<1>5. CASE EndWriteSwap
  <2>1. /\ TypeOK'
        /\ Layout(fresh)' /\ Layout(pool)'
    BY <1>5, EmptyPoolLayout DEF IInv, TypeOK, EndWriteSwap
  <2> QED
    BY <1>5, <2>1 DEF IInv, EndWriteSwap, SerializingInv, WritingInv,
                      FileInv, LoadingInv
<1> QED
  BY <1>1, <1>2, <1>3, <1>4, <1>5

\* Serialize, one meta: the record of a live entry fits behind those before it,
\* because metas are in the order of their paths.
LEMMA SerializeEntryStep == ASSUME IInv, SerializeEntry PROVE IInv'
<1> DEFINE m == pool.meta[k]
           d == [pathLen |-> m.pathLen, nameStart |-> m.nameStart,
                 stamp |-> m.stamp]
<1>1. /\ pool \in Pool /\ k \in 1..Size(pool) /\ k \in Nat
      /\ buf \in Seq(DiskEntry) /\ Layout(pool)
  BY DEF IInv, TypeOK, SerializeEntry
<1>2. m \in EntryMeta
  BY <1>1 DEF Pool, Size
<1>3. /\ d \in DiskEntry
      /\ d.pathLen = PathLen(pool, k) /\ d.nameStart = NameStart(pool, k)
  BY <1>2 DEF EntryMeta, DiskEntry, PathLen, NameStart
<1>4. /\ buf' = IF m.deleted THEN buf ELSE Append(buf, d)
      /\ k' = k + 1
      /\ UNCHANGED <<pool, stagingBuf, readers, file, phase, pc, fresh,
                     runningPathOffset>>
      /\ pc = "serializing"
  BY DEF SerializeEntry
<1>5. /\ PathOffset(pool, k) \in Nat /\ PathLen(pool, k) \in Nat
      /\ Size(pool) \in Nat /\ PathCells(pool) \in Nat
  BY <1>1, PoolNumbers
<1> DEFINE bound == IF k + 1 <= Size(pool) THEN PathOffset(pool, k + 1)
                                           ELSE PathCells(pool)
<1>6. bound \in Nat
  <2>1. CASE k + 1 <= Size(pool)
    <3>1. k + 1 \in 1..Size(pool)
      BY <1>1, <2>1
    <3> QED
      BY <1>1, <2>1, <3>1, PoolNumbers
  <2> QED
    BY <1>5, <2>1
<1>7. PathOffset(pool, k) + PathLen(pool, k) <= bound
  <2>1. CASE k + 1 <= Size(pool)
    <3>1. k + 1 \in 1..Size(pool) /\ k < k + 1
      BY <1>1, <2>1
    <3>2. End(pool, k) <= PathOffset(pool, k + 1)
      BY <1>1, <3>1 DEF Layout, Ordered
    <3> QED
      BY <2>1, <3>2 DEF End
  <2>2. CASE ~(k + 1 <= Size(pool))
    BY <1>1, <2>2 DEF Layout, ViewsInside
  <2> QED
    BY <2>1, <2>2
<1>8. NameStart(pool, k) <= PathLen(pool, k)
  BY <1>1 DEF Layout, ViewsInside
<1>9. Fits(buf, PathOffset(pool, k))
  BY <1>1, <1>4 DEF IInv, SerializingInv, SerializeBound
<1>10. SerializeBound' = bound
  BY <1>4 DEF SerializeBound
<1> HIDE DEF m, d, bound
<1>11. Fits(buf', bound)
  <2>1. CASE m.deleted
    <3>1. buf' = buf /\ PathOffset(pool, k) <= bound
      BY <1>4, <1>5, <1>6, <1>7, <2>1
    <3> QED
      BY <1>1, <1>5, <1>6, <1>9, <3>1, FitsMonotone
  <2>2. CASE ~m.deleted
    <3>1. buf' = Append(buf, d)
      BY <1>4, <2>2
    <3>2. d.nameStart <= d.pathLen
      BY <1>3, <1>8
    <3>3. PathOffset(pool, k) + d.pathLen <= bound
      BY <1>3, <1>7
    <3> QED
      BY <1>1, <1>3, <1>5, <1>6, <1>9, <3>1, <3>2, <3>3, FitsAppend
  <2> QED
    BY <2>1, <2>2
<1>12. buf' \in Seq(DiskEntry)
  BY <1>1, <1>3, <1>4
<1>13. TypeOK'
  BY <1>1, <1>4, <1>12 DEF IInv, TypeOK
<1>14. SerializingInv'
  <2>1. Saver \in readers' /\ fresh'.pathPool = pool'.pathPool
    BY <1>4 DEF IInv, SerializingInv
  <2> QED
    BY <1>10, <1>11, <2>1 DEF SerializingInv
<1> QED
  BY <1>4, <1>13, <1>14 DEF IInv, WritingInv, FileInv, LoadingInv

\* Save: its lock, the loop, the file.
LEMMA SaveStep ==
    ASSUME IInv,
           \/ SaveLock \/ SerializeEntry \/ SaveOpen \/ SaveOpenFails
           \/ SaveWrite \/ SaveWriteFails
    PROVE  IInv'
<1> USE DEF scratch
<1>1. pool \in Pool /\ fresh \in Pool
  BY DEF IInv, TypeOK
<1>2. CASE SaveLock
  <2>1. fresh' = [meta |-> <<>>, nameLowerPool |-> <<>>,
                  pathPool |-> pool.pathPool]
    BY <1>2 DEF SaveLock, EmptyPool
  <2>2. fresh' \in Pool /\ fresh'.pathPool = pool.pathPool /\ Size(fresh') = 0
    BY <1>1, <2>1 DEF Pool, Size
  <2>3. Layout(fresh')
    BY <2>2 DEF Layout, ViewsInside, Ordered
  <2>4. TypeOK'
    BY <1>2, <2>2 DEF IInv, TypeOK, SaveLock
  <2>5. SerializeBound' \in Nat
    <3>1. pool' = pool /\ k' = 1
      BY <1>2 DEF SaveLock
    <3>2. Size(pool) \in Nat /\ PathCells(pool) \in Nat
      BY <1>1, PoolNumbers
    <3>3. 1 <= Size(pool) => PathOffset(pool, 1) \in Nat
      BY <1>1, <3>2, PoolNumbers
    <3> QED
      BY <3>1, <3>2, <3>3 DEF SerializeBound
  <2>6. Fits(buf', SerializeBound')
    BY <1>2, <2>5, FitsEmpty DEF SaveLock
  <2>7. SerializingInv'
    BY <1>2, <2>2, <2>6 DEF SaveLock, SerializingInv
  <2> QED
    BY <1>2, <2>3, <2>4, <2>7 DEF IInv, SaveLock, WritingInv, FileInv,
                                  LoadingInv
<1>3. CASE SaveOpen
  <2>1. TypeOK'
    <3>1. file' \in File
      BY <1>3 DEF SaveOpen, TornFile, File
    <3> QED
      BY <1>3, <3>1 DEF IInv, TypeOK, SaveOpen
  <2>2. Fits(buf, PathCells(fresh))
    <3>1. Fits(buf, SerializeBound) /\ fresh.pathPool = pool.pathPool
      BY <1>3 DEF IInv, SerializingInv, SaveOpen
    <3>2. ~(k <= Size(pool))
      <4>1. k \in Nat /\ Size(pool) \in Nat
        BY <1>1, PoolNumbers DEF IInv, TypeOK
      <4> QED
        BY <1>3, <4>1 DEF SaveOpen
    <3> QED
      BY <3>1, <3>2 DEF SerializeBound, PathCells
  <2> QED
    BY <1>3, <2>1, <2>2 DEF IInv, SaveOpen, TornFile, SerializingInv,
                            WritingInv, FileInv, LoadingInv
<1>4. CASE SaveWrite
  <2>1. /\ file' = [state |-> "ok", pathPool |-> fresh.pathPool,
                    entries |-> buf]
        /\ fresh.pathPool \in Seq(Component)
        /\ buf \in Seq(DiskEntry)
    BY <1>1, <1>4 DEF IInv, TypeOK, SaveWrite, Pool
  <2>2. file' \in File
    BY <2>1 DEF File
  <2>3. TypeOK' /\ Layout(fresh)'
    BY <1>4, <2>2, EmptyPoolLayout DEF IInv, TypeOK, SaveWrite, SaveDone
  <2>4. Fits(file'.entries, Len(file'.pathPool))
    <3>1. Fits(buf, PathCells(fresh))
      BY <1>4 DEF IInv, WritingInv, SaveWrite
    <3>2. file'.entries = buf /\ file'.pathPool = fresh.pathPool
      BY <2>1
    <3> QED
      BY <3>1, <3>2 DEF PathCells
  <2> QED
    BY <1>4, <2>3, <2>4 DEF IInv, SaveWrite, SaveDone, SerializingInv,
                            WritingInv, FileInv, LoadingInv
<1>5. CASE SaveOpenFails \/ SaveWriteFails
  <2>1. TypeOK' /\ Layout(fresh)'
    <3>1. /\ readers' \subseteq readers /\ pc' = "idle" /\ fresh' = EmptyPool
          /\ buf' = <<>> /\ k' = 1
          /\ UNCHANGED <<pool, stagingBuf, file, phase, runningPathOffset>>
      BY <1>5 DEF SaveOpenFails, SaveWriteFails, SaveDone
    <3>2. <<>> \in Seq(DiskEntry)
      OBVIOUS
    <3> QED
      BY <3>1, <3>2, EmptyPoolLayout DEF IInv, TypeOK
  <2> QED
    BY <1>5, <2>1 DEF IInv, SaveOpenFails, SaveWriteFails, SaveDone,
                      SerializingInv, WritingInv, FileInv, LoadingInv
<1> QED
  BY <1>2, <1>3, <1>4, <1>5, SerializeEntryStep

\* Deserialize, one record: its path is where the file has room for it.
LEMMA LoadEntryStep == ASSUME IInv, LoadEntry PROVE IInv'
<1> DEFINE d == buf[k]
           n == PathCells(fresh)
<1>1. /\ pc = "loading" /\ k <= Len(buf) /\ k \in Nat \ {0}
      /\ fresh \in Pool /\ Layout(fresh)
      /\ buf \in Seq(DiskEntry) /\ runningPathOffset \in Nat
      /\ fresh' = AddRecord(fresh, buf[k], runningPathOffset)
      /\ runningPathOffset' = runningPathOffset + buf[k].pathLen
      /\ k' = k + 1
      /\ UNCHANGED <<pool, stagingBuf, readers, file, phase, pc, buf>>
  BY DEF IInv, TypeOK, LoadEntry
<1>2. k \in 1..Len(buf) /\ Len(buf) \in Nat
  BY <1>1
<1>3. d \in DiskEntry /\ d.pathLen \in Nat /\ d.pathLen = RecordLen(buf, k)
  <2>1. d \in DiskEntry
    BY <1>1, <1>2
  <2> QED
    BY <2>1 DEF DiskEntry, RecordLen
<1>4. d.nameStart <= d.pathLen
  BY <1>1, <1>2 DEF IInv, LoadingInv, NamesInside, RecordLen
<1>5. PICK offset \in [1..(Len(buf) + 1) -> 0..n] :
         IsOffsets(offset, buf, n) /\ runningPathOffset = offset[k]
  BY <1>1 DEF IInv, LoadingInv
<1>6. n \in Nat
  BY <1>1, PoolNumbers
<1>7. offset[k + 1] = runningPathOffset + d.pathLen
  BY <1>2, <1>3, <1>5 DEF IsOffsets
<1>8. offset[k + 1] \in 0..n
  BY <1>2, <1>5
<1>9. runningPathOffset + d.pathLen <= n
  BY <1>6, <1>7, <1>8
<1>10. \A i \in 1..Size(fresh) : End(fresh, i) <= runningPathOffset
  BY <1>1 DEF IInv, LoadingInv
<1> HIDE DEF d
<1>11. fresh' = AddRecord(fresh, d, runningPathOffset)
  BY <1>1 DEF d
<1>12. fresh' \in Pool /\ PathCells(fresh') = n
  <2>1. fresh \in Pool /\ runningPathOffset \in Nat
    BY <1>1
  <2> QED
    BY <2>1, <1>3, <1>4, <1>9, <1>11, AddRecordFacts
<1>13. /\ Layout(fresh')
       /\ \A i \in 1..Size(fresh') :
             End(fresh', i) <= runningPathOffset + d.pathLen
  BY <1>1, <1>3, <1>4, <1>9, <1>10, <1>11, AddRecordLayout
<1>14. runningPathOffset' = runningPathOffset + d.pathLen
  BY <1>1 DEF d
<1>15. TypeOK'
  <2>1. runningPathOffset' \in Nat /\ k' \in Nat \ {0}
    BY <1>1, <1>3, <1>14
  <2> QED
    BY <1>1, <1>12, <2>1 DEF IInv, TypeOK
<1>16. LoadingInv'
  <2>1. NamesInside(buf') /\ k' <= Len(buf') + 1
    BY <1>1, <1>2 DEF IInv, LoadingInv
  <2>2. runningPathOffset' = offset[k']
    BY <1>1, <1>7, <1>14
  <2>3. \A i \in 1..Size(fresh') : End(fresh', i) <= runningPathOffset'
    BY <1>13, <1>14
  <2>4. buf' = buf /\ PathCells(fresh') = n
    BY <1>1, <1>12
  <2>5. \E o \in [1..(Len(buf') + 1) -> 0..PathCells(fresh')] :
           IsOffsets(o, buf', PathCells(fresh')) /\ runningPathOffset' = o[k']
    BY <1>5, <2>2, <2>4
  <2> QED
    BY <2>1, <2>3, <2>5 DEF LoadingInv
<1> QED
  BY <1>1, <1>13, <1>15, <1>16 DEF IInv, SerializingInv, WritingInv, FileInv

\* Load: the file accepted or not, the loop, the swap.
LEMMA LoadStep ==
    ASSUME IInv, LoadRejects \/ LoadOpen \/ LoadEntry \/ LoadSwap
    PROVE  IInv'
<1> USE DEF scratch
<1>1. CASE LoadRejects
  <2>1. TypeOK' /\ Layout(pool)'
    BY <1>1, EmptyPoolLayout DEF IInv, TypeOK, LoadRejects
  <2> QED
    BY <1>1, <2>1 DEF IInv, LoadRejects, SerializingInv, WritingInv, FileInv,
                      LoadingInv
<1>2. CASE LoadOpen
  <2>1. /\ file \in File
        /\ file.pathPool \in Seq(Component)
        /\ file.entries \in Seq(DiskEntry)
    BY DEF IInv, TypeOK, File
  <2>2. fresh' = [meta |-> <<>>, nameLowerPool |-> <<>>,
                  pathPool |-> file.pathPool]
    BY <1>2 DEF LoadOpen, EmptyPool
  <2>3. /\ fresh' \in Pool /\ Size(fresh') = 0
        /\ PathCells(fresh') = Len(file.pathPool)
    BY <2>1, <2>2 DEF Pool, Size, PathCells
  <2>4. Layout(fresh')
    BY <2>3 DEF Layout, ViewsInside, Ordered
  <2>5. TypeOK'
    BY <1>2, <2>1, <2>3 DEF IInv, TypeOK, LoadOpen
  <2>6. Fits(buf', PathCells(fresh'))
    BY <1>2, <2>3 DEF IInv, FileInv, LoadOpen
  <2>7. LoadingInv'
    <3>1. PICK offset \in [1..(Len(buf') + 1) -> 0..PathCells(fresh')] :
             IsOffsets(offset, buf', PathCells(fresh'))
      BY <2>6 DEF Fits
    <3>2. runningPathOffset' = offset[k']
      BY <1>2, <3>1 DEF LoadOpen, IsOffsets
    <3>3. Len(buf') \in Nat /\ k' = 1
      BY <1>2, <2>1 DEF LoadOpen
    <3> QED
      BY <2>3, <2>6, <3>1, <3>2, <3>3 DEF LoadingInv, Fits
  <2> QED
    BY <1>2, <2>4, <2>5, <2>7 DEF IInv, LoadOpen, SerializingInv, WritingInv,
                                  FileInv
<1>3. CASE LoadSwap
  <2>1. TypeOK' /\ Layout(pool)' /\ Layout(fresh)'
    BY <1>3, EmptyPoolLayout DEF IInv, TypeOK, LoadSwap
  <2> QED
    BY <1>3, <2>1 DEF IInv, LoadSwap, SerializingInv, WritingInv, FileInv,
                      LoadingInv
<1> QED
  BY <1>1, <1>2, <1>3, LoadEntryStep

\* After a crash only the file is left, of which the invariant says enough.
LEMMA CrashStep == ASSUME IInv, Crash PROVE IInv'
<1>1. TypeOK' /\ Layout(pool)' /\ Layout(fresh)'
  BY EmptyPoolLayout DEF IInv, TypeOK, Crash
<1> QED
  BY <1>1 DEF IInv, Crash, SerializingInv, WritingInv, FileInv, LoadingInv

\* The invariant is inductive.
LEMMA NextIInv == IInv /\ [Next]_vars => IInv'
<1> SUFFICES ASSUME IInv, [Next]_vars PROVE IInv'
  OBVIOUS
<1>1. CASE \E s \in Searcher : SearchLock(s) \/ SearchUnlock(s)
  BY <1>1, SearchStep
<1>2. CASE \/ \E e \in Entries : ApplyAdd(e)
           \/ \E p \in Paths : ApplyRemove(p)
           \/ \E p, q \in Paths : ApplyRename(p, q)
           \/ \E r \in Prefixes : RemoveEntriesUnderPath(r)
  BY <1>2, ChangeStep
<1>3. CASE \/ BeginWrite \/ EndWriteBegin \/ EndWriteBuild \/ EndWriteSwap
           \/ \E e \in Entries : StageEntry(e)
  BY <1>3, RebuildStep
<1>4. CASE \/ SaveLock \/ SerializeEntry \/ SaveOpen \/ SaveOpenFails
           \/ SaveWrite \/ SaveWriteFails
  BY <1>4, SaveStep
<1>5. CASE LoadRejects \/ LoadOpen \/ LoadEntry \/ LoadSwap
  BY <1>5, LoadStep
<1>6. CASE Crash
  BY <1>6, CrashStep
<1>7. CASE UNCHANGED vars
  BY <1>7 DEF vars, IInv, TypeOK, Layout, SerializingInv, SerializeBound,
              WritingInv, FileInv, LoadingInv
<1> QED
  BY <1>1, <1>2, <1>3, <1>4, <1>5, <1>6, <1>7 DEF Next

\* Every variable keeps its type: in particular the numbers Deserialize
\* computes from a file are naturals and its views are sequences of characters.
THEOREM TypeCorrect == Spec => []TypeOK
<1>1. IInv => TypeOK
  BY DEF IInv
<1> QED
  BY <1>1, InitIInv, NextIInv, PTL DEF Spec

\* The views of the index stay inside its character pools in every reachable
\* state: after any history of additions, removals, renames, rebuilds, saves,
\* crashes in the middle of a save, and loads.
THEOREM ViewsAlwaysInBounds == Spec => []ViewsInBounds
<1>1. IInv => ViewsInBounds
  BY DEF IInv, Layout, ViewsInBounds
<1> QED
  BY <1>1, InitIInv, NextIInv, PTL DEF Spec


\* No writer changes the pool while a search thread, or Save, holds the lock
\* shared: the pointers and views taken under the lock stay good.  A crash, which
\* takes the holders with it, is the only change that happens with readers.
THEOREM PoolIsStableUnderReaders == Spec => PoolStableUnderReaders
<1>1. ASSUME [Next]_vars, pool' # pool
      PROVE  readers = {} \/ readers' = {}
  <2>1. CASE UNCHANGED vars
    BY <1>1, <2>1 DEF vars
  <2>2. CASE \E s \in Searcher : SearchLock(s) \/ SearchUnlock(s)
    BY <1>1, <2>2 DEF SearchLock, SearchUnlock
  <2>3. CASE \/ \E e \in Entries : ApplyAdd(e)
             \/ \E p \in Paths : ApplyRemove(p)
             \/ \E p, q \in Paths : ApplyRename(p, q)
             \/ \E r \in Prefixes : RemoveEntriesUnderPath(r)
    BY <2>3 DEF ApplyAdd, ApplyRemove, ApplyRename, RemoveEntriesUnderPath,
                CanLockExclusive
  <2>4. CASE EndWriteSwap \/ LoadRejects \/ LoadSwap
    BY <2>4 DEF EndWriteSwap, LoadRejects, LoadSwap, CanLockExclusive
  <2>5. CASE \/ \E e \in Entries : StageEntry(e)
             \/ BeginWrite \/ EndWriteBegin \/ EndWriteBuild
    BY <1>1, <2>5 DEF StageEntry, BeginWrite, EndWriteBegin, EndWriteBuild
  <2>6. CASE \/ SaveLock \/ SerializeEntry \/ SaveOpen \/ SaveOpenFails
             \/ SaveWrite \/ SaveWriteFails
    BY <1>1, <2>6 DEF SaveLock, SerializeEntry, SaveOpen, SaveOpenFails,
                      SaveWrite, SaveWriteFails, SaveDone
  <2>7. CASE LoadOpen \/ LoadEntry
    BY <1>1, <2>7 DEF LoadOpen, LoadEntry
  <2>8. CASE Crash
    BY <2>8 DEF Crash
  <2> QED
    BY <1>1, <2>1, <2>2, <2>3, <2>4, <2>5, <2>6, <2>7, <2>8 DEF Next
<1>2. [Next]_vars => [readers \cap readers' # {} => pool' = pool]_vars
  BY <1>1
<1> QED
  BY <1>2, PTL DEF Spec, PoolStableUnderReaders

----------------------------------------------------------------------------
(* The lowercased names.  The invariant is about tombstones, too, and about *)
(* the pool that a rebuild or Load is just making.                          *)

Named(pl) ==
    \A i \in 1..Size(pl) : GetNameLower(pl, i) = LowerSeq(GetName(pl, i))

LowerInv == Named(pool) /\ Named(fresh)

\* A view inside of the pool, character by character.
LEMMA ViewFacts ==
    ASSUME NEW cells \in Seq(Component), NEW offset \in Nat, NEW len \in Nat,
           offset + len <= Len(cells)
    PROVE  /\ View(cells, offset, len) \in Seq(Component)
           /\ Len(View(cells, offset, len)) = len
           /\ \A i \in 1..len : View(cells, offset, len)[i] = cells[offset + i]
<1>1. /\ offset + 1 \in Int /\ offset + len \in Int
      /\ \A i \in (offset + 1)..(offset + len) : cells[i] \in Component
  <2>1. Len(cells) \in Nat
    BY LenProperties
  <2>2. \A i \in (offset + 1)..(offset + len) : i \in 1..Len(cells)
    BY <2>1
  <2> QED
    BY <2>2
<1> DEFINE v == SubSeq(cells, offset + 1, offset + len)
<1>2. /\ v \in Seq(Component)
      /\ Len(v) = IF offset + 1 <= offset + len
                  THEN offset + len - (offset + 1) + 1 ELSE 0
      /\ \A i \in 1..(offset + len - (offset + 1) + 1) :
            v[i] = cells[offset + 1 + i - 1]
  BY <1>1, SubSeqProperties
<1> HIDE DEF v
<1>3. Len(v) = len
  BY <1>2
<1>4. ASSUME NEW i \in 1..len
      PROVE  v[i] = cells[offset + i]
  <2>1. i \in 1..(offset + len - (offset + 1) + 1) /\ offset + 1 + i - 1 = offset + i
    OBVIOUS
  <2> QED
    BY <1>2, <2>1
<1> QED
  BY <1>2, <1>3, <1>4 DEF View, v

\* What is appended to a pool does not show in the views there are.
LEMMA ViewConcat ==
    ASSUME NEW cells \in Seq(Component), NEW more \in Seq(Component),
           NEW offset \in Nat, NEW len \in Nat, offset + len <= Len(cells)
    PROVE  View(cells \o more, offset, len) = View(cells, offset, len)
<1> DEFINE all == cells \o more
           n == Len(cells)
           m == Len(more)
<1>1. /\ all \in Seq(Component) /\ Len(all) = n + m /\ n \in Nat /\ m \in Nat
      /\ \A i \in 1..(n + m) : all[i] = IF i <= n THEN cells[i] ELSE more[i - n]
  BY ConcatProperties, LenProperties
<1> HIDE DEF all
<1>2. offset + len <= n /\ offset + len <= Len(all)
  BY <1>1
<1>3. /\ View(all, offset, len) \in Seq(Component)
      /\ Len(View(all, offset, len)) = len
      /\ \A i \in 1..len : View(all, offset, len)[i] = all[offset + i]
  BY <1>1, <1>2, ViewFacts, ZenonT(40)
<1>4. /\ View(cells, offset, len) \in Seq(Component)
      /\ Len(View(cells, offset, len)) = len
      /\ \A i \in 1..len : View(cells, offset, len)[i] = cells[offset + i]
  BY ViewFacts
<1>5. \A i \in 1..len : all[offset + i] = cells[offset + i]
  <2> TAKE i \in 1..len
  <2>1. offset + i \in 1..(n + m) /\ offset + i <= n
    BY <1>1, <1>2
  <2> QED
    BY <1>1, <2>1
<1>6. View(all, offset, len) = View(cells, offset, len)
  BY <1>3, <1>4, <1>5, SeqEqual
<1> QED
  BY <1>6 DEF all

LEMMA ViewAppended ==
    ASSUME NEW cells \in Seq(Component), NEW more \in Seq(Component)
    PROVE  View(cells \o more, Len(cells), Len(more)) = more
<1> DEFINE all == cells \o more
           n == Len(cells)
           m == Len(more)
<1>1. /\ all \in Seq(Component) /\ Len(all) = n + m /\ n \in Nat /\ m \in Nat
      /\ \A i \in 1..(n + m) : all[i] = IF i <= n THEN cells[i] ELSE more[i - n]
  BY ConcatProperties, LenProperties
<1> HIDE DEF all
<1>2. n + m <= Len(all)
  BY <1>1
<1>3. /\ View(all, n, m) \in Seq(Component)
      /\ Len(View(all, n, m)) = m
      /\ \A i \in 1..m : View(all, n, m)[i] = all[n + i]
  BY <1>1, <1>2, ViewFacts
<1>4. \A i \in 1..m : all[n + i] = more[i]
  <2> TAKE i \in 1..m
  <2>1. n + i \in 1..(n + m) /\ ~(n + i <= n) /\ n + i - n = i
    BY <1>1
  <2> QED
    BY <1>1, <2>1
<1>5. View(all, n, m) = more
  BY <1>3, <1>4, SeqEqual
<1> QED
  BY <1>5 DEF all

\* A pool that grows at its ends keeps the names it has.
LEMMA GrownNamed ==
    ASSUME NEW pl \in Pool, NEW new \in Pool, ViewsInside(pl), Named(pl),
           NEW names \in Seq(Component), NEW paths \in Seq(Component),
           new.nameLowerPool = pl.nameLowerPool \o names,
           new.pathPool = pl.pathPool \o paths,
           \A i \in 1..Size(pl) : new.meta[i] = pl.meta[i],
           Size(new) = Size(pl) + 1,
           GetNameLower(new, Size(pl) + 1) = LowerSeq(GetName(new, Size(pl) + 1))
    PROVE  Named(new)
<1>1. /\ pl.nameLowerPool \in Seq(Component) /\ pl.pathPool \in Seq(Component)
      /\ Size(pl) \in Nat
  BY PoolNumbers DEF Pool
<1> SUFFICES ASSUME NEW i \in 1..Size(pl)
             PROVE  GetNameLower(new, i) = LowerSeq(GetName(new, i))
  BY <1>1 DEF Named
<1> DEFINE o == PathOffset(pl, i)
           l == PathLen(pl, i)
           s == NameStart(pl, i)
           p == NameLowerOffset(pl, i)
           q == NameLowerLen(pl, i)
<1>2. /\ o \in Nat /\ l \in Nat /\ s \in Nat /\ p \in Nat /\ q \in Nat
      /\ s <= l /\ o + l <= Len(pl.pathPool) /\ p + q <= Len(pl.nameLowerPool)
  BY PoolNumbers DEF ViewsInside, PathCells, NameCells
<1>3. /\ PathOffset(new, i) = o /\ PathLen(new, i) = l /\ NameStart(new, i) = s
      /\ NameLowerOffset(new, i) = p /\ NameLowerLen(new, i) = q
  BY DEF PathOffset, PathLen, NameStart, NameLowerOffset, NameLowerLen
<1> HIDE DEF o, l, s, p, q
<1>4. View(new.nameLowerPool, p, q) = View(pl.nameLowerPool, p, q)
  BY <1>1, <1>2, ViewConcat
<1>5. View(new.pathPool, o + s, l - s) = View(pl.pathPool, o + s, l - s)
  <2>1. o + s \in Nat /\ l - s \in Nat /\ (o + s) + (l - s) <= Len(pl.pathPool)
    BY <1>2
  <2> QED
    BY <1>1, <2>1, ViewConcat
<1>6. /\ GetNameLower(new, i) = View(pl.nameLowerPool, p, q)
      /\ GetName(new, i) = View(pl.pathPool, o + s, l - s)
  BY <1>3, <1>4, <1>5 DEF GetName, GetNameLower
<1>7. View(pl.nameLowerPool, p, q) = LowerSeq(View(pl.pathPool, o + s, l - s))
  BY DEF Named, GetName, GetNameLower, o, l, s, p, q
<1> QED
  BY <1>6, <1>7

LEMMA LastOfConcat ==
    ASSUME NEW s \in Seq(Component), NEW t \in Seq(Component), Len(t) > 0,
           NEW all, all = s \o t
    PROVE  /\ all \in Seq(Component) /\ Len(all) = Len(s) + Len(t)
           /\ all[Len(s) + Len(t)] = t[Len(t)]
<1>1. /\ Len(s) \in Nat /\ Len(t) \in Nat
      /\ Len(s) + Len(t) \in 1..(Len(s) + Len(t)) /\ ~(Len(s) + Len(t) <= Len(s))
      /\ Len(s) + Len(t) - Len(s) = Len(t)
  BY LenProperties
<1> QED
  BY <1>1, ConcatProperties

LEMMA AddEntryNamed ==
    ASSUME NEW pl \in Pool, NEW e \in FileEntry, Layout(pl), Named(pl)
    PROVE  Named(AddEntry(pl, e))
<1> DEFINE new == AddEntry(pl, e)
           last == Size(pl) + 1
           n == Len(e.path)
           name == <<Lower[e.path[n]]>>
<1>1. /\ new \in Pool /\ Size(new) = last
      /\ \A i \in 1..Size(pl) : new.meta[i] = pl.meta[i]
      /\ new.meta[last] =
            [pathOffset |-> PathCells(pl), pathLen |-> n, nameStart |-> n - 1,
             nameLowerOffset |-> NameCells(pl), nameLowerLen |-> 1,
             stamp |-> e.stamp, deleted |-> FALSE]
  BY AddEntryFacts
<1>2. /\ pl.nameLowerPool \in Seq(Component) /\ pl.pathPool \in Seq(Component)
      /\ PathCells(pl) = Len(pl.pathPool) /\ NameCells(pl) = Len(pl.nameLowerPool)
      /\ PathCells(pl) \in Nat /\ NameCells(pl) \in Nat
  BY PoolNumbers DEF Pool, PathCells, NameCells
<1>3. e.path \in Seq(Component) /\ n \in Nat /\ n > 0 /\ e.path[n] \in Component
  BY DEF FileEntry, Path
<1>4. Lower[e.path[n]] \in Component
  BY <1>3, LowerAssumption
<1>5. /\ new.nameLowerPool = pl.nameLowerPool \o name
      /\ new.pathPool = pl.pathPool \o e.path
  BY DEF AddEntry
<1>6. name \in Seq(Component) /\ Len(name) = 1 /\ name[1] = Lower[e.path[n]]
  <2>1. \A c \in Component :
           <<c>> \in Seq(Component) /\ Len(<<c>>) = 1 /\ <<c>>[1] = c
    OBVIOUS
  <2> QED
    BY <1>4, <2>1
<1>7. /\ PathOffset(new, last) = PathCells(pl) /\ PathLen(new, last) = n
      /\ NameStart(new, last) = n - 1
      /\ NameLowerOffset(new, last) = NameCells(pl) /\ NameLowerLen(new, last) = 1
  BY <1>1 DEF PathOffset, PathLen, NameStart, NameLowerOffset, NameLowerLen
<1> HIDE DEF new, name
<1>8. GetNameLower(new, last) = name
  <2>1. View(new.nameLowerPool, Len(pl.nameLowerPool), Len(name)) = name
    BY <1>2, <1>5, <1>6, ViewAppended
  <2> QED
    BY <1>2, <1>6, <1>7, <2>1 DEF GetNameLower
<1>9. LowerSeq(GetName(new, last)) = name
  <2> DEFINE c == PathCells(pl)
             v == View(new.pathPool, c + (n - 1), n - (n - 1))
  <2>1. /\ new.pathPool \in Seq(Component)
        /\ Len(new.pathPool) = Len(pl.pathPool) + Len(e.path)
        /\ new.pathPool[Len(pl.pathPool) + Len(e.path)] = e.path[Len(e.path)]
    BY <1>2, <1>3, <1>5, LastOfConcat, ZenonT(40)
  <2>2. /\ c \in Nat /\ Len(pl.pathPool) = c /\ Len(e.path) = n
        /\ Len(new.pathPool) = c + n
        /\ new.pathPool[c + n] = e.path[n]
    BY <1>2, <2>1
  <2>3. GetName(new, last) = v
    BY <1>7 DEF GetName
  <2> HIDE DEF c, n, v
  <2>4. /\ c + (n - 1) \in Nat /\ n - (n - 1) = 1 /\ 1 \in 1..1 /\ 1 \in Nat
        /\ c + (n - 1) + 1 = c + n /\ c + n <= Len(new.pathPool)
    BY <1>3, <2>2
  <2>6. View(new.pathPool, c + (n - 1), 1) = v
    BY <2>4 DEF v
  <2>7. v \in Seq(Component) /\ Len(v) = 1 /\ v[1] = new.pathPool[c + (n - 1) + 1]
    BY <2>1, <2>4, <2>6, ViewFacts
  <2>8. LowerSeq(v) = [i \in 1..1 |-> Lower[e.path[n]]]
    BY <2>2, <2>4, <2>7 DEF LowerSeq
  <2>9. [i \in 1..1 |-> Lower[e.path[n]]] = name
    <3>1. [i \in 1..1 |-> Lower[e.path[n]]] \in Seq(Component)
      BY <1>4
    <3>2. Len([i \in 1..1 |-> Lower[e.path[n]]]) = 1
      OBVIOUS
    <3> QED
      BY <1>6, <3>1, <3>2, SeqEqual
  <2> QED
    BY <2>3, <2>8, <2>9
<1> QED
  BY <1>1, <1>3, <1>5, <1>6, <1>8, <1>9, GrownNamed DEF Layout, new

LEMMA TombstoneNamed ==
    ASSUME NEW pl \in Pool, NEW I, Named(pl)
    PROVE  Named(Tombstone(pl, I))
<1> DEFINE new   == Tombstone(pl, I)
           metas == [i \in 1..Size(pl) |->
                        IF i \in I THEN [pl.meta[i] EXCEPT !.deleted = TRUE]
                                   ELSE pl.meta[i]]
<1>1. /\ pl.meta \in Seq(EntryMeta) /\ Size(pl) \in Nat
      /\ pl = [meta |-> pl.meta, nameLowerPool |-> pl.nameLowerPool,
               pathPool |-> pl.pathPool]
  BY PoolNumbers DEF Pool
<1>2. ASSUME NEW i \in 1..Size(pl)
      PROVE  /\ metas[i].pathOffset = pl.meta[i].pathOffset
             /\ metas[i].pathLen = pl.meta[i].pathLen
             /\ metas[i].nameStart = pl.meta[i].nameStart
             /\ metas[i].nameLowerOffset = pl.meta[i].nameLowerOffset
             /\ metas[i].nameLowerLen = pl.meta[i].nameLowerLen
  <2>1. pl.meta[i] \in EntryMeta
    BY <1>1 DEF Size
  <2> QED
    BY <2>1 DEF EntryMeta
<1>3. Len(metas) = Size(pl)
  BY <1>1
<1> HIDE DEF metas
<1>4. new = [meta |-> metas, nameLowerPool |-> pl.nameLowerPool,
             pathPool |-> pl.pathPool]
  <2>1. new = [pl EXCEPT !.meta = metas]
    BY DEF Tombstone, metas
  <2> HIDE DEF new
  <2> QED
    BY <1>1, <2>1
<1> HIDE DEF new
<1>5. Size(new) = Size(pl)
  BY <1>3, <1>4 DEF Size
<1>6. \A i \in 1..Size(pl) : /\ GetName(new, i) = GetName(pl, i)
                             /\ GetNameLower(new, i) = GetNameLower(pl, i)
  BY <1>2, <1>4 DEF GetName, GetNameLower, PathOffset, PathLen, NameStart,
                    NameLowerOffset, NameLowerLen
<1> QED
  BY <1>5, <1>6 DEF Named, new

LEMMA AddRecordNamed ==
    ASSUME NEW pl \in Pool, NEW d \in DiskEntry, NEW offset \in Nat,
           d.nameStart <= d.pathLen, offset + d.pathLen <= PathCells(pl),
           Layout(pl), Named(pl)
    PROVE  Named(AddRecord(pl, d, offset))
<1> DEFINE new     == AddRecord(pl, d, offset)
           last    == Size(pl) + 1
           nameLen == d.pathLen - d.nameStart
           src     == View(pl.pathPool, offset + d.nameStart, nameLen)
           name    == LowerSeq(src)
<1>1. /\ new \in Pool /\ Size(new) = last
      /\ \A i \in 1..Size(pl) : new.meta[i] = pl.meta[i]
      /\ new.meta[last] =
            [pathOffset |-> offset, pathLen |-> d.pathLen,
             nameStart |-> d.nameStart, nameLowerOffset |-> NameCells(pl),
             nameLowerLen |-> nameLen, stamp |-> d.stamp, deleted |-> FALSE]
  BY AddRecordFacts
<1>2. /\ pl.nameLowerPool \in Seq(Component) /\ pl.pathPool \in Seq(Component)
      /\ PathCells(pl) = Len(pl.pathPool) /\ NameCells(pl) = Len(pl.nameLowerPool)
      /\ PathCells(pl) \in Nat /\ NameCells(pl) \in Nat
  BY PoolNumbers DEF Pool, PathCells, NameCells
<1>3. d.pathLen \in Nat /\ d.nameStart \in Nat /\ nameLen \in Nat
  BY DEF DiskEntry
<1>4. src \in Seq(Component) /\ Len(src) = nameLen
  <2>1. /\ offset + d.nameStart \in Nat
        /\ (offset + d.nameStart) + nameLen <= Len(pl.pathPool)
    BY <1>2, <1>3
  <2> QED
    BY <1>2, <1>3, <2>1, ViewFacts, SMTT(30)
<1>5. /\ new.nameLowerPool = pl.nameLowerPool \o name
      /\ new.pathPool = pl.pathPool
  BY DEF AddRecord
<1>6. /\ PathOffset(new, last) = offset /\ PathLen(new, last) = d.pathLen
      /\ NameStart(new, last) = d.nameStart
      /\ NameLowerOffset(new, last) = NameCells(pl)
      /\ NameLowerLen(new, last) = nameLen
  BY <1>1 DEF PathOffset, PathLen, NameStart, NameLowerOffset, NameLowerLen
<1>7. GetName(new, last) = src
  BY <1>5, <1>6 DEF GetName
<1> HIDE DEF new, src, nameLen
<1>8. name \in Seq(Component) /\ Len(name) = nameLen
  <2>1. \A i \in 1..Len(src) : Lower[src[i]] \in Component
    BY <1>4, LowerAssumption
  <2> QED
    BY <1>3, <1>4, <2>1 DEF LowerSeq
<1> HIDE DEF name
<1>9. GetNameLower(new, last) = name
  <2>1. View(new.nameLowerPool, Len(pl.nameLowerPool), Len(name)) = name
    BY <1>2, <1>5, <1>8, ViewAppended
  <2> QED
    BY <1>2, <1>6, <1>8, <2>1 DEF GetNameLower
<1>10. GetNameLower(new, last) = LowerSeq(GetName(new, last))
  BY <1>7, <1>9 DEF name
<1>11. PICK none \in Seq(Component) : new.pathPool = pl.pathPool \o none
  BY <1>2, <1>5, EmptySeq, ConcatEmptySeq
<1> QED
  BY <1>1, <1>5, <1>8, <1>10, <1>11, GrownNamed DEF Layout, new

LEMMA NoEntriesNamed == ASSUME NEW pl, Size(pl) = 0 PROVE Named(pl)
BY DEF Named

LEMMA EmptyImage ==
    ASSUME NEW cells
    PROVE  /\ Size([EmptyPool EXCEPT !.pathPool = cells]) = 0
           /\ Size(EmptyPool) = 0
BY EmptySeq DEF EmptyPool, Size

LEMMA LoadEntryNamed ==
    ASSUME IInv, LowerInv, LoadEntry PROVE Named(fresh')
<1> DEFINE d == buf[k]
           n == PathCells(fresh)
<1>1. /\ pc = "loading" /\ k <= Len(buf) /\ k \in Nat \ {0}
      /\ fresh \in Pool /\ Layout(fresh) /\ Named(fresh)
      /\ buf \in Seq(DiskEntry) /\ runningPathOffset \in Nat
      /\ fresh' = AddRecord(fresh, d, runningPathOffset)
  BY DEF IInv, TypeOK, LowerInv, LoadEntry
<1>2. k \in 1..Len(buf) /\ Len(buf) \in Nat
  BY <1>1
<1>3. d \in DiskEntry /\ d.pathLen \in Nat /\ d.pathLen = RecordLen(buf, k)
  <2>1. d \in DiskEntry
    BY <1>1, <1>2
  <2> QED
    BY <2>1 DEF DiskEntry, RecordLen
<1>4. d.nameStart <= d.pathLen
  BY <1>1, <1>2 DEF IInv, LoadingInv, NamesInside, RecordLen
<1>5. PICK offset \in [1..(Len(buf) + 1) -> 0..n] :
         IsOffsets(offset, buf, n) /\ runningPathOffset = offset[k]
  BY <1>1 DEF IInv, LoadingInv
<1>6. n \in Nat
  BY <1>1, PoolNumbers
<1>7. offset[k + 1] = runningPathOffset + d.pathLen
  BY <1>2, <1>3, <1>5 DEF IsOffsets
<1>8. offset[k + 1] \in 0..n
  BY <1>2, <1>5
<1>9. runningPathOffset + d.pathLen <= n
  BY <1>6, <1>7, <1>8
<1> HIDE DEF d
<1> QED
  BY <1>1, <1>3, <1>4, <1>9, AddRecordNamed

LEMMA NextLower == IInv /\ LowerInv /\ [Next]_vars => LowerInv'
<1> SUFFICES ASSUME IInv, LowerInv, [Next]_vars PROVE LowerInv'
  OBVIOUS
<1>1. /\ pool \in Pool /\ Layout(pool) /\ Named(pool)
      /\ fresh \in Pool /\ Layout(fresh) /\ Named(fresh)
  BY DEF IInv, TypeOK, LowerInv
<1>2. CASE UNCHANGED <<pool, fresh>>
  BY <1>2 DEF LowerInv, Named
<1>3. Named(EmptyPool)
  BY EmptyImage, NoEntriesNamed
<1>4. ASSUME NEW e \in Entries, ApplyAdd(e) PROVE LowerInv'
  <2>1. e \in FileEntry /\ pool' = AddEntry(pool, e) /\ fresh' = fresh
    BY <1>4, EntriesAreFileEntries DEF ApplyAdd, scratch
  <2> QED
    BY <1>1, <2>1, AddEntryNamed DEF LowerInv
<1>5. ASSUME NEW I, pool' = Tombstone(pool, I), fresh' = fresh PROVE LowerInv'
  BY <1>1, <1>5, TombstoneNamed DEF LowerInv
<1>6. CASE \E p \in Paths : ApplyRemove(p)
  BY <1>5, <1>6 DEF ApplyRemove, scratch
<1>7. CASE \E r \in Prefixes : RemoveEntriesUnderPath(r)
  BY <1>5, <1>7 DEF RemoveEntriesUnderPath, scratch
<1>8. ASSUME NEW p \in Paths, NEW q \in Paths, ApplyRename(p, q)
      PROVE  LowerInv'
  <2>1. PICK i \in FirstMatch(pool, p) :
           pool' = AddEntry(Tombstone(pool, {i}),
                            [path |-> q, stamp |-> pool.meta[i].stamp])
    BY <1>8 DEF ApplyRename
  <2>2. i \in 1..Size(pool)
    BY DEF FirstMatch, Matches, LiveIndices
  <2>3. pool.meta[i] \in EntryMeta
    BY <1>1, <2>2 DEF Pool, Size
  <2>4. [path |-> q, stamp |-> pool.meta[i].stamp] \in FileEntry
    BY <2>3, InputsAssumption DEF EntryMeta, FileEntry
  <2>5. /\ Tombstone(pool, {i}) \in Pool /\ Layout(Tombstone(pool, {i}))
        /\ Named(Tombstone(pool, {i}))
    BY <1>1, TombstoneLayout, TombstoneNamed
  <2>6. Named(pool')
    BY <2>1, <2>4, <2>5, AddEntryNamed
  <2>7. fresh' = fresh
    BY <1>8 DEF ApplyRename, scratch
  <2> QED
    BY <1>1, <2>6, <2>7 DEF LowerInv
<1>9. CASE EndWriteBuild
  <2>1. Head(stagingBuf) \in FileEntry
    BY <1>9 DEF IInv, TypeOK, EndWriteBuild
  <2>2. fresh' = AddEntry(fresh, Head(stagingBuf)) /\ pool' = pool
    BY <1>9 DEF EndWriteBuild
  <2> QED
    BY <1>1, <2>1, <2>2, AddEntryNamed DEF LowerInv
<1>10. CASE LoadEntry
  BY <1>1, <1>10, LoadEntryNamed DEF LowerInv, LoadEntry
<1>11. CASE EndWriteBegin
  BY <1>1, <1>3, <1>11 DEF LowerInv, EndWriteBegin
<1>12. CASE EndWriteSwap \/ LoadSwap
  BY <1>1, <1>3, <1>12 DEF LowerInv, EndWriteSwap, LoadSwap
<1>13. CASE SaveLock
  BY <1>1, <1>13, EmptyImage, NoEntriesNamed DEF LowerInv, SaveLock
<1>14. CASE LoadOpen
  BY <1>1, <1>14, EmptyImage, NoEntriesNamed DEF LowerInv, LoadOpen
<1>15. CASE SaveOpenFails \/ SaveWrite \/ SaveWriteFails
  BY <1>1, <1>3, <1>15
  DEF LowerInv, SaveOpenFails, SaveWrite, SaveWriteFails, SaveDone
<1>16. CASE LoadRejects
  BY <1>1, <1>3, <1>16 DEF LowerInv, LoadRejects, scratch
<1>17. CASE Crash
  BY <1>3, <1>17 DEF LowerInv, Crash
<1>18. CASE \/ \E s \in Searcher : SearchLock(s) \/ SearchUnlock(s)
            \/ \E e \in Entries : StageEntry(e)
            \/ BeginWrite \/ SerializeEntry \/ SaveOpen
  BY <1>2, <1>18
  DEF SearchLock, SearchUnlock, StageEntry, BeginWrite, SerializeEntry,
      SaveOpen, scratch
<1>19. CASE UNCHANGED vars
  BY <1>2, <1>19 DEF vars, scratch
<1> QED
  BY <1>4, <1>6, <1>7, <1>8, <1>9, <1>10, <1>11, <1>12, <1>13, <1>14, <1>15,
     <1>16, <1>17, <1>18, <1>19
  DEF Next

\* The name that is searched is the lowercase of the name that is shown, for an
\* entry of a scan as for one rebuilt from a file, whatever was tombstoned,
\* renamed, saved or loaded before.
THEOREM SearchedNameIsShown == Spec => []NameLowerMatchesName
<1>1. Init => LowerInv
  BY EmptyImage, NoEntriesNamed DEF Init, LowerInv
<1>2. LowerInv => NameLowerMatchesName
  BY DEF LowerInv, Named, NameLowerMatchesName, LiveIndices
<1> QED
  BY <1>1, <1>2, InitIInv, NextIInv, NextLower, PTL DEF Spec

----------------------------------------------------------------------------
(* Save.                                                                   *)

\* The live entries before the n-th.
LiveBefore(pl, n) == {i \in 1..(n - 1) : ~pl.meta[i].deleted}

\* Save has a record for each live entry it has come to, and the file is torn
\* from when it was opened.
ImageInv ==
    /\ pc = "serializing" =>
          /\ k <= Size(pool) + 1
          /\ Len(buf) = Cardinality(LiveBefore(pool, k))
    /\ pc = "writing" =>
          /\ Saver \in readers
          /\ file.state = "torn"
          /\ fresh.pathPool = pool.pathPool
          /\ Len(buf) = LiveCount(pool)

LEMMA LiveBeforeGrows ==
    ASSUME NEW pl, NEW n \in Nat \ {0}
    PROVE  /\ Cardinality(LiveBefore(pl, n)) \in Nat
           /\ Cardinality(LiveBefore(pl, 1)) = 0
           /\ Cardinality(LiveBefore(pl, n + 1)) =
                 Cardinality(LiveBefore(pl, n))
                    + IF pl.meta[n].deleted THEN 0 ELSE 1
<1>1. IsFiniteSet(LiveBefore(pl, n)) /\ Cardinality(LiveBefore(pl, n)) \in Nat
  <2>1. IsFiniteSet(1..(n - 1))
    BY FS_Interval
  <2>2. LiveBefore(pl, n) \subseteq 1..(n - 1)
    BY DEF LiveBefore
  <2> QED
    BY <2>1, <2>2, FS_Subset, FS_CardinalityType
<1>2. Cardinality(LiveBefore(pl, 1)) = 0
  <2>1. LiveBefore(pl, 1) = {}
    BY DEF LiveBefore
  <2> QED
    BY <2>1, FS_EmptySet
<1>3. LiveBefore(pl, n + 1) =
         LiveBefore(pl, n) \cup (IF pl.meta[n].deleted THEN {} ELSE {n})
  <2>1. 1..(n + 1 - 1) = 1..(n - 1) \cup {n}
    OBVIOUS
  <2> QED
    BY <2>1 DEF LiveBefore
<1>4. n \notin LiveBefore(pl, n)
  BY DEF LiveBefore
<1>5. CASE pl.meta[n].deleted
  <2>1. LiveBefore(pl, n + 1) = LiveBefore(pl, n)
    BY <1>3, <1>5
  <2> QED
    BY <1>1, <1>2, <1>5, <2>1
<1>6. CASE ~pl.meta[n].deleted
  <2>1. LiveBefore(pl, n + 1) = LiveBefore(pl, n) \cup {n}
    BY <1>3, <1>6
  <2>2. Cardinality(LiveBefore(pl, n + 1)) = Cardinality(LiveBefore(pl, n)) + 1
    BY <1>1, <1>4, <2>1, FS_AddElement
  <2> QED
    BY <1>1, <1>2, <1>6, <2>2
<1> QED
  BY <1>5, <1>6

LEMMA NextImage == IInv /\ ImageInv /\ [Next]_vars => ImageInv'
<1> SUFFICES ASSUME IInv, ImageInv, [Next]_vars PROVE ImageInv'
  OBVIOUS
<1>1. /\ pool \in Pool /\ Size(pool) \in Nat /\ k \in Nat \ {0}
      /\ buf \in Seq(DiskEntry) /\ Len(buf) \in Nat
  BY PoolNumbers, LenProperties DEF IInv, TypeOK
<1>2. CASE SaveLock
  <2>1. Len(buf') = 0 /\ k' = 1 /\ pool' = pool /\ pc' = "serializing"
    BY <1>2, EmptySeq DEF SaveLock
  <2> QED
    BY <1>1, <2>1, LiveBeforeGrows DEF ImageInv
<1>3. CASE SerializeEntry
  <2> DEFINE m == pool.meta[k]
             d == [pathLen |-> m.pathLen, nameStart |-> m.nameStart,
                   stamp |-> m.stamp]
  <2>1. /\ pc = "serializing" /\ pc' = pc /\ pool' = pool /\ k' = k + 1
        /\ k <= Size(pool)
        /\ buf' = IF m.deleted THEN buf ELSE Append(buf, d)
        /\ Len(buf) = Cardinality(LiveBefore(pool, k))
    BY <1>3 DEF SerializeEntry, ImageInv
  <2>2. d \in DiskEntry
    <3>1. m \in EntryMeta
      BY <1>1, <2>1 DEF Pool, Size
    <3> QED
      BY <3>1 DEF EntryMeta, DiskEntry
  <2> HIDE DEF d
  <2>3. Len(Append(buf, d)) = Len(buf) + 1
    BY <1>1, <2>2, AppendProperties
  <2>4. Len(buf') = Len(buf) + IF pool.meta[k].deleted THEN 0 ELSE 1
    BY <1>1, <2>1, <2>3
  <2>5. Len(buf') = Cardinality(LiveBefore(pool, k + 1))
    BY <1>1, <2>1, <2>4, LiveBeforeGrows
  <2>6. k + 1 <= Size(pool) + 1
    BY <1>1, <2>1
  <2> QED
    BY <2>1, <2>5, <2>6 DEF ImageInv
<1>4. CASE SaveOpen
  <2>1. /\ pc = "serializing" /\ pc' = "writing" /\ file'.state = "torn"
        /\ UNCHANGED <<pool, readers, fresh, buf, k>>
        /\ Saver \in readers /\ fresh.pathPool = pool.pathPool
    BY <1>4 DEF SaveOpen, scratch, IInv, SerializingInv, TornFile
  <2>2. k = Size(pool) + 1
    BY <1>1, <1>4, <2>1 DEF SaveOpen, ImageInv
  <2>3. LiveBefore(pool, k) = LiveIndices(pool)
    <3>1. k - 1 = Size(pool)
      BY <1>1, <2>2
    <3> QED
      BY <3>1 DEF LiveBefore, LiveIndices
  <2>4. Len(buf) = LiveCount(pool)
    BY <2>1, <2>3 DEF ImageInv, LiveCount
  <2> QED
    BY <2>1, <2>4 DEF ImageInv
<1>5. CASE pc' \notin {"serializing", "writing"}
  BY <1>5 DEF ImageInv
<1>6. CASE /\ pc' = pc /\ pc \in {"serializing", "writing"}
           /\ UNCHANGED <<pool, file, scratch>>
           /\ Saver \in readers => Saver \in readers'
  BY <1>6 DEF ImageInv, scratch
<1>7. pc \in {"serializing", "writing"} => readers # {}
  BY DEF IInv, SerializingInv, ImageInv
<1>8. CASE \/ \E e \in Entries : ApplyAdd(e)
           \/ \E p \in Paths : ApplyRemove(p)
           \/ \E p, q \in Paths : ApplyRename(p, q)
           \/ \E r \in Prefixes : RemoveEntriesUnderPath(r)
  <2>1. readers = {} /\ pc' = pc
    BY <1>8 DEF ApplyAdd, ApplyRemove, ApplyRename, RemoveEntriesUnderPath,
                CanLockExclusive
  <2> QED
    BY <1>5, <1>7, <2>1
<1>9. CASE \E s \in Searcher : SearchLock(s) \/ SearchUnlock(s)
  <2>1. /\ pc' = pc /\ UNCHANGED <<pool, file, scratch>>
        /\ Saver \in readers => Saver \in readers'
    BY <1>9, StoreAssumption DEF SearchLock, SearchUnlock
  <2> QED
    BY <1>5, <1>6, <2>1
<1>10. CASE \/ BeginWrite \/ EndWriteBegin \/ EndWriteBuild \/ EndWriteSwap
            \/ \E e \in Entries : StageEntry(e)
            \/ SaveOpenFails \/ SaveWrite \/ SaveWriteFails
            \/ LoadRejects \/ LoadOpen \/ LoadEntry \/ LoadSwap \/ Crash
  <2>1. pc' \notin {"serializing", "writing"}
    BY <1>10
    DEF BeginWrite, EndWriteBegin, EndWriteBuild, EndWriteSwap, StageEntry,
        SaveOpenFails, SaveWrite, SaveWriteFails, SaveDone, LoadRejects,
        LoadOpen, LoadEntry, LoadSwap, Crash
  <2> QED
    BY <1>5, <2>1
<1>11. CASE UNCHANGED vars
  BY <1>5, <1>6, <1>11 DEF vars, scratch
<1> QED
  BY <1>2, <1>3, <1>4, <1>8, <1>9, <1>10, <1>11 DEF Next

\* A file that Load accepts only ever comes from a torn one, and with a record
\* for every live entry and all characters of the pool that Save had locked:
\* nothing changes that pool while Save counts, and nobody else writes the file.
THEOREM FileIsNeverMixed == Spec => NoMixedFile
<1>1. Init => ImageInv
  BY DEF Init, ImageInv
<1>2. ASSUME IInv, ImageInv, [Next]_vars, file' # file, file'.state = "ok"
      PROVE  /\ file.state = "torn"
             /\ file'.pathPool = pool.pathPool
             /\ Len(file'.entries) = LiveCount(pool)
  <2>1. SaveOpen => file'.state = "torn"
    BY DEF SaveOpen, TornFile
  <2>2. SaveWrite
    BY <1>2, <2>1
    DEF Next, vars, SearchLock, SearchUnlock, ApplyAdd, ApplyRemove,
        ApplyRename, RemoveEntriesUnderPath, BeginWrite, StageEntry,
        EndWriteBegin, EndWriteBuild, EndWriteSwap, SaveLock, SerializeEntry,
        SaveOpenFails, SaveWriteFails, LoadRejects, LoadOpen, LoadEntry,
        LoadSwap, Crash
  <2> QED
    BY <1>2, <2>2 DEF SaveWrite, ImageInv
<1>3. IInv /\ ImageInv /\ [Next]_vars =>
         [file' # file /\ file'.state = "ok" =>
            /\ file.state = "torn"
            /\ file'.pathPool = pool.pathPool
            /\ Len(file'.entries) = LiveCount(pool)]_vars
  BY <1>2
<1> QED
  BY <1>1, <1>3, InitIInv, NextIInv, NextImage, PTL DEF Spec, NoMixedFile
=============================================================================
