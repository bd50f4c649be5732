------------------------- MODULE SearchEngineProofs -------------------------
(***************************************************************************)
(* For every number of entries, threads and results: a search returns hits *)
(* in the order of the index, and all of them or the maximum unless it was *)
(* cancelled.                                                              *)
(*                                                                         *)
(* The invariant says what each thread has kept, namely the hits between   *)
(* the begin of its chunk and the entry it is at; that the shared counter  *)
(* is the number of hits passed in all chunks; and that the results are    *)
(* the hits passed in the chunks merged so far, or the first of them.      *)
(***************************************************************************)
EXTENDS SearchEngine, FiniteSetTheorems, SequenceTheorems, TLAPS

\* The chunk is looked through up to this entry.
Seen(th) == IF pc[th] = "count" THEN i[th] + 1 ELSE i[th]

PlaceInv ==
    \A th \in Thread :
        /\ ChunkBegin(th) <= i[th] /\ i[th] <= ChunkBegin(th) + ChunkSize
        /\ pc[th] \in {"full?", "test", "count"} => i[th] < ChunkEnd(th)
        /\ pc[th] = "count" => i[th] \in hits

LocalInv ==
    \A th \in Thread :
        /\ Increasing(local[th])
        /\ ToSet(local[th]) = {e \in hits : ChunkBegin(th) <= e /\ e < Seen(th)}

\* The hits that were added to the shared counter.
Counted ==
    {e \in hits : \E th \in Thread : ChunkBegin(th) <= e /\ e < i[th]}

CountInv == collected = Cardinality(Counted)

\* A thread that has seen the counter below the maximum may still add to it.
Adding == {th \in Thread : pc[th] \in {"test", "count"}}

OvershootInv == collected + Cardinality(Adding) <= MaxResults + NumThreads - 1

\* A thread ends early only when it is cancelled or there are enough hits.
DoneInv ==
    \/ cancelToken
    \/ \A th \in Thread : pc[th] = "done" => \/ i[th] >= ChunkEnd(th)
                                             \/ collected >= MaxResults

Mergeable == {e \in Counted : e < ChunkBegin(t)}

MergeInv ==
    /\ \A th \in Thread : th < t => pc[th] = "done"
    /\ Len(results) <= MaxResults
    /\ Increasing(results)
    /\ ToSet(results) \subseteq Mergeable
    /\ Len(results) < MaxResults => ToSet(results) = Mergeable

IInv ==
    /\ TypeOK
    /\ PlaceInv
    /\ LocalInv
    /\ CountInv
    /\ OvershootInv
    /\ DoneInv
    /\ MergeInv

----------------------------------------------------------------------------
(* The chunks.                                                             *)

\* They are as large as it takes to cover all entries.
LEMMA ChunkSizeFacts ==
    ASSUME entryCount \in Nat
    PROVE  ChunkSize \in Nat /\ NumThreads * ChunkSize >= entryCount
<1> DEFINE n == entryCount + NumThreads - 1
<1>1. NumThreads \in Nat /\ NumThreads > 0
  BY SearchAssumption DEF SearchAssumption
<1>2. n \in Nat
  BY <1>1
<1>3. \A k \in Nat, d \in Nat \ {0} :
         k \div d \in Nat /\ d * (k \div d) > k - d
  OBVIOUS
<1> QED
  BY <1>1, <1>2, <1>3 DEF ChunkSize

LEMMA Products ==
    ASSUME NEW a \in Nat, NEW b \in Nat, NEW c \in Nat, a < b
    PROVE  a * c + c <= b * c /\ a * c \in Nat /\ b * c \in Nat
<1>1. \A d \in Nat : (a + 1 + d) * c = a * c + c + d * c /\ d * c \in Nat
  OBVIOUS
<1>2. b = a + 1 + (b - a - 1) /\ b - a - 1 \in Nat
  OBVIOUS
<1>3. a * c \in Nat /\ b * c \in Nat
  OBVIOUS
<1> QED
  BY <1>1, <1>2, <1>3

\* A chunk ends where the next one begins, or at the last entry.
LEMMA ChunkFacts ==
    ASSUME entryCount \in Nat
    PROVE  /\ ChunkSize \in Nat
           /\ \A th \in 0..NumThreads : ChunkBegin(th) \in Nat
           /\ \A th \in Thread :
                 /\ ChunkBegin(th + 1) = ChunkBegin(th) + ChunkSize
                 /\ ChunkEnd(th) \in Nat
                 /\ ChunkEnd(th) <= ChunkBegin(th) + ChunkSize
                 /\ ChunkEnd(th) <= entryCount
                 /\ \/ ChunkEnd(th) = ChunkBegin(th) + ChunkSize
                    \/ ChunkEnd(th) = entryCount
           /\ \A th, u \in 0..NumThreads : th < u =>
                 ChunkBegin(th) + ChunkSize <= ChunkBegin(u)
<1> DEFINE c == ChunkSize
<1>1. c \in Nat /\ NumThreads \in Nat \ {0}
  BY ChunkSizeFacts, SearchAssumption DEF SearchAssumption
<1> HIDE DEF c
<1>2. \A th \in 0..NumThreads : th * c \in Nat
  BY <1>1
<1>3. \A th \in Thread : (th + 1) * c = th * c + c
  BY <1>1 DEF Thread
<1>4. \A th, u \in 0..NumThreads : th < u => th * c + c <= u * c
  BY <1>1, Products
<1>5. \A th \in Thread : th \in 0..NumThreads /\ th + 1 \in 0..NumThreads
  BY <1>1 DEF Thread
<1> QED
  BY <1>1, <1>2, <1>3, <1>4, <1>5 DEF c, ChunkBegin, ChunkEnd, Min2

\* Every entry is in some chunk.
LEMMA EntryInChunk ==
    ASSUME entryCount \in Nat, NEW e \in 0..(entryCount - 1)
    PROVE  \E th \in Thread : ChunkBegin(th) <= e /\ e < ChunkEnd(th)
<1> DEFINE c == ChunkSize
           th == e \div c
<1>1. c \in Nat /\ NumThreads \in Nat \ {0} /\ NumThreads * c >= entryCount
  BY ChunkSizeFacts, SearchAssumption DEF SearchAssumption
<1> HIDE DEF c
<1>2. c > 0
  BY <1>1
<1>3. \A k \in Nat, d \in Nat \ {0} :
         /\ k \div d \in Nat
         /\ (k \div d) * d <= k /\ k < (k \div d) * d + d
  OBVIOUS
<1>4. th \in Nat /\ th * c <= e /\ e < th * c + c
  BY <1>1, <1>2, <1>3
<1> HIDE DEF th
<1>5. th < NumThreads
  <2>1. CASE NumThreads <= th
    <3>1. NumThreads * c <= th * c
      BY <1>1, <1>4, <2>1, Products
    <3> QED
      BY <1>1, <1>4, <3>1
  <2> QED
    BY <1>1, <1>4, <2>1
<1>6. th \in Thread
  BY <1>1, <1>4, <1>5 DEF Thread
<1> QED
  BY <1>1, <1>4, <1>6 DEF c, ChunkBegin, ChunkEnd, Min2

----------------------------------------------------------------------------
(* Increasing sequences of entries.                                        *)

LEMMA ElementsOf ==
    ASSUME NEW s \in Seq(Nat)
    PROVE  /\ ToSet(s) = {s[k] : k \in 1..Len(s)}
           /\ \A e : e \in ToSet(s) <=> \E k \in 1..Len(s) : s[k] = e
BY DEF ToSet

LEMMA IncreasingAppend ==
    ASSUME NEW s \in Seq(Nat), Increasing(s), NEW e \in Nat,
           \A x \in ToSet(s) : x < e
    PROVE  /\ Append(s, e) \in Seq(Nat)
           /\ Increasing(Append(s, e))
           /\ ToSet(Append(s, e)) = ToSet(s) \cup {e}
<1> DEFINE u == Append(s, e)
<1>1. /\ u \in Seq(Nat) /\ Len(u) = Len(s) + 1 /\ Len(s) \in Nat
      /\ \A k \in 1..Len(s) : u[k] = s[k]
      /\ u[Len(s) + 1] = e
  BY AppendProperties
<1> HIDE DEF u
<1>2. \A k \in 1..Len(s) : s[k] < e
  BY ElementsOf
<1>3. Increasing(u)
  <2> SUFFICES ASSUME NEW a \in 1..Len(u), NEW b \in 1..Len(u), a < b
               PROVE  u[a] < u[b]
    BY DEF Increasing
  <2>0. \A c, d \in 1..Len(s) : c < d => s[c] < s[d]
    BY DEF Increasing
  <2>1. CASE b = Len(s) + 1
    BY <1>1, <1>2, <2>1, SMTT(30)
  <2>2. CASE b # Len(s) + 1
    <3>1. a \in 1..Len(s) /\ b \in 1..Len(s)
      BY <1>1, <2>2, SMTT(30)
    <3> QED
      BY <1>1, <2>0, <3>1
  <2> QED
    BY <2>1, <2>2
<1>4. ToSet(u) = ToSet(s) \cup {e}
  <2>1. ASSUME NEW x \in ToSet(u)
        PROVE  x \in ToSet(s) \cup {e}
    <3>1. PICK k \in 1..Len(u) : u[k] = x
      BY <1>1, ElementsOf
    <3>2. CASE k = Len(s) + 1
      BY <1>1, <3>1, <3>2
    <3>3. CASE k \in 1..Len(s)
      BY <1>1, <3>1, <3>3, ElementsOf
    <3> QED
      BY <1>1, <3>2, <3>3
  <2>2. ASSUME NEW x \in ToSet(s) \cup {e}
        PROVE  x \in ToSet(u)
    <3>1. CASE x = e
      <4>1. Len(s) + 1 \in 1..Len(u) /\ u[Len(s) + 1] = x
        BY <1>1, <3>1
      <4> QED
        BY <1>1, <4>1, ElementsOf
    <3>2. CASE x \in ToSet(s)
      <4>1. PICK k \in 1..Len(s) : s[k] = x
        BY <3>2, ElementsOf
      <4>2. k \in 1..Len(u) /\ u[k] = x
        BY <1>1, <4>1
      <4> QED
        BY <1>1, <4>2, ElementsOf
    <3> QED
      BY <3>1, <3>2
  <2> QED
    BY <2>1, <2>2
<1> QED
  BY <1>1, <1>3, <1>4 DEF u

\* The first n elements of a sequence after another one whose elements are
\* smaller.
LEMMA IncreasingConcat ==
    ASSUME NEW s \in Seq(Nat), Increasing(s), NEW u \in Seq(Nat), Increasing(u),
           NEW n \in 0..Len(u),
           \A x \in ToSet(s), y \in ToSet(u) : x < y
    PROVE  LET v == s \o SubSeq(u, 1, n)
           IN  /\ v \in Seq(Nat)
               /\ Len(v) = Len(s) + n
               /\ Increasing(v)
               /\ ToSet(v) \subseteq ToSet(s) \cup ToSet(u)
               /\ n = Len(u) => ToSet(v) = ToSet(s) \cup ToSet(u)
<1> DEFINE w == SubSeq(u, 1, n)
           v == s \o w
<1>1. /\ w \in Seq(Nat) /\ Len(w) = n
      /\ \A k \in 1..n : w[k] = u[k]
  <2>1. Len(u) \in Nat /\ n \in Int /\ 1 \in Int
    OBVIOUS
  <2>2. \A k \in 1..n : u[k] \in Nat
    BY <2>1
  <2> QED
    BY <2>1, <2>2, SubSeqProperties
<1> HIDE DEF w
<1>2. /\ v \in Seq(Nat) /\ Len(v) = Len(s) + n
      /\ Len(s) \in Nat /\ Len(u) \in Nat /\ n \in Nat /\ n <= Len(u)
      /\ \A k \in 1..(Len(s) + n) :
            v[k] = IF k <= Len(s) THEN s[k] ELSE w[k - Len(s)]
  <2>1. Len(s) \in Nat /\ Len(u) \in Nat
    BY LenProperties
  <2>2. n \in Nat /\ n <= Len(u)
    BY <2>1
  <2>3. /\ v \in Seq(Nat) /\ Len(v) = Len(s) + Len(w)
        /\ \A k \in 1..(Len(s) + Len(w)) :
              v[k] = IF k <= Len(s) THEN s[k] ELSE w[k - Len(s)]
    BY <1>1, ConcatProperties
  <2> QED
    BY <1>1, <2>1, <2>2, <2>3
<1> HIDE DEF v
<1>3. /\ \A k \in 1..Len(s) : v[k] = s[k]
      /\ \A k \in 1..Len(v) : k > Len(s) =>
            v[k] = u[k - Len(s)] /\ k - Len(s) \in 1..n
  <2>1. ASSUME NEW k \in 1..Len(s)
        PROVE  v[k] = s[k]
    BY <1>2, SMTT(30)
  <2>2. ASSUME NEW k \in 1..Len(v), k > Len(s)
        PROVE  v[k] = u[k - Len(s)] /\ k - Len(s) \in 1..n
    <3>1. k - Len(s) \in 1..n
      BY <1>2, <2>2
    <3>2. v[k] = w[k - Len(s)]
      BY <1>2, <2>2
    <3> QED
      BY <1>1, <3>1, <3>2
  <2> QED
    BY <2>1, <2>2
<1>4. Increasing(v)
  <2> SUFFICES ASSUME NEW a \in 1..Len(v), NEW b \in 1..Len(v), a < b
               PROVE  v[a] < v[b]
    BY DEF Increasing
  <2>0. /\ \A c, d \in 1..Len(s) : c < d => s[c] < s[d]
        /\ \A c, d \in 1..Len(u) : c < d => u[c] < u[d]
    BY DEF Increasing
  <2>1. CASE b <= Len(s)
    <3>1. a \in 1..Len(s) /\ b \in 1..Len(s)
      BY <1>2, <2>1
    <3> QED
      BY <1>3, <2>0, <3>1
  <2>2. CASE a > Len(s)
    <3>1. /\ a - Len(s) \in 1..Len(u) /\ b - Len(s) \in 1..Len(u)
          /\ a - Len(s) < b - Len(s)
          /\ v[a] = u[a - Len(s)] /\ v[b] = u[b - Len(s)]
      <4>1. a > Len(s) /\ b > Len(s)
        BY <1>2, <2>2
      <4>2. /\ v[a] = u[a - Len(s)] /\ a - Len(s) \in 1..n
            /\ v[b] = u[b - Len(s)] /\ b - Len(s) \in 1..n
        BY <1>3, <4>1
      <4>3. a - Len(s) < b - Len(s) /\ 1..n \subseteq 1..Len(u)
        BY <1>2
      <4> HIDE DEF v
      <4> QED
        BY <4>2, <4>3
    <3> QED
      BY <2>0, <3>1
  <2>3. CASE a <= Len(s) /\ b > Len(s)
    <3>1. v[a] = s[a] /\ a \in 1..Len(s)
      BY <1>2, <1>3, <2>3
    <3>2. v[b] = u[b - Len(s)] /\ b - Len(s) \in 1..Len(u)
      <4>1. v[b] = u[b - Len(s)] /\ b - Len(s) \in 1..n
        BY <1>3, <2>3
      <4> QED
        BY <1>2, <4>1
    <3>3. v[a] \in ToSet(s) /\ v[b] \in ToSet(u)
      BY <3>1, <3>2, ElementsOf
    <3> QED
      BY <3>3
  <2> QED
    BY <1>2, <2>1, <2>2, <2>3
<1>5. ASSUME NEW x \in ToSet(v)
      PROVE  x \in ToSet(s) \cup ToSet(u)
  <2>1. PICK k \in 1..Len(v) : v[k] = x
    BY <1>2, ElementsOf
  <2>2. CASE k <= Len(s)
    <3>1. k \in 1..Len(s) /\ s[k] = x
      BY <1>2, <1>3, <2>1, <2>2
    <3> QED
      BY <3>1, ElementsOf
  <2>3. CASE k > Len(s)
    <3>1. k - Len(s) \in 1..Len(u) /\ u[k - Len(s)] = x
      BY <1>2, <1>3, <2>1, <2>3
    <3> QED
      BY <3>1, ElementsOf
  <2> QED
    BY <1>2, <2>2, <2>3
<1>6. ASSUME NEW x \in ToSet(s)
      PROVE  x \in ToSet(v)
  <2>1. PICK k \in 1..Len(s) : s[k] = x
    BY ElementsOf
  <2>2. k \in 1..Len(v) /\ v[k] = x
    BY <1>2, <1>3, <2>1
  <2> QED
    BY <1>2, <2>2, ElementsOf
<1>7. ASSUME n = Len(u), NEW x \in ToSet(u)
      PROVE  x \in ToSet(v)
  <2>1. PICK k \in 1..Len(u) : u[k] = x
    BY ElementsOf
  <2>2. Len(s) + k \in 1..Len(v) /\ Len(s) + k - Len(s) = k
        /\ Len(s) + k > Len(s)
    BY <1>2, <1>7, <2>1
  <2>3. v[Len(s) + k] = x
    BY <1>3, <2>1, <2>2
  <2> QED
    BY <1>2, <2>2, <2>3, ElementsOf
<1> QED
  BY <1>2, <1>4, <1>5, <1>6, <1>7 DEF v, w

\* An increasing sequence has as many elements as its length says.
LEMMA IncreasingCounts ==
    ASSUME NEW s \in Seq(Nat), Increasing(s)
    PROVE  IsFiniteSet(ToSet(s)) /\ Cardinality(ToSet(s)) = Len(s)
<1>1. Len(s) \in Nat /\ s \in [1..Len(s) -> Nat] /\ DOMAIN s = 1..Len(s)
  BY LenProperties
<1>2. \A e : e \in ToSet(s) <=> \E k \in 1..Len(s) : s[k] = e
  BY ElementsOf
<1>3. s \in [1..Len(s) -> ToSet(s)]
  BY <1>1, <1>2
<1>4. \A a, b \in 1..Len(s) : s[a] = s[b] => a = b
  BY <1>1 DEF Increasing
<1>5. s \in Injection(1..Len(s), ToSet(s))
  BY <1>3, <1>4 DEF Injection, IsInjective
<1>6. s \in Surjection(1..Len(s), ToSet(s))
  BY <1>2, <1>3 DEF Surjection
<1>7. ExistsBijection(1..Len(s), ToSet(s))
  BY <1>5, <1>6 DEF ExistsBijection, Bijection
<1>8. IsFiniteSet(1..Len(s)) /\ Cardinality(1..Len(s)) = Len(s)
  <2>1. 1 \in Int /\ Len(s) \in Int /\ Len(s) = IF 1 > Len(s) THEN 0 ELSE Len(s) - 1 + 1
    BY <1>1
  <2> QED
    BY <2>1, FS_Interval
<1> QED
  BY <1>7, <1>8, FS_Bijection

----------------------------------------------------------------------------
(* The steps.                                                              *)

LEMMA Basics ==
    ASSUME TypeOK
    PROVE  /\ entryCount \in Nat
           /\ NumThreads \in Nat \ {0} /\ MaxResults \in Nat
           /\ \A th \in Thread : th \in 0..NumThreads /\ th + 1 \in 0..NumThreads
           /\ hits \subseteq Nat
           /\ \A e \in hits : e < entryCount
           /\ IsFiniteSet(hits) /\ IsFiniteSet(Thread)
<1>1. entryCount \in Nat /\ NumThreads \in Nat \ {0} /\ MaxResults \in Nat
  BY SearchAssumption DEF SearchAssumption, TypeOK
<1>2. 0 \in Int /\ entryCount - 1 \in Int /\ NumThreads - 1 \in Int
  BY <1>1
<1>3. IsFiniteSet(0..(entryCount - 1)) /\ IsFiniteSet(Thread)
  BY <1>2, FS_Interval DEF Thread
<1>4. IsFiniteSet(hits)
  BY <1>3, FS_Subset DEF TypeOK
<1> QED
  BY <1>1, <1>3, <1>4 DEF Thread, TypeOK

\* A thread moves nobody's entries and hits but its own.
LEMMA StepFacts ==
    ASSUME TypeOK, NEW th \in Thread, Step(th)
    PROVE  /\ UNCHANGED <<entryCount, hits, cancelToken, t, results>>
           /\ \A u \in Thread \ {th} :
                 pc'[u] = pc[u] /\ i'[u] = i[u] /\ local'[u] = local[u]
BY DEF TypeOK, Step, ReadCancel, ReadCollected, Test, Count, Goto

LEMMA Quietly ==
    ASSUME [Next]_vars
    PROVE  \/ \E th \in Thread : Step(th)
           \/ Merge
           \/ /\ UNCHANGED <<entryCount, hits, collected, pc, i, local,
                                      t, results>>
              /\ cancelToken => cancelToken'
BY DEF Next, Cancel, vars

LEMMA InitInv == Init => IInv
<1> SUFFICES ASSUME Init PROVE IInv
  OBVIOUS
<1>1. /\ entryCount \in Nat /\ NumThreads \in Nat \ {0} /\ MaxResults \in Nat
      /\ \A th \in Thread : th \in 0..NumThreads
  BY SearchAssumption DEF SearchAssumption, Init, Thread
<1>2. /\ ChunkSize \in Nat
      /\ \A th \in 0..NumThreads : ChunkBegin(th) \in Nat
      /\ \A th \in Thread : ChunkEnd(th) \in Nat /\ ChunkEnd(th) <= entryCount
  BY <1>1, ChunkFacts
<1>3. PICK none \in Seq(Nat) : none = <<>> /\ Len(none) = 0
  BY EmptySeq
<1>4. Increasing(none) /\ ToSet(none) = {}
  <2>1. 1..Len(none) = {}
    BY <1>3
  <2>2. \A e : e \notin ToSet(none)
    BY <2>1, ElementsOf
  <2> QED
    BY <2>1, <2>2 DEF Increasing
<1>5. /\ i = [th \in Thread |-> ChunkBegin(th)]
      /\ local = [th \in Thread |-> none] /\ results = none
      /\ pc \in [Thread -> {"cancelled?", "done"}]
      /\ \A th \in Thread : pc[th] = "done" => ChunkBegin(th) >= entryCount
  BY <1>1, <1>2, <1>3 DEF Init, Started
<1>6. TypeOK
  <2>1. i \in [Thread -> Nat] /\ local \in [Thread -> Seq(Nat)]
    BY <1>1, <1>2, <1>5
  <2>2. hits \subseteq 0..(entryCount - 1) /\ t = 0 /\ collected = 0
        /\ entryCount \in EntryCounts /\ cancelToken = FALSE
    BY DEF Init
  <2>3. /\ pc \in [Thread -> {"cancelled?", "full?", "test", "count", "done"}]
        /\ \A th \in Thread : pc[th] \notin {"test", "count"}
    BY <1>5
  <2>4. t \in 0..NumThreads /\ results \in Seq(Nat)
    BY <1>1, <1>3, <1>5, <2>2
  <2> QED
    BY <2>1, <2>2, <2>3, <2>4 DEF TypeOK
<1>7. PlaceInv
  BY <1>1, <1>2, <1>5 DEF PlaceInv
<1>8. LocalInv
  <2>1. ASSUME NEW th \in Thread
        PROVE  /\ Increasing(local[th]) /\ ToSet(local[th]) = {}
               /\ Seen(th) = ChunkBegin(th) /\ ChunkBegin(th) \in Nat
    BY <1>1, <1>2, <1>4, <1>5 DEF Seen
  <2>2. \A th \in Thread, e \in hits :
           ~(ChunkBegin(th) <= e /\ e < ChunkBegin(th))
    BY <1>6, <2>1, Basics
  <2>3. \A th \in Thread :
           {e \in hits : ChunkBegin(th) <= e /\ e < Seen(th)} = {}
    BY <2>1, <2>2
  <2> QED
    BY <2>1, <2>3 DEF LocalInv
<1>9. Counted = {} /\ Adding = {}
  <2>1. \A th \in Thread : i[th] = ChunkBegin(th) /\ ChunkBegin(th) \in Nat
    BY <1>1, <1>2, <1>5
  <2>2. \A th \in Thread, e \in hits : ~(ChunkBegin(th) <= e /\ e < i[th])
    BY <1>6, <2>1, Basics
  <2>3. \A th \in Thread : pc[th] \notin {"test", "count"}
    BY <1>5
  <2> QED
    BY <2>2, <2>3 DEF Counted, Adding
<1>10. CountInv /\ OvershootInv
  BY <1>1, <1>9, FS_EmptySet DEF Init, CountInv, OvershootInv
<1>11. DoneInv
  BY <1>1, <1>2, <1>5 DEF DoneInv
<1>12. MergeInv
  <2>1. Mergeable = {}
    BY <1>9 DEF Mergeable
  <2>2. t = 0 /\ 0 <= MaxResults
    BY <1>1 DEF Init
  <2> QED
    BY <1>3, <1>4, <1>5, <2>1, <2>2 DEF MergeInv, Thread
<1> QED
  BY <1>6, <1>7, <1>8, <1>10, <1>11, <1>12 DEF IInv

LEMMA PlaceStep ==
    TypeOK /\ PlaceInv /\ [Next]_vars => TypeOK' /\ PlaceInv'
<1> SUFFICES ASSUME TypeOK, PlaceInv, [Next]_vars PROVE TypeOK' /\ PlaceInv'
  OBVIOUS
<1>1. /\ entryCount \in Nat /\ NumThreads \in Nat \ {0}
      /\ \A th \in Thread : th \in 0..NumThreads
      /\ hits \subseteq Nat
  BY Basics
<1>2. /\ ChunkSize \in Nat
      /\ \A th \in Thread : /\ ChunkBegin(th) \in Nat
                            /\ ChunkEnd(th) \in Nat
                            /\ ChunkEnd(th) <= ChunkBegin(th) + ChunkSize
                            /\ ChunkEnd(th) <= entryCount
  BY <1>1, ChunkFacts
<1>3. ASSUME entryCount' = entryCount
      PROVE  /\ ChunkSize' = ChunkSize
             /\ \A th \in Thread : /\ ChunkBegin(th)' = ChunkBegin(th)
                                   /\ ChunkEnd(th)' = ChunkEnd(th)
  BY <1>3 DEF ChunkSize, ChunkBegin, ChunkEnd
<1>4. ASSUME UNCHANGED <<entryCount, hits, collected, pc, i, local, t, results>>,
             cancelToken' \in BOOLEAN
      PROVE  TypeOK' /\ PlaceInv'
  BY <1>3, <1>4 DEF TypeOK, PlaceInv
<1>5. CASE Cancel
  BY <1>4, <1>5 DEF Cancel
<1>6. CASE UNCHANGED vars
  BY <1>4, <1>6 DEF vars, TypeOK
<1>7. CASE Merge
  <2>1. results' \in Seq(Nat)
    <3> DEFINE n == Min2(Len(local[t]), MaxResults - Len(results))
    <3>1. t \in Thread /\ local[t] \in Seq(Nat) /\ results \in Seq(Nat)
      BY <1>1, <1>7 DEF Merge, TypeOK, Thread
    <3>2. n \in Int /\ n <= Len(local[t]) /\ MaxResults \in Nat
      BY <3>1, Basics DEF Min2
    <3>3. SubSeq(local[t], 1, n) \in Seq(Nat)
      <4>1. \A k \in 1..n : local[t][k] \in Nat
        BY <3>1, <3>2
      <4> QED
        BY <3>2, <4>1, SubSeqProperties
    <3> QED
      BY <1>7, <3>1, <3>3, ConcatProperties DEF Merge
  <2>2. t' \in 0..NumThreads
    BY <1>1, <1>7 DEF Merge, TypeOK
  <2>3. UNCHANGED <<entryCount, hits, cancelToken, collected, pc, i, local>>
    BY <1>7 DEF Merge
  <2> QED
    BY <1>3, <2>1, <2>2, <2>3 DEF TypeOK, PlaceInv
<1>8. ASSUME NEW th \in Thread, Step(th)
      PROVE  TypeOK' /\ PlaceInv'
  <2>1. /\ UNCHANGED <<entryCount, hits, cancelToken, t, results>>
        /\ \A u \in Thread \ {th} :
              pc'[u] = pc[u] /\ i'[u] = i[u] /\ local'[u] = local[u]
    BY <1>8, StepFacts
  <2>2. ASSUME pc' \in [Thread -> {"cancelled?", "full?", "test", "count", "done"}],
               i' \in [Thread -> Nat], local' \in [Thread -> Seq(Nat)],
               collected' \in Nat,
               ChunkBegin(th) <= i'[th], i'[th] <= ChunkBegin(th) + ChunkSize,
               pc'[th] \in {"full?", "test", "count"} => i'[th] < ChunkEnd(th),
               pc'[th] = "count" => i'[th] \in hits
        PROVE  TypeOK' /\ PlaceInv'
    <3>1. PlaceInv'
      BY <1>3, <2>1, <2>2 DEF PlaceInv
    <3>2. \A u \in Thread : pc'[u] \in {"test", "count"} => i'[u] < entryCount
      <4>1. i'[th] \in Nat /\ ChunkEnd(th) \in Nat /\ ChunkEnd(th) <= entryCount
        BY <1>2, <2>2
      <4> QED
        <5>1. ASSUME NEW u \in Thread, u # th, pc'[u] \in {"test", "count"}
              PROVE  i'[u] < entryCount
          BY <2>1, <5>1 DEF TypeOK
        <5>2. pc'[th] \in {"test", "count"} => i'[th] < entryCount
          BY <1>1, <2>2, <4>1
        <5> QED
          BY <5>1, <5>2
    <3> QED
      BY <2>1, <2>2, <3>1, <3>2 DEF TypeOK
  <2>3. /\ i[th] \in Nat /\ ChunkBegin(th) <= i[th]
        /\ i[th] <= ChunkBegin(th) + ChunkSize
        /\ pc[th] \in {"full?", "test", "count"} => i[th] < ChunkEnd(th)
        /\ ChunkBegin(th) \in Nat /\ ChunkEnd(th) \in Nat
        /\ ChunkEnd(th) <= ChunkBegin(th) + ChunkSize /\ ChunkSize \in Nat
    BY <1>2 DEF TypeOK, PlaceInv
  <2>4. CASE ReadCancel(th)
    BY <2>2, <2>3, <2>4 DEF ReadCancel, Goto, TypeOK
  <2>5. CASE ReadCollected(th)
    BY <2>2, <2>3, <2>5 DEF ReadCollected, Goto, TypeOK
  <2>6. CASE Test(th)
    <3>1. CASE i[th] \in hits
      <4>1. Append(local[th], i[th]) \in Seq(Nat)
        BY <2>3, AppendProperties DEF TypeOK
      <4> QED
        BY <2>2, <2>3, <2>6, <3>1, <4>1 DEF Test, Goto, TypeOK
    <3>2. CASE i[th] \notin hits
      <4>1. /\ i' = [i EXCEPT ![th] = @ + 1] /\ pc[th] = "test"
            /\ pc' = [pc EXCEPT ![th] = "cancelled?"]
            /\ UNCHANGED <<local, collected>>
        BY <2>6, <3>2 DEF Test, Goto
      <4>2. /\ i'[th] = i[th] + 1 /\ pc'[th] = "cancelled?"
            /\ i' \in [Thread -> Nat]
            /\ pc' \in [Thread -> {"cancelled?", "full?", "test", "count", "done"}]
        BY <2>3, <4>1 DEF TypeOK
      <4>3. ChunkBegin(th) <= i'[th] /\ i'[th] <= ChunkBegin(th) + ChunkSize
        BY <2>3, <4>1, <4>2
      <4> QED
        BY <2>2, <4>1, <4>2, <4>3 DEF TypeOK
    <3> QED
      BY <3>1, <3>2
  <2>7. CASE Count(th)
    BY <2>2, <2>3, <2>7 DEF Count, Goto, TypeOK
  <2> QED
    BY <1>8, <2>4, <2>5, <2>6, <2>7 DEF Step
<1> QED
  BY <1>5, <1>6, <1>7, <1>8 DEF Next

\* The chunk of a thread that has an entry to look at is its own.
LEMMA OwnChunk ==
    ASSUME TypeOK, PlaceInv, NEW th \in Thread, NEW u \in Thread,
           NEW e \in hits, ChunkBegin(th) <= e,
           e < ChunkBegin(th) + ChunkSize,
           ChunkBegin(u) <= e, e < i[u]
    PROVE  u = th
<1>1. /\ entryCount \in Nat /\ th \in 0..NumThreads /\ u \in 0..NumThreads
      /\ e \in Nat /\ NumThreads \in Nat
  BY Basics
<1>2. /\ ChunkSize \in Nat /\ ChunkBegin(th) \in Nat /\ ChunkBegin(u) \in Nat
      /\ th < u => ChunkBegin(th) + ChunkSize <= ChunkBegin(u)
      /\ u < th => ChunkBegin(u) + ChunkSize <= ChunkBegin(th)
  BY <1>1, ChunkFacts
<1>3. i[u] \in Nat /\ i[u] <= ChunkBegin(u) + ChunkSize
  BY DEF TypeOK, PlaceInv
<1> QED
  BY <1>1, <1>2, <1>3

\* What each step does to the hits counted and to the threads that may count.
LEMMA CountingStep ==
    ASSUME TypeOK, PlaceInv, NEW th \in Thread, Step(th)
    PROVE  \/ /\ Count(th) /\ i[th] \in hits \ Counted
              /\ Counted' = Counted \cup {i[th]}
              /\ th \in Adding /\ Adding' = Adding \ {th}
           \/ /\ UNCHANGED collected /\ Counted' = Counted
              /\ \/ Adding' = Adding
                 \/ Adding' = Adding \ {th}
                 \/ /\ collected < MaxResults /\ th \notin Adding
                    /\ Adding' = Adding \cup {th}
<1>1. /\ UNCHANGED <<entryCount, hits>>
      /\ \A u \in Thread \ {th} : pc'[u] = pc[u] /\ i'[u] = i[u]
  BY StepFacts
<1>2. \A u \in Thread : ChunkBegin(u)' = ChunkBegin(u)
  BY <1>1 DEF ChunkBegin, ChunkSize
<1>3. /\ i[th] \in Nat /\ hits \subseteq Nat /\ ChunkBegin(th) \in Nat
      /\ ChunkSize \in Nat
      /\ ChunkBegin(th) <= i[th]
      /\ collected \in Nat /\ MaxResults \in Nat
  BY Basics, ChunkFacts DEF TypeOK, PlaceInv
<1>4. ASSUME UNCHANGED i PROVE Counted' = Counted
  BY <1>1, <1>2, <1>4 DEF Counted
<1>5. CASE ReadCancel(th)
  <2>1. pc[th] = "cancelled?" /\ pc'[th] \in {"done", "full?"}
    BY <1>5 DEF ReadCancel, Goto, TypeOK
  <2>2. Adding' = Adding
    BY <1>1, <2>1 DEF Adding
  <2> QED
    BY <1>4, <1>5, <2>2 DEF ReadCancel
<1>6. CASE ReadCollected(th)
  <2>1. /\ pc[th] = "full?"
        /\ \/ pc'[th] = "done"
           \/ pc'[th] = "test" /\ collected < MaxResults
    BY <1>3, <1>6 DEF ReadCollected, Goto, TypeOK
  <2>2. \/ Adding' = Adding
        \/ /\ collected < MaxResults /\ th \notin Adding
           /\ Adding' = Adding \cup {th}
    BY <1>1, <2>1 DEF Adding
  <2> QED
    BY <1>4, <1>6, <2>2 DEF ReadCollected
<1>7. CASE Test(th) /\ i[th] \in hits
  <2>1. pc[th] = "test" /\ pc'[th] = "count" /\ UNCHANGED <<i, collected>>
    BY <1>7 DEF Test, Goto, TypeOK
  <2>2. Adding' = Adding
    BY <1>1, <2>1 DEF Adding
  <2> QED
    BY <1>4, <2>1, <2>2
<1>8. CASE Test(th) /\ i[th] \notin hits
  <2>1. /\ pc[th] = "test" /\ pc'[th] = "cancelled?" /\ UNCHANGED collected
        /\ i'[th] = i[th] + 1
    BY <1>8 DEF Test, Goto, TypeOK
  <2>2. Adding' = Adding \ {th}
    BY <1>1, <2>1 DEF Adding
  <2>3. \A e \in hits : e < i'[th] <=> e < i[th]
    BY <1>3, <1>8, <2>1
  <2>4. Counted' = Counted
    BY <1>1, <1>2, <2>3 DEF Counted
  <2> QED
    BY <2>1, <2>2, <2>4
<1>9. CASE Count(th)
  <2>1. /\ pc[th] = "count" /\ pc'[th] = "cancelled?" /\ i'[th] = i[th] + 1
        /\ i[th] \in hits
        /\ i[th] < ChunkEnd(th) /\ ChunkEnd(th) <= ChunkBegin(th) + ChunkSize
        /\ ChunkEnd(th) \in Nat
    BY <1>9, Basics, ChunkFacts DEF Count, Goto, TypeOK, PlaceInv
  <2>2. th \in Adding /\ Adding' = Adding \ {th}
    BY <1>1, <2>1 DEF Adding
  <2>3. i[th] \notin Counted
    <3>1. ASSUME NEW u \in Thread, ChunkBegin(u) <= i[th], i[th] < i[u]
          PROVE  FALSE
      <4>1. i[th] < ChunkBegin(th) + ChunkSize
        BY <1>3, <2>1
      <4>2. u = th
        BY <1>3, <2>1, <3>1, <4>1, OwnChunk
      <4> QED
        BY <1>3, <3>1, <4>2
    <3> QED
      BY <3>1 DEF Counted
  <2>4. \A e \in hits : e < i'[th] <=> e < i[th] \/ e = i[th]
    BY <1>3, <2>1
  <2>5. ASSUME NEW e \in hits
        PROVE  e \in Counted' <=> e \in Counted \/ e = i[th]
    <3>1. \A u \in Thread : u # th => (e < i'[u] <=> e < i[u])
      BY <1>1
    <3>2. e = i[th] => ChunkBegin(th) <= e
      BY <1>3
    <3> QED
      BY <1>1, <1>2, <2>4, <3>1, <3>2 DEF Counted
  <2>6. Counted' \subseteq hits /\ Counted \subseteq hits
    BY <1>1 DEF Counted
  <2> QED
    BY <1>9, <2>1, <2>2, <2>3, <2>5, <2>6
<1> QED
  BY <1>5, <1>6, <1>7, <1>8, <1>9 DEF Step

LEMMA CountStep ==
    ASSUME TypeOK, PlaceInv, CountInv, OvershootInv, NEW th \in Thread, Step(th)
    PROVE  CountInv' /\ OvershootInv'
<1>1. /\ IsFiniteSet(Counted) /\ IsFiniteSet(Adding)
      /\ collected \in Nat /\ NumThreads \in Nat \ {0} /\ MaxResults \in Nat
  BY Basics, FS_Subset DEF Counted, Adding, TypeOK
<1>2. Cardinality(Adding) \in Nat /\ Cardinality(Counted) \in Nat
  BY <1>1, FS_CardinalityType
<1>3. CASE /\ Count(th) /\ i[th] \in hits \ Counted
           /\ Counted' = Counted \cup {i[th]}
           /\ th \in Adding /\ Adding' = Adding \ {th}
  <2>1. Cardinality(Counted') = Cardinality(Counted) + 1
    BY <1>1, <1>3, FS_AddElement
  <2>2. Cardinality(Adding') = Cardinality(Adding) - 1
    BY <1>1, <1>3, FS_RemoveElement
  <2>3. collected' = collected + 1
    BY <1>3 DEF Count
  <2> QED
    BY <1>1, <1>2, <2>1, <2>2, <2>3 DEF CountInv, OvershootInv
<1>4. CASE UNCHANGED collected /\ Counted' = Counted
  <2>1. CountInv'
    BY <1>4 DEF CountInv
  <2>2. CASE Adding' = Adding
    BY <1>4, <2>1, <2>2 DEF OvershootInv
  <2>3. CASE Adding' = Adding \ {th}
    <3>1. Cardinality(Adding') <= Cardinality(Adding) /\ Cardinality(Adding') \in Nat
      <4>1. Adding' \in SUBSET Adding
        BY <2>3
      <4> QED
        BY <1>1, <4>1, FS_Subset, FS_CardinalityType
    <3> QED
      BY <1>1, <1>2, <1>4, <2>1, <3>1 DEF OvershootInv
  <2>4. CASE /\ collected < MaxResults /\ th \notin Adding
             /\ Adding' = Adding \cup {th}
    <3>1. Cardinality(Adding') <= NumThreads /\ Cardinality(Adding') \in Nat
      <4>1. Adding' \in SUBSET Thread
        BY <2>4 DEF Adding
      <4>2. Cardinality(Thread) = NumThreads
        <5>1. 0 \in Int /\ NumThreads - 1 \in Int
              /\ NumThreads = IF 0 > NumThreads - 1 THEN 0 ELSE NumThreads - 1 - 0 + 1
          BY <1>1
        <5> QED
          BY <5>1, FS_Interval DEF Thread
      <4> QED
        BY <4>1, <4>2, Basics, FS_Subset, FS_CardinalityType
    <3> QED
      BY <1>1, <1>4, <2>1, <2>4, <3>1 DEF OvershootInv
  <2> QED
    BY <1>4, <2>1, <2>2, <2>3, <2>4, CountingStep, <1>3
<1> QED
  BY <1>3, <1>4, CountingStep

LEMMA LocalStep ==
    ASSUME TypeOK, PlaceInv, LocalInv, NEW th \in Thread, Step(th)
    PROVE  LocalInv'
<1>1. /\ UNCHANGED <<entryCount, hits>>
      /\ \A u \in Thread \ {th} :
            pc'[u] = pc[u] /\ i'[u] = i[u] /\ local'[u] = local[u]
  BY StepFacts
<1>2. \A u \in Thread : ChunkBegin(u)' = ChunkBegin(u)
  BY <1>1 DEF ChunkBegin, ChunkSize
<1>3. /\ i[th] \in Nat /\ hits \subseteq Nat /\ local[th] \in Seq(Nat)
      /\ ChunkBegin(th) <= i[th] /\ ChunkBegin(th) \in Nat
  BY Basics, ChunkFacts DEF TypeOK, PlaceInv
<1>4. ASSUME Increasing(local'[th]),
             ToSet(local'[th]) =
                {e \in hits : ChunkBegin(th) <= e /\ e < Seen(th)'}
      PROVE  LocalInv'
  <2>1. \A u \in Thread \ {th} : Seen(u)' = Seen(u)
    BY <1>1 DEF Seen
  <2>2. ASSUME NEW u \in Thread, u # th
        PROVE  /\ Increasing(local'[u])
               /\ ToSet(local'[u]) =
                     {e \in hits' : ChunkBegin(u)' <= e /\ e < Seen(u)'}
    <3>1. /\ Increasing(local[u])
          /\ ToSet(local[u]) = {e \in hits : ChunkBegin(u) <= e /\ e < Seen(u)}
      BY DEF LocalInv
    <3>2. local'[u] = local[u] /\ Seen(u)' = Seen(u) /\ hits' = hits
          /\ ChunkBegin(u)' = ChunkBegin(u)
      BY <1>1, <1>2, <2>1, <2>2
    <3> QED
      BY <3>1, <3>2
  <2>3. /\ Increasing(local'[th])
        /\ ToSet(local'[th]) =
              {e \in hits' : ChunkBegin(th)' <= e /\ e < Seen(th)'}
    BY <1>1, <1>2, <1>4
  <2>4. \A u \in Thread :
           /\ Increasing(local'[u])
           /\ ToSet(local'[u]) =
                 {e \in hits' : ChunkBegin(u)' <= e /\ e < Seen(u)'}
    BY <2>2, <2>3
  <2> QED
    BY <2>4 DEF LocalInv, Increasing, ToSet
<1>5. /\ Increasing(local[th])
      /\ ToSet(local[th]) = {e \in hits : ChunkBegin(th) <= e /\ e < Seen(th)}
  BY DEF LocalInv
<1>6. ASSUME local'[th] = local[th], Seen(th)' = Seen(th)
      PROVE  LocalInv'
  BY <1>4, <1>5, <1>6
<1>7. CASE ReadCancel(th) \/ ReadCollected(th)
  <2>1. /\ local' = local /\ i' = i
        /\ pc[th] # "count" /\ pc'[th] # "count"
    BY <1>7 DEF ReadCancel, ReadCollected, Goto, TypeOK
  <2> QED
    BY <1>6, <2>1 DEF Seen
<1>8. CASE Count(th)
  <2>1. /\ local' = local /\ i'[th] = i[th] + 1
        /\ pc[th] = "count" /\ pc'[th] # "count"
    BY <1>8 DEF Count, Goto, TypeOK
  <2> QED
    BY <1>6, <2>1 DEF Seen
<1>9. CASE Test(th) /\ i[th] \notin hits
  <2>1. /\ local' = local /\ i'[th] = i[th] + 1
        /\ pc[th] # "count" /\ pc'[th] # "count"
    BY <1>9 DEF Test, Goto, TypeOK
  <2>2. Seen(th) = i[th] /\ Seen(th)' = i[th] + 1
    BY <2>1 DEF Seen
  <2>3. ASSUME NEW e \in hits
        PROVE  e < i[th] + 1 <=> e < i[th]
    <3>1. e \in Nat /\ e # i[th]
      BY <1>3, <1>9
    <3> QED
      BY <1>3, <3>1
  <2> QED
    BY <1>4, <1>5, <2>1, <2>2, <2>3
<1>10. CASE Test(th) /\ i[th] \in hits
  <2>1. /\ local'[th] = Append(local[th], i[th]) /\ i' = i
        /\ pc[th] # "count" /\ pc'[th] = "count"
    BY <1>10 DEF Test, Goto, TypeOK
  <2>2. Seen(th) = i[th] /\ Seen(th)' = i[th] + 1
    BY <2>1 DEF Seen
  <2>3. \A x \in ToSet(local[th]) : x < i[th]
    BY <1>5, <2>2
  <2>4. /\ Increasing(local'[th])
        /\ ToSet(local'[th]) = ToSet(local[th]) \cup {i[th]}
    BY <1>3, <1>5, <2>1, <2>3, IncreasingAppend
  <2>5. \A e \in hits : e < i[th] + 1 <=> e < i[th] \/ e = i[th]
    BY <1>3
  <2> QED
    BY <1>3, <1>4, <1>5, <1>10, <2>2, <2>4, <2>5
<1> QED
  BY <1>7, <1>8, <1>9, <1>10 DEF Step

LEMMA DoneStep ==
    ASSUME TypeOK, PlaceInv, DoneInv, NEW th \in Thread, Step(th)
    PROVE  DoneInv'
<1>1. /\ UNCHANGED <<entryCount, cancelToken>>
      /\ \A u \in Thread \ {th} : pc'[u] = pc[u] /\ i'[u] = i[u]
  BY StepFacts
<1>2. \A u \in Thread : ChunkEnd(u)' = ChunkEnd(u)
  BY <1>1 DEF ChunkEnd, ChunkBegin, ChunkSize
<1>3. collected \in Nat /\ collected' \in Nat /\ collected' >= collected
      /\ MaxResults \in Nat
  BY Basics, SMTT(30) DEF TypeOK, Step, ReadCancel, ReadCollected, Test, Count
<1>4. ASSUME ~cancelToken, pc'[th] = "done"
      PROVE  i'[th] >= ChunkEnd(th) \/ collected' >= MaxResults
  <2>1. CASE ReadCancel(th)
    BY <1>4, <2>1 DEF ReadCancel, Goto, TypeOK
  <2>2. CASE ReadCollected(th)
    BY <1>4, <2>2 DEF ReadCollected, Goto, TypeOK
  <2>3. CASE Test(th) \/ Count(th)
    BY <1>4, <2>3 DEF Test, Count, Goto, TypeOK
  <2> QED
    BY <2>1, <2>2, <2>3 DEF Step
<1>5. ASSUME ~cancelToken, NEW u \in Thread, u # th, pc'[u] = "done"
      PROVE  i'[u] >= ChunkEnd(u) \/ collected' >= MaxResults
  <2>1. i[u] >= ChunkEnd(u) \/ collected >= MaxResults
    BY <1>1, <1>5 DEF DoneInv
  <2> QED
    BY <1>1, <1>3, <1>5, <2>1
<1> QED
  BY <1>1, <1>2, <1>4, <1>5 DEF DoneInv

\* The chunks that were merged stay as they are.
LEMMA MergedStay ==
    ASSUME TypeOK, PlaceInv, MergeInv, NEW th \in Thread, Step(th)
    PROVE  MergeInv'
<1>1. /\ UNCHANGED <<entryCount, hits, t, results>>
      /\ \A u \in Thread \ {th} : pc'[u] = pc[u]
  BY StepFacts
<1>2. pc[th] # "done"
  BY DEF Step, ReadCancel, ReadCollected, Test, Count
<1>3. t <= th /\ th \in 0..NumThreads /\ t \in 0..NumThreads
  BY <1>2, Basics DEF MergeInv, TypeOK, Thread
<1>4. /\ i[th] \in Nat /\ ChunkBegin(th) \in Nat /\ ChunkBegin(t) \in Nat
      /\ ChunkSize \in Nat
      /\ ChunkBegin(th) <= i[th]
      /\ t < th => ChunkBegin(t) + ChunkSize <= ChunkBegin(th)
  BY <1>3, Basics, ChunkFacts DEF TypeOK, PlaceInv
<1>5. i[th] >= ChunkBegin(t)
  BY <1>3, <1>4
<1>6. ChunkBegin(t)' = ChunkBegin(t)
  BY <1>1 DEF ChunkBegin, ChunkSize
<1>7. Mergeable' = Mergeable
  BY <1>4, <1>5, <1>6, CountingStep DEF Mergeable
<1> QED
  BY <1>1, <1>2, <1>7 DEF MergeInv

LEMMA MergeStep ==
    ASSUME TypeOK, PlaceInv, LocalInv, MergeInv, Merge
    PROVE  MergeInv'
<1> DEFINE n == Min2(Len(local[t]), MaxResults - Len(results))
           v == results \o SubSeq(local[t], 1, n)
<1>1. /\ t \in Thread /\ pc[t] = "done" /\ results' = v /\ t' = t + 1
      /\ UNCHANGED <<entryCount, hits, pc, i>>
      /\ local[t] \in Seq(Nat) /\ results \in Seq(Nat)
      /\ Len(results) <= MaxResults /\ MaxResults \in Nat
      /\ t \in 0..NumThreads /\ NumThreads \in Nat
  <2>1. /\ t \in 0..NumThreads /\ NumThreads \in Nat /\ MaxResults \in Nat
        /\ local \in [Thread -> Seq(Nat)] /\ results \in Seq(Nat)
    BY Basics DEF TypeOK
  <2>2. /\ t < NumThreads /\ pc[t] = "done" /\ results' = v /\ t' = t + 1
        /\ UNCHANGED <<entryCount, hits, pc, i>>
    BY DEF Merge
  <2>3. t \in Thread
    BY <2>1, <2>2 DEF Thread
  <2> QED
    BY <2>1, <2>2, <2>3 DEF MergeInv
<1>2. /\ Len(local[t]) \in Nat /\ Len(results) \in Nat
      /\ n \in 0..Len(local[t]) /\ n <= MaxResults - Len(results)
      /\ n = Len(local[t]) \/ n = MaxResults - Len(results)
  BY <1>1, LenProperties DEF Min2
<1>3. /\ Increasing(local[t])
      /\ ToSet(local[t]) = {e \in hits : ChunkBegin(t) <= e /\ e < i[t]}
  BY <1>1 DEF LocalInv, Seen
<1>4. /\ ChunkBegin(t) \in Nat /\ ChunkSize \in Nat
      /\ ChunkBegin(t + 1) = ChunkBegin(t) + ChunkSize
      /\ i[t] \in Nat /\ i[t] <= ChunkBegin(t) + ChunkSize
      /\ hits \subseteq Nat
  BY <1>1, Basics, ChunkFacts DEF TypeOK, PlaceInv
<1>5. ASSUME NEW e \in hits
      PROVE  e \in Mergeable' <=> e \in Mergeable \/ e \in ToSet(local[t])
  <2>1. e \in Mergeable' <=> e \in Counted /\ e < ChunkBegin(t) + ChunkSize
    BY <1>1, <1>4 DEF Mergeable, Counted, ChunkBegin, ChunkSize
  <2>2. e \in Mergeable <=> e \in Counted /\ e < ChunkBegin(t)
    BY DEF Mergeable
  <2>3. e \in Nat
    BY <1>4
  <2>4. CASE e < ChunkBegin(t)
    BY <1>3, <1>4, <2>1, <2>2, <2>3, <2>4
  <2>5. CASE ChunkBegin(t) <= e
    <3>1. ASSUME e \in Counted, e < ChunkBegin(t) + ChunkSize
          PROVE  e < i[t]
      <4>1. PICK u \in Thread : ChunkBegin(u) <= e /\ e < i[u]
        BY <3>1 DEF Counted
      <4>2. u = t
        BY <1>1, <2>5, <3>1, <4>1, OwnChunk
      <4> QED
        BY <4>1, <4>2
    <3>2. e < i[t] => e \in Counted /\ e < ChunkBegin(t) + ChunkSize
      BY <1>1, <1>4, <2>3, <2>5, SMTT(30) DEF Counted
    <3> QED
      BY <1>3, <1>4, <2>1, <2>2, <2>3, <2>5, <3>1, <3>2
  <2> QED
    BY <1>4, <2>3, <2>4, <2>5
<1>6. /\ Mergeable \subseteq hits /\ Mergeable' \subseteq hits
      /\ ToSet(local[t]) \subseteq hits
  BY <1>1, <1>3 DEF Mergeable, Counted
<1>7. Mergeable' = Mergeable \cup ToSet(local[t])
  BY <1>5, <1>6
<1>8. Increasing(results) /\ ToSet(results) \subseteq Mergeable
  BY DEF MergeInv
<1>9. \A x \in ToSet(results), y \in ToSet(local[t]) : x < y
  <2>1. \A x \in Mergeable : x < ChunkBegin(t) /\ x \in Nat
    BY <1>4, <1>6 DEF Mergeable
  <2>2. \A y \in ToSet(local[t]) : ChunkBegin(t) <= y /\ y \in Nat
    BY <1>3, <1>4
  <2> QED
    BY <1>4, <1>8, <2>1, <2>2
<1> HIDE DEF n
<1>10. /\ Len(v) = Len(results) + n
       /\ Increasing(v)
       /\ ToSet(v) \subseteq ToSet(results) \cup ToSet(local[t])
       /\ n = Len(local[t]) => ToSet(v) = ToSet(results) \cup ToSet(local[t])
  BY <1>1, <1>2, <1>3, <1>8, <1>9, IncreasingConcat
<1> HIDE DEF v
<1>11. Len(v) <= MaxResults
  BY <1>1, <1>2, <1>10
<1>12. ToSet(v) \subseteq Mergeable'
  BY <1>7, <1>8, <1>10
<1>13. ASSUME Len(v) < MaxResults
       PROVE  ToSet(v) = Mergeable'
  <2>1. n = Len(local[t]) /\ Len(results) < MaxResults
    BY <1>1, <1>2, <1>10, <1>13
  <2>2. ToSet(results) = Mergeable
    BY <2>1 DEF MergeInv
  <2> QED
    BY <1>7, <1>10, <2>1, <2>2
<1>14. \A th \in Thread : th < t' => pc'[th] = "done"
  BY <1>1 DEF MergeInv, Thread
<1> QED
  BY <1>1, <1>10, <1>11, <1>12, <1>13, <1>14 DEF MergeInv

LEMMA NextInv == IInv /\ [Next]_vars => IInv'
<1> SUFFICES ASSUME IInv, [Next]_vars PROVE IInv'
  OBVIOUS
<1> USE DEF IInv
<1>1. TypeOK' /\ PlaceInv'
  BY PlaceStep
<1>2. ASSUME NEW th \in Thread, Step(th)
      PROVE  IInv'
  BY <1>1, <1>2, LocalStep, CountStep, DoneStep, MergedStay
<1>3. CASE Merge
  <2>1. UNCHANGED <<entryCount, hits, cancelToken, collected, pc, i, local>>
    BY <1>3 DEF Merge
  <2>2. LocalInv'
    BY <2>1 DEF LocalInv, Seen, ChunkBegin, ChunkSize
  <2>3. CountInv' /\ OvershootInv'
    BY <2>1 DEF CountInv, OvershootInv, Counted, Adding, ChunkBegin, ChunkSize
  <2>4. DoneInv'
    BY <2>1 DEF DoneInv, ChunkEnd, ChunkBegin, ChunkSize
  <2> QED
    BY <1>1, <1>3, <2>2, <2>3, <2>4, MergeStep
<1>4. ASSUME UNCHANGED <<entryCount, hits, collected, pc, i, local, t, results>>,
             cancelToken => cancelToken'
      PROVE  IInv'
  <2>1. LocalInv'
    BY <1>4 DEF LocalInv, Seen, ChunkBegin, ChunkSize
  <2>2. Counted' = Counted /\ Adding' = Adding /\ Mergeable' = Mergeable
    BY <1>4 DEF Mergeable, Counted, Adding, ChunkBegin, ChunkSize
  <2>3. CountInv' /\ OvershootInv'
    BY <1>4, <2>2 DEF CountInv, OvershootInv
  <2>4. MergeInv'
    BY <1>4, <2>2 DEF MergeInv
  <2>5. DoneInv'
    BY <1>4 DEF DoneInv, ChunkEnd, ChunkBegin, ChunkSize
  <2> QED
    BY <1>1, <2>1, <2>3, <2>4, <2>5
<1> QED
  BY <1>2, <1>3, <1>4, Quietly

LEMMA Invariant == Spec => []IInv
BY InitInv, NextInv, PTL DEF Spec

----------------------------------------------------------------------------
\* The values of the variables, whatever the size of the index.
THEOREM TypeCorrect == Spec => []TypeOK
<1>1. IInv => TypeOK
  BY DEF IInv
<1> QED
  BY <1>1, Invariant, PTL

\* Cancelled or not, and however the threads overshoot: what SearchSubstring
\* returns are hits, in the order of the index, and not too many.
THEOREM ResultsInOrder == Spec => []ResultsAreOrderedHits
<1>1. IInv => ResultsAreOrderedHits
  BY DEF IInv, MergeInv, Mergeable, Counted, ResultsAreOrderedHits
<1> QED
  BY <1>1, Invariant, PTL

\* Every thread that saw the counter below the maximum adds one hit at most
\* before it looks again.
THEOREM OneTooManyEach == Spec => []BoundedOvershoot
<1>1. IInv => BoundedOvershoot
  <2> SUFFICES ASSUME IInv PROVE BoundedOvershoot
    OBVIOUS
  <2>1. IsFiniteSet(Adding)
    BY Basics, FS_Subset DEF IInv, Adding
  <2>2. Cardinality(Adding) \in Nat /\ collected \in Nat /\ MaxResults \in Nat
        /\ NumThreads \in Nat
    BY <2>1, Basics, FS_CardinalityType DEF IInv, TypeOK
  <2> QED
    BY <2>2 DEF IInv, OvershootInv, BoundedOvershoot
<1> QED
  BY <1>1, Invariant, PTL

\* The chunks leave no entry out and hold none twice, whatever the number of
\* threads, and a thread that stops for the hits of the others has not lost
\* any of its own.
THEOREM AllHitsReturned == Spec => []NoHitLost
<1>1. IInv => NoHitLost
  <2> SUFFICES ASSUME IInv, Returned, ~cancelToken
               PROVE  Len(results) = Min2(MaxResults, Cardinality(hits))
    BY DEF NoHitLost
  <2>1. /\ TypeOK /\ PlaceInv /\ CountInv /\ DoneInv /\ MergeInv
        /\ t = NumThreads
        /\ results \in Seq(Nat) /\ Len(results) \in Nat
        /\ MaxResults \in Nat /\ Len(results) <= MaxResults
        /\ IsFiniteSet(hits) /\ Cardinality(hits) \in Nat
    BY Basics, FS_CardinalityType, LenProperties
    DEF IInv, Returned, TypeOK, MergeInv
  <2>2. /\ Cardinality(ToSet(results)) = Len(results)
        /\ ToSet(results) \subseteq Counted
        /\ Counted \subseteq hits
    BY <2>1, IncreasingCounts DEF MergeInv, Mergeable, Counted
  <2>3. Len(results) <= Cardinality(hits)
    BY <2>1, <2>2, FS_Subset
  <2>4. CASE Len(results) = MaxResults
    BY <2>1, <2>3, <2>4 DEF Min2
  <2>5. CASE Len(results) < MaxResults
    <3>1. ASSUME NEW e \in Counted
          PROVE  e < ChunkBegin(t)
      <4>1. PICK u \in Thread : ChunkBegin(u) <= e /\ e < i[u]
        BY DEF Counted
      <4>2. /\ e \in Nat /\ u \in 0..NumThreads /\ u < NumThreads
            /\ NumThreads \in 0..NumThreads /\ entryCount \in Nat
        BY <2>1, <2>2, <4>1, Basics DEF Thread
      <4>3. /\ ChunkBegin(u) + ChunkSize <= ChunkBegin(NumThreads)
            /\ ChunkBegin(u) \in Nat /\ ChunkBegin(NumThreads) \in Nat
            /\ ChunkSize \in Nat
        BY <4>2, ChunkFacts
      <4>4. i[u] \in Nat /\ i[u] <= ChunkBegin(u) + ChunkSize
        BY <2>1 DEF TypeOK, PlaceInv
      <4> QED
        BY <2>1, <4>1, <4>2, <4>3, <4>4
    <3>2. ToSet(results) = Counted
      BY <2>1, <2>2, <2>5, <3>1 DEF MergeInv, Mergeable
    <3>3. collected < MaxResults
      BY <2>1, <2>2, <2>5, <3>2 DEF CountInv
    <3>4. \A th \in Thread : i[th] >= ChunkEnd(th)
      <4>1. \A th \in Thread : th < t
        BY <2>1, Basics DEF Thread
      <4> QED
        BY <2>1, <3>3, <4>1 DEF DoneInv, MergeInv, TypeOK
    <3>5. ASSUME NEW e \in hits
          PROVE  e \in Counted
      <4>1. entryCount \in Nat /\ e \in 0..(entryCount - 1)
        BY <2>1, Basics DEF TypeOK
      <4>2. PICK u \in Thread : ChunkBegin(u) <= e /\ e < ChunkEnd(u)
        BY <4>1, EntryInChunk
      <4>3. i[u] \in Nat /\ ChunkEnd(u) \in Nat /\ i[u] >= ChunkEnd(u) /\ e \in Nat
        BY <2>1, <3>4, <4>1, ChunkFacts DEF TypeOK
      <4>4. e < i[u]
        BY <4>2, <4>3
      <4> QED
        BY <4>2, <4>4 DEF Counted
    <3>6. Len(results) = Cardinality(hits)
      <4>1. Counted = hits
        BY <2>2, <3>5
      <4> QED
        BY <2>2, <3>2, <4>1
    <3> QED
      BY <2>1, <2>5, <3>6 DEF Min2
  <2> QED
    BY <2>1, <2>4, <2>5
<1> QED
  BY <1>1, Invariant, PTL
=============================================================================
