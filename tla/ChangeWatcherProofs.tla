------------------------ MODULE ChangeWatcherProofs ------------------------
(***************************************************************************)
(* For every buffer size and number of changes: the callback is given each *)
(* change once and in order, and if the kernel missed none, all it takes   *)
(* to know which names there are.                                          *)
(*                                                                         *)
(* The invariant speaks of the changes held: those in the thread's buffer  *)
(* that are still to be handed over, and then the kernel's.  A change      *)
(* enters at the end and leaves at the front, when it is delivered, or is  *)
(* missed.  Applied to the callback's copy in that order, they yield the   *)
(* names there are.                                                        *)
(***************************************************************************)
EXTENDS ChangeWatcher, SequenceTheorems, TLAPS

\* What is left of the thread's buffer.
Taken ==
    CASE pc = "batch"                    -> SubSeq(buf, at, Len(buf))
      [] pc = "wait" /\ result = "data" -> buf
      [] OTHER                           -> <<>>

Held == Taken \o kbuf

\* The kernel writes to the buffer only while the thread waits for it, and what
\* it has written there is not nothing.
BufferInv ==
    /\ pending => result = "none" /\ pc \in {"wait", "gone"}
    /\ pc = "wait" /\ result = "data" => buf # <<>>

OrderInv ==
    /\ \A a, b \in 1..Len(delivered) : a < b => delivered[a] < delivered[b]
    /\ \A a, b \in 1..Len(Held) : a < b => Held[a].n < Held[b].n
    /\ \A a \in 1..Len(delivered), b \in 1..Len(Held) : delivered[a] < Held[b].n
    /\ \A b \in 1..Len(Held) : Held[b].n \in 1..number

CoverInv ==
    pc # "gone" =>
        \A n \in 1..number :
            \/ n \in missed
            \/ \E a \in 1..Len(delivered) : delivered[a] = n
            \/ \E b \in 1..Len(Held) : Held[b].n = n

Adds(record) == EventType(record.action) # "Removed"

\* x is there if the last change of it adds it, or there is no such change and
\* it was there before.
Present(before, changes, x) ==
    \/ x \in before /\ \A k \in 1..Len(changes) : changes[k].name # x
    \/ \E k \in 1..Len(changes) :
          /\ changes[k].name = x
          /\ Adds(changes[k])
          /\ \A j \in 1..Len(changes) : j > k => changes[j].name # x

CopyInv ==
    pc # "gone" /\ missed = {} =>
        \A x \in Name : Present(copy, Held, x) <=> x \in names

IInv ==
    /\ TypeOK
    /\ BufferInv
    /\ OrderInv
    /\ CoverInv
    /\ CopyInv

----------------------------------------------------------------------------
(* Sequences of changes.                                                   *)

\* One more change.
LEMMA PresentAppend ==
    ASSUME NEW h \in Seq(Record), NEW record \in Record, NEW before, NEW x
    PROVE  Present(before, Append(h, record), x) <=>
               IF record.name = x THEN Adds(record) ELSE Present(before, h, x)
<1> DEFINE u == Append(h, record)
           n == Len(h)
<1>1. /\ u \in Seq(Record) /\ Len(u) = n + 1 /\ n \in Nat
      /\ \A k \in 1..n : u[k] = h[k]
      /\ u[n + 1] = record
  BY AppendProperties
<1> HIDE DEF u, n
<1>2. \A k \in 1..Len(u) : k \in 1..n \/ k = n + 1
  BY <1>1
<1>3. n + 1 \in 1..Len(u) /\ \A k \in 1..n : k \in 1..Len(u) /\ n + 1 > k
  BY <1>1
<1>4. CASE record.name = x
  <2>1. Present(before, u, x) => Adds(record)
    <3> SUFFICES ASSUME Present(before, u, x) PROVE Adds(record)
      OBVIOUS
    <3>1. ~\A k \in 1..Len(u) : u[k].name # x
      BY <1>1, <1>3, <1>4
    <3>2. PICK k \in 1..Len(u) :
             /\ u[k].name = x /\ Adds(u[k])
             /\ \A j \in 1..Len(u) : j > k => u[j].name # x
      BY <3>1 DEF Present
    <3>3. k = n + 1
      BY <1>1, <1>2, <1>3, <1>4, <3>2
    <3> QED
      BY <1>1, <3>2, <3>3
  <2>2. Adds(record) => Present(before, u, x)
    <3>1. \A j \in 1..Len(u) : ~(j > n + 1)
      BY <1>1
    <3> QED
      BY <1>1, <1>3, <1>4, <3>1 DEF Present
  <2> QED
    BY <1>4, <2>1, <2>2 DEF u
<1>5. CASE record.name # x
  <2>1. ASSUME Present(before, h, x)
        PROVE  Present(before, u, x)
    <3>1. CASE x \in before /\ \A k \in 1..n : h[k].name # x
      <4>1. \A k \in 1..Len(u) : u[k].name # x
        BY <1>1, <1>2, <1>5, <3>1
      <4> QED
        BY <3>1, <4>1 DEF Present
    <3>2. ASSUME NEW k \in 1..n, h[k].name = x, Adds(h[k]),
                 \A j \in 1..n : j > k => h[j].name # x
          PROVE  Present(before, u, x)
      <4>1. \A j \in 1..Len(u) : j > k => u[j].name # x
        BY <1>1, <1>2, <1>5, <3>2
      <4>2. k \in 1..Len(u) /\ u[k].name = x /\ Adds(u[k])
        BY <1>1, <1>3, <3>2
      <4> QED
        BY <4>1, <4>2 DEF Present
    <3> QED
      BY <2>1, <3>1, <3>2 DEF Present, n
  <2>2. ASSUME Present(before, u, x)
        PROVE  Present(before, h, x)
    <3>1. CASE x \in before /\ \A k \in 1..Len(u) : u[k].name # x
      <4>1. \A k \in 1..n : h[k].name # x
        BY <1>1, <1>3, <3>1
      <4> QED
        BY <3>1, <4>1 DEF Present, n
    <3>2. ASSUME NEW k \in 1..Len(u), u[k].name = x, Adds(u[k]),
                 \A j \in 1..Len(u) : j > k => u[j].name # x
          PROVE  Present(before, h, x)
      <4>1. k \in 1..n
        BY <1>1, <1>2, <1>5, <3>2
      <4>2. h[k].name = x /\ Adds(h[k]) /\ \A j \in 1..n : j > k => h[j].name # x
        BY <1>1, <1>3, <3>2, <4>1
      <4> QED
        BY <4>1, <4>2 DEF Present, n
    <3> QED
      BY <2>2, <3>1, <3>2 DEF Present
  <2> QED
    BY <1>5, <2>1, <2>2 DEF u
<1> QED
  BY <1>4, <1>5

\* The first change is applied.
LEMMA PresentTail ==
    ASSUME NEW h \in Seq(Record), h # <<>>, NEW before, NEW x,
           NEW after,
           after = IF Adds(h[1]) THEN before \cup {h[1].name}
                                 ELSE before \ {h[1].name}
    PROVE  Present(after, Tail(h), x) <=> Present(before, h, x)
<1> DEFINE u == Tail(h)
           n == Len(u)
<1>1. /\ u \in Seq(Record) /\ Len(h) = n + 1 /\ n \in Nat
      /\ \A k \in 1..n : u[k] = h[k + 1]
  BY HeadTailProperties, LenProperties
<1> HIDE DEF u, n
<1>2. /\ 1 \in 1..Len(h)
      /\ \A k \in 1..n : k + 1 \in 1..Len(h) /\ k + 1 > 1
      /\ \A k \in 1..Len(h) : k = 1 \/ (k - 1 \in 1..n /\ k = k - 1 + 1)
  BY <1>1
<1>3. (\A k \in 1..Len(h) : h[k].name # x)
         <=> h[1].name # x /\ \A k \in 1..n : u[k].name # x
  <2>1. \A k \in 1..Len(h) : k = 1 \/ \E m \in 1..n : h[k] = u[m]
    BY <1>1, <1>2
  <2>2. \A m \in 1..n : h[m + 1] = u[m] /\ m + 1 \in 1..Len(h)
    BY <1>1, <1>2
  <2>3. ASSUME \A k \in 1..Len(h) : h[k].name # x
        PROVE  h[1].name # x /\ \A k \in 1..n : u[k].name # x
    BY <1>2, <2>2, <2>3
  <2>4. ASSUME h[1].name # x, \A k \in 1..n : u[k].name # x,
               NEW k \in 1..Len(h)
        PROVE  h[k].name # x
    BY <2>1, <2>4
  <2> QED
    BY <2>3, <2>4
<1> DEFINE LastAdds(v, k) ==
              /\ v[k].name = x /\ Adds(v[k])
              /\ \A j \in 1..Len(v) : j > k => v[j].name # x
<1>4. ASSUME NEW k \in 1..n
      PROVE  LastAdds(u, k) <=> LastAdds(h, k + 1)
  <2>1. u[k] = h[k + 1]
    BY <1>1
  <2>2. ASSUME \A j \in 1..n : j > k => u[j].name # x,
               NEW j \in 1..Len(h), j > k + 1
        PROVE  h[j].name # x
    <3>1. j - 1 \in 1..n /\ j - 1 > k /\ j = j - 1 + 1
      BY <1>1, <2>2
    <3> QED
      BY <1>1, <2>2, <3>1
  <2>3. ASSUME \A j \in 1..Len(h) : j > k + 1 => h[j].name # x,
               NEW j \in 1..n, j > k
        PROVE  u[j].name # x
    <3>1. j + 1 \in 1..Len(h) /\ j + 1 > k + 1
      BY <1>1, <2>3
    <3> QED
      BY <1>1, <2>3, <3>1
  <2> QED
    BY <2>1, <2>2, <2>3 DEF n
<1>5. LastAdds(h, 1) <=>
         h[1].name = x /\ Adds(h[1]) /\ \A k \in 1..n : u[k].name # x
  <2>1. (\A j \in 1..Len(h) : j > 1 => h[j].name # x)
           <=> \A k \in 1..n : u[k].name # x
    <3>1. ASSUME NEW k \in 1..Len(h), k > 1
          PROVE  \E m \in 1..n : h[k] = u[m]
      <4>1. k - 1 \in 1..n /\ k = k - 1 + 1
        BY <1>1, <3>1
      <4>2. u[k - 1] = h[k]
        BY <1>1, <4>1
      <4> QED
        BY <4>1, <4>2
    <3>2. \A m \in 1..n :
             h[m + 1] = u[m] /\ m + 1 \in 1..Len(h) /\ m + 1 > 1
      BY <1>1, <1>2
    <3>3. ASSUME \A j \in 1..Len(h) : j > 1 => h[j].name # x, NEW k \in 1..n
          PROVE  u[k].name # x
      BY <3>2, <3>3
    <3>4. ASSUME \A k \in 1..n : u[k].name # x, NEW j \in 1..Len(h), j > 1
          PROVE  h[j].name # x
      BY <3>1, <3>4
    <3> QED
      BY <3>3, <3>4
  <2> QED
    BY <2>1
<1>6. Present(after, u, x) <=>
         \/ x \in after /\ \A k \in 1..n : u[k].name # x
         \/ \E k \in 1..n : LastAdds(u, k)
  BY DEF Present, n
<1>7. Present(before, h, x) <=>
         \/ x \in before /\ \A k \in 1..Len(h) : h[k].name # x
         \/ \E k \in 1..Len(h) : LastAdds(h, k)
  BY DEF Present
<1>8. (\E k \in 1..Len(h) : LastAdds(h, k))
         <=> LastAdds(h, 1) \/ \E k \in 1..n : LastAdds(u, k)
  <2> HIDE DEF LastAdds
  <2> QED
    BY <1>2, <1>4
<1> HIDE DEF LastAdds
<1>9. x \in after <=> IF h[1].name = x THEN Adds(h[1]) ELSE x \in before
  OBVIOUS
<1> QED
  BY <1>3, <1>5, <1>6, <1>7, <1>8, <1>9 DEF u

----------------------------------------------------------------------------
(* Types, and what is held.                                                *)

LEMMA TakenType ==
    ASSUME TypeOK
    PROVE  /\ Taken \in Seq(Record) /\ kbuf \in Seq(Record)
           /\ Held \in Seq(Record)
           /\ pc \notin {"batch", "wait"} => Held = kbuf
           /\ pc = "wait" /\ result # "data" => Held = kbuf
<1>1. /\ buf \in Seq(Record) /\ kbuf \in Seq(Record) /\ at \in Nat \ {0}
      /\ Len(buf) \in Nat
  BY DEF TypeOK
<1>2. SubSeq(buf, at, Len(buf)) \in Seq(Record)
  <2>1. \A k \in at..Len(buf) : buf[k] \in Record
    BY <1>1
  <2>2. at \in Int /\ Len(buf) \in Int
    BY <1>1
  <2> QED
    BY <2>1, <2>2, SubSeqProperties
<1>3. <<>> \in Seq(Record) /\ <<>> \o kbuf = kbuf
  BY <1>1, EmptySeq, ConcatEmptySeq
<1>4. CASE pc = "batch"
  <2>1. Taken = SubSeq(buf, at, Len(buf))
    BY <1>4 DEF Taken
  <2> QED
    BY <1>1, <1>2, <1>4, <2>1, ConcatProperties DEF Held
<1>5. CASE pc = "wait" /\ result = "data"
  <2>1. Taken = buf
    BY <1>5 DEF Taken
  <2> QED
    BY <1>1, <1>5, <2>1, ConcatProperties DEF Held
<1>6. CASE pc # "batch" /\ ~(pc = "wait" /\ result = "data")
  <2>1. Taken = <<>>
    BY <1>6 DEF Taken
  <2> QED
    BY <1>1, <1>3, <1>6, <2>1 DEF Held
<1> QED
  BY <1>4, <1>5, <1>6

LEMMA UndeliveredIsHeld == Undelivered = [k \in 1..Len(Held) |-> Held[k].n]
BY DEF Undelivered, Held, Taken

\* What is held may become less at the front and at the back.
LEMMA OrderCut ==
    ASSUME OrderInv, UNCHANGED delivered, number \in Nat, number' \in Nat,
           number' >= number, NEW m \in Nat,
           \A k \in 1..Len(Held') : k + m \in 1..Len(Held) /\ Held'[k] = Held[k + m]
    PROVE  OrderInv'
<1> DEFINE h == Held
           u == Held'
<1>1. /\ \A a, b \in 1..Len(h) : a < b => h[a].n < h[b].n
      /\ \A a \in 1..Len(delivered), b \in 1..Len(h) : delivered[a] < h[b].n
      /\ \A b \in 1..Len(h) : h[b].n \in 1..number
      /\ \A a, b \in 1..Len(delivered) : a < b => delivered[a] < delivered[b]
  BY DEF OrderInv
<1>2. \A k \in 1..Len(u) : k + m \in 1..Len(h) /\ u[k] = h[k + m]
  OBVIOUS
<1> HIDE DEF h, u
<1>3. ASSUME NEW a \in 1..Len(u), NEW b \in 1..Len(u), a < b
      PROVE  u[a].n < u[b].n
  <2>1. a + m < b + m
    BY <1>3
  <2> QED
    BY <1>1, <1>2, <2>1
<1>4. \A a \in 1..Len(delivered), b \in 1..Len(u) : delivered[a] < u[b].n
  BY <1>1, <1>2
<1>5. ASSUME NEW b \in 1..Len(u)
      PROVE  u[b].n \in 1..number'
  <2>1. u[b].n \in 1..number
    BY <1>1, <1>2
  <2> QED
    BY <2>1
<1> QED
  BY <1>1, <1>3, <1>4, <1>5 DEF OrderInv, u

\* New changes come after those held, and have the next numbers.
LEMMA OrderGrows ==
    ASSUME TypeOK, OrderInv, UNCHANGED delivered, NEW changes \in Seq(Record),
           \A k \in 1..Len(changes) : changes[k].n = number + k,
           number' = number + Len(changes), Held' = Held \o changes
    PROVE  OrderInv'
<1> DEFINE h == Held
           u == Held'
           d == Len(changes)
<1>1. /\ \A a, b \in 1..Len(h) : a < b => h[a].n < h[b].n
      /\ \A a \in 1..Len(delivered), b \in 1..Len(h) : delivered[a] < h[b].n
      /\ \A b \in 1..Len(h) : h[b].n \in 1..number
      /\ \A a, b \in 1..Len(delivered) : a < b => delivered[a] < delivered[b]
  BY DEF OrderInv
<1>2. h \in Seq(Record) /\ Len(h) \in Nat /\ d \in Nat /\ number \in Nat
  BY TakenType DEF TypeOK
<1>3. /\ Len(u) = Len(h) + d
      /\ \A k \in 1..(Len(h) + d) :
            u[k] = IF k <= Len(h) THEN h[k] ELSE changes[k - Len(h)]
  BY <1>2, ConcatProperties
<1>4. \A k \in 1..Len(delivered) : delivered[k] \in 1..number
  BY DEF TypeOK
<1> HIDE DEF h, u
<1>5. ASSUME NEW b \in 1..Len(u)
      PROVE  \/ b \in 1..Len(h) /\ u[b] = h[b]
             \/ /\ b > Len(h) /\ b - Len(h) \in 1..d
                /\ u[b].n = number + (b - Len(h))
  <2>1. CASE b <= Len(h)
    BY <1>2, <1>3, <2>1
  <2>2. CASE b > Len(h)
    <3>1. b - Len(h) \in 1..d /\ u[b] = changes[b - Len(h)]
      BY <1>2, <1>3, <2>2
    <3> QED
      BY <2>2, <3>1
  <2> QED
    BY <1>2, <2>1, <2>2
<1>6. ASSUME NEW a \in 1..Len(u), NEW b \in 1..Len(u), a < b
      PROVE  u[a].n < u[b].n
  <2>1. CASE b \in 1..Len(h) /\ u[b] = h[b]
    <3>1. a \in 1..Len(h) /\ u[a] = h[a]
      BY <1>2, <1>5, <1>6, <2>1, SMTT(30)
    <3> QED
      BY <1>1, <1>6, <2>1, <3>1
  <2>2. CASE b > Len(h) /\ b - Len(h) \in 1..d /\ u[b].n = number + (b - Len(h))
    <3>1. CASE a \in 1..Len(h) /\ u[a] = h[a]
      <4>1. u[a].n \in 1..number
        BY <1>1, <3>1
      <4> QED
        BY <1>2, <2>2, <4>1
    <3>2. CASE a - Len(h) \in 1..d /\ u[a].n = number + (a - Len(h))
      BY <1>2, <1>6, <2>2, <3>2, SMTT(30)
    <3> QED
      BY <1>5, <3>1, <3>2
  <2> QED
    BY <1>5, <2>1, <2>2
<1>7. ASSUME NEW b \in 1..Len(u)
      PROVE  /\ u[b].n \in 1..number'
             /\ \A a \in 1..Len(delivered) : delivered[a] < u[b].n
  <2>1. CASE b \in 1..Len(h) /\ u[b] = h[b]
    <3>1. u[b].n \in 1..number
      BY <1>1, <2>1
    <3> QED
      BY <1>1, <1>2, <2>1, <3>1
  <2>2. CASE b - Len(h) \in 1..d /\ u[b].n = number + (b - Len(h))
    BY <1>2, <1>4, <2>2, SMTT(30)
  <2> QED
    BY <1>5, <2>1, <2>2
<1> QED
  BY <1>1, <1>6, <1>7 DEF OrderInv, u

\* What is held is what the thread took and then what the kernel has.
LEMMA HeldParts ==
    ASSUME TypeOK
    PROVE  /\ Len(Taken) \in Nat /\ Len(kbuf) \in Nat
           /\ Len(Held) = Len(Taken) + Len(kbuf)
           /\ \A k \in 1..Len(Taken) : k \in 1..Len(Held) /\ Held[k] = Taken[k]
           /\ \A k \in 1..Len(kbuf) : /\ Len(Taken) + k \in 1..Len(Held)
                                      /\ Held[Len(Taken) + k] = kbuf[k]
           /\ \A b \in 1..Len(Held) :
                 \/ b \in 1..Len(Taken)
                 \/ b - Len(Taken) \in 1..Len(kbuf) /\ Held[b] = kbuf[b - Len(Taken)]
<1>1. Taken \in Seq(Record) /\ kbuf \in Seq(Record)
  BY TakenType
<1>2. /\ Len(Taken) \in Nat /\ Len(kbuf) \in Nat
      /\ Len(Held) = Len(Taken) + Len(kbuf)
      /\ \A k \in 1..(Len(Taken) + Len(kbuf)) :
            Held[k] = IF k <= Len(Taken) THEN Taken[k] ELSE kbuf[k - Len(Taken)]
  BY <1>1, ConcatProperties, LenProperties DEF Held
<1>3. ASSUME NEW k \in 1..Len(Taken)
      PROVE  k \in 1..Len(Held) /\ Held[k] = Taken[k]
  BY <1>2
<1>4. ASSUME NEW k \in 1..Len(kbuf)
      PROVE  Len(Taken) + k \in 1..Len(Held) /\ Held[Len(Taken) + k] = kbuf[k]
  <2>1. /\ Len(Taken) + k \in 1..(Len(Taken) + Len(kbuf))
        /\ ~(Len(Taken) + k <= Len(Taken)) /\ Len(Taken) + k - Len(Taken) = k
    BY <1>2
  <2> QED
    BY <1>2, <2>1
<1>5. ASSUME NEW b \in 1..Len(Held)
      PROVE  \/ b \in 1..Len(Taken)
             \/ b - Len(Taken) \in 1..Len(kbuf) /\ Held[b] = kbuf[b - Len(Taken)]
  BY <1>2
<1> QED
  BY <1>2, <1>3, <1>4, <1>5

LEMMA KernelNumbers ==
    ASSUME TypeOK, OrderInv
    PROVE  Numbers(kbuf) \subseteq 1..number
<1>1. \A k \in 1..Len(kbuf) : kbuf[k].n \in 1..number
  <2>1. \A b \in 1..Len(Held) : Held[b].n \in 1..number
    BY DEF OrderInv
  <2> QED
    BY <2>1, HeldParts
<1> QED
  BY <1>1 DEF Numbers

\* Nothing happens to the changes.
LEMMA HeldKept ==
    ASSUME OrderInv, CoverInv, CopyInv, Held' = Held,
           UNCHANGED <<names, number, missed, delivered, copy>>,
           pc' # "gone" => pc # "gone"
    PROVE  OrderInv' /\ CoverInv' /\ CopyInv'
<1>1. OrderInv'
  BY DEF OrderInv
<1>2. CoverInv'
  BY DEF CoverInv
<1>3. CopyInv'
  <2> SUFFICES ASSUME pc' # "gone", missed' = {}, NEW x \in Name
               PROVE  Present(copy', Held', x) <=> x \in names'
    BY DEF CopyInv
  <2> QED
    BY DEF CopyInv
<1> QED
  BY <1>1, <1>2, <1>3

\* Some changes are dropped, and missed.
LEMMA CoverCut ==
    ASSUME CoverInv, UNCHANGED <<number, delivered>>, missed \subseteq missed',
           pc' # "gone" => pc # "gone",
           \A b \in 1..Len(Held) :
              Held[b].n \in missed' \/ \E c \in 1..Len(Held') : Held'[c].n = Held[b].n
    PROVE  CoverInv'
<1> SUFFICES ASSUME pc' # "gone", NEW n \in 1..number, n \notin missed',
                    ~\E a \in 1..Len(delivered) : delivered[a] = n
             PROVE  \E b \in 1..Len(Held') : Held'[b].n = n
  BY DEF CoverInv
<1>1. PICK b \in 1..Len(Held) : Held[b].n = n
  BY DEF CoverInv
<1> QED
  BY <1>1

LEMMA InitInv == Init => IInv
<1> SUFFICES ASSUME Init PROVE IInv
  OBVIOUS
<1> USE WatcherAssumption DEF Init
<1>1. <<>> \in Seq(Record) /\ <<>> \in Seq(1..number) /\ Len(<<>>) = 0
  BY EmptySeq
<1>2. TypeOK
  <2>1. PICK none \in Seq(Record) : none = <<>> /\ Len(none) = 0
    BY EmptySeq
  <2>2. none \in Seq(1..number)
    BY <1>1, <2>1
  <2>3. kbuf \in Seq(Record) /\ Len(kbuf) <= BufSize /\ buf \in Seq(Record)
    BY <2>1
  <2>4. delivered \in Seq(1..number)
    BY <2>1, <2>2
  <2>5. /\ names \subseteq Name /\ copy \subseteq Name
        /\ number \in 0..MaxChanges /\ missed \subseteq 1..number
        /\ at \in Nat \ {0} /\ (pc = "batch" => at <= Len(buf))
    OBVIOUS
  <2>6. /\ armed \in BOOLEAN /\ overflow \in BOOLEAN /\ pending \in BOOLEAN
        /\ stop \in BOOLEAN /\ hStop \in BOOLEAN
        /\ result = "none" /\ dir \in {"open", "invalid"} /\ pc = "begin"
        /\ owner = "running"
    OBVIOUS
  <2> HIDE DEF Init
  <2> QED
    BY <2>3, <2>4, <2>5, <2>6 DEF TypeOK
<1>3. Held = <<>> /\ Len(Held) = 0
  BY <1>1, <1>2, TakenType
<1>4. BufferInv
  BY DEF BufferInv
<1>5. OrderInv
  BY <1>1, <1>3 DEF OrderInv
<1>6. CoverInv
  BY DEF CoverInv
<1>7. CopyInv
  BY <1>3 DEF CopyInv, Present
<1> QED
  BY <1>2, <1>4, <1>5, <1>6, <1>7 DEF IInv

----------------------------------------------------------------------------
(* The thread.                                                             *)

LEMMA BeginInv ==
    ASSUME IInv, Begin, UNCHANGED control PROVE IInv'
<1> USE DEF Begin, control, kernel
<1>1. TypeOK'
  BY DEF IInv, TypeOK
<1>2. BufferInv'
  BY DEF IInv, BufferInv
<1>3. Held' = Held
  BY DEF Held, Taken
<1> QED
  BY <1>1, <1>2, <1>3, HeldKept DEF IInv

LEMMA AskInv ==
    ASSUME IInv, Ask, UNCHANGED control PROVE IInv'
<1> USE DEF Ask, control, kernel
<1>1. TypeOK'
  BY ZenonT(40) DEF IInv, TypeOK
<1>2. BufferInv'
  BY DEF IInv, BufferInv
<1>3. Held' = Held
  BY DEF Held, Taken
<1> QED
  BY <1>1, <1>2, <1>3, HeldKept DEF IInv

LEMMA WakeInv ==
    ASSUME IInv, Wake, UNCHANGED control PROVE IInv'
<1> USE DEF Wake, control, kernel
<1>1. buf \in Seq(Record) /\ Len(buf) \in Nat /\ (buf # <<>> => Len(buf) >= 1)
  <2>1. buf \in Seq(Record)
    BY DEF IInv, TypeOK
  <2> QED
    BY <2>1, EmptySeq, LenProperties
<1>2. TypeOK'
  <2>1. pc' = "batch" => at' <= Len(buf')
    BY <1>1 DEF IInv, BufferInv
  <2> QED
    BY <2>1 DEF IInv, TypeOK
<1>3. BufferInv'
  BY DEF IInv, BufferInv
<1>4. Held' = Held
  <2>1. SubSeq(buf, 1, Len(buf)) = buf
    BY <1>1, SubSeqFull
  <2> QED
    BY <2>1 DEF Held, Taken
<1> QED
  BY <1>2, <1>3, <1>4, HeldKept DEF IInv

\* The first change held is the one that is delivered.
LEMMA DeliverHead ==
    ASSUME TypeOK, Deliver
    PROVE  /\ Held # <<>> /\ Held[1] = buf[at] /\ 1 \in 1..Len(Held)
           /\ Held' = Tail(Held)
           /\ Held' \in Seq(Record) /\ Len(Held) = Len(Held') + 1
           /\ \A k \in 1..Len(Held') : Held'[k] = Held[k + 1]
<1> DEFINE rest == SubSeq(buf, at + 1, Len(buf))
<1>1. /\ buf \in Seq(Record) /\ kbuf \in Seq(Record) /\ Len(buf) \in Nat
      /\ at \in 1..Len(buf) /\ pc = "batch" /\ buf[at] \in Record
  BY DEF TypeOK, Deliver
<1>2. rest \in Seq(Record)
  <2>1. \A k \in (at + 1)..Len(buf) : buf[k] \in Record
    BY <1>1
  <2>2. at + 1 \in Int /\ Len(buf) \in Int
    BY <1>1
  <2> QED
    BY <2>1, <2>2, SubSeqProperties
<1>3. Held = <<buf[at]>> \o rest \o kbuf
  <2>1. Len(buf) \in at..Len(buf)
    BY <1>1
  <2> QED
    BY <1>1, <2>1, SubSeqRecursiveFirst DEF Held, Taken
<1>4. Held' = rest \o kbuf
  <2>1. CASE at = Len(buf)
    <3>1. rest = <<>>
      <4>1. at + 1 \in Int /\ Len(buf) \in Int /\ Len(buf) < at + 1
        BY <1>1, <2>1
      <4> QED
        BY <4>1, SubSeqEmpty
    <3> QED
      BY <2>1, <3>1 DEF Deliver, Held, Taken, kernel
  <2>2. CASE at # Len(buf)
    BY <2>2 DEF Deliver, Held, Taken, kernel
  <2> QED
    BY <2>1, <2>2
<1> HIDE DEF rest
<1>5. PICK one \in Seq(Record) : one = <<buf[at]>> /\ Len(one) = 1 /\ one[1] = buf[at]
  <2>1. \A record \in Record :
           <<record>> \in Seq(Record) /\ Len(<<record>>) = 1 /\ <<record>>[1] = record
    OBVIOUS
  <2> QED
    BY <1>1, <2>1
<1>6. Held' \in Seq(Record) /\ Len(Held') \in Nat
  BY <1>1, <1>2, <1>4, ConcatProperties
<1>7. Held = one \o Held'
  BY <1>1, <1>2, <1>3, <1>4, <1>5, ConcatAssociative, SMTT(30)
<1>8. /\ Held \in Seq(Record) /\ Len(Held) = 1 + Len(Held')
      /\ \A k \in 1..(1 + Len(Held')) :
            Held[k] = IF k <= 1 THEN one[k] ELSE Held'[k - 1]
  BY <1>5, <1>6, <1>7, ConcatProperties
<1>9. Held[1] = buf[at] /\ 1 \in 1..Len(Held) /\ Held # <<>>
  <2>1. 1 \in 1..(1 + Len(Held')) /\ Len(Held) # 0
    BY <1>6, <1>8
  <2> QED
    BY <1>5, <1>8, <2>1, EmptySeq
<1>10. ASSUME NEW k \in 1..Len(Held')
       PROVE  Held'[k] = Held[k + 1]
  <2>1. k + 1 \in 1..(1 + Len(Held')) /\ ~(k + 1 <= 1) /\ k + 1 - 1 = k
    BY <1>6
  <2> QED
    BY <1>8, <2>1
<1>11. Held' = Tail(Held)
  <2>1. /\ Tail(Held) \in Seq(Record) /\ Len(Tail(Held)) = Len(Held) - 1
        /\ \A k \in 1..Len(Tail(Held)) : Tail(Held)[k] = Held[k + 1]
    BY <1>8, <1>9, HeadTailProperties
  <2>2. Len(Tail(Held)) = Len(Held')
    BY <1>6, <1>8, <2>1
  <2> QED
    BY <1>6, <1>10, <2>1, <2>2, SeqEqual
<1> QED
  BY <1>6, <1>8, <1>9, <1>10, <1>11

LEMMA DeliverInv ==
    ASSUME IInv, Deliver, UNCHANGED control PROVE IInv'
<1> DEFINE first == Held[1]
<1>1. /\ TypeOK /\ BufferInv /\ OrderInv /\ CoverInv /\ CopyInv
      /\ UNCHANGED <<names, number, missed, buf, kbuf>>
      /\ pc = "batch" /\ number \in Nat
  BY DEF IInv, TypeOK, Deliver, kernel
<1>2. /\ Held # <<>> /\ first = buf[at] /\ 1 \in 1..Len(Held)
      /\ Held' = Tail(Held) /\ Held \in Seq(Record)
      /\ Held' \in Seq(Record) /\ Len(Held') \in Nat /\ Len(Held) = Len(Held') + 1
      /\ \A k \in 1..Len(Held') :
            k + 1 \in 1..Len(Held) /\ Held'[k] = Held[k + 1]
  BY <1>1, DeliverHead, TakenType, LenProperties
<1>3. /\ first \in Record /\ first.n \in 1..number
  BY <1>1, <1>2 DEF OrderInv
<1>4. /\ delivered \in Seq(1..number) /\ Len(delivered) \in Nat
      /\ delivered' = Append(delivered, first.n)
      /\ delivered' \in Seq(1..number)
      /\ Len(delivered') = Len(delivered) + 1
      /\ \A a \in 1..Len(delivered) : delivered'[a] = delivered[a]
      /\ delivered'[Len(delivered) + 1] = first.n
  <2>1. delivered \in Seq(1..number) /\ delivered' = Append(delivered, first.n)
    BY <1>1, <1>2 DEF TypeOK, Deliver
  <2> QED
    BY <1>3, <2>1, AppendProperties, LenProperties
<1>5. copy' = IF Adds(first) THEN copy \cup {first.name} ELSE copy \ {first.name}
  BY <1>2 DEF Deliver, Adds
<1>6. first.name \in Name
  BY <1>3 DEF Record
<1>7. TypeOK'
  <2>1. copy' \subseteq Name
    BY <1>1, <1>5, <1>6 DEF TypeOK
  <2>2. at' \in Nat \ {0} /\ pc' \in {"loop", "batch"}
        /\ (pc' = "batch" => at' <= Len(buf'))
    <3>1. at \in Nat \ {0} /\ Len(buf) \in Nat /\ at <= Len(buf)
      BY <1>1 DEF TypeOK
    <3> QED
      BY <1>1, <3>1 DEF Deliver
  <2> QED
    BY <1>1, <1>4, <2>1, <2>2 DEF TypeOK, Deliver, kernel, control
<1>8. BufferInv'
  BY <1>1 DEF BufferInv, Deliver, kernel
<1> DEFINE h == Held
           u == Held'
<1>9. /\ \A a, b \in 1..Len(h) : a < b => h[a].n < h[b].n
      /\ \A a \in 1..Len(delivered), b \in 1..Len(h) : delivered[a] < h[b].n
      /\ \A b \in 1..Len(h) : h[b].n \in 1..number
      /\ \A a, b \in 1..Len(delivered) : a < b => delivered[a] < delivered[b]
  BY <1>1 DEF OrderInv
<1> HIDE DEF h, u, first
<1>10. /\ \A k \in 1..Len(u) : /\ k + 1 \in 1..Len(h) /\ u[k] = h[k + 1]
                               /\ first.n < u[k].n
       /\ 1 \in 1..Len(h) /\ h[1] = first /\ Len(h) = Len(u) + 1
       /\ Len(u) \in Nat
  <2>1. \A k \in 1..Len(u) : 1 < k + 1
    BY <1>2 DEF u
  <2> QED
    BY <1>2, <1>9, <2>1 DEF h, u, first
<1>11. OrderInv'
  <2>1. ASSUME NEW a \in 1..Len(delivered'), NEW b \in 1..Len(delivered'), a < b
        PROVE  delivered'[a] < delivered'[b]
    <3>1. a \in 1..Len(delivered)
      BY <1>4, <2>1
    <3>2. b \in 1..Len(delivered) \/ b = Len(delivered) + 1
      BY <1>4
    <3> QED
      BY <1>4, <1>9, <1>10, <2>1, <3>1, <3>2
  <2>2. ASSUME NEW a \in 1..Len(u), NEW b \in 1..Len(u), a < b
        PROVE  u[a].n < u[b].n
    <3>1. a + 1 < b + 1
      BY <2>2
    <3> QED
      BY <1>9, <1>10, <3>1
  <2>3. ASSUME NEW a \in 1..Len(delivered'), NEW b \in 1..Len(u)
        PROVE  delivered'[a] < u[b].n
    <3>1. a \in 1..Len(delivered) \/ a = Len(delivered) + 1
      BY <1>4
    <3> QED
      BY <1>4, <1>9, <1>10, <3>1
  <2>4. \A b \in 1..Len(u) : u[b].n \in 1..number
    BY <1>9, <1>10
  <2> QED
    BY <1>1, <2>1, <2>2, <2>3, <2>4 DEF OrderInv, u
<1>12. CoverInv'
  <2> SUFFICES ASSUME NEW n \in 1..number, n \notin missed,
                      ~\E a \in 1..Len(delivered') : delivered'[a] = n
               PROVE  \E b \in 1..Len(u) : u[b].n = n
    BY <1>1 DEF CoverInv, u
  <2>1. ~\E a \in 1..Len(delivered) : delivered[a] = n
    <3>1. \A a \in 1..Len(delivered) : a \in 1..Len(delivered')
      BY <1>4
    <3> QED
      BY <1>4, <3>1
  <2>2. PICK b \in 1..Len(h) : h[b].n = n
    BY <1>1, <2>1 DEF CoverInv, h
  <2>3. first.n # n
    <3>1. Len(delivered) + 1 \in 1..Len(delivered')
      BY <1>4
    <3> QED
      BY <1>4, <3>1
  <2>4. b - 1 \in 1..Len(u) /\ b = b - 1 + 1
    BY <1>10, <2>2, <2>3
  <2> QED
    BY <1>10, <2>2, <2>4
<1>13. CopyInv'
  <2> SUFFICES ASSUME missed' = {}, NEW x \in Name
               PROVE  Present(copy', Held', x) <=> x \in names'
    BY DEF CopyInv
  <2>1. Present(copy', Held', x) <=> Present(copy, Held, x)
    BY <1>2, <1>5, PresentTail DEF first
  <2> QED
    BY <1>1, <2>1 DEF CopyInv
<1> QED
  BY <1>7, <1>8, <1>11, <1>12, <1>13 DEF IInv

----------------------------------------------------------------------------
(* The kernel and other programs.                                          *)

LEMMA CompleteInv ==
    ASSUME IInv, Complete PROVE IInv'
<1>1. /\ TypeOK /\ BufferInv /\ OrderInv /\ CoverInv /\ CopyInv
      /\ kbuf \in Seq(Record) /\ Len(kbuf) \in Nat /\ Len(kbuf) <= BufSize
      /\ number \in Nat
  BY DEF IInv, TypeOK
<1>2. /\ UNCHANGED <<names, number, missed, armed, dir, pc, at, delivered, copy,
                     control>>
      /\ pending /\ pending' = FALSE /\ result = "none" /\ pc \in {"wait", "gone"}
      /\ Held = kbuf
  BY <1>1, TakenType DEF Complete, BufferInv
<1>3. CASE /\ overflow' = FALSE /\ result' = "empty"
           /\ UNCHANGED <<buf, kbuf>>
  <2>1. TypeOK'
    BY <1>1, <1>2, <1>3 DEF TypeOK, control
  <2>2. BufferInv'
    BY <1>2, <1>3 DEF BufferInv
  <2>3. Held' = Held
    BY <1>2, <1>3 DEF Held, Taken
  <2> QED
    BY <1>1, <1>2, <2>1, <2>2, <2>3, HeldKept DEF IInv
<1>4. ASSUME NEW i \in 1..Len(kbuf),
             buf' = IF pc = "gone" THEN buf ELSE SubSeq(kbuf, 1, i),
             kbuf' = SubSeq(kbuf, i + 1, Len(kbuf)),
             result' = "data", UNCHANGED overflow
      PROVE  IInv'
  <2>1. /\ SubSeq(kbuf, 1, i) \in Seq(Record) /\ Len(SubSeq(kbuf, 1, i)) = i
        /\ i >= 1 /\ SubSeq(kbuf, 1, i) # <<>>
    <3>1. /\ \A k \in 1..i : kbuf[k] \in Record
          /\ i \in Int /\ 1 \in Int /\ 1 <= i /\ i - 1 + 1 = i
      BY <1>1
    <3>2. SubSeq(kbuf, 1, i) \in Seq(Record) /\ Len(SubSeq(kbuf, 1, i)) = i
      BY <3>1, SubSeqProperties
    <3> QED
      BY <3>1, <3>2, EmptySeq
  <2>2. /\ kbuf' \in Seq(Record) /\ Len(kbuf') = Len(kbuf) - i
        /\ \A k \in 1..Len(kbuf') : k + i \in 1..Len(kbuf) /\ kbuf'[k] = kbuf[k + i]
    <3>1. /\ \A k \in (i + 1)..Len(kbuf) : kbuf[k] \in Record
          /\ i + 1 \in Int /\ Len(kbuf) \in Int
      BY <1>1
    <3>2. /\ kbuf' \in Seq(Record)
          /\ Len(kbuf') = IF i + 1 <= Len(kbuf) THEN Len(kbuf) - (i + 1) + 1 ELSE 0
          /\ \A k \in 1..(Len(kbuf) - (i + 1) + 1) : kbuf'[k] = kbuf[i + 1 + k - 1]
      BY <1>4, <3>1, SubSeqProperties
    <3>3. Len(kbuf') = Len(kbuf) - i
      BY <1>1, <3>2
    <3>4. ASSUME NEW k \in 1..Len(kbuf')
          PROVE  k + i \in 1..Len(kbuf) /\ kbuf'[k] = kbuf[k + i]
      <4>1. /\ k \in 1..(Len(kbuf) - (i + 1) + 1) /\ i + 1 + k - 1 = k + i
            /\ k + i \in 1..Len(kbuf)
        BY <1>1, <3>3
      <4> QED
        BY <3>2, <4>1
    <3> QED
      BY <3>2, <3>3, <3>4
  <2>3. TypeOK'
    <3>1. buf' \in Seq(Record)
      BY <1>1, <1>4, <2>1 DEF TypeOK
    <3>2. Len(kbuf') <= BufSize
      BY <1>1, <2>2, WatcherAssumption
    <3>3. pc' # "batch"
      BY <1>2
    <3> QED
      BY <1>1, <1>2, <1>4, <2>2, <3>1, <3>2, <3>3 DEF TypeOK, control
  <2>4. BufferInv'
    BY <1>2, <1>4, <2>1 DEF BufferInv
  <2>5. CASE pc = "wait"
    <3>1. Held' = SubSeq(kbuf, 1, i) \o SubSeq(kbuf, i + 1, Len(kbuf))
      BY <1>2, <1>4, <2>5 DEF Held, Taken
    <3>2. SubSeq(kbuf, 1, i) \o SubSeq(kbuf, i + 1, Len(kbuf)) = kbuf
      <4>1. /\ 1 \in 1..(Len(kbuf) + 1) /\ i \in (1 - 1)..Len(kbuf)
            /\ Len(kbuf) \in i..Len(kbuf)
        BY <1>1
      <4> QED
        BY <1>1, <4>1, ConcatAdjacentSubSeq, SubSeqFull
    <3> QED
      BY <1>1, <1>2, <2>3, <2>4, <3>1, <3>2, HeldKept DEF IInv
  <2>6. CASE pc = "gone"
    <3>1. Held' = kbuf'
      BY <1>2, <2>3, <2>6, TakenType DEF Held, Taken
    <3>2. OrderInv'
      <4>1. \A k \in 1..Len(Held') : k + i \in 1..Len(Held) /\ Held'[k] = Held[k + i]
        BY <1>2, <2>2, <3>1
      <4>2. i \in Nat /\ number' = number /\ number' >= number
        BY <1>1, <1>2
      <4> QED
        BY <1>1, <1>2, <4>1, <4>2, OrderCut
    <3>3. CoverInv' /\ CopyInv'
      BY <1>2, <2>6 DEF CoverInv, CopyInv
    <3> QED
      BY <2>3, <2>4, <3>2, <3>3 DEF IInv
  <2> QED
    BY <1>2, <2>5, <2>6
<1> QED
  BY <1>3, <1>4 DEF Complete

LEMMA LoseVolumeInv ==
    ASSUME IInv, LoseVolume PROVE IInv'
<1>1. /\ TypeOK /\ BufferInv /\ OrderInv /\ CoverInv /\ CopyInv
      /\ number \in Nat /\ kbuf \in Seq(Record) /\ Len(kbuf) \in Nat
  BY DEF IInv, TypeOK
<1>2. /\ UNCHANGED <<names, number, armed, overflow, thread, control>>
      /\ pending' = FALSE /\ result' = IF pending THEN "error" ELSE result
      /\ missed' = missed \cup Numbers(kbuf) /\ kbuf' = <<>>
  BY DEF LoseVolume
<1>3. TypeOK'
  <2>1. kbuf' \in Seq(Record) /\ Len(kbuf') <= BufSize
    BY <1>2, WatcherAssumption, EmptySeq
  <2>2. missed' \subseteq 1..number
    BY <1>1, <1>2, KernelNumbers DEF TypeOK
  <2>3. result' \in {"none", "data", "empty", "error"}
    BY <1>1, <1>2 DEF TypeOK
  <2> QED
    BY <1>1, <2>1, <2>2, <2>3 DEF TypeOK, LoseVolume, thread, control
<1>4. BufferInv'
  BY <1>1, <1>2 DEF BufferInv, thread
<1>5. Held' = Taken /\ Taken \in Seq(Record)
  <2>1. Taken' = Taken /\ Taken \in Seq(Record)
    BY <1>1, <1>2, TakenType DEF Taken, BufferInv, thread
  <2> QED
    BY <1>2, <2>1, ConcatEmptySeq DEF Held
<1>6. \A k \in 1..Len(Taken) : k \in 1..Len(Held) /\ Held[k] = Taken[k]
  BY <1>1, HeldParts
<1>7. OrderInv'
  <2>1. \A k \in 1..Len(Held') : k + 0 \in 1..Len(Held) /\ Held'[k] = Held[k + 0]
    <3>1. \A k \in 1..Len(Held') : k + 0 = k
      OBVIOUS
    <3> QED
      BY <1>5, <1>6, <3>1
  <2>2. 0 \in Nat /\ number' \in Nat /\ number' >= number /\ delivered' = delivered
    BY <1>1, <1>2 DEF thread
  <2> QED
    BY <1>1, <2>1, <2>2, OrderCut
<1>8. CoverInv'
  <2>1. ASSUME NEW b \in 1..Len(Held)
        PROVE  Held[b].n \in missed' \/ \E c \in 1..Len(Held') : Held'[c].n = Held[b].n
    <3>1. CASE b \in 1..Len(Taken)
      BY <1>5, <1>6, <3>1
    <3>2. CASE b - Len(Taken) \in 1..Len(kbuf) /\ Held[b] = kbuf[b - Len(Taken)]
      BY <1>2, <3>2 DEF Numbers
    <3> QED
      BY <1>1, <3>1, <3>2, HeldParts
  <2> QED
    BY <1>1, <1>2, <2>1, CoverCut DEF thread
<1>9. CopyInv'
  <2> SUFFICES ASSUME pc # "gone", missed' = {}, NEW x \in Name
               PROVE  Present(copy, Held', x) <=> x \in names
    BY <1>2 DEF CopyInv, thread
  <2>1. missed = {} /\ Numbers(kbuf) = {}
    BY <1>2
  <2>2. kbuf = <<>>
    <3>1. 1 \notin 1..Len(kbuf)
      BY <2>1 DEF Numbers
    <3>2. Len(kbuf) = 0
      BY <1>1, <3>1
    <3> QED
      BY <1>1, <3>2, EmptySeq
  <2>3. Held' = Held
    BY <1>5, <2>2, ConcatEmptySeq DEF Held
  <2> QED
    BY <1>1, <2>1, <2>3 DEF CopyInv
<1> QED
  BY <1>3, <1>4, <1>7, <1>8, <1>9 DEF IInv

LEMMA HappenInv ==
    ASSUME IInv, UNCHANGED <<thread, control>>,
           NEW newNames \in SUBSET Name,
           NEW changes \in Seq(Record), Len(changes) >= 1,
           \A k \in 1..Len(changes) : changes[k].n = number + k,
           Happen(newNames, changes),
           \A x \in Name :
              (Present(copy, Held, x) <=> x \in names)
                 => (Present(copy, Held \o changes, x) <=> x \in newNames)
    PROVE  IInv'
<1> DEFINE collects == armed /\ dir = "open" /\ ~overflow
           fits == Len(kbuf) + Len(changes) <= BufSize
<1>1. /\ TypeOK /\ BufferInv /\ OrderInv /\ CoverInv /\ CopyInv
      /\ number \in Nat /\ kbuf \in Seq(Record) /\ Len(kbuf) \in Nat
      /\ Len(kbuf) <= BufSize /\ Len(changes) \in Nat
  BY LenProperties DEF IInv, TypeOK
<1>2. /\ number + Len(changes) <= MaxChanges
      /\ names' = newNames
      /\ number' = number + Len(changes)
      /\ kbuf' = IF ~collects THEN kbuf
                 ELSE IF fits THEN kbuf \o changes ELSE <<>>
      /\ overflow' = (overflow \/ (collects /\ ~fits))
      /\ missed' = IF collects /\ fits THEN missed
                   ELSE missed \cup Numbers(changes) \cup
                        (IF collects THEN Numbers(kbuf) ELSE {})
      /\ UNCHANGED <<armed, pending, result, dir, pc, buf, at, delivered, copy,
                     stop, hStop, owner>>
  BY DEF Happen, thread, control
<1> HIDE DEF collects, fits
<1>3. Taken' = Taken /\ Taken \in Seq(Record)
  BY <1>1, <1>2, TakenType DEF Taken
<1>4. number' \in Nat /\ number' >= number /\ number' <= MaxChanges
  BY <1>1, <1>2
<1>5. Numbers(changes) = (number + 1)..number'
  <2>1. \A k \in 1..Len(changes) : changes[k].n \in (number + 1)..number'
    BY <1>1, <1>2
  <2>2. ASSUME NEW n \in (number + 1)..number'
        PROVE  n \in Numbers(changes)
    <3>1. n - number \in 1..Len(changes) /\ number + (n - number) = n
      BY <1>1, <1>2
    <3>2. changes[n - number].n = n
      BY <3>1
    <3> QED
      BY <3>1, <3>2 DEF Numbers
  <2> QED
    BY <2>1, <2>2 DEF Numbers
<1>6. number + 1 \in Numbers(changes)
  BY <1>1, <1>2, <1>5
<1>7. BufferInv'
  BY <1>1, <1>2 DEF BufferInv
<1>8. missed' \subseteq 1..number'
  <2>1. missed \subseteq 1..number'
    <3>1. missed \subseteq 1..number
      BY <1>1 DEF TypeOK
    <3> QED
      BY <1>1, <1>4, <3>1
  <2>2. Numbers(changes) \subseteq 1..number'
    BY <1>1, <1>4, <1>5
  <2>3. Numbers(kbuf) \subseteq 1..number'
    <3>1. Numbers(kbuf) \subseteq 1..number
      BY <1>1, KernelNumbers
    <3> QED
      BY <1>1, <1>4, <3>1
  <2> QED
    BY <1>2, <2>1, <2>2, <2>3
<1>9. ASSUME kbuf' \in Seq(Record), Len(kbuf') <= BufSize
      PROVE  TypeOK'
  <2>1. number' \in 0..MaxChanges
    BY <1>4, WatcherAssumption
  <2>2. delivered' \in Seq(1..number')
    <3>1. delivered \in Seq(1..number) /\ \A n \in 1..number : n \in 1..number'
      BY <1>1, <1>4 DEF TypeOK
    <3>2. \A S, T : S \subseteq T => Seq(S) \subseteq Seq(T)
      OBVIOUS
    <3> QED
      BY <1>2, <3>1, <3>2
  <2>3. overflow' \in BOOLEAN
    BY <1>1, <1>2 DEF TypeOK
  <2>4. names' \subseteq Name
    BY <1>2
  <2> QED
    BY <1>1, <1>2, <1>8, <1>9, <2>1, <2>2, <2>3, <2>4 DEF TypeOK
<1>10. CASE collects /\ fits
  <2>1. kbuf' = kbuf \o changes /\ missed' = missed
    BY <1>2, <1>10
  <2>2. TypeOK'
    <3>1. kbuf' \in Seq(Record) /\ Len(kbuf') = Len(kbuf) + Len(changes)
      BY <1>1, <2>1, ConcatProperties
    <3>2. Len(kbuf) + Len(changes) <= BufSize
      BY <1>10 DEF fits
    <3>3. Len(kbuf') <= BufSize
      BY <3>1, <3>2
    <3> QED
      BY <1>9, <3>1, <3>3
  <2>3. Held' = Held \o changes
    <3>1. (Taken \o kbuf) \o changes = Taken \o (kbuf \o changes)
      BY <1>1, <1>3, ConcatAssociative, SMTT(30)
    <3>2. Held' = Taken \o (kbuf \o changes)
      BY <1>3, <2>1 DEF Held
    <3> QED
      BY <3>1, <3>2 DEF Held
  <2>4. OrderInv'
    BY <1>1, <1>2, <2>3, OrderGrows
  <2>5. CoverInv'
    <3>1. /\ Held \in Seq(Record) /\ Len(Held) \in Nat
          /\ Len(Held') = Len(Held) + Len(changes)
          /\ \A k \in 1..(Len(Held) + Len(changes)) :
                Held'[k] = IF k <= Len(Held) THEN Held[k] ELSE changes[k - Len(Held)]
      BY <1>1, <2>3, TakenType, ConcatProperties, LenProperties
    <3>2. \A k \in 1..Len(Held) : k \in 1..Len(Held') /\ Held'[k] = Held[k]
      BY <1>1, <3>1
    <3>3. \A k \in 1..Len(changes) :
             Len(Held) + k \in 1..Len(Held') /\ Held'[Len(Held) + k] = changes[k]
      <4> TAKE k \in 1..Len(changes)
      <4>1. /\ Len(Held) + k \in 1..(Len(Held) + Len(changes))
            /\ ~(Len(Held) + k <= Len(Held)) /\ Len(Held) + k - Len(Held) = k
        BY <1>1, <3>1
      <4> QED
        BY <3>1, <4>1
    <3> SUFFICES ASSUME pc # "gone", NEW n \in 1..number', n \notin missed,
                        ~\E a \in 1..Len(delivered) : delivered[a] = n
                 PROVE  \E b \in 1..Len(Held') : Held'[b].n = n
      BY <1>2, <2>1 DEF CoverInv
    <3>4. CASE n \in 1..number
      <4>1. PICK b \in 1..Len(Held) : Held[b].n = n
        BY <1>1, <3>4 DEF CoverInv
      <4> QED
        BY <3>2, <4>1
    <3>5. CASE n \in (number + 1)..number'
      <4>1. PICK k \in 1..Len(changes) : changes[k].n = n
        BY <1>5, <3>5 DEF Numbers
      <4> QED
        BY <3>3, <4>1
    <3> QED
      BY <1>1, <1>4, <3>4, <3>5
  <2>6. CopyInv'
    BY <1>1, <1>2, <2>1, <2>3 DEF CopyInv
  <2> QED
    BY <1>7, <2>2, <2>4, <2>5, <2>6 DEF IInv
<1>11. CASE ~collects \/ ~fits
  <2>1. number + 1 \in missed' /\ missed \subseteq missed'
        /\ \A n \in (number + 1)..number' : n \in missed'
    BY <1>2, <1>5, <1>6, <1>11
  <2>2. CopyInv'
    BY <2>1 DEF CopyInv
  <2>3. /\ kbuf' \in Seq(Record) /\ Len(kbuf') <= BufSize
        /\ Held' = Taken \/ Held' = Held
        /\ Held' = Taken => Numbers(kbuf) \subseteq missed' \/ Held' = Held
    <3>1. CASE ~collects
      <4>1. kbuf' = kbuf
        BY <1>2, <3>1
      <4>2. Held' = Held
        BY <1>3, <4>1 DEF Held
      <4> QED
        BY <1>1, <4>1, <4>2
    <3>2. CASE collects /\ ~fits
      <4>1. kbuf' = <<>> /\ Numbers(kbuf) \subseteq missed'
        BY <1>2, <3>2
      <4>2. Held' = Taken
        BY <1>3, <4>1, ConcatEmptySeq DEF Held
      <4>3. kbuf' \in Seq(Record) /\ Len(kbuf') <= BufSize
        BY <4>1, WatcherAssumption, EmptySeq
      <4> QED
        BY <4>1, <4>2, <4>3
    <3> QED
      BY <1>11, <3>1, <3>2
  <2>4. \A k \in 1..Len(Held') : k \in 1..Len(Held) /\ Held'[k] = Held[k]
    BY <1>1, <2>3, HeldParts
  <2>5. OrderInv'
    <3>1. \A k \in 1..Len(Held') : k + 0 \in 1..Len(Held) /\ Held'[k] = Held[k + 0]
      <4>1. \A k \in 1..Len(Held') : k + 0 = k
        OBVIOUS
      <4> QED
        BY <2>4, <4>1
    <3>2. 0 \in Nat
      OBVIOUS
    <3> QED
      BY <1>1, <1>2, <1>4, <3>1, <3>2, OrderCut
  <2>6. ASSUME NEW b \in 1..Len(Held)
        PROVE  Held[b].n \in missed' \/ \E c \in 1..Len(Held') : Held'[c].n = Held[b].n
    <3>1. CASE Held' = Held
      BY <3>1
    <3>2. CASE Held' = Taken /\ Numbers(kbuf) \subseteq missed'
      <4>1. CASE b \in 1..Len(Taken)
        BY <1>1, <3>2, <4>1, HeldParts
      <4>2. CASE b - Len(Taken) \in 1..Len(kbuf) /\ Held[b] = kbuf[b - Len(Taken)]
        BY <3>2, <4>2 DEF Numbers
      <4> QED
        BY <1>1, <4>1, <4>2, HeldParts
    <3> QED
      BY <2>3, <3>1, <3>2
  <2>7. CoverInv'
    <3> SUFFICES ASSUME pc # "gone", NEW n \in 1..number', n \notin missed',
                        ~\E a \in 1..Len(delivered) : delivered[a] = n
                 PROVE  \E b \in 1..Len(Held') : Held'[b].n = n
      BY <1>2 DEF CoverInv
    <3>1. n \in 1..number
      BY <1>1, <1>4, <2>1
    <3>2. PICK b \in 1..Len(Held) : Held[b].n = n
      BY <1>1, <2>1, <3>1 DEF CoverInv
    <3> QED
      BY <2>6, <3>2
  <2> QED
    BY <1>7, <1>9, <2>2, <2>3, <2>5, <2>7 DEF IInv
<1> QED
  BY <1>10, <1>11

LEMMA ChangeType ==
    ASSUME number \in Nat, NEW k \in Nat, NEW action \in Action, NEW x \in Name
    PROVE  /\ Change(k, action, x) \in Record
           /\ Change(k, action, x).n = number + k
           /\ Change(k, action, x).name = x
           /\ Adds(Change(k, action, x)) <=> EventType(action) # "Removed"
BY DEF Change, Record, Adds

LEMMA OneChange ==
    ASSUME IInv, UNCHANGED <<thread, control>>,
           NEW action \in Action, NEW x \in Name, NEW newNames \in SUBSET Name,
           Happen(newNames, <<Change(1, action, x)>>),
           \A y \in Name : y \in newNames <=>
              IF y = x THEN EventType(action) # "Removed" ELSE y \in names
    PROVE  IInv'
<1>1. number \in Nat /\ Held \in Seq(Record)
  BY TakenType DEF IInv, TypeOK
<1>2. PICK record \in Record :
         /\ record = Change(1, action, x)
         /\ record.n = number + 1 /\ record.name = x
         /\ Adds(record) <=> EventType(action) # "Removed"
  BY <1>1, ChangeType
<1>3. PICK changes \in Seq(Record) :
         /\ changes = <<record>> /\ Len(changes) = 1 /\ changes[1] = record
         /\ Held \o changes = Append(Held, record)
  <2>1. /\ <<record>> \in Seq(Record) /\ Len(<<record>>) = 1
        /\ <<record>>[1] = record
    OBVIOUS
  <2>2. Held \o <<record>> = Append(Held, record)
    BY <1>1, <2>1, AppendIsConcat
  <2> QED
    BY <2>1, <2>2
<1>4. \A k \in 1..Len(changes) : changes[k].n = number + k
  BY <1>2, <1>3
<1>5. ASSUME NEW y \in Name, Present(copy, Held, y) <=> y \in names
      PROVE  Present(copy, Held \o changes, y) <=> y \in newNames
  <2>1. Present(copy, Append(Held, record), y)
           <=> IF record.name = y THEN Adds(record) ELSE Present(copy, Held, y)
    BY <1>1, PresentAppend
  <2>2. y \in newNames <=> IF y = x THEN EventType(action) # "Removed" ELSE y \in names
    OBVIOUS
  <2> QED
    BY <1>2, <1>3, <1>5, <2>1, <2>2
<1>6. Happen(newNames, changes) /\ Len(changes) >= 1
  BY <1>2, <1>3
<1> QED
  BY <1>4, <1>5, <1>6, HappenInv

LEMMA RenameInv ==
    ASSUME IInv, UNCHANGED <<thread, control>>,
           NEW x \in names, NEW y \in Name \ names,
           Happen((names \ {x}) \cup {y},
                  <<Change(1, "RENAMED_OLD_NAME", x),
                    Change(2, "RENAMED_NEW_NAME", y)>>)
    PROVE  IInv'
<1>1. number \in Nat /\ Held \in Seq(Record) /\ names \subseteq Name
  BY TakenType DEF IInv, TypeOK
<1>2. PICK old \in Record :
         /\ old = Change(1, "RENAMED_OLD_NAME", x)
         /\ old.n = number + 1 /\ old.name = x /\ ~Adds(old)
  <2>1. "RENAMED_OLD_NAME" \in Action /\ EventType("RENAMED_OLD_NAME") = "Removed"
    BY DEF Action, EventType
  <2> QED
    BY <1>1, <2>1, ChangeType
<1>3. PICK new \in Record :
         /\ new = Change(2, "RENAMED_NEW_NAME", y)
         /\ new.n = number + 2 /\ new.name = y /\ Adds(new)
  <2>1. "RENAMED_NEW_NAME" \in Action /\ EventType("RENAMED_NEW_NAME") = "Added"
    BY DEF Action, EventType
  <2> QED
    BY <1>1, <2>1, ChangeType
<1>4. PICK changes \in Seq(Record) :
         /\ changes = <<old, new>> /\ Len(changes) = 2
         /\ changes[1] = old /\ changes[2] = new
         /\ Held \o changes = Append(Append(Held, old), new)
  <2>1. /\ <<old, new>> \in Seq(Record) /\ Len(<<old, new>>) = 2
        /\ <<old, new>>[1] = old /\ <<old, new>>[2] = new
    OBVIOUS
  <2>2. Held \o <<old, new>> = Append(Append(Held, old), new)
    <3>1. <<old>> \in Seq(Record) /\ <<new>> \in Seq(Record)
      OBVIOUS
    <3>2. Append(Held, old) \in Seq(Record)
      BY <1>1, AppendProperties
    <3>3. /\ Append(Held, old) = Held \o <<old>>
          /\ Append(Append(Held, old), new) = Append(Held, old) \o <<new>>
      BY <1>1, <3>2, AppendIsConcat
    <3>4. <<old>> \o <<new>> = <<old, new>>
      <4>1. /\ Append(<<old>>, new) \in Seq(Record) /\ Len(Append(<<old>>, new)) = 2
            /\ Append(<<old>>, new)[1] = old /\ Append(<<old>>, new)[2] = new
        <5>1. Len(<<old>>) = 1 /\ <<old>>[1] = old
          OBVIOUS
        <5> QED
          BY <3>1, <5>1, AppendProperties
      <4>2. Append(<<old>>, new) = <<old, new>>
        <5>1. \A k \in 1..2 : Append(<<old>>, new)[k] = <<old, new>>[k]
          BY <2>1, <4>1
        <5> QED
          BY <2>1, <4>1, <5>1, SeqEqual
      <4> QED
        BY <3>1, <4>2, AppendIsConcat
    <3> QED
      BY <1>1, <3>1, <3>3, <3>4, ConcatAssociative
  <2> QED
    BY <2>1, <2>2
<1>5. \A k \in 1..Len(changes) : changes[k].n = number + k
  BY <1>2, <1>3, <1>4
<1>6. ASSUME NEW z \in Name, Present(copy, Held, z) <=> z \in names
      PROVE  Present(copy, Held \o changes, z) <=> z \in (names \ {x}) \cup {y}
  <2>1. Append(Held, old) \in Seq(Record)
    BY <1>1, AppendProperties
  <2>2. Present(copy, Append(Held, old), z) <=> z \in names \ {x}
    BY <1>1, <1>2, <1>6, PresentAppend
  <2>3. Present(copy, Append(Append(Held, old), new), z)
           <=> IF y = z THEN TRUE ELSE Present(copy, Append(Held, old), z)
    BY <1>3, <2>1, PresentAppend, ZenonT(40)
  <2> QED
    BY <1>4, <2>2, <2>3
<1>7. (names \ {x}) \cup {y} \in SUBSET Name
  BY <1>1
<1>8. Happen((names \ {x}) \cup {y}, changes) /\ Len(changes) >= 1
  BY <1>2, <1>3, <1>4
<1> QED
  BY <1>5, <1>6, <1>7, <1>8, HappenInv

LEMMA FileSystemInv ==
    ASSUME IInv, FileSystem PROVE IInv'
<1>1. UNCHANGED <<thread, control>> /\ names \subseteq Name
  BY DEF FileSystem, IInv, TypeOK
<1>2. /\ {"ADDED", "REMOVED", "MODIFIED"} \subseteq Action
      /\ EventType("ADDED") = "Added" /\ EventType("REMOVED") = "Removed"
      /\ EventType("MODIFIED") = "Modified"
  BY DEF Action, EventType
<1>3. ASSUME NEW x \in Name, x \notin names,
             Happen(names \cup {x}, <<Change(1, "ADDED", x)>>)
      PROVE  IInv'
  <2>1. /\ names \cup {x} \in SUBSET Name
        /\ \A y \in Name : y \in names \cup {x} <=>
              IF y = x THEN EventType("ADDED") # "Removed" ELSE y \in names
    BY <1>1, <1>2
  <2> QED
    BY <1>1, <1>2, <1>3, <2>1, OneChange
<1>4. ASSUME NEW x \in Name, x \in names,
             Happen(names \ {x}, <<Change(1, "REMOVED", x)>>)
      PROVE  IInv'
  <2>1. /\ names \ {x} \in SUBSET Name
        /\ \A y \in Name : y \in names \ {x} <=>
              IF y = x THEN EventType("REMOVED") # "Removed" ELSE y \in names
    BY <1>1, <1>2
  <2> QED
    BY <1>1, <1>2, <1>4, <2>1, OneChange
<1>5. ASSUME NEW x \in Name, x \in names,
             Happen(names, <<Change(1, "MODIFIED", x)>>)
      PROVE  IInv'
  <2>1. /\ names \in SUBSET Name
        /\ \A y \in Name : y \in names <=>
              IF y = x THEN EventType("MODIFIED") # "Removed" ELSE y \in names
    BY <1>1, <1>2, <1>5
  <2> QED
    BY <1>1, <1>2, <1>5, <2>1, OneChange
<1>6. ASSUME NEW x \in names, NEW y \in Name \ names,
             Happen((names \ {x}) \cup {y},
                    <<Change(1, "RENAMED_OLD_NAME", x),
                      Change(2, "RENAMED_NEW_NAME", y)>>)
      PROVE  IInv'
  BY <1>1, <1>6, RenameInv
<1> QED
  BY <1>3, <1>4, <1>5, <1>6 DEF FileSystem

----------------------------------------------------------------------------
(* Stop.                                                                   *)

LEMMA StopInv ==
    ASSUME IInv, StopRequest \/ Stop \/ StopTimesOut PROVE IInv'
<1>1. /\ UNCHANGED <<kernel, thread>>
      /\ stop' \in BOOLEAN /\ hStop' \in BOOLEAN
      /\ owner' \in {"running", "setting", "joining", "stopped"}
  BY DEF IInv, TypeOK, StopRequest, Stop, StopSignal, StopJoined, StopTimesOut
<1> USE DEF kernel, thread
<1>2. TypeOK'
  BY <1>1 DEF IInv, TypeOK
<1>3. BufferInv'
  BY <1>1 DEF IInv, BufferInv
<1>4. Held' = Held
  BY <1>1 DEF Held, Taken
<1> QED
  BY <1>1, <1>2, <1>3, <1>4, HeldKept DEF IInv

LEMMA NextInv == IInv /\ [Next]_vars => IInv'
<1> SUFFICES ASSUME IInv, [Next]_vars PROVE IInv'
  OBVIOUS
<1>1. CASE FileSystem
  BY <1>1, FileSystemInv
<1>2. CASE Complete
  BY <1>2, CompleteInv
<1>3. CASE LoseVolume
  BY <1>3, LoseVolumeInv
<1>4. CASE RunWatch
  BY <1>4, BeginInv, AskInv, WakeInv, DeliverInv DEF RunWatch
<1>5. CASE StopRequest \/ Stop \/ StopTimesOut
  BY <1>5, StopInv
<1>6. CASE UNCHANGED vars
  <2> USE DEF vars, kernel, thread, control
  <2>1. TypeOK'
    BY <1>6 DEF IInv, TypeOK
  <2>2. BufferInv'
    BY <1>6 DEF IInv, BufferInv
  <2>3. Held' = Held
    BY <1>6 DEF Held, Taken
  <2> QED
    BY <1>6, <2>1, <2>2, <2>3, HeldKept DEF IInv
<1> QED
  BY <1>1, <1>2, <1>3, <1>4, <1>5, <1>6 DEF Next

----------------------------------------------------------------------------
(* The theorems.                                                           *)

\* The state of the kernel, the thread and Stop is what its comment says, and
\* the thread only ever reads records that are in its buffer.
THEOREM TypeCorrect == Spec => []TypeOK
<1>1. IInv => TypeOK
  BY DEF IInv
<1> QED
  BY <1>1, InitInv, NextInv, PTL DEF Spec

\* However the calls split the changes up and whatever overflows, the callback
\* is given each change once and in order, and only what the kernel missed is
\* missing.
THEOREM NoChangeTwice == Spec => []EveryChangeOnceInOrder
<1>1. IInv => EveryChangeOnceInOrder
  <2> SUFFICES ASSUME IInv PROVE EveryChangeOnceInOrder
    OBVIOUS
  <2> DEFINE u == Undelivered
             all == delivered \o u
             m == Len(delivered)
  <2>1. Held \in Seq(Record) /\ Len(Held) \in Nat
    BY TakenType, LenProperties DEF IInv
  <2>2. /\ u = [k \in 1..Len(Held) |-> Held[k].n]
        /\ u \in Seq(1..number) /\ Len(u) = Len(Held)
        /\ \A k \in 1..Len(Held) : u[k] = Held[k].n
    <3>1. u = [k \in 1..Len(Held) |-> Held[k].n]
      BY UndeliveredIsHeld
    <3>2. \A k \in 1..Len(Held) : Held[k].n \in 1..number
      BY DEF IInv, OrderInv
    <3> HIDE DEF u
    <3> QED
      BY <2>1, <3>1, <3>2
  <2>3. delivered \in Seq(1..number) /\ m \in Nat
    BY LenProperties DEF IInv, TypeOK
  <2> HIDE DEF u
  <2>4. /\ all \in Seq(1..number) /\ Len(all) = m + Len(Held)
        /\ \A k \in 1..(m + Len(Held)) :
              all[k] = IF k <= m THEN delivered[k] ELSE u[k - m]
    BY <2>2, <2>3, ConcatProperties
  <2> HIDE DEF all, m
  <2>5. \A k \in 1..m : k \in 1..Len(all) /\ all[k] = delivered[k]
    BY <2>1, <2>3, <2>4
  <2>6. ASSUME NEW k \in 1..Len(Held)
        PROVE  m + k \in 1..Len(all) /\ all[m + k] = Held[k].n
    <3>1. /\ m + k \in 1..(m + Len(Held)) /\ ~(m + k <= m) /\ m + k - m = k
      BY <2>1, <2>3
    <3>2. PICK j \in 1..(m + Len(Held)) : j = m + k /\ ~(j <= m) /\ j - m = k
      BY <2>1, <2>3, <3>1
    <3>3. all[j] = u[j - m]
      BY <2>4, <3>2
    <3>4. all[j] = u[k]
      BY <3>2, <3>3
    <3>5. j \in 1..Len(all)
      BY <2>4
    <3> QED
      BY <2>2, <3>2, <3>4, <3>5
  <2>7. ASSUME NEW k \in 1..Len(all)
        PROVE  k \in 1..m \/ (k - m \in 1..Len(Held) /\ k = m + (k - m))
    BY <2>1, <2>3, <2>4
  <2>8. /\ \A a, b \in 1..m : a < b => delivered[a] < delivered[b]
        /\ \A a, b \in 1..Len(Held) : a < b => Held[a].n < Held[b].n
        /\ \A a \in 1..m, b \in 1..Len(Held) : delivered[a] < Held[b].n
    BY DEF IInv, OrderInv, m
  <2>9. ASSUME NEW i \in 1..Len(all), NEW j \in 1..Len(all), i < j
        PROVE  all[i] < all[j]
    <3>1. CASE j \in 1..m
      <4>1. i \in 1..m
        BY <2>3, <2>9, <3>1
      <4> QED
        BY <2>5, <2>8, <2>9, <3>1, <4>1
    <3>2. CASE j - m \in 1..Len(Held) /\ j = m + (j - m)
      <4>1. all[j] = Held[j - m].n
        BY <2>6, <3>2
      <4>2. CASE i \in 1..m
        BY <2>5, <2>8, <3>2, <4>1, <4>2
      <4>3. CASE i - m \in 1..Len(Held) /\ i = m + (i - m)
        <5>1. all[i] = Held[i - m].n
          BY <2>6, <4>3
        <5>2. i - m < j - m
          BY <2>3, <2>9
        <5> QED
          BY <2>8, <3>2, <4>1, <4>3, <5>1, <5>2
      <4> QED
        BY <2>7, <4>2, <4>3
    <3> QED
      BY <2>7, <3>1, <3>2
  <2>10. ASSUME pc # "gone", NEW n \in (1..number) \ missed
         PROVE  n \in ToSet(all)
    <3>1. \/ \E a \in 1..m : delivered[a] = n
          \/ \E b \in 1..Len(Held) : Held[b].n = n
      BY <2>10 DEF IInv, CoverInv, m
    <3>2. \E k \in 1..Len(all) : all[k] = n
      BY <2>5, <2>6, <3>1
    <3>3. DOMAIN all = 1..Len(all)
      BY <2>4, LenProperties
    <3> QED
      BY <3>2, <3>3 DEF ToSet
  <2> QED
    BY <2>9, <2>10 DEF EveryChangeOnceInOrder, all, u
<1> QED
  BY <1>1, InitInv, NextInv, PTL DEF Spec

\* A client that follows the events knows which names there are as soon as it
\* was given all of them, unless the kernel missed some.
THEOREM CopyCatchesUp == Spec => []EventsSuffice
<1>1. IInv => EventsSuffice
  <2> SUFFICES ASSUME IInv, pc # "gone", missed = {}, Undelivered = <<>>
               PROVE  copy = names
    BY DEF EventsSuffice
  <2>1. Held \in Seq(Record) /\ Len(Held) \in Nat
    BY TakenType, LenProperties DEF IInv
  <2>2. Len(Held) = 0
    <3>1. DOMAIN Undelivered = 1..Len(Held)
      BY UndeliveredIsHeld
    <3>2. 1 \notin 1..Len(Held)
      BY <3>1
    <3> QED
      BY <2>1, <3>2
  <2>3. copy \subseteq Name /\ names \subseteq Name
    BY DEF IInv, TypeOK
  <2>4. \A x \in Name : x \in copy <=> x \in names
    <3>1. \A x \in Name : Present(copy, Held, x) <=> x \in copy
      BY <2>2 DEF Present
    <3> QED
      BY <3>1 DEF IInv, CopyInv
  <2> QED
    BY <2>3, <2>4
<1> QED
  BY <1>1, InitInv, NextInv, PTL DEF Spec
=============================================================================
