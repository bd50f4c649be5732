------------------------ MODULE SearchWindowProofs ------------------------
(***************************************************************************)
(* For all files and queries: the rows of the list view are those of the   *)
(* results, or none.                                                       *)
(*                                                                         *)
(* The number of rows is set before or after the results are sorted, so    *)
(* that sorting must not change how many there are.  As a set is sorted,   *)
(* the invariant says that no result is twice in the list nor in one on    *)
(* its way to the window.                                                  *)
(***************************************************************************)
EXTENDS SearchWindow, FiniteSetTheorems, SequenceTheorems, TLAPS

----------------------------------------------------------------------------
(* Sorting a set of numbers. *)

\* s lists the elements of S once each.
Lists(s, S) ==
    /\ s \in [1..Cardinality(S) -> S]
    /\ \A a, b \in 1..Cardinality(S) : s[a] = s[b] => a = b

\* Elements with different ranks can be listed by them.
LEMMA ListedByRank ==
    ASSUME NEW S, IsFiniteSet(S), NEW r \in [S -> 1..Cardinality(S)],
           \A x, y \in S : r[x] = r[y] => x = y
    PROVE  \E s \in [1..Cardinality(S) -> S] :
               \A k \in 1..Cardinality(S) : r[s[k]] = k
<1> DEFINE N == 1..Cardinality(S)
<1>1. /\ Cardinality(S) \in Nat /\ IsFiniteSet(N)
      /\ Cardinality(N) = Cardinality(S)
  BY FS_CardinalityType, FS_Interval
<1>2. r \in Injection(S, N)
  BY DEF Injection, IsInjective
<1> HIDE DEF N
<1>3. r \in Surjection(S, N)
  BY <1>1, <1>2, FS_Injection
<1>4. \A k \in N : \E x \in S : r[x] = k
  BY <1>3 DEF Surjection
<1>5. [k \in N |-> CHOOSE x \in S : r[x] = k] \in [N -> S]
  BY <1>4
<1>6. \A k \in N : r[[j \in N |-> CHOOSE x \in S : r[x] = j][k]] = k
  BY <1>4
<1> QED
  BY <1>5, <1>6 DEF N

\* A smaller part of a finite set has fewer elements.
LEMMA FewerElements ==
    ASSUME NEW S, IsFiniteSet(S), NEW T \in SUBSET S, NEW x \in S, x \notin T
    PROVE  /\ Cardinality(T) \in Nat /\ Cardinality(S) \in Nat
           /\ Cardinality(T) < Cardinality(S)
<1>1. IsFiniteSet(T) /\ Cardinality(T) <= Cardinality(S) /\ T # S
  BY FS_Subset
<1>2. Cardinality(S) # Cardinality(T)
  BY <1>1, FS_Subset
<1> QED
  BY <1>1, <1>2, FS_CardinalityType

\* R is a strict total order of S.
Orders(R, S) ==
    /\ \A x \in S : <<x, x>> \notin R
    /\ \A x, y \in S : <<x, y>> \in R \/ <<y, x>> \in R \/ x = y
    /\ \A x, y, z \in S : <<x, y>> \in R /\ <<y, z>> \in R => <<x, z>> \in R

\* s is in that order.
Ordered(s, R) == \A a, b \in DOMAIN s : a < b => <<s[a], s[b]>> \in R

\* A finite set with a strict total order can be listed in that order.
LEMMA OrderedListing ==
    ASSUME NEW S, IsFiniteSet(S), NEW R, Orders(R, S)
    PROVE  \E s \in [1..Cardinality(S) -> S] : Ordered(s, R)
<1> DEFINE Before(x) == {y \in S : <<y, x>> \in R}
           r == [x \in S |-> Cardinality(Before(x)) + 1]
           n == Cardinality(S)
<1>1. n \in Nat
  BY FS_CardinalityType
<1>2. ASSUME NEW x \in S
      PROVE  /\ Before(x) \in SUBSET S /\ IsFiniteSet(Before(x))
             /\ Cardinality(Before(x)) \in Nat /\ Cardinality(Before(x)) < n
  <2>1. Before(x) \in SUBSET S /\ x \notin Before(x)
    BY DEF Orders
  <2> HIDE DEF Before
  <2> QED
    BY <2>1, FewerElements, FS_Subset
<1>3. ASSUME NEW x \in S, NEW y \in S, <<x, y>> \in R
      PROVE  Cardinality(Before(x)) < Cardinality(Before(y))
  <2>1. Before(x) \in SUBSET Before(y) /\ x \in Before(y) /\ x \notin Before(x)
    BY <1>3 DEF Orders
  <2>2. IsFiniteSet(Before(y))
    BY <1>2
  <2> HIDE DEF Before
  <2> QED
    BY <2>1, <2>2, FewerElements
<1> HIDE DEF Before
<1>4. r \in [S -> 1..n]
  BY <1>1, <1>2
<1>5. \A x, y \in S : <<x, y>> \in R => r[x] < r[y]
  BY <1>2, <1>3
<1> HIDE DEF r
<1>6. \A x, y \in S : r[x] = r[y] => x = y
  <2>1. \A x \in S : r[x] \in Nat
    BY <1>1, <1>4
  <2>2. \A x, y \in S : r[x] = r[y] => ~(r[x] < r[y]) /\ ~(r[y] < r[x])
    BY <2>1
  <2> QED
    BY <1>5, <2>2 DEF Orders
<1> HIDE DEF n
<1>7. PICK t \in [1..n -> S] : \A k \in 1..n : r[t[k]] = k
  BY <1>4, <1>6, ListedByRank DEF n
<1>8. ASSUME NEW a \in 1..n, NEW b \in 1..n, a < b
      PROVE  <<t[a], t[b]>> \in R
  <2>1. t[a] \in S /\ t[b] \in S /\ r[t[a]] = a /\ r[t[b]] = b
    BY <1>7
  <2>2. <<t[b], t[a]>> \notin R
    <3>1. <<t[b], t[a]>> \in R => r[t[b]] < r[t[a]]
      BY <1>5, <2>1
    <3>2. ~(b < a)
      BY <1>8
    <3> QED
      BY <2>1, <3>1, <3>2
  <2>3. t[a] # t[b]
    BY <1>8, <2>1
  <2> QED
    BY <2>1, <2>2, <2>3 DEF Orders
<1> QED
  BY <1>7, <1>8 DEF n, Ordered

\* In a listing in strict order no element is repeated.
LEMMA OrderedIsDistinct ==
    ASSUME NEW S \in SUBSET Nat, IsFiniteSet(S),
           NEW s \in [1..Cardinality(S) -> S],
           \/ \A a, b \in DOMAIN s : a < b => s[a] < s[b]
           \/ \A a, b \in DOMAIN s : a < b => s[a] > s[b]
    PROVE  Lists(s, S)
<1>1. SUFFICES ASSUME NEW a \in 1..Cardinality(S), NEW b \in 1..Cardinality(S),
                      s[a] = s[b]
               PROVE  a = b
  BY DEF Lists
<1>2. s[a] \in Nat /\ a \in Int /\ b \in Int
  <2>1. s[a] \in S
    OBVIOUS
  <2>2. a \in Int /\ b \in Int
    BY FS_CardinalityType
  <2> QED
    BY <2>1, <2>2
<1>3. ~(a < b) /\ ~(b < a)
  BY <1>1, <1>2
<1> QED
  BY <1>2, <1>3

\* A finite set of numbers can be sorted both ways.
LEMMA SortedLists ==
    ASSUME NEW S \in SUBSET Nat, IsFiniteSet(S)
    PROVE  Lists(Sorted(S, <), S) /\ Lists(Sorted(S, >), S)
<1> DEFINE Up   == {q \in S \X S : q[1] < q[2]}
           Down == {q \in S \X S : q[1] > q[2]}
           Asc(s)  == \A a, b \in DOMAIN s : a < b => s[a] < s[b]
           Desc(s) == \A a, b \in DOMAIN s : a < b => s[a] > s[b]
<1>1. \A x, y \in S : /\ <<x, y>> \in Up <=> x < y
                      /\ <<x, y>> \in Down <=> x > y
                      /\ x \in Nat /\ y \in Nat
  OBVIOUS
<1> HIDE DEF Up, Down
<1>2. \E s \in [1..Cardinality(S) -> S] : Asc(s)
  <2>1. Orders(Up, S)
    BY <1>1 DEF Orders
  <2>2. \E s \in [1..Cardinality(S) -> S] : Ordered(s, Up)
    BY <2>1, OrderedListing
  <2>3. \A s \in [1..Cardinality(S) -> S] : \A a \in DOMAIN s : s[a] \in S
    OBVIOUS
  <2> QED
    BY <1>1, <2>2, <2>3 DEF Ordered
<1>3. \E s \in [1..Cardinality(S) -> S] : Desc(s)
  <2>1. Orders(Down, S)
    BY <1>1 DEF Orders
  <2>2. \E s \in [1..Cardinality(S) -> S] : Ordered(s, Down)
    BY <2>1, OrderedListing
  <2>3. \A s \in [1..Cardinality(S) -> S] : \A a \in DOMAIN s : s[a] \in S
    OBVIOUS
  <2> QED
    BY <1>1, <2>2, <2>3 DEF Ordered
<1>4. Sorted(S, <) \in [1..Cardinality(S) -> S] /\ Asc(Sorted(S, <))
  BY <1>2 DEF Sorted
<1>5. Sorted(S, >) \in [1..Cardinality(S) -> S] /\ Desc(Sorted(S, >))
  BY <1>3 DEF Sorted
<1>6. \A s \in [1..Cardinality(S) -> S] : Asc(s) \/ Desc(s) => Lists(s, S)
  BY OrderedIsDistinct
<1> HIDE DEF Asc, Desc
<1> QED
  BY <1>4, <1>5, <1>6

----------------------------------------------------------------------------
(* The invariant. *)

\* A sequence without repetitions.
Distinct(s) == \A a, b \in 1..Len(s) : s[a] = s[b] => a = b

\* No result is twice in the list, or in one on its way.
DistinctInv ==
    /\ Distinct(current)
    /\ \A k \in 1..Len(posted) : Distinct(posted[k].entries)

IInv ==
    /\ TypeOK
    /\ DistinctInv
    /\ RowsHaveResults

\* What is sorted is as long as it was.
LEMMA SortedSeq ==
    ASSUME NEW S \in SUBSET Files
    PROVE  /\ Sorted(S, <) \in Seq(Files) /\ Distinct(Sorted(S, <))
           /\ Len(Sorted(S, <)) = Cardinality(S)
           /\ Sorted(S, >) \in Seq(Files) /\ Distinct(Sorted(S, >))
           /\ Len(Sorted(S, >)) = Cardinality(S)
<1>1. S \in SUBSET Nat /\ IsFiniteSet(S)
  BY WindowAssumption, FS_Subset
<1>2. Cardinality(S) \in Nat
  BY <1>1, FS_CardinalityType
<1>3. \A s : Lists(s, S) => s \in Seq(Files) /\ Len(s) = Cardinality(S) /\ Distinct(s)
  <2>1. SUFFICES ASSUME NEW s, Lists(s, S)
                 PROVE  s \in Seq(Files) /\ Len(s) = Cardinality(S) /\ Distinct(s)
    OBVIOUS
  <2>2. s \in Seq(S) /\ Len(s) = Cardinality(S)
    BY <1>2, <2>1 DEF Lists
  <2>3. s \in Seq(Files)
    BY <2>2
  <2> QED
    BY <2>1, <2>2, <2>3 DEF Lists, Distinct
<1> QED
  BY <1>1, <1>3, SortedLists

LEMMA ArrangedSeq ==
    ASSUME NEW s \in Seq(Files), Distinct(s), NEW o \in {"none", "asc", "desc"}
    PROVE  /\ Arranged(s, o) \in Seq(Files)
           /\ Len(Arranged(s, o)) = Len(s)
           /\ Distinct(Arranged(s, o))
<1>1. ToSet(s) \in SUBSET Files
  BY DEF ToSet
<1>2. Cardinality(ToSet(s)) = Len(s)
  <2>1. s \in [1..Len(s) -> ToSet(s)] /\ Len(s) \in Nat
    BY DEF ToSet
  <2>2. s \in Bijection(1..Len(s), ToSet(s))
    BY <2>1 DEF Bijection, Injection, Surjection, IsInjective, Distinct, ToSet
  <2> QED
    BY <2>1, <2>2, FS_CountingElements DEF ExistsBijection
<1>3. CASE o = "none"
  BY <1>3 DEF Arranged
<1>4. CASE o = "asc"
  BY <1>1, <1>2, <1>4, SortedSeq DEF Arranged
<1>5. CASE o = "desc"
  BY <1>1, <1>2, <1>5, SortedSeq DEF Arranged
<1> QED
  BY <1>3, <1>4, <1>5

LEMMA InitIInv == Init => IInv
<1> SUFFICES ASSUME Init PROVE IInv
  OBVIOUS
<1>1. PICK none \in Seq(Files) : none = <<>> /\ Len(none) = 0
  BY EmptySeq
<1>2. PICK queue \in Seq(Message) : queue = <<>> /\ Len(queue) = 0
  BY EmptySeq
<1>3. current = none /\ posted = queue
  BY <1>1, <1>2 DEF Init
<1>4. {option, enabled, timer, joining, asking, cancel, job} \subseteq BOOLEAN
  BY DEF Init
<1>5. Nothing \in Origin
  BY WindowAssumption DEF Nothing, Origin
<1>6. search \in [pc : {"none", "search", "posted", "ended"}, text : Text,
                  option : BOOLEAN]
  BY WindowAssumption DEF Init
<1>7. /\ text \in Text /\ asked \subseteq Files /\ deleted \subseteq Files
      /\ order \in {"none", "asc", "desc"} /\ rows \in Nat
      /\ selected \subseteq 1..rows /\ index \subseteq Files
      /\ inputs \in 0..MaxInputs /\ jobs \in 0..MaxJobs
      /\ changes \in 0..MaxChanges /\ shown = Nothing
  BY WindowAssumption DEF Init
<1>8. TypeOK
  BY <1>3, <1>4, <1>5, <1>6, <1>7 DEF TypeOK
<1> QED
  BY <1>1, <1>2, <1>3, <1>8
     DEF Init, IInv, DistinctInv, Distinct, RowsHaveResults

\* A message is queued.
LEMMA AppendMessage ==
    ASSUME NEW q \in Seq(Message), NEW m \in Message, Distinct(m.entries),
           \A k \in 1..Len(q) : Distinct(q[k].entries)
    PROVE  /\ Append(q, m) \in Seq(Message)
           /\ \A k \in 1..Len(Append(q, m)) : Distinct(Append(q, m)[k].entries)
<1>1. Append(q, m) \in Seq(Message) /\ Len(Append(q, m)) = Len(q) + 1
  OBVIOUS
<1>2. \A k \in 1..(Len(q) + 1) :
         Append(q, m)[k] = IF k = Len(q) + 1 THEN m ELSE q[k]
  OBVIOUS
<1> QED
  BY <1>1, <1>2

\* A message is taken off the queue.
LEMMA TakeMessage ==
    ASSUME NEW q \in Seq(Message), q # <<>>,
           \A k \in 1..Len(q) : Distinct(q[k].entries)
    PROVE  /\ Head(q) \in Message /\ Distinct(Head(q).entries)
           /\ Tail(q) \in Seq(Message)
           /\ \A k \in 1..Len(Tail(q)) : Distinct(Tail(q)[k].entries)
<1>1. Len(q) \in Nat /\ Len(q) > 0 /\ Head(q) = q[1] /\ q[1] \in Message
  OBVIOUS
<1>2. Tail(q) \in Seq(Message) /\ Len(Tail(q)) = Len(q) - 1
  OBVIOUS
<1>3. \A k \in 1..(Len(q) - 1) : Tail(q)[k] = q[k + 1]
  OBVIOUS
<1> QED
  BY <1>1, <1>2, <1>3

\* Rows that are left are rows.
LEMMA SelectedRows ==
    ASSUME TypeOK
    PROVE  \A n \in Nat : {r \in selected : r <= n} \subseteq 1..n
<1>1. \A r \in selected : r \in Nat /\ r >= 1
  BY DEF TypeOK
<1> QED
  BY <1>1

LEMMA UserIInv == ASSUME IInv, User PROVE IInv'
<1>1. TypeOK /\ DistinctInv /\ RowsHaveResults
  BY DEF IInv
<1> USE <1>1
<1>2. CASE \E new \in Text : Type(new)
  <2>1. PICK new \in Text : Type(new)
    BY <1>2
  <2>2. PICK none \in Seq(Files) : none = <<>> /\ Len(none) = 0
    BY EmptySeq
  <2>3. /\ UNCHANGED <<option, enabled, joining, dialog, order, cancel, search,
                       posted, indexer>>
        /\ text' = new /\ inputs' = inputs + 1 /\ inputs < MaxInputs
        /\ timer' \in BOOLEAN
    BY <2>1 DEF Type, Input
  <2>4. \/ current' = none /\ shown' = Nothing /\ rows' = 0
           /\ selected' = {r \in selected : r <= 0}
        \/ UNCHANGED <<current, shown, rows, selected>>
    BY <2>1, <2>2 DEF Type, SetItemCount
  <2>5. inputs' \in 0..MaxInputs
    BY <2>3, WindowAssumption DEF TypeOK
  <2>6. /\ current' \in Seq(Files) /\ shown' \in Origin /\ rows' \in Nat
        /\ selected' \subseteq 1..rows' /\ Distinct(current')
        /\ rows' \in {0, Len(current')}
    <3>1. Nothing \in Origin
      BY WindowAssumption DEF Nothing, Origin
    <3>2. CASE current' = none /\ shown' = Nothing /\ rows' = 0
               /\ selected' = {r \in selected : r <= 0}
      <4>1. \A r \in selected : r \in Nat /\ r >= 1
        BY DEF TypeOK
      <4>2. selected' = {}
        BY <3>2, <4>1
      <4>3. Distinct(none)
        BY <2>2 DEF Distinct
      <4> QED
        BY <2>2, <3>1, <3>2, <4>2, <4>3
    <3>3. CASE UNCHANGED <<current, shown, rows, selected>>
      BY <3>3 DEF TypeOK, DistinctInv, RowsHaveResults
    <3> QED
      BY <2>4, <3>2, <3>3
  <2>7. TypeOK'
    BY <2>3, <2>5, <2>6 DEF TypeOK, dialog, indexer
  <2>8. DistinctInv'
    BY <2>3, <2>6 DEF DistinctInv, Distinct
  <2> QED
    BY <2>6, <2>7, <2>8 DEF IInv, RowsHaveResults
<1>3. CASE \E S \in SUBSET (1..rows) : Select(S)
  <2>1. PICK S \in SUBSET (1..rows) : Select(S)
    BY <1>3
  <2>2. /\ UNCHANGED <<bar, joining, dialog, current, shown, order, rows,
                       cancel, search, posted, indexer>>
        /\ selected' = S /\ inputs' = inputs + 1 /\ inputs < MaxInputs
    BY <2>1 DEF Select, Input
  <2>3. inputs' \in 0..MaxInputs
    BY <2>2, WindowAssumption DEF TypeOK
  <2>4. TypeOK'
    BY <2>2, <2>3 DEF TypeOK, bar, dialog, indexer
  <2> QED
    BY <2>2, <2>4 DEF IInv, DistinctInv, Distinct, RowsHaveResults
<1>4. CASE ToggleOption
  <2>1. /\ UNCHANGED <<text, enabled, timer, dialog, list, search, posted,
                       indexer>>
        /\ option' \in BOOLEAN /\ joining' \in BOOLEAN /\ cancel' \in BOOLEAN
        /\ inputs' = inputs + 1 /\ inputs < MaxInputs
    BY <1>4 DEF ToggleOption, Input, TriggerSearch
  <2>2. inputs' \in 0..MaxInputs
    BY <2>1, WindowAssumption DEF TypeOK
  <2>3. TypeOK'
    BY <2>1, <2>2 DEF TypeOK, list, dialog, indexer
  <2> QED
    BY <2>1, <2>3 DEF IInv, DistinctInv, Distinct, RowsHaveResults, list
<1>5. CASE ColumnClick
  <2>1. /\ UNCHANGED <<bar, joining, dialog, shown, cancel, search, posted,
                       indexer>>
        /\ order' \in {"none", "asc", "desc"}
        /\ current' = Arranged(current, order') /\ rows' = Len(current)
        /\ selected' = {r \in selected : r <= Len(current)}
        /\ inputs' = inputs + 1 /\ inputs < MaxInputs
    BY <1>5 DEF ColumnClick, Input, SetItemCount
  <2>2. inputs' \in 0..MaxInputs
    BY <2>1, WindowAssumption DEF TypeOK
  <2>3. /\ current' \in Seq(Files) /\ Len(current') = Len(current)
        /\ Distinct(current')
    BY <2>1, ArrangedSeq DEF TypeOK, DistinctInv
  <2>4. rows' \in Nat /\ selected' \subseteq 1..rows'
    <3>1. Len(current) \in Nat
      BY DEF TypeOK
    <3> QED
      BY <2>1, <3>1, SelectedRows
  <2>5. TypeOK'
    BY <2>1, <2>2, <2>3, <2>4 DEF TypeOK, bar, dialog, indexer
  <2>6. DistinctInv'
    BY <2>1, <2>3 DEF DistinctInv, Distinct
  <2> QED
    BY <2>1, <2>3, <2>5, <2>6 DEF IInv, RowsHaveResults
<1>6. CASE Delete \/ \E yes \in BOOLEAN : Answer(yes)
  <2>1. /\ UNCHANGED <<bar, joining, list, cancel, search, posted, indexer>>
        /\ asking' \in BOOLEAN /\ asked' \in {asked, Chosen}
        /\ deleted' \in {deleted, Chosen, {}}
    BY <1>6 DEF Delete, Answer, Input
  <2>2. inputs' \in 0..MaxInputs
    BY <1>6, WindowAssumption DEF Delete, Answer, Input, TypeOK
  <2>3. Chosen \subseteq Files
    BY DEF Chosen, TypeOK
  <2>4. asked' \subseteq Files /\ deleted' \subseteq Files
    BY <2>1, <2>3 DEF TypeOK
  <2>5. TypeOK'
    BY <2>1, <2>2, <2>4 DEF TypeOK, bar, list, indexer
  <2> QED
    BY <2>1, <2>5 DEF IInv, DistinctInv, Distinct, RowsHaveResults, list
<1> QED
  BY <1>2, <1>3, <1>4, <1>5, <1>6 DEF User

LEMMA UIIInv == ASSUME IInv, UI PROVE IInv'
<1>1. TypeOK /\ DistinctInv /\ RowsHaveResults
  BY DEF IInv
<1> USE <1>1
<1>2. CASE OnTimer \/ ExecuteSearch
  <2>1. /\ UNCHANGED <<text, option, enabled, dialog, list, posted, indexer,
                       inputs>>
        /\ timer' \in BOOLEAN /\ joining' \in BOOLEAN /\ cancel' \in BOOLEAN
    BY <1>2 DEF OnTimer, ExecuteSearch, TriggerSearch, TypeOK, bar
  <2>2. search' \in [pc : {"none", "search", "posted", "ended"}, text : Text,
                     option : BOOLEAN]
    BY <1>2 DEF OnTimer, ExecuteSearch, TypeOK
  <2>3. TypeOK'
    BY <2>1, <2>2 DEF TypeOK, dialog, list, indexer
  <2> QED
    BY <2>1, <2>3 DEF IInv, DistinctInv, Distinct, RowsHaveResults, list
<1>3. CASE OnSearchResults \/ OnIndexerStatus
  <2> DEFINE m == Head(posted)
  <2>1. /\ UNCHANGED <<text, option, timer, joining, dialog, order, cancel,
                       search, indexer, inputs>>
        /\ posted # <<>> /\ posted' = Tail(posted)
    BY <1>3 DEF OnSearchResults, OnIndexerStatus, Take
  <2>2. /\ m \in Message /\ Distinct(m.entries) /\ posted' \in Seq(Message)
        /\ \A k \in 1..Len(posted') : Distinct(posted'[k].entries)
    BY <2>1, TakeMessage DEF TypeOK, DistinctInv
  <2>3. m.entries \in Seq(Files) /\ m.from \in Origin /\ m.ready \in BOOLEAN
    BY <2>2 DEF Message
  <2>4. \A n \in Nat : {r \in selected : r <= n} \subseteq 1..n
    BY SelectedRows
  <2>5. /\ enabled' \in BOOLEAN /\ current' \in Seq(Files) /\ shown' \in Origin
        /\ rows' \in Nat /\ selected' \subseteq 1..rows' /\ Distinct(current')
        /\ rows' \in {0, Len(current')}
    <3>1. CASE OnSearchResults
      <4>1. /\ current' = Arranged(m.entries, order) /\ shown' = m.from
            /\ rows' = Len(m.entries) /\ enabled' = enabled
            /\ selected' = {r \in selected : r <= Len(m.entries)}
        BY <3>1 DEF OnSearchResults, SetItemCount
      <4>2. /\ current' \in Seq(Files) /\ Len(current') = Len(m.entries)
            /\ Distinct(current')
        BY <2>2, <2>3, <4>1, ArrangedSeq DEF TypeOK
      <4>3. Len(m.entries) \in Nat
        BY <2>3
      <4> HIDE DEF m
      <4>4. selected' \subseteq 1..rows'
        BY <2>4, <4>1, <4>3
      <4> QED
        BY <2>3, <4>1, <4>2, <4>3, <4>4 DEF TypeOK
    <3>2. CASE OnIndexerStatus
      <4>1. /\ enabled' = m.ready /\ current' = current /\ shown' = shown
            /\ \/ rows' = rows /\ selected' = selected
               \/ rows' = 0 /\ selected' = {r \in selected : r <= 0}
        BY <3>2 DEF OnIndexerStatus, SetItemCount
      <4>2. rows' \in Nat /\ selected' \subseteq 1..rows'
        BY <2>4, <4>1 DEF TypeOK
      <4>3. rows' \in {0, Len(current')}
        BY <4>1 DEF RowsHaveResults
      <4> HIDE DEF m
      <4> QED
        BY <2>3, <4>1, <4>2, <4>3 DEF TypeOK, DistinctInv
    <3> QED
      BY <1>3, <3>1, <3>2
  <2>6. TypeOK'
    BY <2>1, <2>2, <2>5 DEF TypeOK, dialog, indexer
  <2>7. DistinctInv'
    BY <2>2, <2>5 DEF DistinctInv, Distinct
  <2> QED
    BY <2>5, <2>6, <2>7 DEF IInv, RowsHaveResults
<1> QED
  BY <1>2, <1>3 DEF UI

\* What a search posts is sorted.
LEMMA SearchIInv == ASSUME IInv, PostResults \/ SearchEnds PROVE IInv'
<1>1. TypeOK /\ DistinctInv /\ RowsHaveResults
  BY DEF IInv
<1> USE <1>1
<1>2. /\ UNCHANGED <<bar, joining, dialog, list, cancel, indexer, inputs>>
      /\ search' \in [pc : {"none", "search", "posted", "ended"}, text : Text,
                      option : BOOLEAN]
  BY DEF PostResults, SearchEnds, TypeOK
<1>3. /\ posted' \in Seq(Message)
      /\ \A k \in 1..Len(posted') : Distinct(posted'[k].entries)
  <2>1. CASE PostResults
    <3>1. PICK found \in SUBSET Hits :
                 posted' = Append(posted,
                     Results(Sorted(found, <),
                             [text |-> search.text, option |-> search.option,
                              complete |-> found = Hits]))
      BY <2>1 DEF PostResults
    <3>2. found \in SUBSET Files
      BY DEF Hits, TypeOK
    <3>3. [text |-> search.text, option |-> search.option,
           complete |-> found = Hits] \in Origin
      BY DEF TypeOK, Origin
    <3> DEFINE m == Results(Sorted(found, <),
                            [text |-> search.text, option |-> search.option,
                             complete |-> found = Hits])
    <3>4. m \in Message /\ Distinct(m.entries)
      BY <3>2, <3>3, SortedSeq DEF Results, Message
    <3>5. posted' = Append(posted, m)
      BY <3>1
    <3> HIDE DEF m
    <3> QED
      BY <3>4, <3>5, AppendMessage DEF TypeOK, DistinctInv
  <2>2. CASE SearchEnds
    BY <2>2 DEF SearchEnds, TypeOK, DistinctInv
  <2> QED
    BY <2>1, <2>2
<1>4. TypeOK'
  BY <1>2, <1>3 DEF TypeOK, bar, dialog, list, indexer
<1>5. DistinctInv'
  BY <1>2, <1>3 DEF DistinctInv, Distinct, list
<1> QED
  BY <1>2, <1>4, <1>5 DEF IInv, RowsHaveResults, list

LEMMA IndexerIInv == ASSUME IInv, Indexer PROVE IInv'
<1>1. TypeOK /\ DistinctInv /\ RowsHaveResults
  BY DEF IInv
<1> USE <1>1
<1>2. UNCHANGED <<bar, joining, dialog, list, cancel, search, inputs>>
  BY DEF Indexer, JobStarts, JobEnds, IndexChanges
<1>3. \A ready \in BOOLEAN : Status(ready) \in Message /\ Distinct(Status(ready).entries)
  <2>1. PICK none \in Seq(Files) : none = <<>> /\ Len(none) = 0
    BY EmptySeq
  <2>2. Nothing \in Origin
    BY WindowAssumption DEF Nothing, Origin
  <2> QED
    BY <2>1, <2>2 DEF Status, Message, Distinct
<1>4. /\ posted' \in Seq(Message)
      /\ \A k \in 1..Len(posted') : Distinct(posted'[k].entries)
  <2>1. posted' = posted \/ \E ready \in BOOLEAN : posted' = Append(posted, Status(ready))
    BY DEF Indexer, JobStarts, JobEnds, IndexChanges
  <2> QED
    BY <1>3, <2>1, AppendMessage DEF TypeOK, DistinctInv
<1>5. job' \in BOOLEAN /\ index' \subseteq Files
  BY DEF Indexer, JobStarts, JobEnds, IndexChanges, TypeOK
<1>6. jobs' \in 0..MaxJobs /\ changes' \in 0..MaxChanges
  <2>1. /\ jobs \in 0..MaxJobs /\ changes \in 0..MaxChanges
        /\ MaxJobs \in Nat /\ MaxChanges \in Nat
    BY WindowAssumption DEF TypeOK
  <2>2. /\ jobs' = jobs \/ (jobs < MaxJobs /\ jobs' = jobs + 1)
        /\ changes' = changes \/ (changes < MaxChanges /\ changes' = changes + 1)
    BY DEF Indexer, JobStarts, JobEnds, IndexChanges
  <2> QED
    BY <2>1, <2>2
<1>7. TypeOK'
  BY <1>2, <1>4, <1>5, <1>6 DEF TypeOK, bar, dialog, list
<1>8. DistinctInv'
  BY <1>2, <1>4 DEF DistinctInv, Distinct, list
<1> QED
  BY <1>2, <1>7, <1>8 DEF IInv, RowsHaveResults, list

\* The invariant is inductive.
LEMMA NextIInv == IInv /\ [Next]_vars => IInv'
<1> SUFFICES ASSUME IInv, [Next]_vars PROVE IInv'
  OBVIOUS
<1>1. CASE UNCHANGED vars
  BY <1>1 DEF vars, bar, dialog, list, indexer, IInv, TypeOK, DistinctInv,
              Distinct, RowsHaveResults
<1> QED
  BY <1>1, UserIInv, UIIInv, SearchIInv, IndexerIInv DEF Next

\* The variables keep their types: the rows that are selected are rows of the
\* list, and the files put to the user or deleted are files of the index.
THEOREM TypeCorrect == Spec => []TypeOK
<1>1. IInv => TypeOK
  BY DEF IInv
<1> QED
  BY <1>1, InitIInv, NextIInv, PTL DEF Spec

\* The list view has a row for every result, or none at all: whatever results,
\* status messages and clicks on columns come in between, a row that is drawn,
\* opened, copied or deleted has its result in m_currentResults.
THEOREM EveryRowHasAResult == Spec => []RowsHaveResults
<1>1. IInv => RowsHaveResults
  BY DEF IInv
<1> QED
  BY <1>1, InitIInv, NextIInv, PTL DEF Spec
===========================================================================
