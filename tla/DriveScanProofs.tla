-------------------------- MODULE DriveScanProofs --------------------------
(***************************************************************************)
(* For all drives, folders, options, volumes and moves of other programs:  *)
(* the settings survive, and a scan collects what it was left to collect.  *)
(*                                                                         *)
(* The settings.  While Save runs the members do not change and are among  *)
(* the values expected, and a key that it has behind it is in the file     *)
(* with the value of its member (IInv).  What the file can hold is read    *)
(* back as it was written (RoundTripInv).                                  *)
(*                                                                         *)
(* The scan.  The volume is a tree however it is changed, and what is in   *)
(* something that was moved counts as moved itself (TreeInv).  Hence the   *)
(* path of a file that was left alone is the same all the time, and with   *)
(* it what lies before the scan.  FindFileScanner: the queue, the listing  *)
(* and the files collected have the file in one of them at most, and in    *)
(* one unless it is out of reach (FindFileInv).  MftScanner: the parents   *)
(* noted of what was left alone are the right ones, and all are noted      *)
(* when the table was read (MftInv).                                       *)
(***************************************************************************)
EXTENDS DriveScan, SequenceTheorems, FiniteSetTheorems, WellFoundedInduction, TLAPS

----------------------------------------------------------------------------
(* What a loop computes. *)

\* Every set of naturals with an element has a least one.
LEMMA LeastElement ==
    ASSUME NEW T, T \subseteq Nat, T # {}
    PROVE  \E n \in T : \A m \in T : n <= m
<1>1. PICK n \in T : \A m \in T : ~(<<m, n>> \in OpToRel(<, Nat))
  BY NatLessThanWellFounded, WFMin
<1>2. \A m \in T : ~(m < n)
  BY <1>1 DEF OpToRel
<1> QED
  BY <1>2

\* A set that has 0, and the number after each of its own, has all of them.
LEMMA Induction ==
    ASSUME NEW S, 0 \in S, \A n \in Nat : n \in S => n + 1 \in S
    PROVE  \A n \in Nat : n \in S
<1> DEFINE T == Nat \ S
<1> SUFFICES ASSUME T # {} PROVE FALSE
  OBVIOUS
<1>1. PICK n \in T : \A m \in T : n <= m
  <2>1. T \subseteq Nat
    OBVIOUS
  <2> QED
    BY <2>1, LeastElement
<1>2. n \in Nat /\ n # 0
  OBVIOUS
<1>3. n - 1 \in Nat /\ (n - 1) + 1 = n /\ ~(n <= n - 1)
  BY <1>2
<1> QED
  BY <1>1, <1>3

\* g is what a loop of N turns computes: F[<<n, d>>] is what the n-th makes of d.
Computes(g, N, D, first, F) ==
    /\ g \in [0..N -> D]
    /\ g[0] = first
    /\ \A n \in 1..N : g[n] = F[<<n, g[n - 1]>>]

TurnFunctions(N, D) == [(1..N) \X D -> D]

LEMMA LoopComputes ==
    ASSUME NEW D, NEW first \in D, NEW N \in Nat, NEW F \in TurnFunctions(N, D)
    PROVE  \E g : Computes(g, N, D, first, F)
<1> USE DEF Computes, TurnFunctions
<1> DEFINE S == {k \in Nat : k <= N => \E g : Computes(g, k, D, first, F)}
<1>1. 0 \in S
  <2>1. [n \in 0..0 |-> first] \in [0..0 -> D]
    OBVIOUS
  <2>2. Computes([n \in 0..0 |-> first], 0, D, first, F)
    OBVIOUS
  <2> QED
    BY <2>1, <2>2
<1>2. ASSUME NEW k \in Nat, k \in S PROVE k + 1 \in S
  <2> SUFFICES ASSUME k + 1 <= N
               PROVE  \E g : Computes(g, k + 1, D, first, F)
    OBVIOUS
  <2>1. PICK g : Computes(g, k, D, first, F)
    BY <1>2
  <2> DEFINE h == [n \in 0..(k + 1) |-> IF n = k + 1 THEN F[<<k + 1, g[k]>>] ELSE g[n]]
  <2>2. /\ k \in 0..k /\ k + 1 \in 1..N
        /\ \A n \in 0..(k + 1) : n = k + 1 \/ n \in 0..k
    OBVIOUS
  <2>3. g[k] \in D /\ F[<<k + 1, g[k]>>] \in D
    BY <2>1, <2>2
  <2>6. h \in [0..(k + 1) -> D]
    BY <2>1, <2>2, <2>3
  <2>4. h[0] = first
    BY <2>1
  <2>5. ASSUME NEW n \in 1..(k + 1) PROVE h[n] = F[<<n, h[n - 1]>>]
    <3>1. n \in 0..(k + 1) /\ n - 1 \in 0..(k + 1) /\ n - 1 # k + 1 /\ h[n - 1] = g[n - 1]
      OBVIOUS
    <3>2. CASE n = k + 1
      <4>1. n - 1 = k /\ h[n] = F[<<k + 1, g[k]>>]
        BY <3>1, <3>2
      <4> QED
        BY <3>1, <3>2, <4>1
    <3>3. CASE n # k + 1
      <4>1. n \in 1..k /\ h[n] = g[n]
        BY <3>1, <3>3
      <4> QED
        BY <2>1, <3>1, <4>1
    <3> QED
      BY <3>2, <3>3
  <2> QED
    BY <2>4, <2>5, <2>6
<1>3. N \in S
  <2> HIDE DEF S, Computes
  <2> QED
    BY <1>1, <1>2, Induction
<1> QED
  BY <1>3

GoOnAlike(f, g, N) ==
    /\ f[0] = g[0]
    /\ \A n \in 1..N : f[n - 1] = g[n - 1] => f[n] = g[n]

Alike(f, g, N) == \A n \in 0..N : f[n] = g[n]

\* Two functions that begin alike and go on alike are alike.
LEMMA AlikeToTheEnd ==
    ASSUME NEW N \in Nat, NEW f, NEW g, GoOnAlike(f, g, N)
    PROVE  Alike(f, g, N)
<1> USE DEF GoOnAlike, Alike
<1> DEFINE S == {k \in Nat : k <= N => f[k] = g[k]}
<1>1. 0 \in S
  OBVIOUS
<1>2. ASSUME NEW k \in Nat, k \in S PROVE k + 1 \in S
  <2> SUFFICES ASSUME k + 1 <= N PROVE f[k + 1] = g[k + 1]
    OBVIOUS
  <2>1. k + 1 \in 1..N /\ (k + 1) - 1 = k /\ f[k] = g[k]
    BY <1>2
  <2> QED
    BY <2>1
<1>3. \A k \in Nat : k \in S
  <2> HIDE DEF S
  <2> QED
    BY <1>1, <1>2, Induction
<1> QED
  BY <1>3

----------------------------------------------------------------------------
(* A list of paths, written as one string and read back. *)

Char == Name \cup {Sep}
List == Seq(Seq(Name))

\* string[n] is what Save has joined after n paths.
Joins(string, paths) ==
    /\ string \in [0..Len(paths) -> Seq(Char)]
    /\ string[0] = <<>>
    /\ \A n \in 1..Len(paths) :
          string[n] = string[n - 1] \o Append(paths[n], Sep)

LEMMA PathTypes ==
    ASSUME NEW paths \in List, NEW n \in 1..Len(paths)
    PROVE  /\ paths[n] \in Seq(Name) /\ paths[n] \in Seq(Char)
           /\ Append(paths[n], Sep) \in Seq(Char)
<1>1. paths[n] \in Seq(Name)
  BY DEF List
<1>2. \A X, Y : X \subseteq Y => Seq(X) \subseteq Seq(Y)
  OBVIOUS
<1>3. Sep \in Char /\ Name \subseteq Char
  BY DEF Char
<1> HIDE DEF Char
<1> QED
  BY <1>1, <1>2, <1>3

LEMMA JoinedJoins ==
    ASSUME NEW paths \in List
    PROVE  \E string : Joins(string, paths) /\ Joined(paths) = string[Len(paths)]
<1> DEFINE N == Len(paths)
           D == Seq(Char)
           first == <<>>
           F == [p \in (1..N) \X D |-> p[2] \o Append(paths[p[1]], Sep)]
           e(g) == [n \in 0..N |->
                       IF n = 0 THEN <<>> ELSE g[n - 1] \o Append(paths[n], Sep)]
           f == CHOOSE g : g = e(g)
<1>1. N \in Nat /\ first \in D
  BY DEF List
<1>2. F \in TurnFunctions(N, D)
  <2>1. ASSUME NEW n \in 1..N, NEW d \in D PROVE d \o Append(paths[n], Sep) \in D
    BY PathTypes
  <2> QED
    BY <2>1 DEF TurnFunctions
<1>3. PICK j : Computes(j, N, D, first, F)
  <2> HIDE DEF F, D, first, N
  <2> QED
    BY <1>1, <1>2, LoopComputes
<1>4. \A n \in 1..N : j[n] = j[n - 1] \o Append(paths[n], Sep)
  <2>1. \A n \in 1..N : n - 1 \in 0..N /\ j[n - 1] \in D
    BY <1>1, <1>3 DEF Computes
  <2> QED
    BY <1>3, <2>1 DEF Computes
<1>5. j = e(j)
  <2>1. \A n \in 0..N : n = 0 \/ n \in 1..N
    BY <1>1
  <2>2. \A n \in 0..N : j[n] = e(j)[n]
    BY <1>3, <1>4, <2>1 DEF Computes
  <2> QED
    BY <1>3, <2>2 DEF Computes
<1>6. f = e(f)
  BY <1>5
<1>7. Joined(paths) = f[N]
  BY DEF Joined
<1> HIDE DEF f
<1>8. GoOnAlike(f, j, N)
  <2>1. 0 \in 0..N /\ \A n \in 1..N : n \in 0..N /\ n # 0
    BY <1>1
  <2>2. f[0] = e(f)[0] /\ \A n \in 1..N : f[n] = e(f)[n]
    BY <1>6
  <2>3. f[0] = <<>>
    BY <2>1, <2>2
  <2>4. \A n \in 1..N : f[n] = f[n - 1] \o Append(paths[n], Sep)
    BY <2>1, <2>2
  <2> HIDE DEF e
  <2>5. f[0] = j[0]
    BY <1>3, <2>3 DEF Computes
  <2>6. ASSUME NEW n \in 1..N, f[n - 1] = j[n - 1] PROVE f[n] = j[n]
    BY <1>4, <2>4, <2>6
  <2> QED
    BY <2>5, <2>6 DEF GoOnAlike
<1>9. Alike(f, j, N)
  <2> HIDE DEF N
  <2> QED
    BY <1>1, <1>8, AlikeToTheEnd
<1>10. f[N] = j[N]
  BY <1>1, <1>9 DEF Alike
<1> QED
  BY <1>3, <1>4, <1>7, <1>10 DEF Joins, Computes

\* What Load knows before each character of a string.
Progress == [paths : List, token : Seq(Name)]

Turn(before, c) ==
    IF c = Sep THEN [paths |-> Push(before.paths, before.token), token |-> <<>>]
    ELSE [paths |-> before.paths, token |-> Append(before.token, c)]

Reads(read, string) ==
    /\ read \in [0..Len(string) -> Progress]
    /\ read[0] = [paths |-> <<>>, token |-> <<>>]
    /\ \A n \in 1..Len(string) : read[n] = Turn(read[n - 1], string[n])

LEMMA TurnType ==
    ASSUME NEW before \in Progress, NEW c \in Char
    PROVE  /\ Turn(before, c) \in Progress
           /\ Turn(before, c) =
                 IF c = Sep
                 THEN [paths |-> Push(before.paths, before.token), token |-> <<>>]
                 ELSE [before EXCEPT !.token = Append(@, c)]
           /\ Push(before.paths, before.token) \in List
<1>1. before.paths \in List /\ before.token \in Seq(Name)
      /\ before = [paths |-> before.paths, token |-> before.token]
  BY DEF Progress
<1>2. Push(before.paths, before.token) \in List
  BY <1>1 DEF Push, List
<1>3. <<>> \in Seq(Name) /\ (c # Sep => Append(before.token, c) \in Seq(Name))
  BY <1>1 DEF Char
<1>4. Turn(before, c) \in Progress
  BY <1>1, <1>2, <1>3 DEF Turn, Progress
<1>5. [before EXCEPT !.token = Append(@, c)] =
         [paths |-> before.paths, token |-> Append(before.token, c)]
  BY <1>1
<1> QED
  BY <1>2, <1>4, <1>5 DEF Turn

LEMMA SplitReads ==
    ASSUME NEW string \in Seq(Char)
    PROVE  \E read : /\ Reads(read, string)
                     /\ Split(string) = Push(read[Len(string)].paths,
                                             read[Len(string)].token)
<1> DEFINE N == Len(string)
           first == [paths |-> <<>>, token |-> <<>>]
           F == [p \in (1..N) \X Progress |-> Turn(p[2], string[p[1]])]
           e(g) == [n \in 0..N |->
                       IF n = 0 THEN [paths |-> <<>>, token |-> <<>>]
                       ELSE IF string[n] = Sep
                            THEN [paths |-> Push(g[n - 1].paths, g[n - 1].token),
                                  token |-> <<>>]
                            ELSE [g[n - 1] EXCEPT !.token = Append(@, string[n])]]
           f == CHOOSE g : g = e(g)
<1>1. N \in Nat /\ \A n \in 1..N : string[n] \in Char
  OBVIOUS
<1>2. first \in Progress
  BY DEF Progress, List
<1>3. F \in TurnFunctions(N, Progress)
  <2>1. ASSUME NEW n \in 1..N, NEW d \in Progress
        PROVE  Turn(d, string[n]) \in Progress
    BY <1>1, TurnType
  <2> QED
    BY <2>1 DEF TurnFunctions
<1>4. PICK r : Computes(r, N, Progress, first, F)
  <2> HIDE DEF F, first, N
  <2> QED
    BY <1>1, <1>2, <1>3, LoopComputes
<1>5. \A n \in 1..N : r[n - 1] \in Progress /\ r[n] = Turn(r[n - 1], string[n])
  <2>1. \A n \in 1..N : n - 1 \in 0..N /\ r[n - 1] \in Progress
    BY <1>1, <1>4 DEF Computes
  <2> QED
    BY <1>4, <2>1 DEF Computes
<1>6. \A n \in 1..N :
         r[n] = IF string[n] = Sep
                THEN [paths |-> Push(r[n - 1].paths, r[n - 1].token), token |-> <<>>]
                ELSE [r[n - 1] EXCEPT !.token = Append(@, string[n])]
  BY <1>1, <1>5, TurnType
<1>7. r = e(r)
  <2>1. \A n \in 0..N : n = 0 \/ n \in 1..N
    BY <1>1
  <2>2. \A n \in 0..N : r[n] = e(r)[n]
    BY <1>4, <1>6, <2>1 DEF Computes
  <2> QED
    BY <1>4, <2>2 DEF Computes
<1>8. f = e(f)
  BY <1>7
<1>9. Split(string) = Push(f[N].paths, f[N].token)
  BY DEF Split
<1> HIDE DEF f
<1>10. GoOnAlike(f, r, N)
  <2>1. 0 \in 0..N /\ \A n \in 1..N : n \in 0..N /\ n # 0
    BY <1>1
  <2>2. f[0] = e(f)[0] /\ \A n \in 1..N : f[n] = e(f)[n]
    BY <1>8
  <2>3. f[0] = first
    BY <2>1, <2>2
  <2>4. \A n \in 1..N :
           f[n] = IF string[n] = Sep
                  THEN [paths |-> Push(f[n - 1].paths, f[n - 1].token), token |-> <<>>]
                  ELSE [f[n - 1] EXCEPT !.token = Append(@, string[n])]
    BY <2>1, <2>2
  <2>5. ASSUME NEW n \in 1..N, f[n - 1] = r[n - 1] PROVE f[n] = r[n]
    <3> DEFINE Taken(b) == IF string[n] = Sep
                           THEN [paths |-> Push(b.paths, b.token), token |-> <<>>]
                           ELSE [b EXCEPT !.token = Append(@, string[n])]
    <3>1. f[n] = Taken(f[n - 1])
      BY <2>4
    <3>2. r[n] = Taken(r[n - 1])
      BY <1>6
    <3> HIDE DEF Taken
    <3> QED
      BY <2>5, <3>1, <3>2
  <2> HIDE DEF e
  <2> QED
    BY <1>4, <2>3, <2>5 DEF GoOnAlike, Computes
<1>11. Alike(f, r, N)
  <2> HIDE DEF N
  <2> QED
    BY <1>1, <1>10, AlikeToTheEnd
<1>12. f[N] = r[N]
  BY <1>1, <1>11 DEF Alike
<1> QED
  BY <1>4, <1>5, <1>9, <1>12 DEF Reads, Computes

LEMMA SplitType ==
    ASSUME NEW string \in Seq(Char)
    PROVE  Split(string) \in List
<1>1. PICK read : /\ Reads(read, string)
                  /\ Split(string) = Push(read[Len(string)].paths,
                                          read[Len(string)].token)
  BY SplitReads
<1>2. Len(string) \in 0..Len(string)
  OBVIOUS
<1>3. read[Len(string)] \in Progress
  BY <1>1, <1>2 DEF Reads
<1> QED
  BY <1>1, <1>3, TurnType DEF Char

LEMMA Concatenated ==
    ASSUME NEW T, NEW a \in Seq(T), NEW b \in Seq(T)
    PROVE  /\ a \o b \in Seq(T)
           /\ Len(a) \in Nat /\ Len(b) \in Nat
           /\ Len(a \o b) = Len(a) + Len(b)
           /\ \A i \in 1..Len(a) : (a \o b)[i] = a[i]
           /\ \A i \in 1..Len(b) : (a \o b)[Len(a) + i] = b[i]
OBVIOUS

LEMMA Appended ==
    ASSUME NEW T, NEW a \in Seq(T), NEW c
    PROVE  /\ Len(a) \in Nat
           /\ Len(Append(a, c)) = Len(a) + 1
           /\ \A i \in 1..Len(a) : Append(a, c)[i] = a[i]
           /\ Append(a, c)[Len(a) + 1] = c
OBVIOUS

\* What was joined is the beginning of what is joined in the end.
Begins(s, t) ==
    /\ Len(s) <= Len(t)
    /\ \A i \in 1..Len(s) : t[i] = s[i]

LEMMA ConcatenatedBegins ==
    ASSUME NEW T, NEW a \in Seq(T), NEW b \in Seq(T)
    PROVE  Begins(a, a \o b)
BY Concatenated DEF Begins

LEMMA JoinedBegins ==
    ASSUME NEW paths \in List, NEW string, Joins(string, paths)
    PROVE  \A n \in 0..Len(paths) : Begins(string[n], string[Len(paths)])
<1> DEFINE N == Len(paths)
           S == {k \in Nat : k <= N => Begins(string[N - k], string[N])}
<1>1. N \in Nat /\ \A n \in 0..N : string[n] \in Seq(Char)
  <2>1. N \in Nat
    BY DEF List
  <2>2. string \in [0..N -> Seq(Char)]
    BY DEF Joins
  <2> HIDE DEF N
  <2> QED
    BY <2>1, <2>2
<1>2. 0 \in S
  <2>1. N - 0 = N /\ string[N] \in Seq(Char)
    BY <1>1
  <2> QED
    BY <2>1 DEF Begins
<1>3. ASSUME NEW k \in Nat, k \in S PROVE k + 1 \in S
  <2> SUFFICES ASSUME k + 1 <= N PROVE Begins(string[N - (k + 1)], string[N])
    OBVIOUS
  <2> DEFINE n == N - k
  <2>1. n \in 1..N /\ n - 1 = N - (k + 1) /\ n - 1 \in 0..N /\ n \in 0..N
    BY <1>1
  <2>2. Begins(string[n], string[N])
    BY <1>1, <1>3
  <2>3. string[n] = string[n - 1] \o Append(paths[n], Sep)
    BY <2>1 DEF Joins
  <2>4. Append(paths[n], Sep) \in Seq(Char)
    BY <2>1, PathTypes
  <2> HIDE DEF n, N
  <2>5. Begins(string[n - 1], string[n])
    BY <1>1, <2>1, <2>3, <2>4, ConcatenatedBegins
  <2>6. Len(string[n - 1]) \in Nat /\ Len(string[n]) \in Nat /\ Len(string[N]) \in Nat
    BY <1>1, <2>1
  <2>7. Begins(string[n - 1], string[N])
    BY <2>2, <2>5, <2>6 DEF Begins
  <2> QED
    BY <2>1, <2>7
<1>4. \A k \in Nat : k \in S
  <2> HIDE DEF S
  <2> QED
    BY <1>2, <1>3, Induction
<1>5. ASSUME NEW n \in 0..N PROVE Begins(string[n], string[N])
  <2>1. N - n \in Nat /\ N - n <= N /\ N - (N - n) = n
    BY <1>1
  <2>2. N - n \in S
    BY <1>4, <2>1
  <2> QED
    BY <2>1, <2>2
<1> QED
  BY <1>5

LEMMA Longer ==
    ASSUME NEW T, NEW s \in Seq(T), NEW i \in 0..Len(s), i < Len(s)
    PROVE  /\ SubSeq(s, 1, i) \in Seq(T)
           /\ SubSeq(s, 1, i + 1) = Append(SubSeq(s, 1, i), s[i + 1])
           /\ SubSeq(s, 1, 0) = <<>>
           /\ SubSeq(s, 1, Len(s)) = s
OBVIOUS

Got(paths, token) == [paths |-> paths, token |-> token]

LEMMA OneMore ==
    ASSUME NEW paths, NEW token, NEW c, c # Sep
    PROVE  Turn(Got(paths, token), c) = Got(paths, Append(token, c))
BY DEF Turn, Got

\* A path and the separator behind it, in a string.
PathAt(string, o, p) ==
    /\ o + Len(p) + 1 <= Len(string)
    /\ \A i \in 1..Len(p) : string[o + i] = p[i]
    /\ string[o + Len(p) + 1] = Sep

\* Reading one path, of which there is something and no separator, and the
\* separator behind it.
LEMMA PathIsRead ==
    ASSUME NEW string \in Seq(Char), NEW read, Reads(read, string),
           NEW p \in Seq(Name), p # <<>>, Sep \notin Range(p),
           NEW o \in Nat, PathAt(string, o, p),
           NEW before, read[o] = Got(before, <<>>)
    PROVE  read[o + Len(p) + 1] = Got(Append(before, p), <<>>)
<1> DEFINE S == {k \in Nat : k <= Len(p) =>
                    read[o + k] = Got(before, SubSeq(p, 1, k))}
<1> USE DEF PathAt
<1>1. Len(p) \in Nat /\ Len(string) \in Nat /\ DOMAIN p = 1..Len(p)
      /\ SubSeq(p, 1, 0) = <<>> /\ SubSeq(p, 1, Len(p)) = p
  OBVIOUS
<1>2. 0 \in S
  <2>1. o + 0 = o
    OBVIOUS
  <2> QED
    BY <1>1, <2>1
<1>3. ASSUME NEW k \in Nat, k \in S PROVE k + 1 \in S
  <2> SUFFICES ASSUME k + 1 <= Len(p)
               PROVE  read[o + (k + 1)] =
                         Got(before, SubSeq(p, 1, k + 1))
    OBVIOUS
  <2>1. /\ k + 1 \in 1..Len(p) /\ k \in 0..Len(p) /\ k < Len(p)
        /\ o + (k + 1) \in Nat \ {0} /\ o + (k + 1) - 1 = o + k
    BY <1>1
  <2>a. o + (k + 1) \in 1..Len(string)
    BY <1>1, <2>1
  <2>2. read[o + k] = Got(before, SubSeq(p, 1, k))
    BY <1>3, <2>1
  <2>3. string[o + (k + 1)] = p[k + 1] /\ p[k + 1] # Sep
    BY <1>1, <2>1 DEF Range
  <2>4. read[o + (k + 1)] = Turn(read[o + k], p[k + 1])
    BY <2>1, <2>a, <2>3 DEF Reads
  <2>5. SubSeq(p, 1, k + 1) = Append(SubSeq(p, 1, k), p[k + 1])
    BY <2>1, Longer
  <2>6. Turn(Got(before, SubSeq(p, 1, k)), p[k + 1]) =
           Got(before, Append(SubSeq(p, 1, k), p[k + 1]))
    BY <2>3, OneMore
  <2> QED
    BY <2>2, <2>4, <2>5, <2>6
<1>4. \A k \in Nat : k \in S
  <2> HIDE DEF S
  <2> QED
    BY <1>2, <1>3, Induction
<1>5. read[o + Len(p)] = Got(before, p)
  <2>1. Len(p) \in S /\ Len(p) <= Len(p)
    BY <1>1, <1>4
  <2>2. read[o + Len(p)] = Got(before, SubSeq(p, 1, Len(p)))
    BY <2>1
  <2> QED
    BY <1>1, <2>2
<1>6. read[o + Len(p) + 1] = Turn(read[o + Len(p)], Sep)
  <2>1. o + Len(p) + 1 \in 1..Len(string) /\ o + Len(p) + 1 - 1 = o + Len(p)
    BY <1>1
  <2> QED
    BY <2>1 DEF Reads
<1> QED
  BY <1>5, <1>6 DEF Turn, Push, Got

\* Load finds the list that Save wrote.
LEMMA SplitJoined ==
    ASSUME NEW paths \in List,
           \A p \in Range(paths) : p # <<>> /\ Sep \notin Range(p)
    PROVE  /\ Joined(paths) \in Seq(Char)
           /\ Split(Joined(paths)) = paths
<1> DEFINE N == Len(paths)
<1>1. PICK string : Joins(string, paths) /\ Joined(paths) = string[N]
  BY JoinedJoins
<1>2. N \in Nat /\ \A n \in 0..N : string[n] \in Seq(Char)
  BY <1>1 DEF List, Joins
<1>3. Joined(paths) \in Seq(Char)
  BY <1>1, <1>2
<1>4. PICK read : /\ Reads(read, Joined(paths))
                  /\ Split(Joined(paths)) = Push(read[Len(Joined(paths))].paths,
                                                 read[Len(Joined(paths))].token)
  BY <1>3, SplitReads
<1> DEFINE s == Joined(paths)
           S == {n \in Nat : n <= N =>
                    read[Len(string[n])] =
                       Got(SubSeq(paths, 1, n), <<>>)}
<1>5. SubSeq(paths, 1, 0) = <<>> /\ SubSeq(paths, 1, N) = paths
  BY DEF List
<1>6. 0 \in S
  <2>1. string[0] = <<>> /\ Len(<<>>) = 0
    BY <1>1 DEF Joins
  <2> QED
    BY <1>4, <1>5, <2>1 DEF Reads, Got
<1>7. ASSUME NEW n \in Nat, n \in S PROVE n + 1 \in S
  <2> SUFFICES ASSUME n + 1 <= N
               PROVE  read[Len(string[n + 1])] =
                         Got(SubSeq(paths, 1, n + 1), <<>>)
    OBVIOUS
  <2> DEFINE p == paths[n + 1]
             o == Len(string[n])
  <2>1. n + 1 \in 1..N /\ n + 1 \in 0..N /\ n \in 0..N /\ (n + 1) - 1 = n /\ n < N
    BY <1>2
  <2>2. /\ p \in Seq(Name) /\ p \in Seq(Char) /\ Append(p, Sep) \in Seq(Char)
        /\ p \in Range(paths)
    BY <2>1, PathTypes DEF Range, List
  <2>3. string[n + 1] = string[n] \o Append(p, Sep)
    BY <1>1, <2>1 DEF Joins
  <2>4. string[n] \in Seq(Char) /\ s \in Seq(Char)
    BY <1>2, <1>3, <2>1
  <2>5. Begins(string[n + 1], s)
    BY <1>1, <2>1, JoinedBegins
  <2> HIDE DEF s, p, N
  <2>6. /\ Len(string[n + 1]) = o + Len(p) + 1 /\ o \in Nat /\ Len(p) \in Nat
        /\ \A i \in 1..Len(p) : string[n + 1][o + i] = p[i]
        /\ string[n + 1][o + Len(p) + 1] = Sep
    <3> DEFINE q == Append(p, Sep)
    <3>1. /\ Len(p) \in Nat /\ Len(q) = Len(p) + 1 /\ q[Len(p) + 1] = Sep
          /\ \A i \in 1..Len(p) : q[i] = p[i]
      BY <2>2, Appended
    <3>2. q \in Seq(Char) /\ string[n + 1] = string[n] \o q
      BY <2>2, <2>3
    <3> HIDE DEF q
    <3>3. /\ o \in Nat /\ Len(string[n + 1]) = o + Len(q)
          /\ \A i \in 1..Len(q) : string[n + 1][o + i] = q[i]
      BY <2>4, <3>2, Concatenated
    <3> HIDE DEF o
    <3>4. /\ Len(p) + 1 \in 1..Len(q) /\ o + Len(p) + 1 = o + (Len(p) + 1)
          /\ \A i \in 1..Len(p) : i \in 1..Len(q)
      BY <3>1, <3>3
    <3> QED
      BY <3>1, <3>3, <3>4
  <2> HIDE DEF o
  <2>7. PathAt(s, o, p)
    <3>1. /\ o + Len(p) + 1 \in 1..Len(string[n + 1])
          /\ \A i \in 1..Len(p) : o + i \in 1..Len(string[n + 1])
      BY <2>6
    <3> QED
      BY <2>5, <2>6, <3>1 DEF Begins, PathAt
  <2> DEFINE before == SubSeq(paths, 1, n)
  <2>8. read[o] = Got(before, <<>>)
    BY <1>7, <2>1 DEF o
  <2> HIDE DEF before
  <2>9. Reads(read, s)
    BY <1>4 DEF s
  <2>10. p # <<>> /\ Sep \notin Range(p)
    BY <2>2
  <2>11. read[o + Len(p) + 1] = Got(Append(before, p), <<>>)
    BY <2>2, <2>4, <2>6, <2>7, <2>8, <2>9, <2>10, PathIsRead
  <2>12. SubSeq(paths, 1, n + 1) = Append(before, p)
    BY <2>1, Longer DEF List, p, N, before
  <2> QED
    BY <2>6, <2>11, <2>12
<1>8. \A n \in Nat : n \in S
  <2> HIDE DEF S
  <2> QED
    BY <1>6, <1>7, Induction
<1>9. read[Len(s)] = Got(paths, <<>>)
  <2>1. N \in S /\ N <= N
    BY <1>2, <1>8
  <2>2. read[Len(string[N])] = Got(SubSeq(paths, 1, N), <<>>)
    BY <2>1
  <2> QED
    BY <1>1, <1>5, <2>2
<1> QED
  BY <1>3, <1>4, <1>9 DEF Push, Got

----------------------------------------------------------------------------
(* The settings and their file. *)

\* The members and the file are records of keys, and Save has keys before it.
SettingsType ==
    /\ DOMAIN mem = Key
    /\ DOMAIN ini \subseteq Key
    /\ DOMAIN expected = Key
    /\ unsaved \in Seq(Key)

\* Save writes the members that were confirmed.
SaveInv ==
    ui = "saving" =>
        \A k \in Key :
            /\ mem[k] \in expected[k]
            /\ k \notin Range(unsaved) =>
                  k \in DOMAIN ini /\ ini[k] = Written(k, mem[k])

IInv ==
    /\ SettingsType
    /\ SaveInv
    /\ FileHoldsConfirmed

----------------------------------------------------------------------------
(* Save. *)

LEMMA FourKeys ==
    ASSUME NEW T, NEW a \in T, NEW b \in T, NEW c \in T, NEW d \in T
    PROVE  <<a, b, c, d>> \in Seq(T)
OBVIOUS

LEMMA KeyOrderType == KeyOrder \in Seq(Key)
<1> DEFINE T == {"FirstRunComplete", "SelectedDrives", "ExcludedPaths",
                 "ReindexIntervalHours"} \cup STRING
<1>1. /\ "FirstRunComplete" \in T /\ "SelectedDrives" \in T
      /\ "ExcludedPaths" \in T /\ "ReindexIntervalHours" \in T
  OBVIOUS
<1>2. OptionKeys \in Seq(T)
  <2>1. STRING \subseteq T
    OBVIOUS
  <2>2. \A X, Y : X \subseteq Y => Seq(X) \subseteq Seq(Y)
    OBVIOUS
  <2> HIDE DEF T
  <2> QED
    BY <2>1, <2>2, SettingsAssumption
<1> HIDE DEF T
<1>3. KeyOrder \in Seq(T)
  <2>1. PICK first \in Seq(T) :
            first = <<"FirstRunComplete", "SelectedDrives", "ExcludedPaths",
                      "ReindexIntervalHours">>
    BY <1>1, FourKeys
  <2>2. first \o OptionKeys \in Seq(T)
    BY <1>2
  <2> QED
    BY <2>1, <2>2 DEF KeyOrder
<1>4. \A n \in 1..Len(KeyOrder) : KeyOrder[n] \in Key
  <2>1. DOMAIN KeyOrder = 1..Len(KeyOrder)
    BY <1>3
  <2> QED
    BY <2>1 DEF Key, Range
<1> QED
  BY <1>3, <1>4

\* One key less to write.
LEMMA HeadIsWritten ==
    ASSUME NEW s \in Seq(Key), s # <<>>
    PROVE  /\ Head(s) \in Key /\ Tail(s) \in Seq(Key)
           /\ \A k \in Range(s) : k = Head(s) \/ k \in Range(Tail(s))
           /\ Tail(s) = <<>> => Range(Tail(s)) = {}
<1>1. Len(s) \in Nat /\ Len(s) > 0 /\ Head(s) = s[1] /\ DOMAIN s = 1..Len(s)
  OBVIOUS
<1>2. /\ Tail(s) \in Seq(Key) /\ DOMAIN Tail(s) = 1..(Len(s) - 1)
      /\ \A i \in 1..(Len(s) - 1) : Tail(s)[i] = s[i + 1]
  OBVIOUS
<1>3. ASSUME NEW i \in 1..Len(s), i # 1 PROVE s[i] \in Range(Tail(s))
  <2>1. i - 1 \in 1..(Len(s) - 1) /\ (i - 1) + 1 = i
    BY <1>1, <1>3
  <2>2. Tail(s)[i - 1] = s[i]
    BY <1>2, <2>1
  <2> QED
    BY <1>2, <2>1, <2>2 DEF Range
<1>4. \A k \in Range(s) : k = Head(s) \/ k \in Range(Tail(s))
  BY <1>1, <1>3 DEF Range
<1>5. Tail(s) = <<>> => Range(Tail(s)) = {}
  BY DEF Range
<1> QED
  BY <1>1, <1>2, <1>4, <1>5

LEMMA SaveKeyStep ==
    ASSUME IInv, ui = "saving", SaveKey
    PROVE  /\ SettingsType' /\ FileHoldsConfirmed'
           /\ \A k \in Key :
                 /\ mem'[k] \in expected'[k]
                 /\ k \notin Range(unsaved') =>
                       k \in DOMAIN ini' /\ ini'[k] = Written(k, mem'[k])
<1> DEFINE key == Head(unsaved)
<1>1. /\ unsaved \in Seq(Key) /\ unsaved # <<>> /\ DOMAIN mem = Key
      /\ DOMAIN ini \subseteq Key /\ DOMAIN expected = Key /\ mem' = mem
      /\ unsaved' = Tail(unsaved)
      /\ ini' = WriteString(key, Written(key, mem[key]))
      /\ expected' = IF unsaved' = <<>> THEN [k \in Key |-> {mem[k]}] ELSE expected
  BY DEF IInv, SettingsType, SaveKey
<1>2. /\ key \in Key /\ unsaved' \in Seq(Key)
      /\ \A k \in Range(unsaved) : k = key \/ k \in Range(unsaved')
      /\ unsaved' = <<>> => Range(unsaved') = {}
  BY <1>1, HeadIsWritten
<1> HIDE DEF key
<1>3. /\ DOMAIN ini' = DOMAIN ini \cup {key}
      /\ \A k \in DOMAIN ini' :
            ini'[k] = IF k = key THEN Written(key, mem[key]) ELSE ini[k]
  BY <1>1 DEF WriteString
<1>4. SettingsType'
  BY <1>1, <1>2, <1>3 DEF SettingsType
<1>5. \A k \in Key : mem'[k] \in expected'[k]
  BY <1>1 DEF IInv, SaveInv
<1>6. ASSUME NEW k \in Key, k \notin Range(unsaved')
      PROVE  k \in DOMAIN ini' /\ ini'[k] = Written(k, mem'[k])
  BY <1>1, <1>2, <1>3, <1>6 DEF IInv, SaveInv
<1>7. FileHoldsConfirmed'
  <2>1. ASSUME NEW k \in Key
        PROVE  IF k \in DOMAIN ini'
               THEN \E value \in expected'[k] : ini'[k] = Written(k, value)
               ELSE Default[k] \in expected'[k]
    <3>1. CASE unsaved' = <<>>
      BY <1>2, <1>5, <1>6, <3>1
    <3>2. CASE unsaved' # <<>> /\ k = key
      BY <1>1, <1>3, <1>5, <3>2
    <3>3. CASE unsaved' # <<>> /\ k # key
      BY <1>1, <1>3, <3>3 DEF IInv, FileHoldsConfirmed
    <3> QED
      BY <3>1, <3>2, <3>3
  <2> QED
    BY <2>1 DEF FileHoldsConfirmed, Default, Written
<1> QED
  BY <1>4, <1>5, <1>6, <1>7

\* A dialog ends in a Save: what it confirms can be expected from now on.
LEMMA ConfirmStep ==
    ASSUME IInv, NEW values, DOMAIN values = Key, Confirm(values)
    PROVE  IInv'
<1>1. /\ mem' = values /\ unsaved' = KeyOrder /\ ini' = ini
      /\ expected' = [k \in Key |-> expected[k] \cup {values[k]}]
  BY DEF Confirm
<1>2. SettingsType'
  BY <1>1, KeyOrderType DEF IInv, SettingsType
<1>3. SaveInv'
  <2>1. \A k \in Key : mem'[k] \in expected'[k] /\ k \in Range(unsaved')
    BY <1>1 DEF Key
  <2>2. SUFFICES \A k \in Key : /\ mem'[k] \in expected'[k]
                                /\ k \in Range(unsaved')
    BY DEF SaveInv, Key, KeyOrder, Written, ListKeys, Joined
  <2> QED
    BY <2>1
<1>4. FileHoldsConfirmed'
  <2>1. \A k \in Key : expected[k] \subseteq expected'[k]
    BY <1>1
  <2> QED
    BY <1>1, <2>1 DEF IInv, FileHoldsConfirmed, Written, Default, Key, KeyOrder
<1> QED
  BY <1>2, <1>3, <1>4 DEF IInv

LEMMA DialogStep ==
    ASSUME IInv, FirstRunDialogOk \/ SettingsDialogOk \/ OptionToggled
    PROVE  IInv'
<1>1. DOMAIN mem = Key
  BY DEF IInv, SettingsType
<1>2. \E values : DOMAIN values = Key /\ Confirm(values)
  <2>1. CASE FirstRunDialogOk
    BY <1>1, <2>1 DEF FirstRunDialogOk, FirstRunOk
  <2>2. CASE SettingsDialogOk
    BY <1>1, <2>2 DEF SettingsDialogOk, SettingsOk
  <2>3. CASE OptionToggled
    BY <1>1, <2>3 DEF OptionToggled, ToggleOption
  <2> QED
    BY <2>1, <2>2, <2>3
<1> QED
  BY <1>2, ConfirmStep

\* The members are read from the file, or lost with the process: the file and
\* what is expected of it are as before.
LEMMA MembersStep ==
    ASSUME IInv, ini' = ini, expected' = expected, unsaved' \in Seq(Key),
           DOMAIN mem' = Key, ui' # "saving"
    PROVE  IInv'
<1>1. SettingsType'
  BY DEF IInv, SettingsType
<1>2. SaveInv'
  BY DEF SaveInv
<1>3. FileHoldsConfirmed'
  BY DEF IInv, FileHoldsConfirmed, Written, Default
<1> QED
  BY <1>1, <1>2, <1>3 DEF IInv

LEMMA OffStep == ASSUME IInv, Off PROVE IInv'
<1>1. /\ ini' = ini /\ expected' = expected /\ unsaved' = <<>>
      /\ mem' = Default /\ ui' = "off"
  BY DEF Off
<1>2. unsaved' \in Seq(Key)
  BY <1>1, EmptySeq
<1>3. DOMAIN mem' = Key
  BY <1>1 DEF Default
<1> QED
  BY <1>1, <1>2, <1>3, MembersStep

LEMMA LaunchStep == ASSUME IInv, Launch PROVE IInv'
<1>1. /\ ini' = ini /\ expected' = expected /\ unsaved' = unsaved
      /\ mem' = [k \in Key |-> Loaded(k)] /\ ui' \in {"idle", "firstRun"}
  BY DEF Launch, Load
<1>2. unsaved' \in Seq(Key)
  BY <1>1 DEF IInv, SettingsType
<1>3. DOMAIN mem' = Key
  BY <1>1
<1> QED
  BY <1>1, <1>2, <1>3, MembersStep

LEMMA SaveStep == ASSUME IInv, Save PROVE IInv'
<1>1. ui = "saving" /\ SaveKey
  BY DEF Save
<1>2. /\ SettingsType' /\ FileHoldsConfirmed'
      /\ \A k \in Key :
            /\ mem'[k] \in expected'[k]
            /\ k \notin Range(unsaved') =>
                  k \in DOMAIN ini' /\ ini'[k] = Written(k, mem'[k])
  BY <1>1, SaveKeyStep
<1>3. SaveInv'
  BY <1>2 DEF SaveInv, Written
<1> QED
  BY <1>2, <1>3 DEF IInv

\* All other steps leave the settings alone.
LEMMA OtherStep ==
    ASSUME IInv, UNCHANGED settings, ui' = ui \/ ui' # "saving"
    PROVE  IInv'
<1>1. mem' = mem /\ ini' = ini /\ unsaved' = unsaved /\ expected' = expected
  BY DEF settings
<1>2. SettingsType'
  BY <1>1 DEF IInv, SettingsType
<1>3. SaveInv'
  BY <1>1 DEF IInv, SaveInv, Written
<1>4. FileHoldsConfirmed'
  BY <1>1 DEF IInv, FileHoldsConfirmed, Written, Default
<1> QED
  BY <1>2, <1>3, <1>4 DEF IInv

LEMMA InitIInv == Init => IInv
<1> SUFFICES ASSUME Init PROVE IInv
  OBVIOUS
<1>1. /\ mem = Default /\ ini = <<>> /\ unsaved = <<>> /\ ui = "off"
      /\ expected = [k \in Key |-> {Default[k]}]
  BY DEF Init, SettingsInit
<1>2. DOMAIN ini = {}
  BY <1>1
<1>3. unsaved \in Seq(Key)
  BY <1>1, EmptySeq
<1>4. SettingsType
  BY <1>1, <1>2, <1>3 DEF SettingsType, Default
<1>5. FileHoldsConfirmed
  BY <1>1, <1>2 DEF FileHoldsConfirmed
<1> QED
  BY <1>1, <1>4, <1>5 DEF IInv, SaveInv

\* The invariant is inductive.
LEMMA NextIInv == IInv /\ [Next]_vars => IInv'
<1> SUFFICES ASSUME IInv, [Next]_vars PROVE IInv'
  OBVIOUS
<1>1. CASE Launch
  BY <1>1, LaunchStep
<1>2. CASE FirstRunDialogOk \/ SettingsDialogOk \/ OptionToggled
  BY <1>2, DialogStep
<1>3. CASE Save
  BY <1>3, SaveStep
<1>4. CASE Closed \/ Crash \/ MftOverflow
  BY <1>4, OffStep DEF Closed, Crash, MftOverflow
<1>5. CASE FirstRunDialogCancel \/ Rebuild \/ Close
  BY <1>5, OtherStep DEF FirstRunDialogCancel, Rebuild, Close
<1>6. CASE StartScan \/ FindFile \/ Mft \/ HandOver \/ OthersMove
  BY <1>6, OtherStep DEF StartScan, FindFile, Mft, HandOver, OthersMove, noUiStep
<1>7. CASE UNCHANGED vars
  BY <1>7, OtherStep DEF vars
<1> QED
  BY <1>1, <1>2, <1>3, <1>4, <1>5, <1>6, <1>7 DEF Next, UI, Worker

----------------------------------------------------------------------------
(* What is read back. *)

\* The lists are lists of paths, in whatever way they came about.
ListsInv ==
    \A k \in ListKeys : mem[k] \in List /\ expected[k] \subseteq List

RoundTripInv == ListsInv /\ SettingsSurvive

LEMMA ListKeysAreKeys == ListKeys \subseteq Key
BY DEF ListKeys, Key, KeyOrder, Range

LEMMA DefaultLists == \A k \in ListKeys : Default[k] \in List
<1>1. Default["SelectedDrives"] = <<>> /\ Default["ExcludedPaths"] = DefaultExcludedPaths
  BY ListKeysAreKeys DEF Default, ListKeys
<1>2. <<>> \in List /\ DefaultExcludedPaths \in List
  BY SettingsAssumption DEF List
<1> QED
  BY <1>1, <1>2 DEF ListKeys

LEMMA MinOfTwo ==
    ASSUME NEW a \in Nat, NEW b \in Nat
    PROVE  Min({a, b}) \in Nat /\ Min({a, b}) <= a /\ (a <= b => Min({a, b}) = a)
<1>1. \E x \in {a, b} : \A y \in {a, b} : x <= y
  OBVIOUS
<1> QED
  BY <1>1 DEF Min

LEMMA ReadStringFacts ==
    ASSUME NEW string \in Seq(Char)
    PROVE  /\ ReadString(string) \in Seq(Char)
           /\ Len(string) <= BufferLimit => ReadString(string) = string
<1> DEFINE limit == Min({Len(string), BufferLimit})
<1>1. /\ Len(string) \in Nat /\ limit \in Nat /\ limit <= Len(string)
      /\ Len(string) <= BufferLimit => limit = Len(string)
  <2>1. Len(string) \in Nat /\ BufferLimit \in Nat
    BY SettingsAssumption
  <2> QED
    BY <2>1, MinOfTwo
<1> HIDE DEF limit
<1>2. SubSeq(string, 1, limit) \in Seq(Char) /\ SubSeq(string, 1, Len(string)) = string
  BY <1>1
<1> QED
  BY <1>1, <1>2 DEF ReadString, limit

LEMMA JoinedType == ASSUME NEW paths \in List PROVE Joined(paths) \in Seq(Char)
<1>1. PICK string : Joins(string, paths) /\ Joined(paths) = string[Len(paths)]
  BY JoinedJoins
<1>2. Len(paths) \in 0..Len(paths)
  BY DEF List
<1> QED
  BY <1>1, <1>2 DEF Joins

LEMMA SplitEmpty == Split(<<>>) = <<>>
<1>1. <<>> \in List /\ \A p \in Range(<<>>) : p # <<>> /\ Sep \notin Range(p)
  BY DEF List, Range
<1>2. Split(Joined(<<>>)) = <<>>
  BY <1>1, SplitJoined
<1>3. PICK string : Joins(string, <<>>) /\ Joined(<<>>) = string[Len(<<>>)]
  BY <1>1, JoinedJoins
<1> QED
  BY <1>2, <1>3 DEF Joins

\* What Load makes of the file is a list, and a value that was expected, if
\* those can be read back.
\* The branches of Loaded, one by one.
LEMMA LoadedCases ==
    ASSUME NEW k
    PROVE  /\ k \notin DOMAIN ini => Loaded(k) = Default[k]
           /\ k \in DOMAIN ini /\ k \notin ListKeys => Loaded(k) = ini[k]
           /\ k \in DOMAIN ini /\ k \in ListKeys =>
                 Loaded(k) = IF k = "ExcludedPaths" /\ ini[k] = <<>> THEN Default[k]
                             ELSE Split(ReadString(ini[k]))
BY DEF Loaded, ListKeys

LEMMA LoadedIsExpected ==
    ASSUME IInv, ListsInv, NEW k \in Key
    PROVE  /\ k \in ListKeys => Loaded(k) \in List
           /\ (\A value \in expected[k] : ReadsBack(k, value)) => Loaded(k) \in expected[k]
<1>4. IF k \in DOMAIN ini THEN \E value \in expected[k] : ini[k] = Written(k, value)
      ELSE Default[k] \in expected[k]
  BY DEF IInv, FileHoldsConfirmed
<1>1. CASE k \notin DOMAIN ini
  <2>1. Loaded(k) = Default[k] /\ Default[k] \in expected[k]
    BY <1>4, <1>1, LoadedCases
  <2> QED
    BY <2>1 DEF ListsInv
<1>2. CASE k \in DOMAIN ini /\ k \notin ListKeys
  BY <1>4, <1>2, LoadedCases DEF Written
<1>3. CASE k \in DOMAIN ini /\ k \in ListKeys
  <2>1. PICK value \in expected[k] : ini[k] = Joined(value)
    BY <1>4, <1>3 DEF Written
  <2>2. value \in List
    BY <1>3, <2>1 DEF ListsInv
  <2>3. /\ ReadString(ini[k]) \in Seq(Char)
        /\ Len(ini[k]) <= BufferLimit => ReadString(ini[k]) = ini[k]
    BY <2>1, <2>2, JoinedType, ReadStringFacts
  <2>4. Split(ReadString(ini[k])) \in List
    BY <2>3, SplitType
  <2>5. /\ Loaded(k) \in {Default[k], Split(ReadString(ini[k]))}
        /\ ~(k = "ExcludedPaths" /\ ini[k] = <<>>) => Loaded(k) = Split(ReadString(ini[k]))
        /\ k # "ExcludedPaths" => Loaded(k) = Split(ReadString(ini[k]))
    BY <1>3, LoadedCases
  <2>6. Default[k] \in List
    BY <1>3, DefaultLists
  <2>7. ASSUME ReadsBack(k, value) PROVE Loaded(k) = value
    <3>1. /\ Len(ini[k]) <= BufferLimit
          /\ \A p \in Range(value) : p # <<>> /\ Sep \notin Range(p)
          /\ k = "ExcludedPaths" => value # <<>>
      BY <1>3, <2>1, <2>7 DEF ReadsBack
    <3>2. Split(ReadString(ini[k])) = value
      BY <2>1, <2>2, <2>3, <3>1, SplitJoined
    <3>3. k = "ExcludedPaths" => ini[k] # <<>>
      BY <2>1, <2>2, <3>1, SplitJoined, SplitEmpty
    <3> QED
      BY <2>5, <3>2, <3>3
  <2> QED
    BY <2>1, <2>4, <2>5, <2>6, <2>7
<1> QED
  BY <1>1, <1>2, <1>3

LEMMA LaunchRoundTrip == ASSUME IInv, RoundTripInv, Launch PROVE RoundTripInv'
<1>1. /\ expected' = expected /\ mem' = [k \in Key |-> Loaded(k)]
  BY DEF Launch, Load
<1>2. \A k \in Key :
         /\ k \in ListKeys => mem'[k] \in List
         /\ (\A value \in expected[k] : ReadsBack(k, value)) => mem'[k] \in expected[k]
  BY <1>1, LoadedIsExpected DEF RoundTripInv
<1>3. ListsInv'
  BY <1>1, <1>2, ListKeysAreKeys DEF RoundTripInv, ListsInv, List
<1>4. SettingsSurvive'
  BY <1>1, <1>2 DEF SettingsSurvive, ReadsBack, Joined
<1> QED
  BY <1>3, <1>4 DEF RoundTripInv

LEMMA SublistsAreLists ==
    ASSUME NEW list \in List, NEW kept \in Sublists(list)
    PROVE  kept \in List
<1>1. PICK n \in 0..Len(list) : \E at \in [1..n -> DOMAIN list] :
         kept = [i \in 1..n |-> list[at[i]]]
  BY DEF Sublists
<1>2. PICK at \in [1..n -> DOMAIN list] : kept = [i \in 1..n |-> list[at[i]]]
  BY <1>1
<1>3. n \in Nat /\ \A i \in DOMAIN list : list[i] \in Seq(Name)
  BY DEF List
<1>4. \A i \in 1..n : list[at[i]] \in Seq(Name)
  BY <1>3
<1> QED
  BY <1>2, <1>3, <1>4 DEF List

LEMMA EditedAreLists ==
    ASSUME NEW list \in List, NEW added, added \subseteq Seq(Name),
           NEW edited \in Edited(list, added)
    PROVE  edited \in List
<1>1. CASE edited \in Sublists(list)
  BY <1>1, SublistsAreLists
<1>2. CASE \E kept \in Sublists(list), p \in added : edited = Append(kept, p)
  <2>1. PICK kept \in Sublists(list), p \in added : edited = Append(kept, p)
    BY <1>2
  <2>2. kept \in List /\ p \in Seq(Name)
    BY SublistsAreLists
  <2> QED
    BY <2>1, <2>2 DEF List
<1> QED
  BY <1>1, <1>2 DEF Edited

LEMMA ConfirmRoundTrip ==
    ASSUME IInv, RoundTripInv, NEW values, DOMAIN values = Key,
           \A k \in ListKeys : values[k] \in List,
           Confirm(values)
    PROVE  RoundTripInv'
<1>1. /\ mem' = values
      /\ expected' = [k \in Key |-> expected[k] \cup {values[k]}]
  BY DEF Confirm
<1>2. ListsInv'
  BY <1>1, ListKeysAreKeys DEF RoundTripInv, ListsInv, List
<1>3. SettingsSurvive'
  BY <1>1 DEF SettingsSurvive
<1> QED
  BY <1>2, <1>3 DEF RoundTripInv

LEMMA DialogRoundTrip ==
    ASSUME IInv, RoundTripInv, FirstRunDialogOk \/ SettingsDialogOk \/ OptionToggled
    PROVE  RoundTripInv'
<1>1. /\ DOMAIN mem = Key
      /\ mem["SelectedDrives"] \in List /\ mem["ExcludedPaths"] \in List
  BY DEF IInv, SettingsType, RoundTripInv, ListsInv, ListKeys
<1>2. /\ {"FirstRunComplete", "SelectedDrives", "ExcludedPaths",
           "ReindexIntervalHours"} \subseteq Key
      /\ FixedDrives \in List /\ Folders \subseteq Seq(Name)
      /\ Range(FixedDrives) \subseteq Seq(Name)
  <2>1. FixedDrives \in List /\ Folders \subseteq Seq(Name)
    BY SettingsAssumption DEF List
  <2>2. Range(FixedDrives) \subseteq Seq(Name)
    BY <2>1 DEF List, Range
  <2> QED
    BY <2>1, <2>2 DEF Key, KeyOrder, Range
<1>3. \E values : /\ DOMAIN values = Key /\ Confirm(values)
                  /\ \A k \in ListKeys : values[k] \in List
  <2>1. CASE FirstRunDialogOk
    <3>1. PICK drives \in Sublists(FixedDrives), interval \in Intervals,
               excluded \in Edited(mem["ExcludedPaths"], Folders) :
             Confirm([mem EXCEPT !["FirstRunComplete"] = TRUE,
                                 !["SelectedDrives"] = drives,
                                 !["ExcludedPaths"] = excluded,
                                 !["ReindexIntervalHours"] = interval])
      BY <2>1 DEF FirstRunDialogOk, FirstRunOk
    <3>2. drives \in List /\ excluded \in List
      BY <1>1, <1>2, SublistsAreLists, EditedAreLists
    <3> DEFINE values == [mem EXCEPT !["FirstRunComplete"] = TRUE,
                                     !["SelectedDrives"] = drives,
                                     !["ExcludedPaths"] = excluded,
                                     !["ReindexIntervalHours"] = interval]
    <3>3. /\ DOMAIN values = Key
          /\ values["SelectedDrives"] = drives /\ values["ExcludedPaths"] = excluded
      BY <1>1, <1>2
    <3>4. Confirm(values)
      BY <3>1
    <3> HIDE DEF values
    <3> QED
      BY <3>2, <3>3, <3>4 DEF ListKeys
  <2>2. CASE SettingsDialogOk
    <3> DEFINE locations ==
                  (Range(FixedDrives) \cup Folders) \ Range(mem["SelectedDrives"])
    <3>1. PICK paths \in Edited(mem["SelectedDrives"], locations),
               interval \in Intervals,
               excluded \in Edited(mem["ExcludedPaths"], Folders) :
             Confirm([mem EXCEPT !["SelectedDrives"] = paths,
                                 !["ExcludedPaths"] = excluded,
                                 !["ReindexIntervalHours"] = interval])
      BY <2>2 DEF SettingsDialogOk, SettingsOk
    <3>2. locations \subseteq Seq(Name)
      BY <1>2
    <3> HIDE DEF locations
    <3>3. paths \in List /\ excluded \in List
      BY <1>1, <1>2, <3>2, EditedAreLists
    <3> DEFINE values == [mem EXCEPT !["SelectedDrives"] = paths,
                                     !["ExcludedPaths"] = excluded,
                                     !["ReindexIntervalHours"] = interval]
    <3>4. /\ DOMAIN values = Key
          /\ values["SelectedDrives"] = paths /\ values["ExcludedPaths"] = excluded
      BY <1>1, <1>2
    <3>5. Confirm(values)
      BY <3>1
    <3> HIDE DEF values
    <3> QED
      BY <3>3, <3>4, <3>5 DEF ListKeys
  <2>3. CASE OptionToggled
    <3>1. PICK o \in Range(OptionKeys) : Confirm([mem EXCEPT ![o] = ~@])
      BY <2>3 DEF OptionToggled, ToggleOption
    <3> DEFINE values == [mem EXCEPT ![o] = ~@]
    <3>2. o # "SelectedDrives" /\ o # "ExcludedPaths"
      BY SettingsAssumption DEF ListKeys
    <3>3. /\ DOMAIN values = Key
          /\ values["SelectedDrives"] = mem["SelectedDrives"]
          /\ values["ExcludedPaths"] = mem["ExcludedPaths"]
      BY <1>1, <1>2, <3>2
    <3>4. Confirm(values)
      BY <3>1
    <3> HIDE DEF values
    <3> QED
      BY <1>1, <3>3, <3>4 DEF ListKeys
  <2> QED
    BY <2>1, <2>2, <2>3
<1> QED
  BY <1>3, ConfirmRoundTrip

LEMMA SaveRoundTrip == ASSUME IInv, RoundTripInv, Save PROVE RoundTripInv'
<1>1. /\ ui = "saving" /\ mem' = mem
      /\ expected' = expected \/ expected' = [k \in Key |-> {mem[k]}]
  BY DEF Save, SaveKey
<1>2. \A k \in Key : mem'[k] \in expected'[k]
  BY <1>1 DEF IInv, SaveInv
<1>3. ListsInv'
  BY <1>1, ListKeysAreKeys DEF RoundTripInv, ListsInv, List
<1> QED
  BY <1>2, <1>3 DEF RoundTripInv, SettingsSurvive

LEMMA OffRoundTrip == ASSUME IInv, RoundTripInv, Off PROVE RoundTripInv'
<1>1. mem' = Default /\ expected' = expected /\ ui' = "off"
  BY DEF Off
<1>2. \A k \in ListKeys : Default[k] \in List
  BY DefaultLists
<1>3. ListsInv'
  BY <1>1, <1>2 DEF RoundTripInv, ListsInv, List, Default
<1> QED
  BY <1>1, <1>3 DEF RoundTripInv, SettingsSurvive

\* All other steps leave the settings alone, and do not start the program.
LEMMA OtherRoundTrip ==
    ASSUME IInv, RoundTripInv, UNCHANGED settings, ui = "off" => ui' = "off"
    PROVE  RoundTripInv'
<1>1. mem' = mem /\ expected' = expected
  BY DEF settings
<1>2. ListsInv'
  BY <1>1 DEF RoundTripInv, ListsInv, List
<1>3. SettingsSurvive'
  BY <1>1 DEF RoundTripInv, SettingsSurvive, ReadsBack, Joined
<1> QED
  BY <1>2, <1>3 DEF RoundTripInv

LEMMA InitRoundTrip == Init => RoundTripInv
<1> SUFFICES ASSUME Init PROVE RoundTripInv
  OBVIOUS
<1>1. mem = Default /\ ui = "off" /\ expected = [k \in Key |-> {Default[k]}]
  BY DEF Init, SettingsInit
<1>2. ListsInv
  BY <1>1, DefaultLists, ListKeysAreKeys DEF ListsInv
<1> QED
  BY <1>1, <1>2 DEF RoundTripInv, SettingsSurvive

LEMMA NextRoundTrip == IInv /\ RoundTripInv /\ [Next]_vars => RoundTripInv'
<1> SUFFICES ASSUME IInv, RoundTripInv, [Next]_vars PROVE RoundTripInv'
  OBVIOUS
<1>1. CASE Launch
  BY <1>1, LaunchRoundTrip
<1>2. CASE FirstRunDialogOk \/ SettingsDialogOk \/ OptionToggled
  BY <1>2, DialogRoundTrip
<1>3. CASE Save
  BY <1>3, SaveRoundTrip
<1>4. CASE Closed \/ Crash \/ MftOverflow
  BY <1>4, OffRoundTrip DEF Closed, Crash, MftOverflow
<1>5. CASE FirstRunDialogCancel \/ Rebuild \/ Close
  BY <1>5, OtherRoundTrip DEF FirstRunDialogCancel, Rebuild, Close, MayConfirm
<1>6. CASE StartScan \/ FindFile \/ Mft \/ HandOver \/ OthersMove
  BY <1>6, OtherRoundTrip DEF StartScan, FindFile, Mft, HandOver, OthersMove, noUiStep
<1>7. CASE UNCHANGED vars
  BY <1>7, OtherRoundTrip DEF vars
<1> QED
  BY <1>1, <1>2, <1>3, <1>4, <1>5, <1>6, <1>7 DEF Next, UI, Worker

\* Wherever the program ends, in the middle of Save included, the file holds
\* for each key a value that the user confirmed, the last one if that Save was
\* complete, or none if the default may still be expected.
THEOREM FileIsConfirmed == Spec => []FileHoldsConfirmed
<1>1. IInv => FileHoldsConfirmed
  BY DEF IInv
<1> QED
  BY <1>1, InitIInv, NextIInv, PTL DEF Spec

\* When the program is started it has, for each key, a value that the user
\* confirmed, the last one unless a crash cut Save short, if the file can hold
\* what is expected of the key.
THEOREM SettingsAreKept == Spec => []SettingsSurvive
<1>1. RoundTripInv => SettingsSurvive
  BY DEF RoundTripInv
<1> QED
  BY <1>1, InitIInv, NextIInv, InitRoundTrip, NextRoundTrip, PTL DEF Spec

----------------------------------------------------------------------------
(* The tree of the volume. *)

Place == Node \cup {Drive, Gone}

\* No folder is in itself, however deep.
Forest == \A S \in SUBSET Node : S # {} => \E x \in S : parent[x] \notin S

Tree == Forest /\ parent \in [Node -> Container \cup {Gone}]

\* From the drive, or from nowhere, down.
Route(s) ==
    /\ s \in Seq(Place) /\ s # <<>> /\ s[1] \in {Drive, Gone}
    /\ \A i \in 2..Len(s) : s[i] \in Node /\ parent[s[i]] = s[i - 1]

RouteTo(s, x) == Route(s) /\ s[Len(s)] = x

LEMMA NodesAndEnds ==
    /\ Drive \notin Node /\ Gone \notin Node /\ Drive # Gone
    /\ Container \cup {Gone} \subseteq Place
    /\ Node \subseteq Place /\ Drive \in Place /\ Gone \in Place
    /\ \A x \in Place : x \in Node \/ x = Drive \/ x = Gone
BY VolumeAssumption DEF Place, Container, Node

LEMMA FromOneUp ==
    ASSUME NEW n \in Nat, n >= 1
    PROVE  n # 1 => n >= 2 /\ n \in 2..n /\ n - 1 \in 1..n /\ (n - 1) + 1 = n
OBVIOUS

LEMMA RouteBegins ==
    ASSUME NEW x \in {Drive, Gone}, NEW s
    PROVE  RouteTo(s, x) <=> s = <<x>>
<1>1. RouteTo(<<x>>, x)
  BY NodesAndEnds DEF RouteTo, Route
<1>2. ASSUME RouteTo(s, x) PROVE s = <<x>>
  <2>1. s \in Seq(Place) /\ Len(s) \in Nat /\ Len(s) >= 1 /\ s[Len(s)] = x
    BY <1>2 DEF RouteTo, Route
  <2>2. Len(s) = 1
    <3> SUFFICES ASSUME Len(s) # 1 PROVE FALSE
      BY <2>1
    <3>1. Len(s) \in 2..Len(s)
      BY <2>1, FromOneUp
    <3>2. s[Len(s)] \in Node
      BY <1>2, <3>1 DEF RouteTo, Route
    <3> QED
      BY <2>1, <3>2, NodesAndEnds
  <2> QED
    BY <2>1, <2>2
<1> QED
  BY <1>1, <1>2

LEMMA RouteGrows ==
    ASSUME NEW x \in Node, NEW r, RouteTo(r, parent[x])
    PROVE  RouteTo(Append(r, x), x)
<1>1. r \in Seq(Place) /\ Len(r) \in Nat /\ Len(r) >= 1 /\ x \in Place
  BY NodesAndEnds DEF RouteTo, Route
<1>2. /\ Append(r, x) \in Seq(Place) /\ Append(r, x) # <<>>
      /\ Len(Append(r, x)) = Len(r) + 1 /\ Append(r, x)[Len(r) + 1] = x
      /\ \A i \in 1..Len(r) : Append(r, x)[i] = r[i]
  BY <1>1
<1>3. Append(r, x)[1] \in {Drive, Gone}
  BY <1>1, <1>2 DEF RouteTo, Route
<1>4. ASSUME NEW i \in 2..Len(Append(r, x))
      PROVE  Append(r, x)[i] \in Node /\ parent[Append(r, x)[i]] = Append(r, x)[i - 1]
  <2>1. CASE i = Len(r) + 1
    <3>1. Append(r, x)[i] = x /\ i - 1 = Len(r) /\ Append(r, x)[i - 1] = r[Len(r)]
      BY <1>1, <1>2, <2>1
    <3> QED
      BY <3>1 DEF RouteTo
  <2>2. CASE i # Len(r) + 1
    <3>1. i \in 2..Len(r) /\ i \in 1..Len(r) /\ i - 1 \in 1..Len(r)
      BY <1>1, <1>2, <2>2
    <3>2. r[i] \in Node /\ parent[r[i]] = r[i - 1]
      BY <3>1 DEF RouteTo, Route
    <3> QED
      BY <1>2, <3>1, <3>2
  <2> QED
    BY <2>1, <2>2
<1> QED
  BY <1>2, <1>3, <1>4 DEF RouteTo, Route

LEMMA RouteShrinks ==
    ASSUME NEW s, Route(s), NEW i \in 1..Len(s)
    PROVE  RouteTo(SubSeq(s, 1, i), s[i])
<1>1. s \in Seq(Place) /\ Len(s) \in Nat /\ s[1] \in {Drive, Gone}
  BY DEF Route
<1>2. /\ SubSeq(s, 1, i) \in Seq(Place) /\ Len(SubSeq(s, 1, i)) = i
      /\ \A j \in 1..i : SubSeq(s, 1, i)[j] = s[j]
  BY <1>1
<1>3. SubSeq(s, 1, i) # <<>> /\ SubSeq(s, 1, i)[1] = s[1] /\ SubSeq(s, 1, i)[i] = s[i]
  BY <1>1, <1>2
<1>4. ASSUME NEW j \in 2..i
      PROVE  /\ SubSeq(s, 1, i)[j] \in Node
             /\ parent[SubSeq(s, 1, i)[j]] = SubSeq(s, 1, i)[j - 1]
  <2>1. j \in 2..Len(s) /\ j \in 1..i /\ j - 1 \in 1..i
    BY <1>1
  <2> QED
    BY <1>2, <2>1 DEF Route
<1> QED
  BY <1>1, <1>2, <1>3, <1>4 DEF RouteTo, Route

\* What leads to something leads first to the folder it is in.
LEMMA RouteThroughParent ==
    ASSUME NEW x \in Node, NEW s, RouteTo(s, x)
    PROVE  \E r : RouteTo(r, parent[x]) /\ s = Append(r, x)
<1>1. s \in Seq(Place) /\ Len(s) \in Nat /\ Len(s) >= 1 /\ s[Len(s)] = x
  BY DEF RouteTo, Route
<1>2. Len(s) # 1
  BY <1>1, NodesAndEnds DEF RouteTo, Route
<1> DEFINE n == Len(s) - 1
<1>3. n \in 1..Len(s) /\ n + 1 = Len(s) /\ n + 1 \in 2..Len(s)
  BY <1>1, <1>2, FromOneUp
<1>4. parent[x] = s[n]
  <2>1. parent[s[n + 1]] = s[(n + 1) - 1] /\ (n + 1) - 1 = n
    BY <1>3 DEF RouteTo, Route
  <2> QED
    BY <1>1, <1>3, <2>1
<1>5. s = Append(SubSeq(s, 1, n), x)
  BY <1>1, <1>3
<1>6. RouteTo(SubSeq(s, 1, n), s[n])
  BY <1>3, RouteShrinks DEF RouteTo
<1> QED
  BY <1>4, <1>5, <1>6

OneRoute(x) == \E s : RouteTo(s, x) /\ \A t : RouteTo(t, x) => t = s

LEMMA OneRouteToEach == ASSUME Tree, NEW x \in Place PROVE OneRoute(x)
<1> DEFINE T == {y \in Place : ~OneRoute(y)}
<1>1. \A y \in {Drive, Gone} : OneRoute(y)
  <2>1. ASSUME NEW y \in {Drive, Gone} PROVE OneRoute(y)
    <3>1. RouteTo(<<y>>, y) /\ \A t : RouteTo(t, y) => t = <<y>>
      BY RouteBegins
    <3> QED
      BY <3>1 DEF OneRoute
  <2> QED
    BY <2>1
<1>2. T \subseteq Node
  BY <1>1, NodesAndEnds
<1>3. ASSUME NEW y \in Node, OneRoute(parent[y]) PROVE OneRoute(y)
  <2>1. PICK r : RouteTo(r, parent[y]) /\ \A t : RouteTo(t, parent[y]) => t = r
    BY <1>3 DEF OneRoute
  <2>2. RouteTo(Append(r, y), y)
    BY <2>1, RouteGrows
  <2>3. ASSUME NEW t, RouteTo(t, y) PROVE t = Append(r, y)
    BY <2>1, <2>3, RouteThroughParent
  <2> QED
    BY <2>2, <2>3 DEF OneRoute
<1>4. T = {}
  <2> SUFFICES ASSUME T # {} PROVE FALSE
    OBVIOUS
  <2>1. PICK y \in T : parent[y] \notin T
    <3> HIDE DEF T
    <3> QED
      BY <1>2 DEF Tree, Forest
  <2>2. y \in Node /\ parent[y] \in Place
    BY <1>2, <2>1, NodesAndEnds DEF Tree
  <2>3. OneRoute(parent[y])
    BY <2>1, <2>2
  <2> QED
    BY <1>3, <2>1, <2>2, <2>3
<1> QED
  BY <1>4

\* What is known of paths.
PathFacts ==
    /\ \A x \in Place : RouteTo(PathOf(x), x)
    /\ \A x, s : x \in Place /\ RouteTo(s, x) => s = PathOf(x)
    /\ \A x \in Node : PathOf(x) = Append(PathOf(parent[x]), x)

LEMMA PathsAreRoutes == Tree => PathFacts
<1> SUFFICES ASSUME Tree PROVE PathFacts
  OBVIOUS
<1> DEFINE f == [x \in Place |-> CHOOSE s : RouteTo(s, x)]
           e(g) == [n \in Node \cup {Drive, Gone} |->
                      IF n \in {Drive, Gone} THEN <<n>> ELSE Append(g[parent[n]], n)]
           h == CHOOSE g : g = e(g)
<1>1. \A x \in Place : RouteTo(f[x], x) /\ \A s : RouteTo(s, x) => s = f[x]
  BY OneRouteToEach DEF OneRoute
<1>2. \A x \in Node : parent[x] \in Place
  BY NodesAndEnds DEF Tree
<1>3. \A x \in Node : f[x] = Append(f[parent[x]], x)
  <2> HIDE DEF f
  <2>1. ASSUME NEW x \in Node PROVE f[x] = Append(f[parent[x]], x)
    <3>1. RouteTo(f[parent[x]], parent[x]) /\ x \in Place
      BY <1>1, <1>2, NodesAndEnds
    <3>2. RouteTo(Append(f[parent[x]], x), x)
      BY <3>1, RouteGrows
    <3> QED
      BY <1>1, <3>1, <3>2
  <2> QED
    BY <2>1
<1>4. \A x \in {Drive, Gone} : f[x] = <<x>>
  <2> HIDE DEF f
  <2> QED
    BY <1>1, RouteBegins, NodesAndEnds
<1>5. f = e(f)
  <2>1. \A x \in Place : f[x] = e(f)[x]
    <3> HIDE DEF f
    <3> QED
      BY <1>3, <1>4, NodesAndEnds DEF Place
  <2>2. DOMAIN f = Place /\ DOMAIN e(f) = Place
    BY DEF Place
  <2>3. f = [x \in Place |-> f[x]] /\ e(f) = [x \in Place |-> e(f)[x]]
    BY <2>2 DEF Place
  <2> HIDE DEF f, e
  <2> QED
    BY <2>1, <2>3
<1>6. h = e(h)
  BY <1>5
<1>7. \A x : PathOf(x) = h[x]
  BY DEF PathOf
<1> HIDE DEF f, h
<1>8. /\ \A x \in Node : h[x] = Append(h[parent[x]], x)
      /\ \A x \in {Drive, Gone} : h[x] = <<x>>
  BY <1>6, NodesAndEnds
<1>9. \A x \in Place : h[x] = f[x]
  <2> DEFINE T == {x \in Place : h[x] # f[x]}
  <2>1. T \subseteq Node
    BY <1>4, <1>8, NodesAndEnds
  <2> SUFFICES ASSUME T # {} PROVE FALSE
    OBVIOUS
  <2>2. PICK y \in T : parent[y] \notin T
    <3> HIDE DEF T
    <3> QED
      BY <2>1 DEF Tree, Forest
  <2>3. h[parent[y]] = f[parent[y]]
    BY <1>2, <2>1, <2>2
  <2> QED
    BY <1>3, <1>8, <2>1, <2>2, <2>3
<1>10. \A x \in Place : PathOf(x) = f[x]
  BY <1>7, <1>9
<1> QED
  BY <1>1, <1>2, <1>3, <1>10, NodesAndEnds DEF PathFacts

\* Names on the volume, and those the user may give.
Word == Place \cup Name

LEMMA PrefixBegins ==
    ASSUME NEW T, NEW s \in Seq(T), NEW t \in Seq(T)
    PROVE  IsPrefix(s, t) <=> Begins(s, t)
<1>1. Len(s) \in Nat /\ Len(t) \in Nat /\ s = SubSeq(s, 1, Len(s))
  OBVIOUS
<1>2. ASSUME Len(s) <= Len(t)
      PROVE  /\ SubSeq(t, 1, Len(s)) \in Seq(T) /\ Len(SubSeq(t, 1, Len(s))) = Len(s)
             /\ \A i \in 1..Len(s) : SubSeq(t, 1, Len(s))[i] = t[i]
  BY <1>1, <1>2
<1>3. ASSUME Begins(s, t) PROVE IsPrefix(s, t)
  <2>1. Len(s) <= Len(t) /\ \A i \in 1..Len(s) : t[i] = s[i]
    BY <1>3 DEF Begins
  <2>2. SubSeq(t, 1, Len(s)) = s
    BY <1>1, <1>2, <2>1
  <2> QED
    BY <1>1, <2>1, <2>2 DEF IsPrefix
<1>4. ASSUME IsPrefix(s, t) PROVE Begins(s, t)
  BY <1>1, <1>2, <1>4 DEF IsPrefix, Begins
<1> QED
  BY <1>3, <1>4

LEMMA PrefixIsSubSeq ==
    ASSUME NEW T, NEW s \in Seq(T), NEW t \in Seq(T), IsPrefix(s, t)
    PROVE  Len(s) \in 0..Len(t) /\ s = SubSeq(t, 1, Len(s))
<1>1. Len(s) \in Nat /\ Len(t) \in Nat /\ s = SubSeq(s, 1, Len(s))
  OBVIOUS
<1> QED
  BY <1>1 DEF IsPrefix

\* The beginning of a beginning.
LEMMA PrefixOfPart ==
    ASSUME NEW T, NEW s \in Seq(T), NEW t \in Seq(T), NEW k \in 0..Len(t)
    PROVE  /\ SubSeq(t, 1, k) \in Seq(T) /\ Len(SubSeq(t, 1, k)) = k
           /\ IsPrefix(SubSeq(t, 1, k), t)
           /\ IsPrefix(s, SubSeq(t, 1, k)) <=> IsPrefix(s, t) /\ Len(s) <= k
<1> DEFINE u == SubSeq(t, 1, k)
<1>1. Len(s) \in Nat /\ Len(t) \in Nat /\ k \in Nat /\ k <= Len(t)
  OBVIOUS
<1>2. u \in Seq(T) /\ Len(u) = k /\ \A i \in 1..k : u[i] = t[i]
  BY <1>1
<1> HIDE DEF u
<1>3. Begins(u, t)
  BY <1>1, <1>2 DEF Begins
<1>4. Begins(s, u) <=> Begins(s, t) /\ Len(s) <= k
  BY <1>1, <1>2 DEF Begins
<1>5. IsPrefix(u, t) /\ (IsPrefix(s, u) <=> IsPrefix(s, t) /\ Len(s) <= k)
  BY <1>2, <1>3, <1>4, PrefixBegins
<1> QED
  BY <1>2, <1>5 DEF u

\* A path, and one with a name behind it.
LEMMA PrefixOfLonger ==
    ASSUME NEW T, NEW s \in Seq(T), NEW t \in Seq(T), NEW c \in T
    PROVE  /\ Append(s, c) \in Seq(T) /\ Len(Append(s, c)) = Len(s) + 1
           /\ IsPrefix(Append(s, c), t) <=>
                 IsPrefix(s, t) /\ Len(s) + 1 <= Len(t) /\ t[Len(s) + 1] = c
           /\ IsPrefix(t, s) => IsPrefix(t, Append(s, c))
<1> DEFINE u == Append(s, c)
           n == Len(s)
<1>1. n \in Nat /\ Len(t) \in Nat
  OBVIOUS
<1>2. /\ u \in Seq(T) /\ Len(u) = n + 1 /\ u[n + 1] = c
      /\ \A i \in 1..n : u[i] = s[i]
  OBVIOUS
<1>6. \A i \in 1..(n + 1) : i = n + 1 \/ i \in 1..n
  BY <1>1
<1>7. \A i \in 1..n : i \in 1..(n + 1)
  BY <1>1
<1>8. n + 1 \in 1..(n + 1)
  BY <1>1
<1> HIDE DEF u, n
<1>3. Begins(u, t) <=> Begins(s, t) /\ n + 1 <= Len(t) /\ t[n + 1] = c
  <2>1. Len(s) = n /\ (n + 1 <= Len(t) => n <= Len(t))
    BY <1>1 DEF n
  <2>2. ASSUME Begins(u, t) PROVE Begins(s, t) /\ n + 1 <= Len(t) /\ t[n + 1] = c
    BY <1>2, <1>7, <1>8, <2>1, <2>2 DEF Begins
  <2>3. ASSUME Begins(s, t), n + 1 <= Len(t), t[n + 1] = c PROVE Begins(u, t)
    BY <1>2, <1>6, <2>1, <2>3 DEF Begins
  <2> QED
    BY <2>2, <2>3
<1>4. Begins(t, s) => Begins(t, u)
  BY <1>1, <1>2 DEF Begins, n
<1>5. /\ IsPrefix(u, t) <=> IsPrefix(s, t) /\ n + 1 <= Len(t) /\ t[n + 1] = c
      /\ IsPrefix(t, s) => IsPrefix(t, u)
  BY <1>2, <1>3, <1>4, PrefixBegins
<1> QED
  BY <1>2, <1>5 DEF u, n

----------------------------------------------------------------------------
(* The way to a file. *)

LEMMA WordsOfPaths == Seq(Place) \subseteq Seq(Word) /\ Seq(Name) \subseteq Seq(Word)
<1>1. \A X, Y : X \subseteq Y => Seq(X) \subseteq Seq(Y)
  OBVIOUS
<1>2. Place \subseteq Word /\ Name \subseteq Word
  BY DEF Word
<1> QED
  BY <1>1, <1>2

LEMMA OnTheWay ==
    ASSUME Tree, NEW x \in Node, NEW p, p = PathOf(x)
    PROVE  /\ Route(p) /\ p \in Seq(Word) /\ Len(p) \in Nat /\ Len(p) >= 2
           /\ p[1] \in {Drive, Gone} /\ p[Len(p)] = x
           /\ \A j \in 2..Len(p) : p[j] \in Node /\ parent[p[j]] = p[j - 1]
           /\ \A j \in 1..(Len(p) - 1) : p[j] \in Container \cup {Gone}
           /\ \A j \in 1..Len(p) : PathOf(p[j]) = SubSeq(p, 1, j)
<1>1. PathFacts
  BY PathsAreRoutes
<1>2. RouteTo(p, x)
  BY <1>1, NodesAndEnds DEF PathFacts
<1>3. p \in Seq(Place) /\ p \in Seq(Word) /\ Len(p) \in Nat /\ Len(p) >= 1 /\ p[Len(p)] = x
  BY <1>2, WordsOfPaths DEF RouteTo, Route
<1>4. /\ p[1] \in {Drive, Gone}
      /\ \A j \in 2..Len(p) : p[j] \in Node /\ parent[p[j]] = p[j - 1]
  BY <1>2 DEF RouteTo, Route
<1>5. Len(p) # 1
  BY <1>3, <1>4, NodesAndEnds
<1>6. ASSUME NEW j \in 1..(Len(p) - 1) PROVE p[j] \in Container \cup {Gone}
  <2>1. j + 1 \in 2..Len(p) /\ (j + 1) - 1 = j
    BY <1>3
  <2> QED
    BY <1>4, <2>1 DEF Tree
<1>7. ASSUME NEW j \in 1..Len(p) PROVE PathOf(p[j]) = SubSeq(p, 1, j)
  <2>1. RouteTo(SubSeq(p, 1, j), p[j])
    BY <1>2, RouteShrinks DEF RouteTo
  <2>2. p[j] \in Place
    BY <1>3
  <2> QED
    BY <1>1, <2>1, <2>2 DEF PathFacts
<1>8. Len(p) >= 2 /\ Route(p)
  BY <1>2, <1>3, <1>5, FromOneUp DEF RouteTo
<1> QED
  BY ONLY <1>3, <1>4, <1>6, <1>7, <1>8

\* What is in something that had another path had another one as well.
TouchedBelow == \A x \in Node : parent[x] \in touched => x \in touched

LEMMA UntouchedWay ==
    ASSUME Tree, TouchedBelow, NEW x \in Node, x \notin touched
    PROVE  \A j \in 2..Len(PathOf(x)) : PathOf(x)[j] \notin touched
<1> DEFINE p == PathOf(x)
           n == Len(p)
           S == {k \in Nat : k <= n - 2 => p[n - k] \notin touched}
<1>1. /\ n \in Nat /\ n >= 2 /\ p[n] = x
      /\ \A j \in 2..n : p[j] \in Node /\ parent[p[j]] = p[j - 1]
  BY OnTheWay
<1> HIDE DEF p, n
<1>2. 0 \in S
  BY <1>1
<1>3. ASSUME NEW k \in Nat, k \in S PROVE k + 1 \in S
  <2> SUFFICES ASSUME k + 1 <= n - 2 PROVE p[n - (k + 1)] \notin touched
    OBVIOUS
  <2>1. n - k \in 2..n /\ (n - k) - 1 = n - (k + 1) /\ k <= n - 2
    BY <1>1
  <2>2. p[n - k] \notin touched /\ p[n - k] \in Node /\ parent[p[n - k]] = p[n - (k + 1)]
    BY <1>1, <1>3, <2>1
  <2> QED
    BY <2>2 DEF TouchedBelow
<1>4. \A k \in Nat : k \in S
  <2> HIDE DEF S
  <2> QED
    BY <1>2, <1>3, Induction
<1>5. ASSUME NEW j \in 2..n PROVE p[j] \notin touched
  <2>1. n - j \in Nat /\ n - j <= n - 2 /\ n - (n - j) = j
    BY <1>1
  <2>2. n - j \in S
    BY <1>4, <2>1
  <2> QED
    BY <2>1, <2>2
<1> QED
  BY <1>5 DEF p, n

----------------------------------------------------------------------------
(* Other programs. *)

\* There is nothing in a folder that is not there.
GoneIsEmpty == \A x \in Node : parent[x] \in Node => parent[parent[x]] # Gone

TreeInv == Tree /\ GoneIsEmpty /\ TouchedBelow /\ touched \subseteq Node

Moved(x, to) ==
    /\ parent' = [parent EXCEPT ![x] = to]
    /\ x \notin Range(PathOf(to))
    /\ to = Gone => Children(x) = {}
    /\ to \in Dirs => parent[to] # Gone
    /\ touched' = touched \cup Below(x)

LEMMA MovedForest ==
    ASSUME Tree, NEW x \in Node, NEW to \in Container \cup {Gone}, Moved(x, to)
    PROVE  Tree'
<1>1. PathFacts /\ to \in Place /\ x \in Place
  BY PathsAreRoutes, NodesAndEnds
<1>2. parent' \in [Node -> Container \cup {Gone}]
  BY DEF Tree, Moved
<1>3. \A y \in Node : parent'[y] = IF y = x THEN to ELSE parent[y]
  BY DEF Tree, Moved
<1> DEFINE way == Range(PathOf(to))
<1>4. to \in way /\ x \notin way
  <2>1. RouteTo(PathOf(to), to)
    BY <1>1 DEF PathFacts
  <2>2. PathOf(to) \in Seq(Place) /\ PathOf(to) # <<>> /\ PathOf(to)[Len(PathOf(to))] = to
    BY <2>1 DEF RouteTo, Route
  <2>3. Len(PathOf(to)) \in DOMAIN PathOf(to)
    BY <2>2
  <2> QED
    BY <2>2, <2>3 DEF Moved, Range
<1>5. ASSUME NEW y \in way, y \in Node PROVE parent[y] \in way
  <2>1. RouteTo(PathOf(to), to)
    BY <1>1 DEF PathFacts
  <2>2. PICK i \in 1..Len(PathOf(to)) : PathOf(to)[i] = y
    BY <2>1 DEF RouteTo, Route, Range
  <2>3. PathOf(to) \in Seq(Place) /\ Len(PathOf(to)) \in Nat
    BY <2>1 DEF RouteTo, Route
  <2>4. i # 1
    BY <1>5, <2>1, <2>2, NodesAndEnds DEF RouteTo, Route
  <2>5. i \in 2..Len(PathOf(to)) /\ i - 1 \in DOMAIN PathOf(to)
    BY <2>3, <2>4
  <2>6. parent[y] = PathOf(to)[i - 1]
    BY <2>1, <2>2, <2>5 DEF RouteTo, Route
  <2> QED
    BY <2>5, <2>6 DEF Range
<1> HIDE DEF way
<1>6. ASSUME NEW S \in SUBSET Node, S # {} PROVE \E y \in S : parent'[y] \notin S
  <2> SUFFICES ASSUME \A y \in S : parent'[y] \in S PROVE FALSE
    OBVIOUS
  <2>1. CASE x \notin S
    <3>1. \A y \in S : parent'[y] = parent[y]
      BY <1>3, <2>1
    <3> QED
      BY <1>6, <3>1 DEF Tree, Forest
  <2>2. CASE x \in S
    <3>1. to \in S \cap way
      BY <1>3, <1>4, <2>2
    <3>2. PICK y \in S \cap way : parent[y] \notin S \cap way
      BY <3>1 DEF Tree, Forest
    <3>3. parent'[y] = parent[y] /\ parent[y] \in way
      BY <1>3, <1>4, <1>5, <3>2
    <3> QED
      BY <3>2, <3>3
  <2> QED
    BY <2>1, <2>2
<1> QED
  BY <1>2, <1>6 DEF Tree, Forest, Container

LEMMA MovedTree ==
    ASSUME TreeInv, NEW x \in Node, NEW to \in Container \cup {Gone}, Moved(x, to)
    PROVE  /\ TreeInv' /\ touched \subseteq touched' /\ x \in touched'
           /\ \A y \in Node \ touched' : /\ PathOf(y)' = PathOf(y)
                                         /\ parent'[y] = parent[y]
<1>1. Tree'
  BY MovedForest DEF TreeInv
<1>2. PathFacts
  BY PathsAreRoutes DEF TreeInv
<1>3. (Tree => PathFacts)'
  BY PathsAreRoutes, PTL
<1>4. \A y \in Node : parent'[y] = IF y = x THEN to ELSE parent[y]
  BY DEF TreeInv, Tree, Moved
<1>5. touched' = touched \cup Below(x)
  BY DEF Moved
<1>6. \A y \in Node : /\ RouteTo(PathOf(y), y) /\ PathOf(y) \in Seq(Place)
                      /\ y \in Range(PathOf(y))
  <2>1. ASSUME NEW y \in Node
        PROVE  RouteTo(PathOf(y), y) /\ PathOf(y) \in Seq(Place) /\ y \in Range(PathOf(y))
    <3>1. RouteTo(PathOf(y), y)
      BY <1>2, NodesAndEnds DEF PathFacts
    <3>2. /\ PathOf(y) \in Seq(Place) /\ PathOf(y) # <<>>
          /\ PathOf(y)[Len(PathOf(y))] = y
      BY <3>1 DEF RouteTo, Route
    <3>3. Len(PathOf(y)) \in DOMAIN PathOf(y)
      BY <3>2
    <3> QED
      BY <3>1, <3>2, <3>3 DEF Range
  <2> QED
    BY <2>1
<1>7. x \in touched'
  BY <1>5, <1>6 DEF Below
<1>8. ASSUME NEW y \in Node \ touched'
      PROVE  PathOf(y)' = PathOf(y) /\ parent'[y] = parent[y]
  <2>1. PICK p : p = PathOf(y)
    OBVIOUS
  <2>2. p \in Seq(Place) /\ RouteTo(p, y) /\ x \notin Range(p)
    BY <1>5, <1>6, <2>1 DEF Below
  <2>3. \A i \in 1..Len(p) : p[i] # x
    BY <2>2 DEF Range
  <2>4. \A i \in 2..Len(p) : i \in 1..Len(p)
    BY <2>2
  <2>5. \A i \in 2..Len(p) : parent'[p[i]] = p[i - 1]
    BY <1>4, <2>2, <2>3, <2>4 DEF RouteTo, Route
  <2>6. RouteTo(p, y)'
    BY <2>2, <2>5 DEF RouteTo, Route
  <2>7. PathFacts' /\ y \in Place
    BY <1>1, <1>3, NodesAndEnds
  <2>8. p = PathOf(y)'
    BY <2>6, <2>7 DEF PathFacts, Place
  <2> QED
    BY <1>4, <1>7, <2>1, <2>8
<1>9. GoneIsEmpty'
  <2>1. ASSUME NEW y \in Node, parent'[y] \in Node PROVE parent'[parent'[y]] # Gone
    <3>1. to \in Node => to \in Dirs /\ to # x
      <4>1. to \in Node => to \in Range(PathOf(to))
        BY <1>6
      <4>2. to \in Node => to \in Dirs
        BY VolumeAssumption DEF Container
      <4> QED
        BY <4>1, <4>2 DEF Moved
    <3>2. CASE y = x
      BY <1>4, <2>1, <3>1, <3>2 DEF Moved
    <3>3. CASE y # x /\ parent[y] = x
      <4>1. y \in Children(x)
        BY <3>3 DEF Children
      <4> QED
        BY <1>4, <3>3, <4>1 DEF Moved
    <3>4. CASE y # x /\ parent[y] # x
      BY <1>4, <2>1, <3>4 DEF TreeInv, GoneIsEmpty
    <3> QED
      BY <3>2, <3>3, <3>4
  <2> QED
    BY <2>1 DEF GoneIsEmpty
<1>10. TouchedBelow'
  <2>1. ASSUME NEW y \in Node, parent'[y] \in touched' PROVE y \in touched'
    <3>1. CASE y = x
      BY <1>7, <3>1
    <3>2. CASE y # x /\ parent[y] \in touched
      BY <1>5, <3>2 DEF TreeInv, TouchedBelow
    <3>3. CASE y # x /\ parent[y] \in Below(x)
      <4>1. parent[y] \in Node /\ x \in Range(PathOf(parent[y]))
        BY <3>3 DEF Below
      <4>2. PathOf(y) = Append(PathOf(parent[y]), y) /\ PathOf(parent[y]) \in Seq(Place)
        BY <1>2, <1>6, <4>1 DEF PathFacts
      <4>3. \A i \in DOMAIN PathOf(parent[y]) :
               i \in DOMAIN PathOf(y) /\ PathOf(y)[i] = PathOf(parent[y])[i]
        BY <4>2
      <4>4. x \in Range(PathOf(y))
        BY <4>1, <4>3 DEF Range
      <4> QED
        BY <1>5, <4>4 DEF Below
    <3> QED
      BY <1>4, <1>5, <2>1, <3>1, <3>2, <3>3
  <2> QED
    BY <2>1 DEF TouchedBelow
<1> QED
  BY <1>1, <1>5, <1>7, <1>8, <1>9, <1>10 DEF TreeInv, Below

----------------------------------------------------------------------------
(* What a path stands for. *)

\* The folder a path leads to after its n-th name.
Reached(path, n, dir) ==
    IF n = 1 THEN IF path[1] = Drive THEN Drive ELSE Gone
    ELSE Within(dir, path[n])

Walks(at, path) ==
    /\ at \in [0..Len(path) -> Place]
    /\ at[0] = Gone
    /\ \A n \in 1..Len(path) : at[n] = Reached(path, n, at[n - 1])

LEMMA WithinType == ASSUME NEW dir, NEW x PROVE Within(dir, x) \in Place
BY VolumeAssumption, NodesAndEnds DEF Within, Children, Place, Node

LEMMA ResolveWalks ==
    ASSUME NEW path \in Seq(Word)
    PROVE  \E at : Walks(at, path) /\ Resolve(path) = at[Len(path)]
<1> DEFINE N == Len(path)
           F == [p \in (1..N) \X Place |-> Reached(path, p[1], p[2])]
           e(g) == [i \in 0..N |->
                      IF i = 0 THEN Gone
                      ELSE IF i = 1 THEN IF path[1] = Drive THEN Drive ELSE Gone
                      ELSE Within(g[i - 1], path[i])]
           f == CHOOSE g : g = e(g)
<1>1. N \in Nat /\ Gone \in Place
  BY NodesAndEnds
<1>2. F \in TurnFunctions(N, Place)
  <2>1. ASSUME NEW n \in 1..N, NEW d \in Place PROVE Reached(path, n, d) \in Place
    BY WithinType, NodesAndEnds DEF Reached
  <2> QED
    BY <2>1 DEF TurnFunctions
<1>3. PICK j : Computes(j, N, Place, Gone, F)
  <2> HIDE DEF F, N
  <2> QED
    BY <1>1, <1>2, LoopComputes
<1>4. \A n \in 1..N : n - 1 \in 0..N /\ j[n - 1] \in Place
  BY <1>1, <1>3 DEF Computes
<1>5. \A n \in 1..N : j[n] = Reached(path, n, j[n - 1])
  BY <1>3, <1>4 DEF Computes
<1>6. j = e(j)
  <2>1. \A n \in 0..N : n = 0 \/ n \in 1..N
    BY <1>1
  <2>2. \A n \in 0..N : j[n] = e(j)[n]
    BY <1>3, <1>5, <2>1 DEF Computes, Reached
  <2> QED
    BY <1>3, <2>2 DEF Computes
<1>7. f = e(f)
  BY <1>6
<1>8. Resolve(path) = f[N]
  BY DEF Resolve
<1> HIDE DEF f
<1>9. GoOnAlike(f, j, N)
  <2>1. 0 \in 0..N /\ \A n \in 1..N : n \in 0..N /\ n # 0
    BY <1>1
  <2>2. f[0] = e(f)[0] /\ \A n \in 1..N : f[n] = e(f)[n]
    BY <1>7, <2>1
  <2>3. f[0] = Gone
    BY <2>1, <2>2
  <2>4. \A n \in 1..N : f[n] = Reached(path, n, f[n - 1])
    BY <2>1, <2>2 DEF Reached
  <2>5. ASSUME NEW n \in 1..N, f[n - 1] = j[n - 1] PROVE f[n] = j[n]
    BY <1>5, <2>4, <2>5
  <2> HIDE DEF e, N
  <2> QED
    BY <1>3, <2>3, <2>5 DEF GoOnAlike, Computes
<1>10. Alike(f, j, N)
  <2> HIDE DEF N
  <2> QED
    BY <1>1, <1>9, AlikeToTheEnd
<1>11. f[N] = j[N]
  BY <1>1, <1>10 DEF Alike
<1> QED
  BY <1>3, <1>5, <1>8, <1>11 DEF Walks, Computes

\* A path that begins on the drive and has no name in it that is not that of a
\* folder, in the one before it.
Leads(path) ==
    /\ path # <<>> /\ path[1] = Drive
    /\ \A i \in 2..Len(path) : path[i] \in Dirs /\ parent[path[i]] = path[i - 1]

LEMMA ResolveLeads ==
    ASSUME NEW path \in Seq(Word), Range(path) \cap Reparse = {}
    PROVE  Resolve(path) = IF Leads(path) THEN path[Len(path)] ELSE Gone
<1>1. PICK at : Walks(at, path) /\ Resolve(path) = at[Len(path)]
  BY ResolveWalks
<1>2. CASE path = <<>>
  <2>1. at[Len(path)] = Gone
    BY <1>1, <1>2 DEF Walks
  <2> QED
    BY <1>1, <1>2, <2>1 DEF Leads
<1>3. CASE path # <<>>
  <2> DEFINE N == Len(path)
             To(k) == /\ path[1] = Drive
                      /\ \A i \in 2..k : path[i] \in Dirs /\ parent[path[i]] = path[i - 1]
             S == {k \in Nat : k + 1 <= N => at[k + 1] = IF To(k + 1) THEN path[k + 1]
                                                        ELSE Gone}
  <2>1. N \in Nat /\ N >= 1 /\ \A i \in 1..N : path[i] \notin Reparse
    <3>1. N \in Nat /\ N >= 1 /\ DOMAIN path = 1..N
      BY <1>3
    <3> QED
      BY <3>1 DEF Range
  <2>2. \A n \in 1..N : at[n] = Reached(path, n, at[n - 1])
    BY <1>1 DEF Walks
  <2> HIDE DEF N
  <2>3. 0 \in S
    <3>1. 1 \in 1..N
      BY <2>1
    <3> QED
      BY <2>2, <3>1 DEF Reached
  <2>4. ASSUME NEW k \in Nat, k \in S PROVE k + 1 \in S
    <3> DEFINE n == k + 1
    <3> SUFFICES ASSUME n + 1 <= N
                 PROVE  at[n + 1] = IF To(n + 1) THEN path[n + 1] ELSE Gone
      OBVIOUS
    <3>1. /\ n \in Nat /\ n >= 1 /\ n + 1 \in 1..N /\ n + 1 # 1 /\ (n + 1) - 1 = n
          /\ n \in 1..N /\ n <= N
      BY <2>1
    <3>2. at[n] = IF To(n) THEN path[n] ELSE Gone
      BY <2>4, <3>1
    <3>3. at[n + 1] = Within(at[n], path[n + 1])
      BY <2>2, <3>1 DEF Reached
    <3>4. To(n + 1) <=> /\ To(n)
                        /\ path[n + 1] \in Dirs /\ parent[path[n + 1]] = path[n]
      <4>1. \A i \in 2..(n + 1) : i = n + 1 \/ i \in 2..n
        BY <3>1
      <4>2. n + 1 \in 2..(n + 1) /\ \A i \in 2..n : i \in 2..(n + 1)
        BY <3>1
      <4> QED
        BY <3>1, <4>1, <4>2
    <3>5. To(n) => path[n] # Gone
      <4>1. n = 1 \/ n \in 2..n
        BY <3>1
      <4> QED
        BY <4>1, NodesAndEnds DEF Node
    <3>6. path[n + 1] \notin Reparse
      BY <2>1, <3>1
    <3>7. Within(at[n], path[n + 1]) = IF at[n] # Gone /\ path[n + 1] \in Dirs
                                          /\ parent[path[n + 1]] = at[n]
                                       THEN path[n + 1] ELSE Gone
      BY <3>6 DEF Within, Children, Node
    <3> HIDE DEF To, n
    <3> QED
      BY <3>2, <3>3, <3>4, <3>5, <3>7
  <2>5. \A k \in Nat : k \in S
    <3> HIDE DEF S
    <3> QED
      BY <2>3, <2>4, Induction
  <2>6. N - 1 \in Nat /\ (N - 1) + 1 = N /\ N <= N
    BY <2>1
  <2>7. at[N] = IF To(N) THEN path[N] ELSE Gone
    <3>1. N - 1 \in S
      BY <2>5, <2>6
    <3> QED
      BY <2>6, <3>1
  <2> QED
    BY <1>1, <1>3, <2>7 DEF Leads, N
<1> QED
  BY <1>2, <1>3

\* What leads to a folder is its path.
LEMMA LeadsToPath ==
    ASSUME Tree, NEW path \in Seq(Word), Leads(path)
    PROVE  /\ path[Len(path)] \in Dirs \cup {Drive}
           /\ path = PathOf(path[Len(path)])
<1>1. Len(path) \in Nat /\ Len(path) >= 1 /\ path # <<>> /\ path[1] = Drive
      /\ \A i \in 2..Len(path) : path[i] \in Dirs /\ parent[path[i]] = path[i - 1]
  BY DEF Leads
<1>2. \A i \in 1..Len(path) : path[i] \in Dirs \cup {Drive}
  BY <1>1
<1>3. Len(path) \in 1..Len(path)
  BY <1>1
<1>4. Dirs \cup {Drive} \subseteq Place /\ Dirs \subseteq Node
  BY DEF Place, Node
<1>5. path \in Seq(Place)
  BY <1>1, <1>2, <1>4
<1>6. Route(path)
  BY <1>1, <1>4, <1>5 DEF Route
<1> QED
  BY <1>2, <1>3, <1>4, <1>6, PathsAreRoutes DEF PathFacts, RouteTo

\* The part of a path that leads to something in a folder, and that folder.
LEMMA ResolveWay ==
    ASSUME Tree, NEW x \in Node, NEW p, p = PathOf(x), NEW i \in 0..(Len(p) - 1)
    PROVE  /\ i = 0 \/ p[1] # Drive => Resolve(SubSeq(p, 1, i)) = Gone
           /\ i # 0 /\ p[1] = Drive => /\ Resolve(SubSeq(p, 1, i)) = p[i]
                                       /\ p[i] \in Container
<1> DEFINE q == SubSeq(p, 1, i)
<1>1. /\ Route(p) /\ p \in Seq(Word) /\ Len(p) \in Nat /\ Len(p) >= 2
      /\ p[1] \in {Drive, Gone}
      /\ \A j \in 2..Len(p) : p[j] \in Node /\ parent[p[j]] = p[j - 1]
      /\ \A j \in 1..(Len(p) - 1) : p[j] \in Container \cup {Gone}
  BY OnTheWay
<1>2. /\ q \in Seq(Word) /\ Len(q) = i /\ i \in Nat /\ DOMAIN q = 1..i
      /\ \A j \in 1..i : q[j] = p[j]
  BY <1>1
<1>3. \A j \in 1..i : j \in 1..(Len(p) - 1) /\ (j = 1 \/ j \in 2..Len(p))
  BY <1>1, <1>2
<1>4. (Container \cup {Gone}) \cap Reparse = {}
      /\ (Container \cup {Gone}) \cap Node \subseteq Dirs
  BY VolumeAssumption DEF Container, Node
<1> HIDE DEF q
<1>5. Range(q) \cap Reparse = {}
  BY <1>1, <1>2, <1>3, <1>4 DEF Range
<1>6. Resolve(q) = IF Leads(q) THEN q[Len(q)] ELSE Gone
  BY <1>2, <1>5, ResolveLeads
<1>7. CASE i = 0
  <2>1. q = <<>>
    BY <1>2, <1>7
  <2> QED
    BY <1>6, <1>7, <2>1 DEF Leads, q
<1>8. CASE i # 0
  <2>1. i >= 1 /\ 1 \in 1..i /\ i \in 1..i /\ q # <<>>
    BY <1>2, <1>8
  <2>2. CASE p[1] # Drive
    BY <1>2, <1>6, <2>1, <2>2, <1>8 DEF Leads, q
  <2>3. CASE p[1] = Drive
    <3>1. \A j \in 2..i : j \in 1..i /\ j - 1 \in 1..i /\ j \in 2..Len(p)
      BY <1>1, <1>2
    <3>2. ASSUME NEW j \in 2..i PROVE q[j] \in Dirs /\ parent[q[j]] = q[j - 1]
      <4>1. q[j] = p[j] /\ q[j - 1] = p[j - 1] /\ p[j] \in Container \cup {Gone}
        BY <1>1, <1>2, <1>3, <3>1
      <4> QED
        BY <1>1, <1>4, <3>1, <4>1
    <3>3. Leads(q)
      BY <1>2, <2>1, <2>3, <3>2 DEF Leads
    <3>4. p[i] \in Container
      <4>1. i = 1 \/ i \in 2..i
        BY <2>1
      <4>2. p[i] \in Container \cup {Gone} /\ p[i] # Gone
        BY <1>1, <1>3, <2>1, <2>3, <3>1, <4>1, NodesAndEnds
      <4> QED
        BY <4>2
    <3> QED
      BY <1>2, <1>6, <1>8, <2>1, <2>3, <3>3, <3>4 DEF q
  <2> QED
    BY <2>2, <2>3
<1> QED
  BY <1>7, <1>8

----------------------------------------------------------------------------
(* FindFileScanner and one file: it is ahead in the queue, in the open      *)
(* listing, or collected, and only one of these.                            *)

\* The i-th folder of a path can be listed, and is not excluded.
Passable(p, i, excluded) ==
    /\ i >= 1 /\ i <= PathLimit /\ p[1] = Drive /\ p[i] \notin Denied
    /\ ~IsExcluded(SubSeq(p, 1, i), excluded)

\* From the root of the scan to the k-th folder of the path.
Walked(p, k, o) == \A i \in Len(o.root)..k : Passable(p, i, o.excludedPaths)

Reachable(x, p, o) ==
    IsPrefix(o.root, p) /\ x \notin Reparse /\ Walked(p, Len(p) - 1, o)

At(queue, p) == {i \in 1..Len(queue) : IsPrefix(queue[i], p)}

InListing(l, p) == IsPrefix(l.path, p) /\ p[Len(l.path) + 1] \in l.must

Found(x, p) == [file |-> x, path |-> p]

Followed(x, p, o, queue, l, bag) ==
    /\ \A i, j \in At(queue, p) : i = j
    /\ InListing(l, p) => At(queue, p) = {} /\ Walked(p, Len(l.path), o)
    /\ Found(x, p) \in DOMAIN bag => /\ At(queue, p) = {} /\ ~InListing(l, p)
                                     /\ bag[Found(x, p)] = 1 /\ Reachable(x, p, o)
    /\ \A i \in At(queue, p) : Walked(p, Len(queue[i]) - 1, o)
    /\ \A e \in DOMAIN bag : e.file = x => e = Found(x, p)
    /\ Reachable(x, p, o) =>
          At(queue, p) # {} \/ InListing(l, p) \/ Found(x, p) \in DOMAIN bag

\* A path the scan may come to: of folders only.
ScanPath(q, o) ==
    /\ q \in Seq(Word) /\ IsPrefix(o.root, q)
    /\ Range(q) \cap (Files \cup Reparse) = {}

FilePath(x, p) ==
    /\ x \in Files /\ p \in Seq(Word) /\ Len(p) \in Nat /\ Len(p) >= 2
    /\ p[Len(p)] = x

LEMMA ScanPathIsShort ==
    ASSUME NEW x, NEW p, FilePath(x, p), NEW o, NEW q, ScanPath(q, o), IsPrefix(q, p)
    PROVE  /\ Len(q) \in 0..(Len(p) - 1) /\ q = SubSeq(p, 1, Len(q))
           /\ o.root \in Seq(Word) => IsPrefix(o.root, p) /\ Len(o.root) <= Len(q)
<1>1. q \in Seq(Word) /\ p \in Seq(Word) /\ Len(p) \in Nat /\ Len(p) >= 2
  BY DEF ScanPath, FilePath
<1>2. Len(q) \in 0..Len(p) /\ q = SubSeq(p, 1, Len(q))
  BY <1>1, PrefixIsSubSeq
<1>3. Len(q) # Len(p)
  <2> SUFFICES ASSUME Len(q) = Len(p) PROVE FALSE
    OBVIOUS
  <2>1. q = p
    BY <1>1, <1>2
  <2>2. Len(p) \in DOMAIN p
    BY <1>1
  <2>3. x \in Range(q)
    BY <2>1, <2>2 DEF Range, FilePath
  <2> QED
    BY <2>3 DEF ScanPath, FilePath
<1>4. ASSUME o.root \in Seq(Word) PROVE IsPrefix(o.root, p) /\ Len(o.root) <= Len(q)
  <2>1. IsPrefix(o.root, SubSeq(p, 1, Len(q)))
    BY <1>2 DEF ScanPath
  <2> QED
    BY <1>1, <1>2, <1>4, <2>1, PrefixOfPart
<1>5. Len(q) \in 0..(Len(p) - 1)
  BY <1>1, <1>2, <1>3
<1> QED
  BY <1>2, <1>4, <1>5

LEMMA TailAt ==
    ASSUME NEW S, NEW queue \in Seq(S), queue # <<>>, NEW p
    PROVE  /\ 1 \in At(queue, p) <=> IsPrefix(Head(queue), p)
           /\ Head(queue) = queue[1] /\ 1 \in 1..Len(queue)
           /\ \A i \in At(Tail(queue), p) :
                 i + 1 \in At(queue, p) /\ i + 1 # 1 /\ Tail(queue)[i] = queue[i + 1]
                 /\ i \in Nat
           /\ \A i \in At(queue, p) : i # 1 => i - 1 \in At(Tail(queue), p)
<1>1. /\ Len(queue) \in Nat /\ Len(queue) >= 1 /\ Head(queue) = queue[1]
      /\ Len(Tail(queue)) = Len(queue) - 1
      /\ \A i \in 1..(Len(queue) - 1) : Tail(queue)[i] = queue[i + 1]
  OBVIOUS
<1> DEFINE n == Len(queue)
<1>2. /\ n \in Nat /\ 1 \in 1..n
      /\ \A i \in 1..(n - 1) : i + 1 \in 1..n /\ i + 1 # 1 /\ i \in Nat
      /\ \A i \in 1..n : i # 1 => i - 1 \in 1..(n - 1) /\ (i - 1) + 1 = i
  BY <1>1
<1> HIDE DEF n
<1>3. Len(queue) = n
  BY DEF n
<1> QED
  BY <1>1, <1>2, <1>3 DEF At

LEMMA AppendAt ==
    ASSUME NEW S, NEW queue \in Seq(S), NEW q, NEW p
    PROVE  /\ At(Append(queue, q), p) = At(queue, p) \cup
                 (IF IsPrefix(q, p) THEN {Len(queue) + 1} ELSE {})
           /\ \A i \in At(queue, p) : Append(queue, q)[i] = queue[i]
           /\ Append(queue, q)[Len(queue) + 1] = q
<1> DEFINE n == Len(queue)
           new == Append(queue, q)
<1>1. /\ n \in Nat /\ Len(new) = n + 1 /\ new[n + 1] = q
      /\ \A i \in 1..n : new[i] = queue[i]
  OBVIOUS
<1>2. \A i : i \in 1..(n + 1) <=> i \in 1..n \/ i = n + 1
  BY <1>1
<1>3. n + 1 \notin 1..n
  BY <1>1
<1>4. Len(queue) = n
  OBVIOUS
<1> HIDE DEF n, new
<1>5. At(new, p) = At(queue, p) \cup (IF IsPrefix(q, p) THEN {n + 1} ELSE {})
  BY <1>1, <1>2, <1>4 DEF At
<1>6. \A i \in At(queue, p) : new[i] = queue[i]
  BY <1>1, <1>4 DEF At
<1> QED
  BY <1>1, <1>4, <1>5, <1>6 DEF new

\* A call of onFile.
Counted(bag, e) == bag (+) SetToBag({e})

LEMMA CountedFound ==
    ASSUME NEW bag, NEW e
    PROVE  /\ DOMAIN Counted(bag, e) = DOMAIN bag \cup {e}
           /\ e \notin DOMAIN bag => Counted(bag, e)[e] = 1
           /\ \A f \in DOMAIN bag : f # e /\ bag[f] = 1 => Counted(bag, e)[f] = 1
BY DEF Counted, SetToBag, (+)

\* The next folder of the queue is listed, or is not.
LEMMA FolderTaken ==
    ASSUME NEW x, NEW p, FilePath(x, p), NEW o, o.root \in Seq(Word),
           NEW queue \in Seq(Seq(Word)), queue # <<>>, ScanPath(Head(queue), o),
           NEW l, l.must = {}, NEW bag, Followed(x, p, o, queue, l, bag),
           NEW new,
           new.path = Head(queue) \/ new.must = {},
           IsPrefix(Head(queue), p) =>
              IF Passable(p, Len(Head(queue)), o.excludedPaths)
              THEN new.path = Head(queue) /\ p[Len(Head(queue)) + 1] \in new.must
              ELSE new.must = {}
    PROVE  Followed(x, p, o, Tail(queue), new, bag)
<1> DEFINE current == Head(queue)
           k == Len(current)
           rest == Tail(queue)
<1>1. /\ 1 \in At(queue, p) <=> IsPrefix(current, p)
      /\ current = queue[1]
      /\ \A i \in At(rest, p) :
            i + 1 \in At(queue, p) /\ i + 1 # 1 /\ rest[i] = queue[i + 1] /\ i \in Nat
      /\ \A i \in At(queue, p) : i # 1 => i - 1 \in At(rest, p)
  BY TailAt
<1>2. ~InListing(l, p)
  BY DEF InListing
<1>3. \A i, j \in At(rest, p) : i = j
  <2>1. ASSUME NEW i \in At(rest, p), NEW j \in At(rest, p) PROVE i = j
    <3>1. i + 1 = j + 1 /\ i \in Nat /\ j \in Nat
      BY <1>1 DEF Followed
    <3> QED
      BY <3>1
  <2> QED
    BY <2>1
<1>4. \A i \in At(rest, p) : Walked(p, Len(rest[i]) - 1, o)
  BY <1>1 DEF Followed
<1>5. \A e \in DOMAIN bag : e.file = x => e = Found(x, p)
  BY DEF Followed
<1>6. CASE IsPrefix(current, p)
  <2>1. /\ k \in 0..(Len(p) - 1) /\ Len(o.root) <= k /\ IsPrefix(o.root, p)
        /\ Len(p) \in Nat
    BY <1>6, ScanPathIsShort DEF FilePath
  <2>2. 1 \in At(queue, p) /\ Walked(p, k - 1, o)
    BY <1>1, <1>6 DEF Followed
  <2>3. At(rest, p) = {}
    BY <1>1, <2>2 DEF Followed
  <2>4. Found(x, p) \notin DOMAIN bag
    BY <2>2 DEF Followed
  <2> HIDE DEF current, k, rest
  <2>5. CASE Passable(p, k, o.excludedPaths)
    <3>1. new.path = current /\ InListing(new, p)
      BY <1>6, <2>5 DEF InListing, k, current
    <3>2. \A i \in Len(o.root)..k : i = k \/ i \in Len(o.root)..(k - 1)
      BY <2>1
    <3>3. Walked(p, k, o)
      BY <2>2, <2>5, <3>2 DEF Walked
    <3>4. Walked(p, Len(new.path), o)
      BY <3>1, <3>3 DEF k
    <3>5. Followed(x, p, o, rest, new, bag)
      BY <1>3, <1>4, <1>5, <2>3, <2>4, <3>1, <3>4 DEF Followed
    <3> QED
      BY <3>5 DEF rest
  <2>6. CASE ~Passable(p, k, o.excludedPaths)
    <3>1. ~InListing(new, p)
      BY <1>6, <2>6 DEF InListing, k, current
    <3>2. Len(o.root) \in Nat
      OBVIOUS
    <3>3. k \in Len(o.root)..(Len(p) - 1)
      BY <2>1, <3>2
    <3>4. ~Reachable(x, p, o)
      BY <2>6, <3>3 DEF Reachable, Walked
    <3>5. Followed(x, p, o, rest, new, bag)
      BY <1>3, <1>4, <1>5, <2>3, <2>4, <3>1, <3>4 DEF Followed
    <3> QED
      BY <3>5 DEF rest
  <2> QED
    BY <2>5, <2>6
<1>7. CASE ~IsPrefix(current, p)
  <2>1. ~InListing(new, p)
    BY <1>7 DEF InListing
  <2>2. 1 \notin At(queue, p)
    BY <1>1, <1>7
  <2>3. At(queue, p) = {} <=> At(rest, p) = {}
    BY <1>1, <2>2
  <2> HIDE DEF current, k, rest
  <2>4. Followed(x, p, o, rest, new, bag)
    BY <1>2, <1>3, <1>4, <1>5, <2>1, <2>3 DEF Followed
  <2> QED
    BY <2>4 DEF rest
<1> QED
  BY <1>6, <1>7

\* The listing changes by what is not on the way to the file.
LEMMA FollowedElsewhere ==
    ASSUME NEW x, NEW p, NEW o, NEW queue, NEW l, NEW bag,
           Followed(x, p, o, queue, l, bag),
           NEW new, InListing(new, p) <=> InListing(l, p),
           InListing(new, p) => new.path = l.path
    PROVE  Followed(x, p, o, queue, new, bag)
<1>1. InListing(new, p) => Walked(p, Len(new.path), o)
  BY DEF Followed
<1> QED
  BY <1>1 DEF Followed

\* An entry that is not on the way to the file is queued, collected or skipped.
LEMMA EntryElsewhere ==
    ASSUME NEW x, NEW p, FilePath(x, p), NEW o,
           NEW queue \in Seq(Seq(Word)), NEW l, l.path \in Seq(Word),
           NEW bag, Followed(x, p, o, queue, l, bag),
           NEW y \in Node, y # x, ~(IsPrefix(l.path, p) /\ p[Len(l.path) + 1] = y),
           NEW new, new.path = l.path, new.must = l.must \ {y},
           NEW queue2, NEW bag2,
           queue2 = queue \/ queue2 = Append(queue, Append(l.path, y)),
           bag2 = bag \/ bag2 = Counted(bag, Found(y, Append(l.path, y)))
    PROVE  Followed(x, p, o, queue2, new, bag2)
<1>1. Followed(x, p, o, queue, new, bag)
  <2>1. InListing(new, p) <=> InListing(l, p)
    BY DEF InListing
  <2> QED
    BY <2>1, FollowedElsewhere
<1>2. ~IsPrefix(Append(l.path, y), p)
  <2>1. y \in Word /\ p \in Seq(Word)
    BY DEF FilePath, Word, Place
  <2>2. IsPrefix(Append(l.path, y), p) =>
           IsPrefix(l.path, p) /\ p[Len(l.path) + 1] = y
    BY <2>1, PrefixOfLonger
  <2> QED
    BY <2>2
<1>3. At(queue2, p) = At(queue, p) /\ \A i \in At(queue, p) : queue2[i] = queue[i]
  <2>1. CASE queue2 = queue
    BY <2>1
  <2>2. CASE queue2 = Append(queue, Append(l.path, y))
    <3>1. PICK q : q = Append(l.path, y)
      OBVIOUS
    <3>2. queue2 = Append(queue, q) /\ ~IsPrefix(q, p)
      BY <1>2, <2>2, <3>1
    <3>3. At(queue2, p) = At(queue, p) \cup {}
      BY ONLY <3>2, AppendAt, queue \in Seq(Seq(Word))
    <3>4. \A i \in At(queue, p) : queue2[i] = queue[i]
      BY <3>2, Appended DEF At
    <3> QED
      BY <3>3, <3>4
  <2> QED
    BY <2>1, <2>2
<1>4. /\ \A e \in DOMAIN bag2 : e.file = x => e \in DOMAIN bag
      /\ Found(x, p) \in DOMAIN bag2 <=> Found(x, p) \in DOMAIN bag
      /\ Found(x, p) \in DOMAIN bag /\ bag[Found(x, p)] = 1 => bag2[Found(x, p)] = 1
  <2>1. CASE bag2 = bag
    BY <2>1
  <2>2. CASE bag2 = Counted(bag, Found(y, Append(l.path, y)))
    <3>1. PICK e : e = Found(y, Append(l.path, y))
      OBVIOUS
    <3>2. e.file # x /\ Found(x, p).file = x /\ Found(x, p) # e
      BY <3>1 DEF Found
    <3>3. bag2 = Counted(bag, e)
      BY <2>2, <3>1
    <3>4. /\ DOMAIN bag2 = DOMAIN bag \cup {e}
          /\ \A f \in DOMAIN bag : f # e /\ bag[f] = 1 => bag2[f] = 1
      BY <3>3 DEF Counted, SetToBag, (+)
    <3> QED
      BY <3>2, <3>4
  <2> QED
    BY <2>1, <2>2
<1> QED
  BY <1>1, <1>3, <1>4 DEF Followed

\* An entry on the way to the file is a folder that is queued, or the file.
LEMMA EntryOnTheWay ==
    ASSUME NEW x, NEW p, FilePath(x, p), NEW o, o.root \in Seq(Word),
           NEW queue \in Seq(Seq(Word)), NEW l, ScanPath(l.path, o),
           NEW bag, Followed(x, p, o, queue, l, bag),
           NEW y \in Node, IsPrefix(l.path, p), p[Len(l.path) + 1] = y, y \in l.must,
           NEW new, new.path = l.path, new.must = l.must \ {y},
           NEW queue2, NEW bag2,
           Len(l.path) + 1 < Len(p) => /\ queue2 = Append(queue, Append(l.path, y))
                                       /\ bag2 = bag,
           Len(l.path) + 1 = Len(p) =>
              /\ queue2 = queue
              /\ bag2 = IF x \in Reparse THEN bag
                        ELSE Counted(bag, Found(x, Append(l.path, x)))
    PROVE  Followed(x, p, o, queue2, new, bag2)
<1> DEFINE k == Len(l.path)
<1>1. /\ k \in 0..(Len(p) - 1) /\ Len(o.root) <= k /\ IsPrefix(o.root, p)
      /\ Len(p) \in Nat /\ l.path \in Seq(Word) /\ p \in Seq(Word) /\ y \in Word
      /\ l.path = SubSeq(p, 1, k)
  BY ScanPathIsShort DEF FilePath, ScanPath, Word, Place
<1>2. InListing(l, p)
  BY DEF InListing
<1>3. At(queue, p) = {} /\ Walked(p, k, o) /\ Found(x, p) \notin DOMAIN bag
      /\ \A e \in DOMAIN bag : e.file = x => e = Found(x, p)
  BY <1>2 DEF Followed
<1>4. ~InListing(new, p)
  BY DEF InListing
<1>5. CASE k + 1 < Len(p)
  <2>1. /\ queue2 = Append(queue, Append(l.path, y)) /\ bag2 = bag
    BY <1>5
  <2>2. IsPrefix(Append(l.path, y), p) /\ Len(Append(l.path, y)) = k + 1
    BY <1>1, <1>5, PrefixOfLonger
  <2>3. At(queue2, p) = {Len(queue) + 1} /\ queue2[Len(queue) + 1] = Append(l.path, y)
    BY <1>3, <2>1, <2>2, AppendAt
  <2>4. (k + 1) - 1 = k
    BY <1>1
  <2>5. \A i \in At(queue2, p) : Walked(p, Len(queue2[i]) - 1, o)
    BY <1>3, <2>2, <2>3, <2>4
  <2> HIDE DEF k
  <2> QED
    BY <1>3, <1>4, <2>1, <2>3, <2>5 DEF Followed
<1>6. CASE k + 1 = Len(p)
  <2>1. y = x
    BY <1>6 DEF FilePath
  <2>2. Append(l.path, x) = p
    BY <1>1, <1>6, <2>1
  <2>3. CASE x \in Reparse
    <3>1. ~Reachable(x, p, o)
      BY <2>3 DEF Reachable
    <3>2. queue2 = queue /\ bag2 = bag
      BY <1>6, <2>3
    <3> HIDE DEF k
    <3> QED
      BY <1>3, <1>4, <3>1, <3>2 DEF Followed
  <2>4. CASE x \notin Reparse
    <3>1. queue2 = queue /\ bag2 = Counted(bag, Found(x, p))
      BY <1>6, <2>2, <2>4
    <3>2. DOMAIN bag2 = DOMAIN bag \cup {Found(x, p)} /\ bag2[Found(x, p)] = 1
      BY <1>3, <3>1, CountedFound
    <3>3. Len(p) - 1 = k
      BY <1>1, <1>6
    <3>4. Reachable(x, p, o)
      BY <1>1, <1>3, <2>4, <3>3 DEF Reachable
    <3> HIDE DEF k
    <3> QED
      BY <1>3, <1>4, <3>1, <3>2, <3>4 DEF Followed
  <2> QED
    BY <2>3, <2>4
<1> QED
  BY <1>1, <1>5, <1>6

\* What the user gives are names of folders that are no links.
NamesOfFolders == Name \cap (Files \cup Reparse) = {}

ListingType == [path : Seq(Word), dir : Place, must : SUBSET Node, may : SUBSET Node]

FindFileInv ==
    /\ \A i \in 1..Len(dirQueue) : ScanPath(dirQueue[i], scan)
    /\ Open => /\ ScanPath(listing.path, scan)
               /\ listing.path # <<>> /\ listing.path[1] = Drive
    /\ listing.may \subseteq touched
    /\ \A y \in listing.must : parent[y] = listing.dir
    /\ \A y \in listing.must \ touched : PathOf(y) = Append(listing.path, y)
    /\ ~cancel => \A x \in Files \ touched :
          Followed(x, PathOf(x), scan, dirQueue, listing, collected)

QueueTypes ==
    /\ dirQueue \in Seq(Seq(Word)) /\ listing \in ListingType
    /\ scan.root \in Seq(Name) /\ scan.excludedPaths \in List

LEMMA FilePaths ==
    ASSUME Tree, NEW x \in Files, NEW p, p = PathOf(x)
    PROVE  FilePath(x, p)
<1>1. x \in Node
  BY DEF Node
<1> QED
  BY <1>1, OnTheWay DEF FilePath

\* Nothing but the scan moves on.
SameVolume == UNCHANGED <<parent, touched, scan, cancel>>

LEMMA SamePaths ==
    ASSUME parent' = parent
    PROVE  \A x : PathOf(x)' = PathOf(x)
BY DEF PathOf

LEMMA CanListPassable ==
    ASSUME Tree, NEW x \in Files, NEW p, p = PathOf(x),
           NEW q, ScanPath(q, scan), IsPrefix(q, p)
    PROVE  /\ Passable(p, Len(q), scan.excludedPaths) <=>
                 CanList(q) /\ ~IsExcluded(q, scan.excludedPaths)
           /\ CanList(q) => p[Len(q) + 1] \in Children(Resolve(q))
<1> DEFINE k == Len(q)
<1>1. FilePath(x, p) /\ x \in Node
  BY FilePaths DEF Node
<1>2. k \in 0..(Len(p) - 1) /\ q = SubSeq(p, 1, k) /\ Len(p) \in Nat
  BY <1>1, ScanPathIsShort DEF FilePath
<1>3. /\ k = 0 \/ p[1] # Drive => Resolve(q) = Gone
      /\ k # 0 /\ p[1] = Drive => Resolve(q) = p[k] /\ p[k] \in Container
  BY <1>1, <1>2, ResolveWay
<1>4. Gone \notin Container
  BY VolumeAssumption DEF Container, Node
<1>5. CanList(q) <=> k >= 1 /\ k <= PathLimit /\ p[1] = Drive /\ p[k] \notin Denied
  <2>1. k >= 1 <=> k # 0
    BY <1>2
  <2>2. CanList(q) <=> k <= PathLimit /\ Resolve(q) \notin Denied \cup {Gone}
    BY DEF CanList
  <2> HIDE DEF k
  <2>3. CASE k = 0 \/ p[1] # Drive
    BY <1>3, <2>1, <2>2, <2>3
  <2>4. CASE k # 0 /\ p[1] = Drive
    BY <1>3, <1>4, <2>1, <2>2, <2>4
  <2> QED
    BY <2>3, <2>4
<1>6. Passable(p, k, scan.excludedPaths) <=>
         CanList(q) /\ ~IsExcluded(q, scan.excludedPaths)
  BY <1>2, <1>5 DEF Passable
<1>7. ASSUME CanList(q) PROVE p[k + 1] \in Children(Resolve(q))
  <2>1. k + 1 \in 2..Len(p) /\ (k + 1) - 1 = k
    BY <1>2, <1>5, <1>7
  <2>2. p[k + 1] \in Node /\ parent[p[k + 1]] = p[k]
    BY <1>1, <2>1, OnTheWay
  <2>3. Resolve(q) = p[k]
    BY <1>2, <1>3, <1>5, <1>7
  <2> QED
    BY <2>2, <2>3 DEF Children
<1> QED
  BY <1>6, <1>7

LEMMA NextDirectoryStep ==
    ASSUME TreeInv, QueueTypes, FindFileInv, NextDirectory, SameVolume
    PROVE  FindFileInv' /\ dirQueue' \in Seq(Seq(Word)) /\ listing' \in ListingType
<1>1. PICK current : current = Head(dirQueue)
  OBVIOUS
<1>2. /\ listing = NoListing /\ ~cancel /\ dirQueue # <<>>
      /\ dirQueue' = Tail(dirQueue) /\ collected' = collected
      /\ listing' = IF CanList(current) /\ ~IsExcluded(current, scan.excludedPaths)
                    THEN Listing(current) ELSE NoListing
  BY <1>1 DEF NextDirectory, Open
<1>3. /\ parent' = parent /\ touched' = touched /\ scan' = scan /\ cancel' = cancel
      /\ \A x : PathOf(x)' = PathOf(x)
  BY SamePaths DEF SameVolume
<1>4. /\ dirQueue \in Seq(Seq(Word)) /\ scan.root \in Seq(Word) /\ Tree
      /\ dirQueue' \in Seq(Seq(Word))
  BY <1>2, WordsOfPaths DEF QueueTypes, TreeInv
<1>5. /\ Len(dirQueue) \in Nat /\ Len(dirQueue) >= 1
      /\ current = dirQueue[1] /\ Len(dirQueue') = Len(dirQueue) - 1
      /\ \A i \in 1..(Len(dirQueue) - 1) : dirQueue'[i] = dirQueue[i + 1]
  BY <1>1, <1>2, <1>4
<1>6. /\ ScanPath(current, scan)
      /\ \A i \in 1..Len(dirQueue') : ScanPath(dirQueue'[i], scan')
  <2>1. 1 \in 1..Len(dirQueue)
    BY <1>5
  <2>2. \A i \in 1..Len(dirQueue') :
           i + 1 \in 1..Len(dirQueue) /\ i \in 1..(Len(dirQueue) - 1)
    BY <1>5
  <2> QED
    BY <1>3, <1>5, <2>1, <2>2 DEF FindFileInv
<1>7. PICK dir : dir = Resolve(current)
  OBVIOUS
<1>8. ASSUME dir # Gone
      PROVE  /\ current # <<>> /\ current[1] = Drive /\ dir \in Place
             /\ current = PathOf(dir)
  <2>1. current \in Seq(Word) /\ Range(current) \cap Reparse = {}
    BY <1>6 DEF ScanPath
  <2>2. Leads(current) /\ dir = current[Len(current)]
    BY <1>7, <1>8, <2>1, ResolveLeads
  <2> QED
    BY <1>4, <2>1, <2>2, LeadsToPath DEF Leads, Place, Node
<1>9. /\ Listing(current).path = current /\ Listing(current).dir = dir
      /\ Listing(current).must = Children(dir) /\ Listing(current).may = {}
      /\ NoListing.must = {} /\ NoListing.may = {}
  BY <1>7 DEF Listing, NoListing
<1>10. listing' \in ListingType
  <2>1. Resolve(current) \in Place
    BY <1>7, <1>8, NodesAndEnds
  <2> QED
    BY <1>2, <1>6, <2>1, NodesAndEnds
       DEF ListingType, Listing, NoListing, Children, ScanPath
<1>11. ASSUME NEW x \in Files \ touched
       PROVE  Followed(x, PathOf(x), scan, dirQueue', listing', collected')
  <2>1. PICK p : p = PathOf(x)
    OBVIOUS
  <2>2. FilePath(x, p) /\ Followed(x, p, scan, dirQueue, listing, collected)
    BY <1>2, <1>4, <2>1, FilePaths DEF FindFileInv
  <2>3. listing.must = {} /\ (listing'.path = current \/ listing'.must = {})
    BY <1>2, <1>9
  <2>4. ASSUME IsPrefix(current, p)
        PROVE  IF Passable(p, Len(current), scan.excludedPaths)
               THEN listing'.path = current /\ p[Len(current) + 1] \in listing'.must
               ELSE listing'.must = {}
    <3>1. /\ Passable(p, Len(current), scan.excludedPaths) <=>
                CanList(current) /\ ~IsExcluded(current, scan.excludedPaths)
          /\ CanList(current) => p[Len(current) + 1] \in Children(dir)
      BY <1>4, <1>6, <1>7, <2>1, <2>4, CanListPassable
    <3> QED
      BY <1>2, <1>9, <3>1
  <2>5. Followed(x, p, scan, Tail(dirQueue), listing', collected)
    BY <1>1, <1>2, <1>4, <1>6, <2>2, <2>3, <2>4, FolderTaken
  <2> QED
    BY <1>2, <2>1, <2>5
<1>12. CASE CanList(current) /\ ~IsExcluded(current, scan.excludedPaths)
  <2>1. dir # Gone
    BY <1>7, <1>12 DEF CanList
  <2>2. listing' = Listing(current)
    BY <1>2, <1>12
  <2>3. \A y \in Children(dir) : parent[y] = dir /\ PathOf(y) = Append(current, y)
    BY <1>4, <1>8, <2>1, PathsAreRoutes DEF PathFacts, Children
  <2>4. /\ ScanPath(listing'.path, scan')
        /\ listing'.path # <<>> /\ listing'.path[1] = Drive
        /\ listing'.may \subseteq touched'
        /\ \A y \in listing'.must : parent'[y] = listing'.dir
        /\ \A y \in listing'.must \ touched' : PathOf(y)' = Append(listing'.path, y)
    BY <1>3, <1>6, <1>8, <1>9, <2>1, <2>2, <2>3
  <2> QED
    BY <1>3, <1>4, <1>6, <1>10, <1>11, <2>4 DEF FindFileInv
<1>13. CASE ~(CanList(current) /\ ~IsExcluded(current, scan.excludedPaths))
  <2>1. listing' = NoListing /\ ~Open'
    BY <1>2, <1>13 DEF Open, NoListing
  <2>2. listing'.must = {} /\ listing'.may = {}
    BY <1>9, <2>1
  <2> QED
    BY <1>3, <1>4, <1>6, <1>10, <1>11, <2>1, <2>2 DEF FindFileInv
<1> QED
  BY <1>12, <1>13

LEMMA EndListingStep ==
    ASSUME TreeInv, QueueTypes, FindFileInv, EndListing, SameVolume
    PROVE  FindFileInv' /\ dirQueue' \in Seq(Seq(Word)) /\ listing' \in ListingType
<1>1. /\ cancel \/ listing.must = {}
      /\ listing' = NoListing
      /\ dirQueue' = dirQueue /\ collected' = collected
  BY DEF EndListing
<1>2. /\ parent' = parent /\ touched' = touched /\ scan' = scan /\ cancel' = cancel
      /\ \A x : PathOf(x)' = PathOf(x)
  BY SamePaths DEF SameVolume
<1>3. listing'.must = {} /\ listing'.may = {} /\ ~Open'
  BY <1>1 DEF NoListing, Open
<1>4. listing' \in ListingType
  BY <1>1, NodesAndEnds DEF ListingType, NoListing
<1>5. ASSUME ~cancel, NEW x \in Files \ touched
      PROVE  Followed(x, PathOf(x), scan, dirQueue, listing', collected)
  <2>1. PICK p : p = PathOf(x)
    OBVIOUS
  <2>2. Followed(x, p, scan, dirQueue, listing, collected)
    BY <1>5, <2>1 DEF FindFileInv
  <2>3. ~InListing(listing, p) /\ ~InListing(listing', p)
    BY <1>1, <1>3, <1>5 DEF InListing
  <2> QED
    BY <2>1, <2>2, <2>3, FollowedElsewhere
<1> QED
  BY <1>1, <1>2, <1>3, <1>4, <1>5 DEF FindFileInv, QueueTypes

LEMMA EntryStep ==
    ASSUME TreeInv, QueueTypes, FindFileInv, NEW y \in Node, Entry(y), SameVolume
    PROVE  FindFileInv' /\ dirQueue' \in Seq(Seq(Word)) /\ listing' \in ListingType
<1>1. PICK full : full = Append(listing.path, y)
  OBVIOUS
<1>2. /\ Open /\ ~cancel /\ y \in listing.must \cup listing.may
      /\ listing' = [listing EXCEPT !.must = @ \ {y}, !.may = @ \ {y}]
  BY DEF Entry
<1>3. /\ parent' = parent /\ touched' = touched /\ scan' = scan /\ cancel' = cancel
      /\ \A x : PathOf(x)' = PathOf(x)
  BY SamePaths DEF SameVolume
<1>4. /\ listing'.path = listing.path /\ listing'.dir = listing.dir
      /\ listing'.must = listing.must \ {y} /\ listing'.may = listing.may \ {y}
      /\ listing' \in ListingType
  BY <1>2 DEF QueueTypes, ListingType
<1>5. /\ y \in Reparse => dirQueue' = dirQueue /\ collected' = collected
      /\ y \notin Reparse /\ y \in Dirs =>
            dirQueue' = Append(dirQueue, full) /\ collected' = collected
      /\ y \notin Reparse /\ y \notin Dirs =>
            dirQueue' = dirQueue /\ collected' = Counted(collected, Found(y, full))
  <2>1. CASE y \in Reparse
    <3>1. UNCHANGED <<dirQueue, collected>>
      BY <2>1 DEF Entry
    <3> QED
      BY <2>1, <3>1
  <2>2. CASE y \notin Reparse /\ y \in Dirs
    BY <1>1, <2>2 DEF Entry
  <2>3. CASE y \notin Reparse /\ y \notin Dirs
    <3>1. OnFile(y, Append(listing.path, y)) /\ UNCHANGED dirQueue
      BY <2>3 DEF Entry
    <3> QED
      BY <1>1, <2>3, <3>1 DEF OnFile, Counted, Found
  <2> QED
    BY <2>1, <2>2, <2>3
<1>6. /\ dirQueue \in Seq(Seq(Word)) /\ scan.root \in Seq(Word) /\ Tree /\ TouchedBelow
      /\ ScanPath(listing.path, scan) /\ listing.path \in Seq(Word)
      /\ listing.path # <<>> /\ y \in Word
      /\ Len(listing.path) \in Nat /\ Len(listing.path) >= 1
  <2>1. ScanPath(listing.path, scan) /\ listing.path # <<>> /\ listing.path \in Seq(Word)
    BY <1>2 DEF FindFileInv, ScanPath
  <2>2. Len(listing.path) \in Nat /\ Len(listing.path) >= 1
    BY <2>1
  <2> QED
    BY <2>1, <2>2, WordsOfPaths DEF QueueTypes, TreeInv, Word, Place
<1>7. ScanPath(full, scan) \/ y \in Files \cup Reparse
  <2> SUFFICES ASSUME y \notin Files \cup Reparse PROVE ScanPath(full, scan)
    OBVIOUS
  <2>1. full \in Seq(Word) /\ IsPrefix(scan.root, full)
    BY <1>1, <1>6, PrefixOfLonger DEF ScanPath
  <2>2. Range(full) \subseteq Range(listing.path) \cup {y}
    <3>1. /\ DOMAIN full = 1..(Len(listing.path) + 1)
          /\ \A i \in 1..Len(listing.path) : full[i] = listing.path[i]
          /\ full[Len(listing.path) + 1] = y
          /\ DOMAIN listing.path = 1..Len(listing.path)
      BY <1>1, <1>6
    <3>2. \A i \in 1..(Len(listing.path) + 1) :
             i \in 1..Len(listing.path) \/ i = Len(listing.path) + 1
      BY <1>6
    <3> QED
      BY <3>1, <3>2 DEF Range
  <2> QED
    BY <1>6, <2>1, <2>2 DEF ScanPath
<1>8. /\ dirQueue' \in Seq(Seq(Word))
      /\ \A i \in 1..Len(dirQueue') : ScanPath(dirQueue'[i], scan')
  <2>1. CASE dirQueue' = dirQueue
    BY <1>3, <1>6, <2>1 DEF FindFileInv
  <2>2. CASE dirQueue' # dirQueue
    <3>1. dirQueue' = Append(dirQueue, full) /\ y \notin Files \cup Reparse
      BY <1>5, <2>2, VolumeAssumption
    <3>2. ScanPath(full, scan) /\ full \in Seq(Word)
      BY <1>7, <3>1 DEF ScanPath
    <3>3. /\ dirQueue' \in Seq(Seq(Word)) /\ Len(dirQueue) \in Nat
          /\ Len(dirQueue') = Len(dirQueue) + 1
          /\ \A i \in 1..Len(dirQueue) : dirQueue'[i] = dirQueue[i]
          /\ dirQueue'[Len(dirQueue) + 1] = full
      BY <1>6, <3>1, <3>2
    <3>4. \A i \in 1..Len(dirQueue') : i \in 1..Len(dirQueue) \/ i = Len(dirQueue) + 1
      BY <3>3
    <3> QED
      BY <1>3, <3>2, <3>3, <3>4 DEF FindFileInv
  <2> QED
    BY <2>1, <2>2
<1>9. ASSUME NEW x \in Files \ touched
      PROVE  Followed(x, PathOf(x), scan, dirQueue', listing', collected')
  <2>1. PICK p : p = PathOf(x)
    OBVIOUS
  <2>2. FilePath(x, p) /\ Followed(x, p, scan, dirQueue, listing, collected)
        /\ x \in Node /\ x \notin touched
    BY <1>2, <1>6, <2>1, FilePaths DEF FindFileInv, Node
  <2>3. \A j \in 2..Len(p) : p[j] \notin touched
    BY <1>6, <2>1, <2>2, UntouchedWay
  <2>4. /\ Len(p) \in Nat /\ Len(p) >= 2 /\ p[Len(p)] = x
        /\ \A j \in 2..Len(p) : p[j] \in Node /\ parent[p[j]] = p[j - 1]
        /\ \A j \in 1..(Len(p) - 1) : p[j] \in Container \cup {Gone}
    BY <1>6, <2>1, <2>2, OnTheWay
  <2> DEFINE k == Len(listing.path)
  <2>5. CASE IsPrefix(listing.path, p) /\ p[k + 1] = y
    <3>1. k \in 0..(Len(p) - 1)
      BY <1>6, <2>2, <2>5, ScanPathIsShort
    <3>2. k + 1 \in 2..Len(p)
      BY <1>6, <2>4, <3>1
    <3>3. y \in listing.must
      BY <1>2, <2>3, <2>5, <3>2 DEF FindFileInv
    <3>4. ASSUME k + 1 < Len(p)
          PROVE  dirQueue' = Append(dirQueue, full) /\ collected' = collected
      <4>1. k + 1 \in 1..(Len(p) - 1)
        BY <2>4, <3>2, <3>4
      <4>2. y \in Container \cup {Gone}
        BY <2>4, <2>5, <4>1
      <4>3. y \in Dirs /\ y \notin Reparse
        BY <4>2, VolumeAssumption DEF Container
      <4> QED
        BY <1>5, <4>3
    <3>5. ASSUME k + 1 = Len(p)
          PROVE  /\ dirQueue' = dirQueue
                 /\ collected' = IF x \in Reparse THEN collected
                                 ELSE Counted(collected, Found(x, Append(listing.path, x)))
      <4>1. y = x /\ y \notin Dirs
        BY <2>2, <2>4, <2>5, <3>5, VolumeAssumption DEF FilePath
      <4> QED
        BY <1>1, <1>5, <4>1
    <3>6. PICK queue2, new, bag2 : queue2 = dirQueue' /\ new = listing' /\ bag2 = collected'
      OBVIOUS
    <3>7. /\ new.path = listing.path /\ new.must = listing.must \ {y}
          /\ Len(listing.path) + 1 < Len(p) =>
                queue2 = Append(dirQueue, Append(listing.path, y)) /\ bag2 = collected
          /\ Len(listing.path) + 1 = Len(p) =>
                /\ queue2 = dirQueue
                /\ bag2 = IF x \in Reparse THEN collected
                          ELSE Counted(collected, Found(x, Append(listing.path, x)))
      BY <1>1, <1>4, <3>4, <3>5, <3>6
    <3>8. /\ scan.root \in Seq(Word) /\ dirQueue \in Seq(Seq(Word))
          /\ ScanPath(listing.path, scan)
          /\ FilePath(x, p) /\ Followed(x, p, scan, dirQueue, listing, collected)
          /\ IsPrefix(listing.path, p) /\ p[Len(listing.path) + 1] = y /\ y \in listing.must
      BY <1>6, <2>2, <2>5, <3>3
    <3> HIDE DEF k
    <3>9. Followed(x, p, scan, queue2, new, bag2)
      BY ONLY <3>7, <3>8, y \in Node, EntryOnTheWay, ZenonT(60)
    <3> QED
      BY <2>1, <3>6, <3>9
  <2>6. CASE ~(IsPrefix(listing.path, p) /\ p[k + 1] = y)
    <3>1. y # x
      <4> SUFFICES ASSUME y = x PROVE FALSE
        OBVIOUS
      <4>1. y \in listing.must
        BY <1>2, <2>2 DEF FindFileInv
      <4>2. p = Append(listing.path, y)
        BY <2>1, <2>2, <4>1 DEF FindFileInv
      <4>3. p \in Seq(Word) /\ Len(p) = k + 1 /\ k + 1 <= Len(p)
        BY <1>6, <2>2, <4>2 DEF FilePath
      <4>4. IsPrefix(p, p)
        BY <4>3, PrefixBegins DEF Begins
      <4>5. IsPrefix(Append(listing.path, y), p) =>
               IsPrefix(listing.path, p) /\ p[Len(listing.path) + 1] = y
        BY <1>6, <4>3, PrefixOfLonger
      <4> QED
        BY <2>6, <4>2, <4>4, <4>5
    <3>2. /\ dirQueue' = dirQueue \/ dirQueue' = Append(dirQueue, Append(listing.path, y))
          /\ collected' = collected
             \/ collected' = Counted(collected, Found(y, Append(listing.path, y)))
      BY <1>1, <1>5
    <3>3. Followed(x, p, scan, dirQueue', listing', collected')
      BY <1>4, <1>6, <2>2, <2>6, <3>1, <3>2, EntryElsewhere
    <3> QED
      BY <2>1, <3>3
  <2> QED
    BY <2>5, <2>6
<1>10. /\ ScanPath(listing'.path, scan') /\ listing'.path # <<>> /\ listing'.path[1] = Drive
       /\ listing'.may \subseteq touched'
       /\ \A z \in listing'.must : parent'[z] = listing'.dir
       /\ \A z \in listing'.must \ touched' : PathOf(z)' = Append(listing'.path, z)
  BY <1>2, <1>3, <1>4 DEF FindFileInv
<1> QED
  BY <1>3, <1>4, <1>8, <1>9, <1>10 DEF FindFileInv

\* Another program's move, while FindFileScanner is at work.
LEMMA FindFileMoved ==
    ASSUME TreeInv, QueueTypes, FindFileInv,
           NEW x \in Node, NEW to \in Container \cup {Gone}, Moved(x, to),
           DuringListing(x, to), UNCHANGED <<scan, cancel, collected, dirQueue>>
    PROVE  FindFileInv' /\ listing' \in ListingType
<1>1. /\ TreeInv' /\ touched \subseteq touched' /\ x \in touched'
      /\ \A y \in Node \ touched' : PathOf(y)' = PathOf(y) /\ parent'[y] = parent[y]
  BY MovedTree
<1>2. \/ Open /\ listing' = [listing EXCEPT !.must = @ \ {x}, !.may = @ \cup {x}]
      \/ listing' = listing /\ (~Open \/ listing.dir # parent[x])
  BY DEF DuringListing
<1>3. /\ listing'.path = listing.path /\ listing'.dir = listing.dir
      /\ listing' \in ListingType
      /\ listing'.must = listing.must \ {x} /\ listing'.may \subseteq listing.may \cup {x}
  <2>1. CASE listing' = [listing EXCEPT !.must = @ \ {x}, !.may = @ \cup {x}]
    BY <2>1 DEF QueueTypes, ListingType
  <2>2. CASE listing' = listing /\ (~Open \/ listing.dir # parent[x])
    <3>1. x \notin listing.must
      BY <2>2 DEF FindFileInv, Open, NoListing
    <3> QED
      BY <2>2, <3>1 DEF QueueTypes
  <2> QED
    BY <1>2, <2>1, <2>2
<1>4. \A y \in Node : y # x => parent'[y] = parent[y]
  BY DEF TreeInv, Tree, Moved
<1>5. Open' => Open
  <2>1. listing' = listing => (Open' <=> Open)
    BY DEF Open
  <2> QED
    BY <1>2, <2>1
<1>6. listing.must \subseteq Node
  BY DEF QueueTypes, ListingType
<1>7. /\ \A y \in listing'.must : parent'[y] = listing'.dir
      /\ \A y \in listing'.must \ touched' : PathOf(y)' = Append(listing'.path, y)
      /\ listing'.may \subseteq touched'
  BY <1>1, <1>3, <1>4, <1>6 DEF FindFileInv
<1>8. ASSUME ~cancel, NEW y \in Files \ touched'
      PROVE  Followed(y, PathOf(y)', scan, dirQueue, listing', collected)
  <2>1. PICK p : p = PathOf(y)
    OBVIOUS
  <2>2. y \in Node /\ y \in Files \ touched /\ PathOf(y)' = p /\ Tree
    BY <1>1, <2>1 DEF Node, TreeInv
  <2>3. FilePath(y, p) /\ Followed(y, p, scan, dirQueue, listing, collected)
    BY <1>8, <2>1, <2>2, FilePaths DEF FindFileInv
  <2>4. ASSUME IsPrefix(listing.path, p), p[Len(listing.path) + 1] = x,
               InListing(listing, p)
        PROVE  FALSE
    <3>1. listing.path \in Seq(Word) /\ listing.must # {}
      BY <2>4 DEF QueueTypes, ListingType, InListing
    <3>2. Open
      BY <3>1 DEF Open, NoListing
    <3>3. ScanPath(listing.path, scan) /\ Len(listing.path) \in 0..(Len(p) - 1)
      BY <2>3, <2>4, <3>2, ScanPathIsShort DEF FindFileInv
    <3>4. Len(listing.path) + 1 \in DOMAIN p
      BY <2>3, <3>3 DEF FilePath
    <3>5. x \in Range(p)
      BY <2>4, <3>4 DEF Range
    <3>6. y \in Below(x)
      BY <2>1, <2>2, <3>5 DEF Below
    <3> QED
      BY <1>8, <3>6 DEF Moved
  <2>5. InListing(listing', p) <=> InListing(listing, p)
    BY <1>3, <2>4 DEF InListing
  <2>6. Followed(y, p, scan, dirQueue, listing', collected)
    BY <1>3, <2>3, <2>5, FollowedElsewhere
  <2> QED
    BY <2>2, <2>6
<1> QED
  BY <1>1, <1>3, <1>5, <1>7, <1>8 DEF FindFileInv

\* The scan starts with its root.
LEMMA FindFileStarted ==
    ASSUME TreeInv, NamesOfFolders, touched' = {}, parent' = parent,
           scan'.root \in Seq(Name), FindFileStart(scan'.root), collected' = EmptyBag
    PROVE  FindFileInv' /\ dirQueue' \in Seq(Seq(Word)) /\ listing' \in ListingType
<1>1. PICK root : root = scan'.root
  OBVIOUS
<1>2. /\ root \in Seq(Name) /\ root \in Seq(Word)
      /\ dirQueue' = <<root>> /\ listing' = NoListing
  BY <1>1, WordsOfPaths DEF FindFileStart
<1>3. ScanPath(root, scan')
  <2>1. IsPrefix(root, root)
    BY <1>2, PrefixBegins DEF Begins
  <2>2. Range(root) \subseteq Name
    BY <1>2 DEF Range
  <2> QED
    BY <1>1, <1>2, <2>1, <2>2 DEF ScanPath, NamesOfFolders
<1>4. /\ dirQueue' \in Seq(Seq(Word)) /\ Len(dirQueue') = 1 /\ dirQueue'[1] = root
      /\ \A i \in 1..Len(dirQueue') : i = 1
  BY <1>2
<1>5. listing' \in ListingType /\ listing'.must = {} /\ listing'.may = {} /\ ~Open'
  BY <1>2, NodesAndEnds DEF ListingType, NoListing, Open
<1>6. DOMAIN collected' = {}
  BY DEF EmptyBag, SetToBag
<1>7. ASSUME NEW x \in Files, NEW p
      PROVE  Followed(x, p, scan', dirQueue', listing', collected')
  <2>1. At(dirQueue', p) = IF IsPrefix(root, p) THEN {1} ELSE {}
    BY <1>4 DEF At
  <2>2. ~InListing(listing', p)
    BY <1>5 DEF InListing
  <2>3. Walked(p, Len(root) - 1, scan')
    <3>1. Len(root) \in Nat
      BY <1>2
    <3>2. Len(root)..(Len(root) - 1) = {}
      BY <3>1
    <3> QED
      BY <1>1, <3>2 DEF Walked
  <2>4. Reachable(x, p, scan') => IsPrefix(root, p)
    BY <1>1 DEF Reachable
  <2> QED
    BY <1>4, <1>6, <2>1, <2>2, <2>3, <2>4 DEF Followed
<1> QED
  BY <1>3, <1>4, <1>5, <1>7 DEF FindFileInv

----------------------------------------------------------------------------
(* MftScanner: what it notes, and what it makes of it. *)

Noted ==
    /\ DOMAIN entries \subseteq Node
    /\ \A n \in DOMAIN entries : entries[n] \in Container

\* Where a parent was noted for n: there.
Upward(n) == IF n \in DOMAIN entries THEN entries[n] ELSE n

OnVolume == Node \cup {Drive}

Climbs(line, frn) ==
    /\ line \in [0..Records -> OnVolume]
    /\ line[0] = frn
    /\ \A i \in 1..Records : line[i] = Upward(line[i - 1])

LEMMA UpwardNext ==
    ASSUME Noted, NEW n \in OnVolume
    PROVE  Upward(n) \in OnVolume
<1>1. Container \subseteq OnVolume
  BY DEF Container, OnVolume, Node
<1> QED
  BY <1>1 DEF Noted, Upward

LEMMA RecordsCounted == Records \in Nat
BY VolumeAssumption, FS_CardinalityType DEF Records

LEMMA LineClimbs ==
    ASSUME Noted, NEW frn \in OnVolume
    PROVE  Climbs(Line(frn), frn)
<1> DEFINE N == Records
           F == [p \in (1..N) \X OnVolume |-> Upward(p[2])]
           e(g) == [i \in 0..N |-> IF i = 0 THEN frn
                                 ELSE IF g[i - 1] \in DOMAIN entries
                                      THEN entries[g[i - 1]] ELSE g[i - 1]]
           f == CHOOSE g : g = e(g)
<1>1. N \in Nat
  BY RecordsCounted
<1>2. \A d \in OnVolume : Upward(d) \in OnVolume
  BY UpwardNext
<1>3. F \in TurnFunctions(N, OnVolume)
  BY <1>2 DEF TurnFunctions
<1>4. PICK j : Computes(j, N, OnVolume, frn, F)
  <2> HIDE DEF F, N
  <2> QED
    BY <1>1, <1>3, LoopComputes
<1>5. \A n \in 1..N : n - 1 \in 0..N /\ j[n - 1] \in OnVolume
  BY <1>1, <1>4 DEF Computes
<1>6. \A n \in 1..N : j[n] = Upward(j[n - 1])
  BY <1>4, <1>5 DEF Computes
<1>7. j = e(j)
  <2>1. \A n \in 0..N : n = 0 \/ n \in 1..N
    BY <1>1
  <2>2. \A n \in 0..N : j[n] = e(j)[n]
    BY <1>4, <1>6, <2>1 DEF Computes, Upward
  <2> QED
    BY <1>4, <2>2 DEF Computes
<1>8. f = e(f)
  BY <1>7
<1>9. Line(frn) = f
  BY DEF Line
<1> HIDE DEF f
<1>10. GoOnAlike(f, j, N)
  <2>1. 0 \in 0..N /\ \A n \in 1..N : n \in 0..N /\ n # 0
    BY <1>1
  <2>2. f[0] = e(f)[0] /\ \A n \in 1..N : f[n] = e(f)[n]
    BY <1>8, <2>1
  <2>3. f[0] = frn
    BY <2>1, <2>2
  <2>4. \A n \in 1..N : f[n] = Upward(f[n - 1])
    BY <2>1, <2>2 DEF Upward
  <2>5. ASSUME NEW n \in 1..N, f[n - 1] = j[n - 1] PROVE f[n] = j[n]
    BY <1>6, <2>4, <2>5
  <2> HIDE DEF e, N
  <2> QED
    BY <1>4, <2>3, <2>5 DEF GoOnAlike, Computes
<1>11. Alike(f, j, N)
  <2> HIDE DEF N
  <2> QED
    BY <1>1, <1>10, AlikeToTheEnd
<1>12. f = j
  <2>1. f = [i \in 0..N |-> e(f)[i]]
    BY <1>8
  <2>2. DOMAIN f = 0..N
    BY <2>1
  <2>3. f = [i \in 0..N |-> f[i]]
    BY <2>1, <2>2
  <2>4. j = [i \in 0..N |-> j[i]]
    BY <1>4 DEF Computes
  <2> HIDE DEF N
  <2> QED
    BY <1>11, <2>3, <2>4 DEF Alike
<1> QED
  BY <1>4, <1>6, <1>9, <1>12 DEF Climbs, Computes

\* The way up from what p ends with, as far as its names were noted.
NotedWay(p) ==
    /\ p \in Seq(Word) /\ Len(p) \in Nat /\ Len(p) >= 2 /\ p[1] = Drive
    /\ \A j \in 2..Len(p) : p[j] \in DOMAIN entries /\ entries[p[j]] = p[j - 1]

LEMMA LineIsWay ==
    ASSUME Noted, NEW p, NotedWay(p), NEW m, m = Len(p) - 1,
           NEW line, Climbs(line, p[m])
    PROVE  \A i \in 0..Records : line[i] = IF i < m THEN p[m - i] ELSE Drive
<1>1. /\ m \in Nat /\ m >= 1 /\ Len(p) = m + 1 /\ p[1] = Drive
      /\ \A j \in 2..(m + 1) : p[j] \in DOMAIN entries /\ entries[p[j]] = p[j - 1]
  <2>1. Len(p) \in Nat /\ Len(p) >= 2
    BY DEF NotedWay
  <2>2. m \in Nat /\ m >= 1 /\ Len(p) = m + 1
    BY <2>1
  <2> QED
    BY <2>2 DEF NotedWay
<1>2. Drive \notin DOMAIN entries
  BY NodesAndEnds DEF Noted
<1> DEFINE S == {k \in Nat : k <= Records =>
                     line[k] = IF k < m THEN p[m - k] ELSE Drive}
<1>3. 0 \in S
  BY <1>1 DEF Climbs
<1>4. ASSUME NEW k \in Nat, k \in S PROVE k + 1 \in S
  <2> SUFFICES ASSUME k + 1 <= Records
               PROVE  line[k + 1] = IF k + 1 < m THEN p[m - (k + 1)] ELSE Drive
    OBVIOUS
  <2>1. k + 1 \in 1..Records /\ (k + 1) - 1 = k /\ k <= Records
    BY RecordsCounted
  <2>2. line[k + 1] = Upward(line[k])
    BY <2>1 DEF Climbs
  <2>3. line[k] = IF k < m THEN p[m - k] ELSE Drive
    BY <1>4, <2>1
  <2>4. CASE k + 1 < m
    <3>1. m - k \in 2..(m + 1) /\ (m - k) - 1 = m - (k + 1) /\ k < m
      BY <1>1, <2>4
    <3> QED
      BY <1>1, <2>2, <2>3, <2>4, <3>1 DEF Upward
  <2>5. CASE k + 1 = m
    <3>1. m - k = 1 /\ ~(k + 1 < m) /\ k < m
      BY <1>1, <2>5
    <3> QED
      BY <1>1, <1>2, <2>2, <2>3, <3>1 DEF Upward
  <2>6. CASE k >= m
    <3>1. ~(k < m) /\ ~(k + 1 < m)
      BY <1>1, <2>6
    <3> QED
      BY <1>2, <2>2, <2>3, <3>1 DEF Upward
  <2>7. k + 1 < m \/ k + 1 = m \/ k >= m
    BY <1>1
  <2> QED
    BY <2>4, <2>5, <2>6, <2>7
<1>5. \A k \in Nat : k \in S
  <2> HIDE DEF S
  <2> QED
    BY <1>3, <1>4, Induction
<1>6. \A i \in 0..Records : i \in Nat /\ i <= Records
  BY RecordsCounted
<1> QED
  BY <1>5, <1>6

\* The path resolved from the parents noted is the one the names make up.
LEMMA ResolvedWay ==
    ASSUME Noted, scan.root = <<Drive>>,
           NEW p, NotedWay(p), NEW x, x = p[Len(p)], ~Endless(entries[x])
    PROVE  Append(ResolvePath(entries[x]), x) = p
<1>1. PICK m : m = Len(p) - 1
  OBVIOUS
<1>2. /\ m \in Nat /\ m >= 1 /\ Len(p) = m + 1 /\ p[1] = Drive /\ p \in Seq(Word)
      /\ \A j \in 2..(m + 1) : p[j] \in DOMAIN entries /\ entries[p[j]] = p[j - 1]
  <2>1. Len(p) \in Nat /\ Len(p) >= 2
    BY DEF NotedWay
  <2>2. m \in Nat /\ m >= 1 /\ Len(p) = m + 1
    BY <1>1, <2>1
  <2> QED
    BY <2>2 DEF NotedWay
<1>3. x = p[m + 1] /\ x \in DOMAIN entries /\ entries[x] = p[m] /\ p[m] \in OnVolume
  <2>1. m + 1 \in 2..(m + 1) /\ (m + 1) - 1 = m
    BY <1>2
  <2> QED
    BY <1>2, <2>1 DEF Noted, Container, OnVolume, Node
<1>4. PICK line : line = Line(p[m])
  OBVIOUS
<1>5. Climbs(line, p[m])
  BY <1>3, <1>4, LineClimbs
<1>6. \A i \in 0..Records : line[i] = IF i < m THEN p[m - i] ELSE Drive
  BY <1>1, <1>5, LineIsWay
<1>7. Drive \notin DOMAIN entries /\ Records \in Nat
  BY NodesAndEnds, RecordsCounted DEF Noted
<1>8. m - 1 <= Records
  <2> SUFFICES ASSUME ~(m - 1 <= Records) PROVE FALSE
    OBVIOUS
  <2>1. Records \in 0..Records /\ Records < m /\ m - Records \in 2..(m + 1)
    BY <1>2, <1>7
  <2>2. line[Records] \in DOMAIN entries
    BY <1>2, <1>6, <2>1
  <2> QED
    BY <1>3, <1>4, <2>2 DEF Endless
<1> DEFINE Top(d) == /\ line[d] \notin DOMAIN entries
                     /\ \A i \in 0..d - 1 : line[i] \in DOMAIN entries
<1>9. m - 1 \in 0..Records /\ Top(m - 1)
  <2>1. m - 1 \in 0..Records
    BY <1>2, <1>7, <1>8
  <2>2. m - (m - 1) = 1 /\ m - 1 < m
    BY <1>2
  <2>3. line[m - 1] = Drive
    BY <1>2, <1>6, <2>1, <2>2
  <2>4. \A i \in 0..(m - 1) - 1 : i \in 0..Records /\ i < m /\ m - i \in 2..(m + 1)
    BY <1>2, <1>7, <1>8
  <2> QED
    BY <1>2, <1>6, <1>7, <2>1, <2>3, <2>4
<1>10. \A d \in 0..Records : Top(d) => d = m - 1
  <2>1. ASSUME NEW d \in 0..Records, Top(d) PROVE d = m - 1
    <3>1. d < m - 1 => d \in 0..(m - 1) - 1
      BY <1>2, <1>7
    <3>2. d > m - 1 => m - 1 \in 0..d - 1
      BY <1>2, <1>7
    <3>3. d < m - 1 \/ d > m - 1 \/ d = m - 1
      BY <1>2, <1>7
    <3> QED
      BY <1>9, <2>1, <3>1, <3>2, <3>3
  <2> QED
    BY <2>1
<1>11. (CHOOSE d \in 0..Records : Top(d)) = m - 1
  <2> HIDE DEF Top
  <2> QED
    BY <1>9, <1>10
<1>12. ResolvePath(entries[x]) = <<Drive>> \o [i \in 1..(m - 1) |-> line[(m - 1) - i]]
  <2>1. PICK depth : depth = CHOOSE d \in 0..Records : Top(d)
    OBVIOUS
  <2>2. ResolvePath(entries[x]) = scan.root \o [i \in 1..depth |-> line[depth - i]]
    BY <1>3, <1>4, <2>1 DEF ResolvePath
  <2>3. depth = m - 1
    BY <1>11, <2>1
  <2> QED
    BY <2>2, <2>3
<1>13. \A i \in 1..(m - 1) : line[(m - 1) - i] = p[i + 1]
  <2>1. \A i \in 1..(m - 1) : /\ (m - 1) - i \in 0..Records /\ (m - 1) - i < m
                              /\ m - ((m - 1) - i) = i + 1
    BY <1>2, <1>7, <1>8
  <2> QED
    BY <1>6, <2>1
<1>14. \A i \in 1..(m + 1) : p[i] \in Word
  BY <1>2
<1>15. PICK rest : rest = [i \in 1..(m - 1) |-> p[i + 1]]
  OBVIOUS
<1>16. rest \in Seq(Word) /\ Len(rest) = m - 1 /\ \A i \in 1..(m - 1) : rest[i] = p[i + 1]
  <2>1. \A i \in 1..(m - 1) : i + 1 \in 1..(m + 1)
    BY <1>2
  <2>2. m - 1 \in Nat
    BY <1>2
  <2> QED
    BY <1>14, <1>15, <2>1, <2>2
<1>17. ResolvePath(entries[x]) = <<Drive>> \o rest
  BY <1>12, <1>13, <1>15
<1>18. PICK q : q = Append(<<Drive>> \o rest, x)
  OBVIOUS
<1>19. /\ q \in Seq(Word) /\ Len(q) = m + 1 /\ q[1] = Drive /\ q[m + 1] = x
       /\ \A i \in 1..(m - 1) : q[i + 1] = rest[i]
  <2>1. Drive \in Word /\ x \in Word
    BY <1>2, <1>3, <1>14 DEF Word, Place
  <2>2. PICK r : r = <<Drive>> \o rest
    OBVIOUS
  <2>3. /\ r \in Seq(Word) /\ Len(r) = m /\ r[1] = Drive
        /\ \A i \in 1..(m - 1) : r[i + 1] = rest[i] /\ i + 1 \in 1..m
    BY <1>2, <1>16, <2>1, <2>2
  <2>4. q = Append(r, x) /\ 1 \in 1..m
    BY <1>2, <1>18, <2>2
  <2>5. /\ q \in Seq(Word) /\ Len(q) = m + 1 /\ q[m + 1] = x
        /\ \A i \in 1..m : q[i] = r[i]
    BY ONLY <1>2, <2>1, <2>3, <2>4
  <2> QED
    BY <2>3, <2>4, <2>5
<1>20. \A i \in 1..(m + 1) : q[i] = p[i]
  <2>1. ASSUME NEW i \in 1..(m + 1) PROVE q[i] = p[i]
    <3>1. i = 1 \/ i = m + 1 \/ (i - 1 \in 1..(m - 1) /\ (i - 1) + 1 = i)
      BY <1>2
    <3> QED
      BY <1>2, <1>3, <1>16, <1>19, <3>1
  <2> QED
    BY <2>1
<1>21. q = p
  BY <1>2, <1>19, <1>20
<1> QED
  BY <1>17, <1>18, <1>21

\* MftScanner and one file: it is still to be emitted, or was, or is not to be.
Listed(x, p, o, left, bag) ==
    /\ \A e \in DOMAIN bag : e.file = x => e = Found(x, p)
    /\ Found(x, p) \in DOMAIN bag =>
          /\ x \notin left /\ bag[Found(x, p)] = 1
          /\ p[1] = Drive /\ ~IsExcluded(p, o.excludedPaths)
    /\ p[1] = Drive /\ ~IsExcluded(p, o.excludedPaths) =>
          x \in left \/ Found(x, p) \in DOMAIN bag

RecordTypes ==
    /\ Noted /\ toEmit \subseteq DOMAIN entries \cap Files
    /\ frnOrder \in Seq(Node) /\ Range(frnOrder) = Node /\ med \in Nat \ {0}
    /\ pass \in {"read", "emit"} /\ scan.root = <<Drive>>

MftInv ==
    /\ pass = "read" => collected = EmptyBag /\ toEmit = {}
    /\ \A n \in DOMAIN entries \ touched : entries[n] = parent[n]
    /\ \A i \in 1..Len(frnOrder) :
          i < med /\ frnOrder[i] \notin touched /\ parent[frnOrder[i]] # Gone =>
             frnOrder[i] \in DOMAIN entries
    /\ pass = "emit" /\ WholeTableRead =>
          \A x \in Files \ touched : Listed(x, PathOf(x), scan, toEmit, collected)

\* What is in a folder that is there is on the drive.
LEMMA OnTheDrive ==
    ASSUME Tree, GoneIsEmpty, NEW x \in Node, NEW p, p = PathOf(x)
    PROVE  p[1] = Drive <=> parent[x] # Gone
<1>1. /\ Len(p) \in Nat /\ Len(p) >= 2 /\ p[1] \in {Drive, Gone} /\ p[Len(p)] = x
      /\ \A j \in 2..Len(p) : p[j] \in Node /\ parent[p[j]] = p[j - 1]
  BY OnTheWay
<1>2. CASE Len(p) = 2
  <2>1. 2 \in 2..Len(p) /\ 2 - 1 = 1
    BY <1>2
  <2>2. parent[x] = p[1]
    BY <1>1, <1>2, <2>1
  <2> QED
    BY <1>1, <2>2, NodesAndEnds
<1>3. CASE Len(p) # 2
  <2>1. /\ 2 \in 2..Len(p) /\ 3 \in 2..Len(p) /\ 2 - 1 = 1 /\ 3 - 1 = 2
        /\ Len(p) \in 2..Len(p) /\ Len(p) - 1 \in 2..Len(p)
    <3>1. PICK n : n = Len(p)
      OBVIOUS
    <3>2. n \in Nat /\ n >= 2 /\ n # 2
      BY <1>1, <1>3, <3>1
    <3>3. /\ 2 \in 2..n /\ 3 \in 2..n /\ 2 - 1 = 1 /\ 3 - 1 = 2
          /\ n \in 2..n /\ n - 1 \in 2..n
      BY ONLY <3>2
    <3> QED
      BY <3>1, <3>3
  <2>2. parent[p[2]] = p[1] /\ parent[p[3]] = p[2] /\ p[2] \in Node /\ p[3] \in Node
    BY <1>1, <2>1
  <2>3. p[1] # Gone
    BY <2>2 DEF GoneIsEmpty
  <2>4. parent[x] = p[Len(p) - 1] /\ p[Len(p) - 1] \in Node
    BY <1>1, <2>1
  <2> QED
    BY <1>1, <2>3, <2>4, NodesAndEnds
<1> QED
  BY <1>2, <1>3

\* The whole way to what was left alone is noted when all records are read.
LEMMA UntouchedNoted ==
    ASSUME TreeInv, RecordTypes, MftInv, WholeTableRead,
           NEW x \in Node, x \notin touched, NEW p, p = PathOf(x), p[1] = Drive
    PROVE  NotedWay(p)
<1>1. /\ Len(p) \in Nat /\ Len(p) >= 2 /\ p \in Seq(Word) /\ p[Len(p)] = x
      /\ \A j \in 2..Len(p) : p[j] \in Node /\ parent[p[j]] = p[j - 1]
  BY OnTheWay DEF TreeInv
<1>2. \A j \in 2..Len(p) : p[j] \notin touched
  BY UntouchedWay DEF TreeInv
<1>3. ASSUME NEW j \in 2..Len(p) PROVE p[j] \in DOMAIN entries /\ entries[p[j]] = p[j - 1]
  <2>1. p[j - 1] # Gone
    <3>1. j - 1 = 1 \/ j - 1 \in 2..Len(p)
      BY <1>1
    <3> QED
      BY <1>1, <3>1, NodesAndEnds
  <2>2. PICK i \in 1..Len(frnOrder) : frnOrder[i] = p[j]
    <3>1. p[j] \in Range(frnOrder) /\ DOMAIN frnOrder = 1..Len(frnOrder)
      BY <1>1 DEF RecordTypes
    <3> QED
      BY <3>1 DEF Range
  <2>3. i < med
    <3>1. Len(frnOrder) \in Nat /\ med \in Nat /\ med > Len(frnOrder)
      BY DEF RecordTypes, WholeTableRead
    <3> QED
      BY <3>1
  <2>4. p[j] \in DOMAIN entries
    BY <1>1, <1>2, <2>1, <2>2, <2>3 DEF MftInv
  <2> QED
    BY <1>1, <1>2, <2>4 DEF MftInv
<1> QED
  BY <1>1, <1>3 DEF NotedWay

LEMMA ReadRecordStep ==
    ASSUME TreeInv, RecordTypes, MftInv, ReadRecord, SameVolume
    PROVE  MftInv' /\ RecordTypes'
<1>1. PICK x : x = frnOrder[med]
  OBVIOUS
<1>2. /\ pass = "read" /\ pass' = "read" /\ med' = med + 1 /\ med \in 1..Len(frnOrder)
      /\ frnOrder' = frnOrder /\ toEmit' = toEmit /\ collected' = collected /\ x \in Node
      /\ entries' = IF parent[x] = Gone THEN entries
                    ELSE [n \in DOMAIN entries \cup {x} |->
                            IF n = x THEN parent[x] ELSE entries[n]]
  <2>1. ~(med > Len(frnOrder)) /\ med \in Nat \ {0} /\ frnOrder \in Seq(Node)
    BY DEF ReadRecord, WholeTableRead, RecordTypes
  <2>2. med \in 1..Len(frnOrder)
    BY <2>1
  <2>3. x \in Node
    BY <1>1, <2>1, <2>2
  <2> QED
    BY <1>1, <2>2, <2>3 DEF ReadRecord
<1>3. parent' = parent /\ touched' = touched /\ scan' = scan
  BY DEF SameVolume
<1>4. /\ \A n \in DOMAIN entries' : n \in DOMAIN entries \/ (n = x /\ parent[x] # Gone)
      /\ DOMAIN entries \subseteq DOMAIN entries'
      /\ parent[x] # Gone => x \in DOMAIN entries'
      /\ \A n \in DOMAIN entries' :
            \/ entries'[n] = parent[n] /\ parent[n] # Gone
            \/ n \in DOMAIN entries /\ entries'[n] = entries[n]
  <2>1. CASE parent[x] = Gone
    BY <1>2, <2>1
  <2>2. CASE parent[x] # Gone
    <3>1. entries' = [n \in DOMAIN entries \cup {x} |->
                        IF n = x THEN parent[x] ELSE entries[n]]
      BY <1>2, <2>2
    <3> QED
      BY <2>2, <3>1
  <2> QED
    BY <2>1, <2>2
<1>5. parent[x] # Gone => parent[x] \in Container
  BY <1>2 DEF TreeInv, Tree
<1>6. RecordTypes'
  <2>1. Noted'
    <3>1. \A n \in DOMAIN entries' :
             n \in Node /\ (parent[n] # Gone => parent[n] \in Container)
      BY <1>2, <1>4 DEF RecordTypes, Noted, TreeInv, Tree
    <3> QED
      BY <1>4, <3>1 DEF RecordTypes, Noted
  <2>2. med' \in Nat \ {0}
    BY <1>2
  <2> QED
    BY <1>2, <1>3, <1>4, <2>1, <2>2 DEF RecordTypes
<1>7. \A i \in 1..Len(frnOrder') :
         i < med' /\ frnOrder'[i] \notin touched' /\ parent'[frnOrder'[i]] # Gone =>
            frnOrder'[i] \in DOMAIN entries'
  <2>1. \A i \in 1..Len(frnOrder) : i < med' => i < med \/ i = med
    BY <1>2
  <2> QED
    BY <1>1, <1>2, <1>3, <1>4, <2>1 DEF MftInv
<1>8. \A n \in DOMAIN entries' \ touched' : entries'[n] = parent'[n]
  BY <1>3, <1>4 DEF MftInv
<1> QED
  BY <1>2, <1>6, <1>7, <1>8 DEF MftInv

LEMMA EndReadingStep ==
    ASSUME TreeInv, RecordTypes, MftInv, EndReading, SameVolume
    PROVE  MftInv' /\ RecordTypes'
<1>1. /\ pass = "read" /\ pass' = "emit" /\ toEmit' = DOMAIN entries \cap Files
      /\ frnOrder' = frnOrder /\ med' = med /\ entries' = entries /\ collected' = collected
  BY DEF EndReading
<1>2. /\ parent' = parent /\ touched' = touched /\ scan' = scan
      /\ \A x : PathOf(x)' = PathOf(x)
  BY SamePaths DEF SameVolume
<1>3. RecordTypes'
  BY <1>1, <1>2 DEF RecordTypes, Noted
<1>4. ASSUME WholeTableRead, NEW x \in Files \ touched
      PROVE  Listed(x, PathOf(x), scan, toEmit', collected')
  <2>1. PICK p : p = PathOf(x)
    OBVIOUS
  <2>2. DOMAIN collected' = {}
    BY <1>1 DEF MftInv, EmptyBag, SetToBag
  <2>3. ASSUME p[1] = Drive PROVE x \in toEmit'
    <3>1. x \in Node /\ x \notin touched
      BY DEF Node
    <3>2. NotedWay(p) /\ p[Len(p)] = x
      BY <1>4, <2>1, <2>3, <3>1, UntouchedNoted, OnTheWay DEF TreeInv
    <3>3. Len(p) \in 2..Len(p)
      BY <3>2 DEF NotedWay
    <3> QED
      BY <1>1, <3>2, <3>3 DEF NotedWay
  <2> QED
    BY <2>1, <2>2, <2>3 DEF Listed
<1>5. WholeTableRead' <=> WholeTableRead
  BY <1>1 DEF WholeTableRead
<1> QED
  BY <1>1, <1>2, <1>3, <1>4, <1>5 DEF MftInv

\* Another file is emitted.
LEMMA OtherEmitted ==
    ASSUME NEW y, NEW p, NEW o, NEW left, NEW bag, Listed(y, p, o, left, bag),
           NEW x, x # y, NEW full, NEW bag2,
           bag2 = bag \/ bag2 = Counted(bag, Found(x, full))
    PROVE  Listed(y, p, o, left \ {x}, bag2)
<1>1. CASE bag2 = bag
  BY <1>1 DEF Listed
<1>2. CASE bag2 = Counted(bag, Found(x, full))
  <2>1. PICK e : e = Found(x, full)
    OBVIOUS
  <2>2. /\ DOMAIN bag2 = DOMAIN bag \cup {e}
        /\ \A f \in DOMAIN bag : f # e /\ bag[f] = 1 => bag2[f] = 1
    BY <1>2, <2>1 DEF Counted, SetToBag, (+)
  <2>3. e.file # y /\ Found(y, p).file = y /\ Found(y, p) # e
    BY <2>1 DEF Found
  <2> QED
    BY <2>2, <2>3 DEF Listed
<1> QED
  BY <1>1, <1>2

LEMMA EmitStep ==
    ASSUME TreeInv, RecordTypes, MftInv, NEW x \in Node, Emit(x), SameVolume
    PROVE  MftInv' /\ RecordTypes'
<1>1. PICK full : full = Append(ResolvePath(entries[x]), x)
  OBVIOUS
<1>2. /\ pass = "emit" /\ pass' = "emit" /\ x \in toEmit /\ ~Endless(entries[x])
      /\ toEmit' = toEmit \ {x}
      /\ frnOrder' = frnOrder /\ med' = med /\ entries' = entries
      /\ IsExcluded(full, scan.excludedPaths) => collected' = collected
      /\ ~IsExcluded(full, scan.excludedPaths) =>
            collected' = Counted(collected, Found(x, full))
  BY <1>1 DEF Emit, OnFile, Counted, Found
<1>3. /\ parent' = parent /\ touched' = touched /\ scan' = scan
      /\ \A y : PathOf(y)' = PathOf(y)
  BY SamePaths DEF SameVolume
<1>4. RecordTypes'
  BY <1>2, <1>3 DEF RecordTypes, Noted
<1>5. ASSUME WholeTableRead, NEW y \in Files \ touched
      PROVE  Listed(y, PathOf(y), scan, toEmit', collected')
  <2>1. PICK p, o : p = PathOf(y) /\ o = scan
    OBVIOUS
  <2>2. Listed(y, p, o, toEmit, collected)
    BY <1>2, <1>5, <2>1 DEF MftInv
  <2>3. CASE x # y
    <3>1. PICK left, bag2 : left = toEmit /\ bag2 = collected'
      OBVIOUS
    <3>2. bag2 = collected \/ bag2 = Counted(collected, Found(x, full))
      BY <1>2, <3>1
    <3>3. Listed(y, p, o, left \ {x}, bag2)
      BY <2>2, <2>3, <3>1, <3>2, OtherEmitted
    <3> QED
      BY <1>2, <2>1, <3>1, <3>3
  <2>4. CASE x = y
    <3>1. x \in Node /\ x \notin touched /\ x \in DOMAIN entries
      BY <1>2, <2>4 DEF RecordTypes
    <3>2. p[1] = Drive
      <4>1. entries[x] = parent[x] /\ entries[x] \in Container
        BY <3>1 DEF MftInv, RecordTypes, Noted
      <4>2. parent[x] # Gone
        BY <4>1, VolumeAssumption DEF Container, Node
      <4> QED
        BY <2>1, <2>4, <3>1, <4>2, OnTheDrive DEF TreeInv
    <3>3. NotedWay(p) /\ p[Len(p)] = x
      BY <1>5, <2>1, <2>4, <3>1, <3>2, UntouchedNoted, OnTheWay DEF TreeInv
    <3>4. full = p
      BY <1>1, <1>2, <3>3, ResolvedWay DEF RecordTypes
    <3>5. Found(x, p) \notin DOMAIN collected
      BY <1>2, <2>2, <2>4 DEF Listed
    <3>6. CASE IsExcluded(p, scan.excludedPaths)
      <4>1. collected' = collected
        BY <1>2, <3>4, <3>6
      <4>2. Listed(y, p, o, toEmit', collected)
        BY <2>1, <2>2, <2>4, <3>5, <3>6 DEF Listed
      <4> QED
        BY <2>1, <4>1, <4>2
    <3>7. CASE ~IsExcluded(p, scan.excludedPaths)
      <4>1. PICK bag2 : bag2 = collected'
        OBVIOUS
      <4>2. bag2 = Counted(collected, Found(x, p))
        BY <1>2, <3>4, <3>7, <4>1
      <4>3. DOMAIN bag2 = DOMAIN collected \cup {Found(x, p)} /\ bag2[Found(x, p)] = 1
        BY <3>5, <4>2, CountedFound
      <4>4. x \notin toEmit'
        BY <1>2
      <4>5. Listed(y, p, o, toEmit', bag2)
        BY <2>1, <2>2, <2>4, <3>2, <3>7, <4>3, <4>4 DEF Listed
      <4> QED
        BY <2>1, <4>1, <4>5
    <3> QED
      BY <3>6, <3>7
  <2> QED
    BY <2>3, <2>4
<1>6. WholeTableRead' <=> WholeTableRead
  BY <1>2 DEF WholeTableRead
<1> QED
  BY <1>2, <1>3, <1>4, <1>5, <1>6 DEF MftInv

\* Another program's move, while MftScanner is at work.
LEMMA MftMoved ==
    ASSUME TreeInv, RecordTypes, MftInv,
           NEW x \in Node, NEW to \in Container \cup {Gone}, Moved(x, to),
           UNCHANGED <<scan, collected, mft>>
    PROVE  MftInv' /\ RecordTypes'
<1>1. /\ TreeInv' /\ touched \subseteq touched'
      /\ \A y \in Node \ touched' : PathOf(y)' = PathOf(y) /\ parent'[y] = parent[y]
  BY MovedTree
<1>2. /\ scan' = scan /\ collected' = collected /\ frnOrder' = frnOrder /\ pass' = pass
      /\ med' = med /\ entries' = entries /\ toEmit' = toEmit
  BY DEF mft
<1>3. RecordTypes'
  BY <1>2 DEF RecordTypes, Noted
<1>4. \A n \in DOMAIN entries' \ touched' : entries'[n] = parent'[n]
  BY <1>1, <1>2 DEF MftInv, RecordTypes, Noted
<1>5. \A i \in 1..Len(frnOrder') :
         i < med' /\ frnOrder'[i] \notin touched' /\ parent'[frnOrder'[i]] # Gone =>
            frnOrder'[i] \in DOMAIN entries'
  <2>1. \A i \in 1..Len(frnOrder) : frnOrder[i] \in Node
    BY DEF RecordTypes
  <2> QED
    BY <1>1, <1>2, <2>1 DEF MftInv
<1>6. ASSUME pass = "emit", WholeTableRead, NEW y \in Files \ touched'
      PROVE  Listed(y, PathOf(y)', scan, toEmit, collected)
  <2>1. y \in Node \ touched' /\ y \in Files \ touched
    BY <1>1 DEF Node
  <2>2. PICK p : p = PathOf(y)
    OBVIOUS
  <2>3. PathOf(y)' = p /\ Listed(y, p, scan, toEmit, collected)
    BY <1>1, <1>6, <2>1, <2>2 DEF MftInv
  <2> QED
    BY <2>3
<1>7. WholeTableRead' <=> WholeTableRead
  BY <1>2 DEF WholeTableRead
<1> QED
  BY <1>2, <1>3, <1>4, <1>5, <1>6, <1>7 DEF MftInv

LEMMA MftStarted ==
    ASSUME TreeInv, touched' = {}, scan'.root = <<Drive>>, collected' = EmptyBag,
           pass = "read", med = 1, entries = NoEntries, toEmit = {}, MftStart
    PROVE  MftInv' /\ RecordTypes'
<1>1. /\ frnOrder' \in FrnOrders /\ pass' = "read" /\ med' = 1
      /\ entries' = <<>> /\ toEmit' = {}
  BY DEF MftStart, NoEntries
<1>2. frnOrder' \in Seq(Node) /\ Range(frnOrder') = Node /\ DOMAIN entries' = {}
  BY <1>1, MftAssumption
<1>3. \A i \in 1..Len(frnOrder') : ~(i < med')
  BY <1>1, <1>2
<1> QED
  BY <1>1, <1>2, <1>3 DEF MftInv, RecordTypes, Noted

----------------------------------------------------------------------------
(* A path that does not begin on the drive leads nowhere. *)

LEMMA NowhereElse ==
    ASSUME NEW path \in Seq(Word), path = <<>> \/ path[1] # Drive
    PROVE  Resolve(path) = Gone
<1>1. PICK at : Walks(at, path) /\ Resolve(path) = at[Len(path)]
  BY ResolveWalks
<1>2. PICK n : n = Len(path)
  OBVIOUS
<1>3. /\ n \in Nat /\ at[0] = Gone
      /\ \A k \in 1..n : at[k] = IF k = 1 THEN Gone ELSE Within(at[k - 1], path[k])
  <2>1. path = <<>> => 1..n = {}
    BY <1>2
  <2> QED
    BY <1>1, <1>2, <2>1 DEF Walks, Reached
<1> DEFINE S == {k \in Nat : k <= n => at[k] = Gone}
<1>4. 0 \in S
  BY <1>3
<1>5. ASSUME NEW k \in Nat, k \in S PROVE k + 1 \in S
  <2> SUFFICES ASSUME k + 1 <= n PROVE at[k + 1] = Gone
    OBVIOUS
  <2>1. k + 1 \in 1..n /\ (k + 1) - 1 = k /\ k <= n
    BY <1>3
  <2>2. at[k] = Gone
    BY <1>5, <2>1
  <2> QED
    BY <1>3, <2>1, <2>2 DEF Within
<1>6. \A k \in Nat : k \in S
  <2> HIDE DEF S
  <2> QED
    BY <1>4, <1>5, Induction
<1>7. at[n] = Gone
  BY <1>3, <1>6
<1> QED
  BY <1>1, <1>2, <1>7

LEMMA ResolvedFromDrive ==
    ASSUME Noted, scan.root = <<Drive>>, NEW frn \in OnVolume, ~Endless(frn), NEW x
    PROVE  Head(Append(ResolvePath(frn), x)) = Drive
<1>1. PICK line : line = Line(frn)
  OBVIOUS
<1>2. Climbs(line, frn) /\ Records \in Nat
  BY <1>1, LineClimbs, RecordsCounted
<1> DEFINE S == {d \in 0..Records : line[d] \notin DOMAIN entries}
           Top(d) == /\ line[d] \notin DOMAIN entries
                     /\ \A i \in 0..d - 1 : line[i] \in DOMAIN entries
<1>3. Records \in S
  BY <1>1, <1>2 DEF Endless
<1>4. PICK d \in S : \A m \in S : d <= m
  <2>1. S \subseteq Nat /\ S # {}
    BY <1>2, <1>3
  <2> HIDE DEF S
  <2> QED
    BY <2>1, LeastElement
<1>5. d \in 0..Records /\ Top(d)
  <2>1. \A i \in 0..d - 1 : i \in 0..Records /\ ~(d <= i)
    BY <1>2
  <2> QED
    BY <1>4, <2>1
<1>6. PICK depth : depth = CHOOSE n \in 0..Records : Top(n)
  OBVIOUS
<1>7. depth \in 0..Records /\ Top(depth)
  <2> HIDE DEF Top
  <2> QED
    BY <1>5, <1>6
<1>8. ResolvePath(frn) = <<Drive>> \o [i \in 1..depth |-> line[depth - i]]
  BY <1>1, <1>6 DEF ResolvePath
<1>9. PICK rest : rest = [i \in 1..depth |-> line[depth - i]]
  OBVIOUS
<1>10. rest \in Seq(OnVolume)
  <2>1. depth \in Nat /\ \A i \in 1..depth : depth - i \in 0..Records
    BY <1>2, <1>7
  <2>2. \A i \in 1..depth : line[depth - i] \in OnVolume
    BY <1>2, <2>1 DEF Climbs
  <2> QED
    BY <1>9, <2>1, <2>2
<1>11. PICK r : r = <<Drive>> \o rest
  OBVIOUS
<1>12. r \in Seq(OnVolume) /\ Len(r) >= 1 /\ r[1] = Drive
  <2>1. Drive \in OnVolume
    BY DEF OnVolume
  <2> QED
    BY <1>10, <1>11, <2>1
<1>13. Head(Append(r, x)) = Drive
  <2>1. PICK T : T = OnVolume \cup {x}
    OBVIOUS
  <2>2. r \in Seq(T) /\ x \in T
    <3>1. \A X, Y : X \subseteq Y => Seq(X) \subseteq Seq(Y)
      OBVIOUS
    <3> QED
      BY <1>12, <2>1, <3>1
  <2>3. Append(r, x) \in Seq(T) /\ Append(r, x) # <<>> /\ Append(r, x)[1] = r[1]
    BY <1>12, <2>2
  <2> QED
    BY <1>12, <2>3
<1> QED
  BY <1>8, <1>9, <1>11, <1>13

----------------------------------------------------------------------------
(* What is so throughout. *)

Busy == worker \in {"scanning", "done"}

ListingFromDrive == Open => listing.path # <<>> /\ listing.path[1] = Drive

CollectedFromDrive == \A e \in DOMAIN collected : e.file \in Files /\ Head(e.path) = Drive

ThreadTypes ==
    /\ worker \in {"none", "asked", "scanning", "done"}
    /\ ui \in {"off", "firstRun", "saving", "idle", "closing"}
    /\ ui = "off" => worker = "none"
    /\ job \subseteq Seq(Name) /\ afterSave \subseteq Seq(Name)

Idle ==
    /\ touched = {} /\ collected = EmptyBag /\ dirQueue = <<>> /\ listing = NoListing
    /\ pass = "read" /\ med = 1 /\ entries = NoEntries /\ toEmit = {}

BusyTypes ==
    /\ scan.root \in Seq(Name) /\ scan.excludedPaths \in List
    /\ scan.scanner \in {"findFile", "mft"}
    /\ scan.scanner = "mft" => RecordTypes /\ MftInv

ScanEnded ==
    IF scan.scanner = "mft" THEN pass = "emit" /\ (cancel \/ toEmit = {})
    ELSE ~Open /\ (cancel \/ dirQueue = <<>>)

ScanInv ==
    /\ TreeInv /\ ThreadTypes
    /\ dirQueue \in Seq(Seq(Word)) /\ listing \in ListingType /\ ListingFromDrive
    /\ CollectedFromDrive
    /\ Noted /\ toEmit \subseteq DOMAIN entries \cap Files
    /\ IF Busy THEN BusyTypes ELSE Idle
    /\ worker = "done" => ScanEnded

\* At work is FindFileScanner.
FollowInv == Busy /\ scan.scanner = "findFile" => FindFileInv

\* Before a scan and after it: nothing is left over.
LEMMA IdleTypes ==
    ASSUME Idle
    PROVE  /\ dirQueue \in Seq(Seq(Word)) /\ listing \in ListingType /\ ListingFromDrive
           /\ CollectedFromDrive
           /\ Noted /\ toEmit \subseteq DOMAIN entries \cap Files
<1>1. listing \in ListingType /\ ~Open
  BY NodesAndEnds DEF Idle, ListingType, NoListing, Open
<1>2. DOMAIN collected = {} /\ DOMAIN entries = {} /\ dirQueue = <<>>
  BY DEF Idle, EmptyBag, SetToBag, NoEntries
<1>3. <<>> \in Seq(Seq(Word))
  BY EmptySeq
<1> QED
  BY <1>1, <1>2, <1>3 DEF Idle, ListingFromDrive, CollectedFromDrive, Noted

LEMMA LayoutTree ==
    ASSUME parent = Layout, touched = {}
    PROVE  TreeInv
<1>1. Tree
  BY VolumeAssumption, LayoutAssumption DEF Tree, Forest, Container
<1>2. GoneIsEmpty
  BY LayoutAssumption DEF GoneIsEmpty
<1> QED
  BY <1>1, <1>2 DEF TreeInv, TouchedBelow

LEMMA InitScan == Init => ScanInv /\ FollowInv
<1> SUFFICES ASSUME Init PROVE ScanInv /\ FollowInv
  OBVIOUS
<1>1. /\ parent = Layout /\ touched = {} /\ worker = "none" /\ ui = "off"
      /\ job = {} /\ afterSave = {} /\ Idle
  BY DEF Init, MftInit, Idle, NoJob
<1>2. ~Busy /\ worker # "done"
  BY <1>1 DEF Busy
<1> QED
  BY <1>1, <1>2, LayoutTree, IdleTypes DEF ScanInv, FollowInv, ThreadTypes

\* The scan is over, or the process.
LEMMA EndScanStep ==
    ASSUME EndScan, ui' \in {"off", "firstRun", "saving", "idle", "closing"},
           afterSave' \subseteq Seq(Name)
    PROVE  ScanInv' /\ FollowInv'
<1>1. /\ parent' = Layout /\ touched' = {} /\ worker' = "none" /\ job' = {} /\ Idle'
  BY DEF EndScan, MftEnd, Idle, NoJob
<1>2. (Idle => /\ dirQueue \in Seq(Seq(Word)) /\ listing \in ListingType
               /\ ListingFromDrive /\ CollectedFromDrive
               /\ Noted /\ toEmit \subseteq DOMAIN entries \cap Files)'
  BY IdleTypes, PTL
<1>3. (parent = Layout /\ touched = {} => TreeInv)'
  BY LayoutTree, PTL
<1>4. TreeInv' /\ ThreadTypes' /\ ~Busy' /\ worker' # "done"
  BY <1>1, <1>3 DEF ThreadTypes, Busy
<1> QED
  BY <1>1, <1>2, <1>4 DEF ScanInv, FollowInv

\* Nothing of the scan or the volume changes, but that it may be cancelled.
LEMMA AsideStep ==
    ASSUME ScanInv, UNCHANGED noScanStep, worker' = worker,
           cancel' = cancel \/ cancel' = TRUE, ThreadTypes'
    PROVE  ScanInv' /\ (FollowInv => FollowInv')
<1>1. /\ parent' = parent /\ touched' = touched /\ scan' = scan /\ collected' = collected
      /\ dirQueue' = dirQueue /\ listing' = listing /\ frnOrder' = frnOrder
      /\ pass' = pass /\ med' = med /\ entries' = entries /\ toEmit' = toEmit
      /\ worker' = worker
  BY DEF noScanStep, volume, findFile, mft
<1>2. /\ \A x : PathOf(x)' = PathOf(x)
      /\ (Open' <=> Open) /\ (WholeTableRead' <=> WholeTableRead) /\ (Busy' <=> Busy)
  BY <1>1, SamePaths DEF Open, WholeTableRead, Busy
<1>3. TreeInv'
  BY <1>1 DEF ScanInv, TreeInv, Tree, Forest, GoneIsEmpty, TouchedBelow
<1>4. Noted' /\ ListingFromDrive' /\ CollectedFromDrive'
  BY <1>1, <1>2 DEF ScanInv, Noted, ListingFromDrive, CollectedFromDrive
<1>5. Busy => BusyTypes'
  <2>1. RecordTypes => RecordTypes'
    BY <1>1, <1>4 DEF RecordTypes
  <2>2. MftInv => MftInv'
    BY <1>1, <1>2 DEF MftInv
  <2> QED
    BY <1>1, <2>1, <2>2 DEF ScanInv, BusyTypes
<1>6. ~Busy => Idle'
  BY <1>1 DEF ScanInv, Idle
<1>7. worker = "done" => ScanEnded'
  BY <1>1, <1>2 DEF ScanInv, ScanEnded
<1>8. FollowInv => FollowInv'
  BY <1>1, <1>2 DEF FollowInv, FindFileInv
<1> QED
  BY <1>1, <1>2, <1>3, <1>4, <1>5, <1>6, <1>7, <1>8 DEF ScanInv

\* The indexer is asked for a job when it has none.
LEMMA AskedStep ==
    ASSUME ScanInv, UNCHANGED noScanStep, worker = "none", worker' = "asked", ThreadTypes'
    PROVE  ScanInv' /\ FollowInv'
<1>1. /\ parent' = parent /\ touched' = touched /\ collected' = collected
      /\ dirQueue' = dirQueue /\ listing' = listing /\ frnOrder' = frnOrder
      /\ pass' = pass /\ med' = med /\ entries' = entries /\ toEmit' = toEmit
  BY DEF noScanStep, volume, findFile, mft
<1>2. ~Busy /\ ~Busy' /\ worker' # "done"
  BY DEF Busy
<1>3. TreeInv'
  BY <1>1 DEF ScanInv, TreeInv, Tree, Forest, GoneIsEmpty, TouchedBelow
<1>4. Open' <=> Open
  BY <1>1 DEF Open
<1>5. Noted' /\ ListingFromDrive' /\ CollectedFromDrive'
  BY <1>1, <1>4 DEF ScanInv, Noted, ListingFromDrive, CollectedFromDrive
<1>6. Idle'
  BY <1>1, <1>2 DEF ScanInv, Idle
<1> QED
  BY <1>1, <1>2, <1>3, <1>5, <1>6 DEF ScanInv, FollowInv

Jobs == SUBSET Seq(Name)

LEMMA AskTypes ==
    ASSUME NEW what \in Jobs, Ask(what), ThreadTypes
    PROVE  /\ job' \in Jobs
           /\ \/ worker' = worker /\ cancel' = cancel
              \/ worker = "none" /\ worker' = "asked"
<1>1. CASE what = NoJob \/ IsIndexing \/ uses > MaxScanUses
  BY <1>1 DEF Ask, NoAsk, ThreadTypes, Jobs
<1>2. CASE ~(what = NoJob \/ IsIndexing \/ uses > MaxScanUses)
  BY <1>2 DEF Ask, IsIndexing
<1> QED
  BY <1>1, <1>2

LEMMA JobsOfAll == AllDrives \in Jobs /\ NoJob \in Jobs
<1>1. <<>> \in Seq(Name)
  BY EmptySeq
<1> QED
  BY <1>1 DEF AllDrives, NoJob, Jobs

LEMMA WindowStep ==
    ASSUME ScanInv, UNCHANGED noScanStep,
           job' \in Jobs, afterSave' \in Jobs,
           \/ worker' = worker /\ cancel' \in {cancel, TRUE}
           \/ worker = "none" /\ worker' = "asked",
           ui' \in {"firstRun", "saving", "idle", "closing"}
    PROVE  ScanInv' /\ (FollowInv => FollowInv')
<1>1. ThreadTypes'
  BY DEF ScanInv, ThreadTypes, Jobs
<1>2. CASE worker' = worker /\ cancel' \in {cancel, TRUE}
  BY <1>1, <1>2, AsideStep
<1>3. CASE worker = "none" /\ worker' = "asked"
  BY <1>1, <1>3, AskedStep
<1> QED
  BY <1>2, <1>3

LEMMA WindowSteps ==
    ASSUME ScanInv, ListsInv',
           \/ Launch \/ FirstRunDialogOk \/ FirstRunDialogCancel
           \/ SettingsDialogOk \/ OptionToggled \/ Save \/ Rebuild \/ Close
    PROVE  ScanInv' /\ (FollowInv => FollowInv')
<1> USE JobsOfAll
<1>1. ThreadTypes /\ job \in Jobs /\ afterSave \in Jobs
  BY DEF ScanInv, ThreadTypes, Jobs
<1>2. CASE Launch
  <2>1. UNCHANGED noScanStep /\ afterSave' = afterSave /\ ui' \in {"idle", "firstRun"}
    BY <1>2 DEF Launch
  <2>2. NoAsk \/ \E what \in {AllDrives, NoJob} : Ask(what)
    BY <1>2 DEF Launch
  <2>3. CASE NoAsk
    BY <1>1, <2>1, <2>3, WindowStep DEF NoAsk
  <2>4. CASE \E what \in {AllDrives, NoJob} : Ask(what)
    BY <1>1, <2>1, <2>4, WindowStep, AskTypes
  <2> QED
    BY <2>2, <2>3, <2>4
<1>3. CASE FirstRunDialogOk
  <2>1. UNCHANGED noScanStep /\ afterSave' \in {AllDrives, NoJob} /\ ui' = "saving" /\ NoAsk
    BY <1>3 DEF FirstRunDialogOk
  <2> QED
    BY <1>1, <2>1, WindowStep DEF NoAsk
<1>4. CASE FirstRunDialogCancel
  <2>1. /\ UNCHANGED noScanStep /\ afterSave' = afterSave /\ ui' = "idle"
        /\ \E what \in {AllDrives, NoJob} : Ask(what)
    BY <1>4 DEF FirstRunDialogCancel
  <2> QED
    BY <1>1, <2>1, WindowStep, AskTypes
<1>5. CASE SettingsDialogOk
  <2>1. UNCHANGED noScanStep /\ ui' = "saving" /\ NoAsk
    BY <1>5 DEF SettingsDialogOk
  <2>2. Range(mem'["SelectedDrives"]) \subseteq Seq(Name)
    BY DEF ListsInv, ListKeys, List, Range
  <2>3. PICK new, old : /\ new = Range(mem'["SelectedDrives"])
                        /\ afterSave' = CASE new \subseteq old -> NoJob
                                          [] old \subseteq new -> new \ old
                                          [] OTHER -> AllDrives
    BY <1>5 DEF SettingsDialogOk
  <2>4. afterSave' \in {NoJob, new \ old, AllDrives}
    BY <2>3
  <2>5. afterSave' \in Jobs
    BY <2>2, <2>3, <2>4 DEF Jobs
  <2> QED
    BY <1>1, <2>1, <2>5, WindowStep DEF NoAsk
<1>6. CASE OptionToggled
  <2>1. UNCHANGED noScanStep /\ afterSave' = NoJob /\ ui' = "saving" /\ NoAsk
    BY <1>6 DEF OptionToggled
  <2> QED
    BY <1>1, <2>1, WindowStep DEF NoAsk
<1>7. CASE Save
  <2>1. /\ UNCHANGED noScanStep /\ ui = "saving"
        /\ \/ ui' = "idle" /\ Ask(afterSave) /\ afterSave' = NoJob
           \/ ui' = ui /\ afterSave' = afterSave /\ NoAsk
    BY <1>7 DEF Save
  <2>2. CASE ui' = "idle" /\ Ask(afterSave) /\ afterSave' = NoJob
    BY <1>1, <2>1, <2>2, WindowStep, AskTypes
  <2>3. CASE ui' = ui /\ afterSave' = afterSave /\ NoAsk
    BY <1>1, <2>1, <2>3, WindowStep DEF NoAsk
  <2> QED
    BY <2>1, <2>2, <2>3
<1>8. CASE Rebuild
  <2>1. /\ UNCHANGED noScanStep /\ ui' = ui /\ ui = "idle" /\ afterSave' = afterSave
        /\ Ask(AllDrives)
    BY <1>8 DEF Rebuild, MayConfirm
  <2> QED
    BY <1>1, <2>1, WindowStep, AskTypes
<1>9. CASE Close
  <2>1. /\ UNCHANGED noScanStep /\ ui' = "closing" /\ cancel' = TRUE /\ worker' = worker
        /\ job' = job /\ afterSave' = afterSave
    BY <1>9 DEF Close
  <2> QED
    BY <1>1, <2>1, WindowStep
<1> QED
  BY <1>2, <1>3, <1>4, <1>5, <1>6, <1>7, <1>8, <1>9

LEMMA OffScan == ASSUME Off PROVE ScanInv' /\ FollowInv'
<1>1. EndScan /\ ui' = "off" /\ afterSave' = NoJob
  BY DEF Off
<1> QED
  BY <1>1, EndScanStep DEF NoJob

LEMMA HandOverScan == ASSUME ScanInv, HandOver PROVE ScanInv' /\ FollowInv'
<1>1. EndScan /\ ui' = ui /\ afterSave' = afterSave
  BY DEF HandOver, noUiStep
<1> QED
  BY <1>1, EndScanStep DEF ScanInv, ThreadTypes

LEMMA StartScanStep ==
    ASSUME ScanInv, ListsInv, StartScan
    PROVE  ScanInv' /\ (NamesOfFolders => FollowInv')
<1>1. /\ worker = "asked" /\ worker' = "scanning" /\ touched' = {} /\ collected' = EmptyBag
      /\ parent' = parent /\ cancel' = cancel /\ job' = job
      /\ ui' = ui /\ afterSave' = afterSave
  BY DEF StartScan, noUiStep, volume
<1>2. Idle /\ ~Busy /\ Busy'
  BY <1>1 DEF ScanInv, Busy
<1>3. \A root \in job \cup Range(FixedDrives) \cup Range(mem["SelectedDrives"]) :
         root \in Seq(Name)
  <2>1. FixedDrives \in Seq(Seq(Name)) /\ mem["SelectedDrives"] \in Seq(Seq(Name))
    BY SettingsAssumption DEF ListsInv, ListKeys, List
  <2> QED
    BY <2>1 DEF ScanInv, ThreadTypes, Range
<1>4. PICK root \in job \cup Range(FixedDrives) \cup Range(mem["SelectedDrives"]),
           scanner \in {"findFile", "mft"} :
        /\ scanner = "mft" => root = <<Drive>>
        /\ scan' = [root |-> root, excludedPaths |-> mem["ExcludedPaths"],
                    scanner |-> scanner]
        /\ IF scanner = "mft" THEN MftStart /\ UNCHANGED findFile
           ELSE FindFileStart(root) /\ UNCHANGED mft
  BY DEF StartScan
<1>5. /\ scan'.root \in Seq(Name) /\ scan'.root = root /\ scan'.excludedPaths \in List
      /\ scan'.scanner = scanner
  BY <1>3, <1>4 DEF ListsInv, ListKeys
<1>6. TreeInv'
  BY <1>1 DEF ScanInv, TreeInv, Tree, Forest, GoneIsEmpty, TouchedBelow
<1>7. ThreadTypes' /\ worker' # "done"
  BY <1>1 DEF ScanInv, ThreadTypes
<1>8. CollectedFromDrive'
  BY <1>1 DEF CollectedFromDrive, EmptyBag, SetToBag
<1>9. CASE scanner = "mft"
  <2>1. MftStart /\ dirQueue' = dirQueue /\ listing' = listing
    BY <1>4, <1>9 DEF findFile
  <2>2. scan'.root = <<Drive>>
    BY <1>4, <1>5, <1>9
  <2>3. MftInv' /\ RecordTypes'
    BY <1>1, <1>2, <2>1, <2>2, MftStarted DEF ScanInv, Idle
  <2>4. Open' <=> Open
    BY <2>1 DEF Open
  <2>5. ListingFromDrive'
    BY <2>1, <2>4 DEF ScanInv, ListingFromDrive
  <2>6. Noted' /\ toEmit' \subseteq DOMAIN entries' \cap Files /\ BusyTypes'
    BY <1>5, <1>9, <2>3 DEF RecordTypes, BusyTypes
  <2>7. FollowInv'
    BY <1>5, <1>9 DEF FollowInv
  <2> QED
    BY <1>2, <1>6, <1>7, <1>8, <2>1, <2>5, <2>6, <2>7 DEF ScanInv
<1>10. CASE scanner = "findFile"
  <2>1. /\ FindFileStart(scan'.root) /\ entries' = entries /\ toEmit' = toEmit
        /\ dirQueue' = <<scan'.root>> /\ listing' = NoListing
    BY <1>4, <1>5, <1>10 DEF mft, FindFileStart
  <2>2. dirQueue' \in Seq(Seq(Word)) /\ listing' \in ListingType /\ ListingFromDrive'
    <3>1. PICK r : r = scan'.root
      OBVIOUS
    <3>2. r \in Seq(Word) /\ dirQueue' = <<r>>
      BY <1>5, <2>1, <3>1, WordsOfPaths
    <3>3. dirQueue' \in Seq(Seq(Word))
      BY <3>2
    <3>4. listing' \in ListingType /\ ~Open'
      BY <2>1, NodesAndEnds DEF ListingType, NoListing, Open
    <3> QED
      BY <3>3, <3>4 DEF ListingFromDrive
  <2>3. Noted' /\ toEmit' \subseteq DOMAIN entries' \cap Files
    BY <2>1 DEF ScanInv, Noted
  <2>4. BusyTypes'
    BY <1>5, <1>10 DEF BusyTypes
  <2>5. ASSUME NamesOfFolders PROVE FollowInv'
    <3>1. FindFileInv'
      BY <1>1, <1>5, <2>1, <2>5, FindFileStarted DEF ScanInv
    <3> QED
      BY <3>1 DEF FollowInv
  <2> QED
    BY <1>2, <1>6, <1>7, <1>8, <2>2, <2>3, <2>4, <2>5 DEF ScanInv
<1> QED
  BY <1>4, <1>9, <1>10

LEMMA ResolveType == ASSUME NEW path \in Seq(Word) PROVE Resolve(path) \in Place
<1>1. PICK at : Walks(at, path) /\ Resolve(path) = at[Len(path)]
  BY ResolveWalks
<1>2. Len(path) \in 0..Len(path)
  OBVIOUS
<1> QED
  BY <1>1, <1>2 DEF Walks

\* What FindFileScanner's steps keep whatever the names of the settings stand for.
LEMMA FindFileTypes ==
    ASSUME Tree, dirQueue \in Seq(Seq(Word)), listing \in ListingType, ListingFromDrive,
           CollectedFromDrive, FindFileStep
    PROVE  /\ dirQueue' \in Seq(Seq(Word)) /\ listing' \in ListingType
           /\ ListingFromDrive' /\ CollectedFromDrive'
<1>1. NoListing \in ListingType
  BY NodesAndEnds DEF ListingType, NoListing
<1>2. CASE NextDirectory
  <2>1. PICK current : current = Head(dirQueue)
    OBVIOUS
  <2>2. /\ dirQueue # <<>> /\ dirQueue' = Tail(dirQueue) /\ collected' = collected
        /\ listing' = IF CanList(current) /\ ~IsExcluded(current, scan.excludedPaths)
                      THEN Listing(current) ELSE NoListing
    BY <1>2, <2>1 DEF NextDirectory
  <2>3. dirQueue' \in Seq(Seq(Word)) /\ current \in Seq(Word)
    BY <2>1, <2>2
  <2>4. CollectedFromDrive'
    BY <2>2 DEF CollectedFromDrive
  <2>5. CASE listing' = NoListing
    BY <1>1, <2>3, <2>4, <2>5 DEF ListingFromDrive, Open
  <2>6. CASE CanList(current) /\ listing' = Listing(current)
    <3>1. Resolve(current) \in Place /\ Resolve(current) # Gone
      BY <2>3, <2>6, ResolveType DEF CanList
    <3>2. current # <<>> /\ current[1] = Drive
      BY <2>3, <3>1, NowhereElse
    <3>3. listing' \in ListingType /\ listing'.path = current
      BY <2>3, <2>6, <3>1 DEF ListingType, Listing, Children
    <3> QED
      BY <2>3, <2>4, <3>2, <3>3 DEF ListingFromDrive
  <2> QED
    BY <2>2, <2>5, <2>6
<1>3. CASE EndListing
  BY <1>1, <1>3 DEF EndListing, ListingFromDrive, CollectedFromDrive, Open
<1>4. CASE \E y \in Node : Entry(y)
  <2>1. PICK y \in Node : Entry(y)
    BY <1>4
  <2>2. PICK full : full = Append(listing.path, y)
    OBVIOUS
  <2>3. /\ Open /\ listing' = [listing EXCEPT !.must = @ \ {y}, !.may = @ \ {y}]
        /\ \/ dirQueue' = dirQueue /\ collected' = collected
           \/ dirQueue' = Append(dirQueue, full) /\ collected' = collected
           \/ /\ dirQueue' = dirQueue /\ collected' = Counted(collected, Found(y, full))
              /\ y \in Files
    <3>1. CASE y \in Reparse
      <4>1. UNCHANGED <<dirQueue, collected>>
        BY <2>1, <3>1 DEF Entry
      <4> QED
        BY <2>1, <4>1 DEF Entry
    <3>2. CASE y \notin Reparse /\ y \in Dirs
      BY <2>1, <2>2, <3>2 DEF Entry
    <3>3. CASE y \notin Reparse /\ y \notin Dirs
      <4>1. OnFile(y, Append(listing.path, y)) /\ UNCHANGED dirQueue
        BY <2>1, <3>3 DEF Entry
      <4>2. y \in Files
        BY <3>3 DEF Node
      <4> QED
        BY <2>1, <2>2, <4>1, <4>2 DEF Entry, OnFile, Counted, Found
    <3> QED
      BY <3>1, <3>2, <3>3
  <2>4. /\ listing.path \in Seq(Word) /\ listing.path # <<>> /\ listing.path[1] = Drive
        /\ y \in Word
    BY <2>3 DEF ListingType, ListingFromDrive, Word, Place
  <2>5. full \in Seq(Word) /\ full # <<>> /\ full[1] = Drive /\ Head(full) = Drive
    <3>1. /\ Len(listing.path) \in Nat /\ Len(listing.path) >= 1
          /\ full \in Seq(Word) /\ Len(full) = Len(listing.path) + 1
          /\ \A i \in 1..Len(listing.path) : full[i] = listing.path[i]
      BY <2>2, <2>4
    <3>2. 1 \in 1..Len(listing.path) /\ Len(full) >= 2
      BY <3>1
    <3>3. full[1] = Drive /\ full # <<>>
      BY <2>4, <3>1, <3>2
    <3> QED
      BY <3>1, <3>3
  <2>6. dirQueue' \in Seq(Seq(Word))
    <3>1. Append(dirQueue, full) \in Seq(Seq(Word))
      BY <2>5
    <3> QED
      BY <2>3, <3>1
  <2>7. listing' \in ListingType /\ listing'.path = listing.path
    <3>1. listing' = [listing EXCEPT !.must = @ \ {y}, !.may = @ \ {y}]
      BY <2>3
    <3> QED
      BY <3>1 DEF ListingType
  <2>8. CollectedFromDrive'
    <3>1. CASE collected' = collected
      BY <3>1 DEF CollectedFromDrive
    <3>2. CASE collected' = Counted(collected, Found(y, full)) /\ y \in Files
      <4>1. PICK e : e = Found(y, full)
        OBVIOUS
      <4>2. DOMAIN collected' = DOMAIN collected \cup {e}
        BY <3>2, <4>1 DEF Counted, SetToBag, (+)
      <4>3. e.file \in Files /\ Head(e.path) = Drive
        BY <2>5, <3>2, <4>1 DEF Found
      <4> QED
        BY <4>2, <4>3 DEF CollectedFromDrive
    <3> QED
      BY <2>3, <3>1, <3>2
  <2> QED
    BY <2>4, <2>6, <2>7, <2>8 DEF ListingFromDrive
<1> QED
  BY <1>2, <1>3, <1>4 DEF FindFileStep

LEMMA FindFileScan ==
    ASSUME ScanInv, FindFile
    PROVE  ScanInv' /\ (FollowInv => FollowInv')
<1>1. /\ worker = "scanning" /\ scan.scanner = "findFile" /\ scan.scanner # "mft"
      /\ parent' = parent /\ touched' = touched /\ scan' = scan /\ cancel' = cancel
      /\ job' = job /\ entries' = entries /\ toEmit' = toEmit
      /\ ui' = ui /\ afterSave' = afterSave
  BY DEF FindFile, noUiStep, volume, mft
<1>2. Busy /\ BusyTypes /\ Tree
  BY <1>1 DEF Busy, ScanInv, TreeInv
<1>3. TreeInv'
  BY <1>1 DEF ScanInv, TreeInv, Tree, Forest, GoneIsEmpty, TouchedBelow
<1>4. Noted' /\ toEmit' \subseteq DOMAIN entries' \cap Files /\ BusyTypes'
  BY <1>1, <1>2 DEF ScanInv, Noted, BusyTypes
<1>5. CASE FindFileEnded /\ worker' = "done" /\ UNCHANGED <<findFile, collected>>
  <2>1. dirQueue' = dirQueue /\ listing' = listing /\ collected' = collected
    BY <1>5 DEF findFile
  <2>2. (Open' <=> Open) /\ \A x : PathOf(x)' = PathOf(x)
    BY <1>1, <2>1, SamePaths DEF Open
  <2>3. ThreadTypes' /\ Busy' /\ ScanEnded'
    BY <1>1, <1>5, <2>1, <2>2 DEF ScanInv, ThreadTypes, Busy, ScanEnded, FindFileEnded
  <2>4. ListingFromDrive' /\ CollectedFromDrive'
    BY <2>1, <2>2 DEF ScanInv, ListingFromDrive, CollectedFromDrive
  <2>5. FindFileInv => FindFileInv'
    BY <1>1, <2>1, <2>2 DEF FindFileInv
  <2> QED
    BY <1>1, <1>2, <1>3, <1>4, <2>1, <2>3, <2>4, <2>5 DEF ScanInv, FollowInv
<1>6. CASE FindFileStep /\ worker' = worker
  <2>1. /\ dirQueue' \in Seq(Seq(Word)) /\ listing' \in ListingType
        /\ ListingFromDrive' /\ CollectedFromDrive'
    BY <1>2, <1>6, FindFileTypes DEF ScanInv
  <2>2. ThreadTypes' /\ Busy' /\ worker' # "done"
    BY <1>1, <1>6 DEF ScanInv, ThreadTypes, Busy
  <2>3. ASSUME FindFileInv PROVE FindFileInv'
    <3>1. TreeInv /\ QueueTypes /\ SameVolume
      BY <1>1, <1>2 DEF ScanInv, QueueTypes, BusyTypes, SameVolume
    <3> QED
      BY <1>6, <2>3, <3>1, NextDirectoryStep, EndListingStep, EntryStep
         DEF FindFileStep, Entry
  <2> QED
    BY <1>1, <1>2, <1>3, <1>4, <2>1, <2>2, <2>3 DEF ScanInv, FollowInv
<1> QED
  BY <1>5, <1>6 DEF FindFile

LEMMA MftScan ==
    ASSUME ScanInv, Mft
    PROVE  ScanInv' /\ FollowInv'
<1>1. /\ worker = "scanning" /\ scan.scanner = "mft"
      /\ parent' = parent /\ touched' = touched /\ scan' = scan /\ cancel' = cancel
      /\ job' = job /\ dirQueue' = dirQueue /\ listing' = listing
      /\ ui' = ui /\ afterSave' = afterSave
  BY DEF Mft, noUiStep, volume, findFile
<1>2. Busy /\ BusyTypes /\ RecordTypes /\ MftInv
  BY <1>1 DEF Busy, ScanInv, BusyTypes
<1>3. TreeInv'
  BY <1>1 DEF ScanInv, TreeInv, Tree, Forest, GoneIsEmpty, TouchedBelow
<1>4. Open' <=> Open
  BY <1>1 DEF Open
<1>5. ListingFromDrive' /\ FollowInv'
  BY <1>1, <1>4 DEF ScanInv, ListingFromDrive, FollowInv
<1>6. CASE MftEnded /\ worker' = "done" /\ UNCHANGED <<mft, collected>>
  <2>1. /\ frnOrder' = frnOrder /\ pass' = pass /\ med' = med /\ entries' = entries
        /\ toEmit' = toEmit /\ collected' = collected
    BY <1>6 DEF mft
  <2>2. WholeTableRead' <=> WholeTableRead
    BY <2>1 DEF WholeTableRead
  <2>3. \A x : PathOf(x)' = PathOf(x)
    BY <1>1, SamePaths
  <2>4. RecordTypes' /\ MftInv'
    BY <1>1, <1>2, <2>1, <2>2, <2>3 DEF RecordTypes, Noted, MftInv
  <2>5. ThreadTypes' /\ Busy' /\ ScanEnded'
    BY <1>1, <1>6, <2>1 DEF ScanInv, ThreadTypes, Busy, ScanEnded, MftEnded
  <2>6. CollectedFromDrive'
    BY <2>1 DEF ScanInv, CollectedFromDrive
  <2>7. BusyTypes'
    BY <1>1, <1>2, <2>4 DEF BusyTypes
  <2> QED
    BY <1>1, <1>3, <1>5, <2>4, <2>5, <2>6, <2>7 DEF ScanInv, RecordTypes
<1>7. CASE MftStep /\ worker' = worker
  <2>1. TreeInv /\ SameVolume
    BY <1>1 DEF ScanInv, SameVolume
  <2>2. RecordTypes' /\ MftInv'
    BY <1>2, <1>7, <2>1, ReadRecordStep, EndReadingStep, EmitStep DEF MftStep
  <2>3. ThreadTypes' /\ Busy' /\ worker' # "done"
    BY <1>1, <1>7 DEF ScanInv, ThreadTypes, Busy
  <2>4. BusyTypes'
    BY <1>1, <1>2, <2>2 DEF BusyTypes
  <2>5. CollectedFromDrive'
    <3>1. CASE collected' = collected
      BY <3>1 DEF ScanInv, CollectedFromDrive
    <3>2. CASE \E x \in Node : Emit(x)
      <4>1. PICK x \in Node : Emit(x)
        BY <3>2
      <4>2. PICK full : full = Append(ResolvePath(entries[x]), x)
        OBVIOUS
      <4>3. /\ x \in toEmit /\ ~Endless(entries[x])
            /\ collected' = collected \/ collected' = Counted(collected, Found(x, full))
        BY <4>1, <4>2 DEF Emit, OnFile, Counted, Found
      <4>4. x \in Files /\ entries[x] \in OnVolume
        BY <1>2, <4>3 DEF RecordTypes, Noted, Container, OnVolume, Node
      <4>5. Head(full) = Drive
        BY <1>2, <4>2, <4>3, <4>4, ResolvedFromDrive DEF RecordTypes
      <4>6. PICK e : e = Found(x, full)
        OBVIOUS
      <4>7. collected' # collected => DOMAIN collected' = DOMAIN collected \cup {e}
        BY <4>3, <4>6 DEF Counted, SetToBag, (+)
      <4>8. e.file \in Files /\ Head(e.path) = Drive
        BY <4>4, <4>5, <4>6 DEF Found
      <4> QED
        BY <3>1, <4>7, <4>8 DEF ScanInv, CollectedFromDrive
    <3> QED
      BY <1>7, <3>1, <3>2 DEF MftStep, ReadRecord, EndReading
  <2> QED
    BY <1>1, <1>3, <1>5, <2>2, <2>3, <2>4, <2>5 DEF ScanInv, RecordTypes
<1> QED
  BY <1>6, <1>7 DEF Mft

LEMMA OthersMoveStep ==
    ASSUME ScanInv, OthersMove
    PROVE  ScanInv' /\ (FollowInv => FollowInv')
<1>1. /\ worker = "scanning" /\ worker' = worker /\ scan' = scan /\ cancel' = cancel
      /\ collected' = collected /\ dirQueue' = dirQueue /\ job' = job
      /\ entries' = entries /\ toEmit' = toEmit /\ UNCHANGED mft
      /\ ui' = ui /\ afterSave' = afterSave
  BY DEF OthersMove, noUiStep, mft
<1>2. PICK x \in Node, to \in Container \cup {Gone} :
        Relocate(x, to) /\ DuringListing(x, to)
  <2>1. \A x \in Node : MayMove[x] \subseteq Container \cup {Gone}
    BY VolumeAssumption DEF Container
  <2> QED
    BY <2>1 DEF OthersMove
<1>3. Moved(x, to)
  BY <1>2 DEF Relocate, Moved
<1>4. Busy /\ Busy' /\ BusyTypes /\ TreeInv /\ TreeInv'
  BY <1>1, <1>3, MovedTree DEF Busy, ScanInv
<1>5. listing' \in ListingType /\ ListingFromDrive'
  <2>1. CASE listing' = listing
    BY <2>1 DEF ScanInv, ListingFromDrive, Open
  <2>2. CASE Open /\ listing' = [listing EXCEPT !.must = @ \ {x}, !.may = @ \cup {x}]
    <3>1. listing' \in ListingType /\ listing'.path = listing.path
      BY <2>2 DEF ScanInv, ListingType
    <3> QED
      BY <2>2, <3>1 DEF ScanInv, ListingFromDrive
  <2> QED
    BY <1>2, <2>1, <2>2 DEF DuringListing
<1>6. BusyTypes'
  <2>1. ASSUME scan.scanner = "mft" PROVE RecordTypes' /\ MftInv'
    BY <1>1, <1>3, <1>4, <2>1, MftMoved DEF BusyTypes
  <2> QED
    BY <1>1, <1>4, <2>1 DEF BusyTypes
<1>7. ThreadTypes' /\ worker' # "done"
  BY <1>1 DEF ScanInv, ThreadTypes
<1>8. Noted' /\ CollectedFromDrive'
  BY <1>1 DEF ScanInv, Noted, CollectedFromDrive
<1>9. ASSUME FollowInv PROVE FollowInv'
  <2>1. ASSUME scan.scanner = "findFile" PROVE FindFileInv'
    <3>1. FindFileInv /\ QueueTypes
      BY <1>4, <1>9, <2>1 DEF FollowInv, ScanInv, QueueTypes, BusyTypes
    <3> QED
      BY <1>1, <1>2, <1>3, <1>4, <3>1, FindFileMoved
  <2> QED
    BY <1>1, <2>1 DEF FollowInv
<1> QED
  BY <1>1, <1>4, <1>5, <1>6, <1>7, <1>8, <1>9 DEF ScanInv

\* The invariant is inductive.
LEMMA NextScan ==
    ScanInv /\ ListsInv /\ ListsInv' /\ [Next]_vars =>
        ScanInv' /\ (NamesOfFolders /\ FollowInv => FollowInv')
<1> SUFFICES ASSUME ScanInv, ListsInv, ListsInv', [Next]_vars
             PROVE  ScanInv' /\ (NamesOfFolders /\ FollowInv => FollowInv')
  OBVIOUS
<1>1. CASE \/ Launch \/ FirstRunDialogOk \/ FirstRunDialogCancel
           \/ SettingsDialogOk \/ OptionToggled \/ Save \/ Rebuild \/ Close
  BY <1>1, WindowSteps
<1>2. CASE Closed \/ Crash \/ MftOverflow
  BY <1>2, OffScan DEF Closed, Crash, MftOverflow
<1>3. CASE StartScan
  BY <1>3, StartScanStep
<1>4. CASE FindFile
  BY <1>4, FindFileScan
<1>5. CASE Mft
  BY <1>5, MftScan
<1>6. CASE HandOver
  BY <1>6, HandOverScan
<1>7. CASE OthersMove
  BY <1>7, OthersMoveStep
<1>8. CASE UNCHANGED vars
  <2>1. UNCHANGED noScanStep /\ worker' = worker /\ cancel' = cancel
    BY <1>8 DEF vars, noScanStep
  <2>2. ThreadTypes'
    BY <1>8 DEF vars, ScanInv, ThreadTypes
  <2> QED
    BY <2>1, <2>2, AsideStep
<1> QED
  BY <1>1, <1>2, <1>3, <1>4, <1>5, <1>6, <1>7, <1>8 DEF Next, UI, Worker

----------------------------------------------------------------------------
(* What the scan should find is what it comes to. *)

LEMMA DueReachable ==
    ASSUME Tree, NamesOfFolders, NEW x \in Files, NEW p, p = PathOf(x),
           scan.root \in Seq(Name), scan.excludedPaths \in List,
           scan.scanner = "findFile"
    PROVE  Due(x) <=> Reachable(x, p, scan)
<1>1. /\ FilePath(x, p) /\ p \in Seq(Word) /\ Len(p) \in Nat /\ Len(p) >= 2 /\ x \notin Name
      /\ \A j \in 1..(Len(p) - 1) : p[j] \in Container \cup {Gone}
  <2>1. x \in Node
    BY DEF Node
  <2> QED
    BY <2>1, FilePaths, OnTheWay DEF NamesOfFolders
<1>2. PICK n, root, excluded :
        n = Len(p) /\ root = scan.root /\ excluded = scan.excludedPaths
  OBVIOUS
<1>3. ASSUME NEW e \in Seq(Name), IsPrefix(e, p) PROVE Len(e) \in 0..(n - 1)
  <2>1. PICK o : o = [root |-> e]
    OBVIOUS
  <2>2. e \in Seq(Word) /\ Range(e) \subseteq Name
    BY WordsOfPaths DEF Range
  <2>3. IsPrefix(e, e)
    BY <2>2, PrefixBegins DEF Begins
  <2>4. ScanPath(e, o)
    BY <2>1, <2>2, <2>3 DEF ScanPath, NamesOfFolders
  <2> QED
    BY <1>1, <1>2, <1>3, <2>4, ScanPathIsShort
<1>4. root \in Seq(Word) /\ Len(root) \in Nat /\ root \in Seq(Name)
  BY <1>2, WordsOfPaths
<1>5. \A e \in Range(excluded) : e \in Seq(Name) /\ e \in Seq(Word)
  BY <1>2, WordsOfPaths DEF List, Range
<1>6. ASSUME IsPrefix(root, p), NEW i \in Len(root)..(n - 1)
      PROVE  Passable(p, i, excluded) <=>
                CanList(SubSeq(p, 1, i)) /\ ~IsExcluded(SubSeq(p, 1, i), excluded)
  <2>1. PICK q : q = SubSeq(p, 1, i)
    OBVIOUS
  <2>2. i \in 0..Len(p)
    BY <1>1, <1>2, <1>4
  <2>3. q \in Seq(Word) /\ Len(q) = i /\ IsPrefix(q, p) /\ IsPrefix(root, q)
    <3>1. Len(root) <= i
      BY <1>4
    <3> QED
      BY <1>1, <1>4, <1>6, <2>1, <2>2, <3>1, PrefixOfPart
  <2>4. Range(q) \cap (Files \cup Reparse) = {}
    <3>1. \A j \in 1..i : q[j] = p[j] /\ j \in 1..(Len(p) - 1)
      BY <1>1, <1>2, <1>4, <2>1, <2>2
    <3>2. DOMAIN q = 1..i
      BY <2>3
    <3>3. (Container \cup {Gone}) \cap (Files \cup Reparse) = {}
      BY VolumeAssumption DEF Container, Node
    <3> QED
      BY <1>1, <3>1, <3>2, <3>3 DEF Range
  <2>5. ScanPath(q, scan)
    BY <1>2, <2>3, <2>4 DEF ScanPath
  <2> QED
    BY <1>2, <2>1, <2>3, <2>5, CanListPassable
<1>7. ASSUME NEW e \in Range(excluded), NEW i \in 0..n
      PROVE  IsPrefix(e, SubSeq(p, 1, i)) <=> IsPrefix(e, p) /\ Len(e) <= i
  BY <1>1, <1>2, <1>5, PrefixOfPart
<1>8. ASSUME IsPrefix(root, p)
      PROVE  (\E e \in Range(excluded) : IsPrefix(e, p)) <=>
                \E i \in Len(root)..(n - 1) : IsExcluded(SubSeq(p, 1, i), excluded)
  <2>1. n - 1 \in Len(root)..(n - 1) /\ \A i \in Len(root)..(n - 1) : i \in 0..n
    BY <1>1, <1>2, <1>3, <1>4, <1>8
  <2>2. ASSUME NEW e \in Range(excluded), IsPrefix(e, p)
        PROVE  IsExcluded(SubSeq(p, 1, n - 1), excluded)
    <3>1. Len(e) <= n - 1
      BY <1>1, <1>2, <1>3, <1>5, <2>2
    <3>2. IsPrefix(e, SubSeq(p, 1, n - 1))
      BY <1>7, <2>1, <2>2, <3>1
    <3> QED
      BY <3>2 DEF IsExcluded
  <2>3. ASSUME NEW i \in Len(root)..(n - 1), IsExcluded(SubSeq(p, 1, i), excluded)
        PROVE  \E e \in Range(excluded) : IsPrefix(e, p)
    BY <1>7, <2>1, <2>3 DEF IsExcluded
  <2> QED
    BY <2>1, <2>2, <2>3
<1>9. Due(x) <=> /\ IsPrefix(root, p) /\ x \notin Reparse
                 /\ ~\E e \in Range(excluded) : IsPrefix(e, p)
                 /\ \A i \in Len(root)..(n - 1) : CanList(SubSeq(p, 1, i))
  BY <1>2 DEF Due, Walkable
<1>10. Reachable(x, p, scan) <=>
          /\ IsPrefix(root, p) /\ x \notin Reparse
          /\ \A i \in Len(root)..(n - 1) : Passable(p, i, excluded)
  BY <1>2 DEF Reachable, Walked
<1> QED
  BY <1>6, <1>8, <1>9, <1>10

LEMMA FoundByFindFile ==
    ASSUME ScanInv, FollowInv, NamesOfFolders, scan.scanner = "findFile", Complete,
           NEW x \in Files \ touched, NEW p, p = PathOf(x)
    PROVE  /\ \A e \in DOMAIN collected : e.file = x => e = Found(x, p)
           /\ Found(x, p) \in DOMAIN collected => collected[Found(x, p)] = 1
           /\ Due(x) <=> Found(x, p) \in DOMAIN collected
<1>1. /\ worker = "done" /\ Busy /\ ~cancel /\ scan.scanner # "mft"
      /\ ~Open /\ dirQueue = <<>>
  BY DEF Complete, Busy, ScanInv, ScanEnded
<1>2. BusyTypes /\ FindFileInv /\ Tree
  BY <1>1 DEF ScanInv, FollowInv, TreeInv
<1>3. Followed(x, p, scan, dirQueue, listing, collected)
  BY <1>1, <1>2 DEF FindFileInv
<1>4. At(dirQueue, p) = {}
  BY <1>1 DEF At
<1>5. ~InListing(listing, p)
  BY <1>1 DEF InListing, Open, NoListing
<1>6. Due(x) <=> Reachable(x, p, scan)
  BY <1>2, DueReachable DEF BusyTypes
<1> QED
  BY <1>3, <1>4, <1>5, <1>6 DEF Followed

LEMMA FoundByMft ==
    ASSUME ScanInv, scan.scanner = "mft", Complete,
           NEW x \in Files \ touched, NEW p, p = PathOf(x)
    PROVE  /\ \A e \in DOMAIN collected : e.file = x => e = Found(x, p)
           /\ Found(x, p) \in DOMAIN collected => collected[Found(x, p)] = 1
           /\ Due(x) <=> Found(x, p) \in DOMAIN collected
<1>1. worker = "done" /\ Busy /\ ~cancel /\ pass = "emit" /\ toEmit = {} /\ WholeTableRead
  BY DEF Complete, Busy, ScanInv, ScanEnded
<1>2. RecordTypes /\ MftInv /\ Tree
  BY <1>1 DEF ScanInv, BusyTypes, TreeInv
<1>3. Listed(x, p, scan, toEmit, collected)
  BY <1>1, <1>2 DEF MftInv
<1>4. p \in Seq(Word) /\ Len(p) \in Nat /\ Len(p) >= 2
  BY <1>2, FilePaths DEF FilePath
<1>5. IsPrefix(scan.root, p) <=> p[1] = Drive
  <2>1. scan.root = <<Drive>> /\ Drive \in Word
    BY <1>2 DEF RecordTypes, Word, Place
  <2>2. <<Drive>> \in Seq(Word) /\ Len(<<Drive>>) = 1 /\ <<Drive>>[1] = Drive
    BY <2>1
  <2>3. Begins(<<Drive>>, p) <=> p[1] = Drive
    BY <1>4, <2>2 DEF Begins
  <2> QED
    BY <1>4, <2>1, <2>2, <2>3, PrefixBegins
<1>6. Due(x) <=> p[1] = Drive /\ ~IsExcluded(p, scan.excludedPaths)
  BY <1>5 DEF Due, IsExcluded
<1> QED
  BY <1>1, <1>3, <1>6 DEF Listed

LEMMA ScannedOnce ==
    ASSUME ScanInv, FollowInv, NamesOfFolders
    PROVE  UntouchedFilesCollectedOnce
<1> SUFFICES ASSUME Complete, NEW x \in Files \ touched
             PROVE  LET found == {e \in DOMAIN collected : e.file = x}
                        due   == [file |-> x, path |-> PathOf(x)]
                    IN  IF Due(x) THEN found = {due} /\ collected[due] = 1
                        ELSE found = {}
  BY DEF UntouchedFilesCollectedOnce
<1>1. PICK p : p = PathOf(x)
  OBVIOUS
<1>2. scan.scanner \in {"findFile", "mft"}
  BY DEF Complete, Busy, ScanInv, BusyTypes
<1>3. /\ \A e \in DOMAIN collected : e.file = x => e = Found(x, p)
      /\ Found(x, p) \in DOMAIN collected => collected[Found(x, p)] = 1
      /\ Due(x) <=> Found(x, p) \in DOMAIN collected
  <2>1. CASE scan.scanner = "findFile"
    BY <1>1, <2>1, FoundByFindFile
  <2>2. CASE scan.scanner = "mft"
    BY <1>1, <2>2, FoundByMft
  <2> QED
    BY <1>2, <2>1, <2>2
<1>4. Found(x, p) = [file |-> x, path |-> PathOf(x)] /\ Found(x, p).file = x
  BY <1>1 DEF Found
<1> QED
  BY <1>3, <1>4

LEMMA ScanTypes == IInv /\ ScanInv => TypeOK
<1> SUFFICES ASSUME IInv, ScanInv PROVE TypeOK
  OBVIOUS
<1>1. DOMAIN mem = Key /\ DOMAIN ini \subseteq Key /\ DOMAIN expected = Key
  BY DEF IInv, SettingsType
<1>2. \A k \in Key : expected[k] # {}
  BY DEF IInv, FileHoldsConfirmed
<1>3. parent \in [Node -> Container \cup {Gone}] /\ touched \subseteq Node
  BY DEF ScanInv, TreeInv, Tree
<1>4. \A e \in DOMAIN collected : e.file \in Files /\ Head(e.path) = Drive
  BY DEF ScanInv, CollectedFromDrive
<1>5. listing.must \cup listing.may \subseteq Node
  BY DEF ScanInv, ListingType
<1>6. DOMAIN entries \subseteq Node /\ toEmit \subseteq Files
  BY DEF ScanInv, Noted
<1> QED
  BY <1>1, <1>2, <1>3, <1>4, <1>5, <1>6 DEF TypeOK, ScanInv, ThreadTypes

\* The types of all variables, for all volumes, settings and moves of other
\* programs: in particular, what is collected is a file under a path of the
\* drive.
THEOREM TypeCorrect == Spec => []TypeOK
<1>1. RoundTripInv => ListsInv
  BY DEF RoundTripInv
<1> QED
  BY <1>1, InitIInv, NextIInv, InitRoundTrip, NextRoundTrip, InitScan, NextScan, ScanTypes,
     PTL DEF Spec

\* Whatever other programs create, move and delete while a scan is under way,
\* and whichever scanner it is: a scan that was not cut short has given each
\* file that was left alone to onFile once under its path if it is due, and not
\* at all if it is excluded or out of reach.  The roots and exclusions that
\* the user chose name folders that are no links.
THEOREM ScansAreExact ==
    ASSUME NamesOfFolders PROVE Spec => []UntouchedFilesCollectedOnce
<1>1. RoundTripInv => ListsInv
  BY DEF RoundTripInv
<1>2. ScanInv /\ FollowInv => UntouchedFilesCollectedOnce
  BY ScannedOnce
<1>3. ScanInv /\ FollowInv /\ ListsInv /\ ListsInv' /\ [Next]_vars => ScanInv' /\ FollowInv'
  BY NextScan
<1> QED
  BY <1>1, <1>2, <1>3, InitIInv, NextIInv, InitRoundTrip, NextRoundTrip, InitScan,
     PTL DEF Spec
============================================================================
