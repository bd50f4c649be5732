--------------------------- MODULE MatchingProofs ---------------------------
(***************************************************************************)
(* For every block width, text and query: the block search returns the     *)
(* first occurrence of the needle and reads nothing outside the text, and  *)
(* a query with separators that is no part of the text is decided by the   *)
(* sets of tokens.                                                         *)
(*                                                                         *)
(* The invariant of the search, IInv: nothing before the block, or the     *)
(* position in the tail, is an occurrence; within a block the mask has     *)
(* both bits or none of each character, and both of every occurrence that  *)
(* is left.  That of the tokens, TokenInv: the loop has collected the      *)
(* tokens that end before its position, and start is where the one it is   *)
(* in begins.                                                              *)
(***************************************************************************)
EXTENDS Matching, SequenceTheorems, TLAPS

NoneBefore(n) == \A at \in 0..(End - 1) : at < n => ~Occurs(at)

\* A character has both of its bits in the mask or none.
Paired(m) == \A o \in 0..(Width - 1) : 2 * o \in m <=> 2 * o + 1 \in m

\* The occurrences in the block are in the mask, unless they were ruled out.
Covered(m, n) == \A o \in 0..(Width - 1) : Occurs(n + o) => 2 * o \in m

StartInv == pc \in {"query", "find"} => p = 0

BlockInv == pc = "block" => End > 0 /\ NoneBefore(p)

BitsInv ==
    pc = "bits" =>
        /\ p + Width <= End
        /\ NoneBefore(p)
        /\ Paired(mask)
        /\ Covered(mask, p)

IInv ==
    /\ TypeOK
    /\ StartInv
    /\ BlockInv
    /\ BitsInv
    /\ FindsFirstOccurrence

----------------------------------------------------------------------------
(* The strings. *)

\* Lowercasing keeps the length and the characters.
LEMMA Strings ==
    ASSUME TypeOK
    PROVE  /\ hay \in Seq(Char) /\ needle \in Seq(Char)
           /\ Len(hay) \in Nat /\ Len(needle) \in Nat /\ Len(needle) >= 2
           /\ End = Len(hay) - Len(needle) + 1 /\ End \in Int
<1>1. text \in Seq(Char) /\ query \in Seq(Char) /\ Len(query) >= 2
  BY MatchingAssumption DEF TypeOK
<1>2. ASSUME NEW s \in Seq(Char)
      PROVE  LowerSeq(s) \in Seq(Char) /\ Len(LowerSeq(s)) = Len(s)
  BY MatchingAssumption DEF LowerSeq
<1> QED
  BY <1>1, <1>2 DEF hay, needle, End

\* They stay the same while the entry is tested.
LEMMA StringsStay ==
    ASSUME UNCHANGED input
    PROVE  /\ hay' = hay /\ needle' = needle /\ End' = End
           /\ doTokenMatch' = doTokenMatch
BY DEF input, hay, needle, LowerSeq, End, doTokenMatch, QueryHasSeparators

\* What is said of occurrences carries over to the next state.
LEMMA OccursStays ==
    ASSUME UNCHANGED input
    PROVE  \A at : Occurs(at)' <=> Occurs(at)
BY StringsStay DEF Occurs, At

\* wmemcmp compares the needle with the text, character by character.
LEMMA EqualIsOccurs ==
    ASSUME TypeOK, NEW at \in 0..(End - 1)
    PROVE  Equal(at) <=> Occurs(at)
<1> DEFINE L   == Len(needle)
           cut == SubSeq(hay, at + 1, at + L)
<1>1. /\ hay \in Seq(Char) /\ needle \in Seq(Char) /\ L \in Nat /\ L >= 2
      /\ Len(hay) \in Nat /\ at \in Nat /\ at + L <= Len(hay)
  BY Strings
<1>2. \A n \in (at + 1)..(at + L) : hay[n] \in Char
  <2>1. \A n \in 1..Len(hay) : hay[n] \in Char
    BY <1>1
  <2> QED
    BY <1>1, <2>1
<1>3. /\ cut \in Seq(Char) /\ Len(cut) = L
      /\ \A n \in 1..L : cut[n] = hay[at + n]
  <2>1. at + 1 \in Int /\ at + L \in Int /\ at + 1 <= at + L
    BY <1>1
  <2>2. /\ cut \in Seq(Char)
        /\ Len(cut) = (at + L) - (at + 1) + 1
        /\ \A n \in 1..((at + L) - (at + 1) + 1) : cut[n] = hay[(at + 1) + n - 1]
    BY <1>2, <2>1, SubSeqProperties
  <2>3. (at + L) - (at + 1) + 1 = L /\ \A n \in 1..L : (at + 1) + n - 1 = at + n
    BY <1>1
  <2> QED
    BY <2>2, <2>3
<1>4. Equal(at) <=> cut = needle
  BY DEF Equal, Sub
<1>5. cut = needle <=> \A n \in 1..L : hay[at + n] = needle[n]
  <2>1. ASSUME \A n \in 1..L : hay[at + n] = needle[n]
        PROVE  cut = needle
    BY <1>1, <1>3, <2>1, SeqEqual
  <2> QED
    BY <1>3, <2>1
<1>6. (\A n \in 1..L : hay[at + n] = needle[n])
        <=> \A n \in 0..(L - 1) : At(hay, at + n) = At(needle, n)
  <2>1. ASSUME \A n \in 0..(L - 1) : At(hay, at + n) = At(needle, n),
               NEW n \in 1..L
        PROVE  hay[at + n] = needle[n]
    <3>1. n - 1 \in 0..(L - 1) /\ at + (n - 1) + 1 = at + n /\ (n - 1) + 1 = n
      BY <1>1
    <3> QED
      BY <2>1, <3>1 DEF At
  <2>2. ASSUME \A n \in 1..L : hay[at + n] = needle[n], NEW n \in 0..(L - 1)
        PROVE  At(hay, at + n) = At(needle, n)
    <3>1. n + 1 \in 1..L /\ at + (n + 1) = at + n + 1
      BY <1>1
    <3> QED
      BY <2>2, <3>1 DEF At
  <2> QED
    BY <2>1, <2>2
<1> QED
  BY <1>4, <1>5, <1>6 DEF Occurs

----------------------------------------------------------------------------
(* Masks. *)

\* Bits and characters.
LEMMA BitNumbers ==
    ASSUME NEW b \in 0..(2 * Width - 1)
    PROVE  /\ b \div 2 \in 0..(Width - 1)
           /\ b = 2 * (b \div 2) \/ b = 2 * (b \div 2) + 1
BY MatchingAssumption

\* mask & (mask - 1) has all bits but the lowest.
LEMMA ClearsLowest ==
    ASSUME NEW m \in SUBSET Int, NEW low \in m, \A b \in m : low <= b
    PROVE  ClearLowest(m) = m \ {low}
<1>1. ASSUME NEW b \in m PROVE (\E a \in m : a < b) <=> b # low
  <2>1. b \in Int /\ low \in Int /\ low <= b /\ \A a \in m : a \in Int /\ low <= a
    OBVIOUS
  <2>2. b # low => low < b
    BY <2>1
  <2>3. b = low => ~\E a \in m : a < b
    BY <2>1
  <2> QED
    BY <2>2, <2>3
<1> QED
  BY <1>1 DEF ClearLowest

\* The lowest bit of a mask with paired bits is the first of its character;
\* clearing the two lowest bits removes this character and no other.
LEMMA LowestBits ==
    ASSUME NEW m \in SUBSET (0..(2 * Width - 1)), Paired(m),
           NEW bit \in m, \A b \in m : bit <= b
    PROVE  /\ bit = 2 * (bit \div 2)
           /\ ClearLowest(ClearLowest(m)) = m \ {bit, bit + 1}
<1> DEFINE o == bit \div 2
<1>1. /\ o \in 0..(Width - 1) /\ bit \in Int
      /\ bit = 2 * o \/ bit = 2 * o + 1
  BY BitNumbers
<1> HIDE DEF o
<1>2. bit = 2 * o /\ bit + 1 \in m
  <2>1. 2 * o \in m <=> 2 * o + 1 \in m
    BY <1>1 DEF Paired
  <2>2. bit # 2 * o + 1
    <3>1. SUFFICES ASSUME bit = 2 * o + 1 PROVE FALSE
      OBVIOUS
    <3>2. 2 * o \in m
      BY <2>1, <3>1
    <3> QED
      BY <1>1, <3>1, <3>2
  <2> QED
    BY <1>1, <2>1, <2>2
<1>3. \A b \in m : b \in Int
  OBVIOUS
<1>4. ClearLowest(m) = m \ {bit}
  BY <1>3, ClearsLowest
<1>5. \A b \in m \ {bit} : bit + 1 <= b
  BY <1>1, <1>3
<1>6. ClearLowest(m \ {bit}) = (m \ {bit}) \ {bit + 1}
  <2>1. m \ {bit} \in SUBSET Int /\ bit + 1 \in m \ {bit}
    BY <1>1, <1>2, <1>3
  <2> QED
    BY <1>5, <2>1, ClearsLowest
<1> QED
  BY <1>2, <1>4, <1>6 DEF o

----------------------------------------------------------------------------
(* The steps of the search. *)

LEMMA InitIInv == Init => IInv
<1> SUFFICES ASSUME Init PROVE IInv
  OBVIOUS
<1>1. TypeOK
  BY MatchingAssumption DEF Init, TypeOK, npos
<1>2. pc \in {"query", "find"} /\ p = 0
  BY DEF Init
<1> QED
  BY <1>1, <1>2 DEF IInv, StartInv, BlockInv, BitsInv, FindsFirstOccurrence

\* A block is loaded: its mask has all that may be the start of the needle.
LEMMA LoadBlockStep == ASSUME IInv, LoadBlock PROVE IInv'
<1>1. TypeOK /\ pc = "block" /\ pc' = "bits" /\ p' = p /\ UNCHANGED input
  BY DEF IInv, LoadBlock
<1>2. TypeOK'
  BY <1>1 DEF TypeOK, LoadBlock, input, tokenize, verdict, hay, LowerSeq
<1>3. /\ p + Width <= End /\ NoneBefore(p) /\ p \in Nat /\ End \in Int
      /\ Width \in Nat \ {0}
  BY <1>1, Strings, MatchingAssumption DEF IInv, BlockInv, LoadBlock, TypeOK
<1>4. \A o \in 0..(Width - 1) : /\ 2 * o \in 0..(2 * Width - 1)
                                /\ 2 * o + 1 \in 0..(2 * Width - 1)
                                /\ (2 * o) \div 2 = o
                                /\ (2 * o + 1) \div 2 = o
  BY <1>3
<1>5. \A o \in 0..(Width - 1) :
         /\ 2 * o \in mask' <=> At(hay, p + o) = At(needle, 0)
         /\ 2 * o + 1 \in mask' <=> At(hay, p + o) = At(needle, 0)
  BY <1>4 DEF LoadBlock
<1>6. Paired(mask')
  BY <1>5 DEF Paired
<1>7. Covered(mask', p)
  <2>1. SUFFICES ASSUME NEW o \in 0..(Width - 1), Occurs(p + o)
                 PROVE  2 * o \in mask'
    BY DEF Covered
  <2>2. 0 \in 0..(Len(needle) - 1) /\ p + o \in Int /\ p + o + 0 = p + o
    BY <1>1, <1>3, Strings
  <2>3. At(hay, p + o) = At(needle, 0)
    BY <2>1, <2>2 DEF Occurs
  <2> QED
    BY <1>5, <2>3
<1>8. BitsInv'
  BY <1>1, <1>3, <1>6, <1>7, StringsStay, OccursStays
     DEF BitsInv, NoneBefore, Paired, Covered
<1> QED
  BY <1>1, <1>2, <1>8 DEF IInv, StartInv, BlockInv, FindsFirstOccurrence

\* The first candidate of a block is the first occurrence, or none.
LEMMA TestBitStep == ASSUME IInv, TestBit PROVE IInv'
<1>1. /\ TypeOK /\ pc = "bits" /\ p' = p /\ UNCHANGED input
      /\ UNCHANGED <<tokenize, verdict>>
  BY DEF IInv, TestBit
<1>2. PICK bit \in mask :
         /\ \A b \in mask : bit <= b
         /\ IF Equal(p + bit \div 2)
            THEN Found(p + bit \div 2) /\ UNCHANGED mask
            ELSE mask' = ClearLowest(ClearLowest(mask)) /\ UNCHANGED <<pos, pc>>
  BY DEF TestBit
<1> DEFINE o  == bit \div 2
           at == p + o
<1>3. /\ p + Width <= End /\ NoneBefore(p) /\ Paired(mask) /\ Covered(mask, p)
      /\ mask \in SUBSET (0..(2 * Width - 1)) /\ p \in Nat /\ End \in Int
      /\ Width \in Nat \ {0} /\ Len(hay) \in Nat /\ Len(needle) \in Nat
      /\ Len(needle) >= 2 /\ End = Len(hay) - Len(needle) + 1
  BY <1>1, Strings, MatchingAssumption DEF IInv, BitsInv, TypeOK
<1>4. /\ o \in 0..(Width - 1) /\ bit = 2 * o
      /\ ClearLowest(ClearLowest(mask)) = mask \ {bit, bit + 1}
  BY <1>2, <1>3, BitNumbers, LowestBits
<1> HIDE DEF o
<1>5. at \in 0..(End - 1)
  BY <1>3, <1>4
<1>6. Equal(at) <=> Occurs(at)
  BY <1>1, <1>5, EqualIsOccurs
<1>7. CASE Equal(at)
  <2>1. pos' = at /\ pc' = "found" /\ mask' = mask
    BY <1>2, <1>7 DEF Found, o
  <2>2. TypeOK'
    <3>1. at \in 0..Len(hay)
      BY <1>3, <1>5
    <3>2. hay' = hay
      BY <1>1, StringsStay
    <3> HIDE DEF at
    <3> QED
      BY <1>1, <2>1, <3>1, <3>2 DEF TypeOK, input, tokenize, verdict
  <2>3. \A x \in 0..(at - 1) : ~Occurs(x)
    <3>1. SUFFICES ASSUME NEW x \in 0..(at - 1), Occurs(x) PROVE FALSE
      OBVIOUS
    <3>2. x \in 0..(End - 1) /\ x \in Int
      BY <1>3, <1>5
    <3>3. x >= p
      BY <1>3, <3>1, <3>2 DEF NoneBefore
    <3>4. x - p \in 0..(Width - 1) /\ p + (x - p) = x /\ x - p < o
      BY <1>3, <1>4, <3>2, <3>3
    <3>5. 2 * (x - p) \in mask
      BY <1>3, <3>1, <3>4 DEF Covered
    <3>6. bit <= 2 * (x - p)
      BY <1>2, <3>5
    <3> QED
      BY <1>3, <1>4, <3>2, <3>4, <3>6
  <2>4. Occurs(at)
    BY <1>6, <1>7
  <2>5. FindsFirstOccurrence'
    <3>1. pos' = at
      BY <2>1
    <3> HIDE DEF at
    <3> QED
      BY <1>1, <2>3, <2>4, <3>1, OccursStays DEF FindsFirstOccurrence
  <2> QED
    BY <2>1, <2>2, <2>5 DEF IInv, StartInv, BlockInv, BitsInv
<1>8. CASE ~Equal(at)
  <2>1. mask' = mask \ {bit, bit + 1} /\ UNCHANGED <<pos, pc>>
    BY <1>2, <1>4, <1>8 DEF o
  <2>2. TypeOK'
    BY <1>1, <2>1, StringsStay DEF TypeOK, input, tokenize, verdict
  <2>3. \A c \in 0..(Width - 1) : c # o =>
           /\ 2 * c \notin {bit, bit + 1}
           /\ 2 * c + 1 \notin {bit, bit + 1}
    BY <1>3, <1>4
  <2>4. Paired(mask')
    BY <1>3, <1>4, <2>1, <2>3 DEF Paired
  <2>5. Covered(mask', p)
    <3>1. SUFFICES ASSUME NEW c \in 0..(Width - 1), Occurs(p + c)
                   PROVE  2 * c \in mask'
      BY DEF Covered
    <3>2. c # o
      BY <1>6, <1>8, <3>1
    <3> QED
      BY <1>3, <2>1, <2>3, <3>1, <3>2 DEF Covered
  <2>6. BitsInv'
    BY <1>1, <1>3, <2>4, <2>5, StringsStay, OccursStays
       DEF BitsInv, NoneBefore, Paired, Covered
  <2> QED
    BY <1>1, <2>1, <2>2, <2>6 DEF IInv, StartInv, BlockInv, FindsFirstOccurrence
<1> QED
  BY <1>7, <1>8

\* All candidates of the block were tested.
LEMMA NextBlockStep == ASSUME IInv, NextBlock PROVE IInv'
<1>1. /\ TypeOK /\ pc = "bits" /\ pc' = "block" /\ mask = {} /\ p' = p + Width
      /\ UNCHANGED input /\ UNCHANGED <<mask, pos, tokenize, verdict>>
  BY DEF IInv, NextBlock
<1>2. /\ p + Width <= End /\ NoneBefore(p) /\ Covered({}, p)
      /\ p \in Nat /\ End \in Int /\ Width \in Nat \ {0}
  BY <1>1, Strings, MatchingAssumption DEF IInv, BitsInv, TypeOK
<1>3. TypeOK'
  <2>1. p + Width \in Nat
    BY <1>2
  <2> QED
    BY <1>1, <2>1, StringsStay DEF TypeOK, input, tokenize, verdict
<1>4. NoneBefore(p + Width)
  <2>1. SUFFICES ASSUME NEW at \in 0..(End - 1), at < p + Width, Occurs(at)
                 PROVE  FALSE
    BY DEF NoneBefore
  <2>2. at >= p /\ at \in Int
    BY <1>2, <2>1 DEF NoneBefore
  <2>3. at - p \in 0..(Width - 1) /\ p + (at - p) = at
    BY <1>2, <2>1, <2>2
  <2> QED
    BY <1>2, <2>1, <2>3 DEF Covered
<1>5. BlockInv'
  <2>1. End' = End /\ End > 0
    BY <1>1, <1>2, StringsStay
  <2>2. NoneBefore(p)'
    BY <1>1, <1>4, <2>1, OccursStays DEF NoneBefore
  <2> QED
    BY <2>1, <2>2 DEF BlockInv
<1> QED
  BY <1>1, <1>3, <1>5 DEF IInv, StartInv, BitsInv, FindsFirstOccurrence

\* The tail goes on from where the blocks end, one position at a time.
LEMMA TailPositionStep == ASSUME IInv, TailStep PROVE IInv'
<1>1. /\ TypeOK /\ pc = "block" /\ p < End /\ UNCHANGED input
      /\ UNCHANGED <<mask, tokenize, verdict>> /\ mask' = mask
  BY DEF IInv, TailStep
<1>2. /\ NoneBefore(p) /\ p \in Nat /\ End \in Int /\ End > 0
      /\ Len(hay) \in Nat /\ Len(needle) \in Nat /\ Len(needle) >= 2
      /\ End = Len(hay) - Len(needle) + 1
  BY <1>1, Strings DEF IInv, BlockInv, TypeOK
<1>3. p \in 0..(End - 1) /\ p \in 0..Len(hay)
  BY <1>1, <1>2
<1>4. Equal(p) <=> Occurs(p)
  BY <1>1, <1>3, EqualIsOccurs
<1>5. CASE At(hay, p) = At(needle, 0) /\ Equal(p)
  <2>1. pos' = p /\ pc' = "found" /\ p' = p
    BY <1>5 DEF TailStep, Found
  <2>2. TypeOK'
    BY <1>1, <1>3, <2>1, StringsStay DEF TypeOK, input, tokenize, verdict
  <2>3. Occurs(p) /\ \A x \in 0..(p - 1) : ~Occurs(x)
    BY <1>2, <1>3, <1>4, <1>5 DEF NoneBefore
  <2>4. FindsFirstOccurrence'
    BY <1>1, <2>1, <2>3, OccursStays DEF FindsFirstOccurrence
  <2> QED
    BY <2>1, <2>2, <2>4 DEF IInv, StartInv, BlockInv, BitsInv
<1>6. CASE ~(At(hay, p) = At(needle, 0) /\ Equal(p))
  <2>1. p' = p + 1 /\ pos' = pos /\ pc' = pc
    BY <1>6 DEF TailStep
  <2>2. ~Occurs(p)
    <3>1. 0 \in 0..(Len(needle) - 1) /\ p + 0 = p
      BY <1>2
    <3>2. Occurs(p) => At(hay, p) = At(needle, 0)
      BY <3>1 DEF Occurs
    <3> QED
      BY <1>4, <1>6, <3>2
  <2>3. TypeOK'
    <3>1. p + 1 \in Nat
      BY <1>2
    <3> QED
      BY <1>1, <2>1, <3>1, StringsStay DEF TypeOK, input, tokenize, verdict
  <2>4. NoneBefore(p + 1)
    BY <1>2, <2>2 DEF NoneBefore
  <2>5. BlockInv'
    BY <1>1, <1>2, <2>1, <2>4, StringsStay, OccursStays DEF BlockInv, NoneBefore
  <2> QED
    BY <1>1, <2>1, <2>3, <2>5 DEF IInv, StartInv, BitsInv, FindsFirstOccurrence
<1> QED
  BY <1>5, <1>6

\* The search begins, or ends without an occurrence.
LEMMA EndsStep == ASSUME IInv, Begin \/ NotFound PROVE IInv'
<1>1. /\ TypeOK /\ UNCHANGED input /\ p' = p /\ mask' = mask
      /\ UNCHANGED <<tokenize, verdict>>
  BY DEF IInv, Begin, NotFound
<1>2. End \in Int /\ p \in Nat
  BY <1>1, Strings DEF TypeOK
<1>3. /\ pc' \in {"found", "block"} /\ pos' \in {pos, npos}
      /\ pc' = "found" => pos' = npos
  BY DEF Begin, NotFound, Found
<1>4. TypeOK'
  BY <1>1, <1>3, StringsStay DEF TypeOK, input, tokenize, verdict
<1>5. CASE Begin
  <2>1. pc' = "found" => End <= 0
    BY <1>5 DEF Begin
  <2>2. pc' = "block" => End > 0
    BY <1>2, <1>5 DEF Begin, Found
  <2>3. FindsFirstOccurrence'
    <3>1. pc' = "found" => \A at \in 0..(End - 1) : ~Occurs(at)
      BY <1>2, <2>1
    <3> QED
      BY <1>1, <1>3, <3>1, StringsStay, OccursStays DEF FindsFirstOccurrence
  <2>4. NoneBefore(p)
    <3>1. p = 0
      BY <1>5 DEF Begin, IInv, StartInv
    <3> QED
      BY <1>2, <3>1 DEF NoneBefore
  <2>5. BlockInv'
    BY <1>1, <1>2, <2>2, <2>4, StringsStay, OccursStays DEF BlockInv, NoneBefore
  <2> QED
    BY <1>3, <1>4, <2>3, <2>5 DEF IInv, StartInv, BitsInv
<1>6. CASE NotFound
  <2>1. pc = "block" /\ pc' = "found" /\ p >= End
    BY <1>6 DEF NotFound, Found
  <2>2. \A at \in 0..(End - 1) : ~Occurs(at)
    BY <1>2, <2>1 DEF IInv, BlockInv, NoneBefore
  <2>3. FindsFirstOccurrence'
    BY <1>1, <1>3, <2>1, <2>2, StringsStay, OccursStays DEF FindsFirstOccurrence
  <2> QED
    BY <2>1, <1>4, <2>3 DEF IInv, StartInv, BlockInv, BitsInv
<1> QED
  BY <1>5, <1>6

----------------------------------------------------------------------------
(* The other steps. *)

\* A round of TokenizeView adds a token that is not empty, if any.
LEMMA WithTokenType ==
    ASSUME NEW s \in Seq(Char), NEW tokens \in SUBSET (Seq(Char) \ {<<>>}),
           i \in Nat, start \in Nat, i <= Len(s)
    PROVE  WithToken(s, tokens) \in SUBSET (Seq(Char) \ {<<>>})
<1>1. SUFFICES ASSUME i > start
               PROVE  Sub(s, start, i - start) \in Seq(Char) \ {<<>>}
  BY DEF WithToken
<1>2. /\ start + 1 \in Int /\ i \in Int /\ start + 1 <= i
      /\ start + (i - start) = i /\ i - (start + 1) + 1 > 0
  BY <1>1
<1>3. \A n \in (start + 1)..i : s[n] \in Char
  <2>1. \A n \in 1..Len(s) : s[n] \in Char
    OBVIOUS
  <2> QED
    BY <2>1
<1>4. /\ SubSeq(s, start + 1, i) \in Seq(Char)
      /\ Len(SubSeq(s, start + 1, i)) = i - (start + 1) + 1
  BY <1>2, <1>3, SubSeqProperties
<1>5. SubSeq(s, start + 1, i) # <<>>
  BY <1>2, <1>4
<1> QED
  BY <1>2, <1>4, <1>5 DEF Sub

LEMMA TokenizeStep == ASSUME IInv, TokenizeQuery \/ TokenizeName PROVE IInv'
<1>1. /\ TypeOK /\ UNCHANGED input /\ UNCHANGED find /\ UNCHANGED verdict
      /\ pc \in {"query", "name"} /\ pc = "query" => p = 0
  BY DEF IInv, StartInv, TokenizeQuery, TokenizeName
<1>2. i' \in Nat /\ start' \in Nat
  BY <1>1 DEF TokenizeQuery, TokenizeName, Advance, Rewind, TypeOK
<1>3. /\ queryTokens' \in SUBSET (Seq(Char) \ {<<>>})
      /\ nameTokens' \in SUBSET (Seq(Char) \ {<<>>})
  <2>1. /\ queryTokens \in SUBSET (Seq(Char) \ {<<>>})
        /\ nameTokens \in SUBSET (Seq(Char) \ {<<>>})
        /\ i \in Nat /\ start \in Nat
    BY <1>1 DEF TypeOK
  <2>2. CASE TokenizeQuery
    <3>1. nameTokens' = nameTokens
      BY <2>2 DEF TokenizeQuery
    <3>2. \/ i <= Len(needle) /\ queryTokens' = WithToken(needle, queryTokens)
          \/ queryTokens' = queryTokens
      BY <2>2 DEF TokenizeQuery
    <3> QED
      BY <1>1, <2>1, <3>1, <3>2, Strings, WithTokenType
  <2>3. CASE TokenizeName
    <3>1. queryTokens' = queryTokens
      BY <2>3 DEF TokenizeName
    <3>2. \/ i <= Len(hay) /\ nameTokens' = WithToken(hay, nameTokens)
          \/ nameTokens' = nameTokens
      BY <2>3 DEF TokenizeName
    <3> QED
      BY <1>1, <2>1, <3>1, <3>2, Strings, WithTokenType
  <2> QED
    BY <2>2, <2>3
<1>4. pc' \in {"query", "find", "name", "tokens"}
      /\ (pc' \in {"query", "find"} => pc = "query")
  BY DEF TokenizeQuery, TokenizeName
<1>5. TypeOK'
  BY <1>1, <1>2, <1>3, <1>4, StringsStay DEF TypeOK, input, find, verdict
<1> QED
  BY <1>1, <1>4, <1>5
     DEF IInv, StartInv, BlockInv, BitsInv, FindsFirstOccurrence, find

LEMMA VerdictStep == ASSUME IInv, CompareTokens \/ Judge PROVE IInv'
<1>1. TypeOK /\ UNCHANGED <<input, p, mask, tokenize>>
  BY DEF IInv, CompareTokens, Judge, find
<1>2. /\ pc' \in {"name", "done"} /\ pos' \in {pos, 0}
      /\ hit' \in BOOLEAN /\ tokenMatch' \in BOOLEAN
  <2>1. CASE CompareTokens
    BY <1>1, <2>1 DEF CompareTokens, Done, TypeOK
  <2>2. CASE Judge
    BY <1>1, <2>2 DEF Judge, Done, TypeOK, find, MatchesWholeWord
  <2> QED
    BY <2>1, <2>2
<1>3. 0 \in 0..Len(hay)
  BY <1>1, Strings
<1>4. TypeOK'
  BY <1>1, <1>2, <1>3, StringsStay DEF TypeOK, input, tokenize
<1> QED
  BY <1>2, <1>4 DEF IInv, StartInv, BlockInv, BitsInv, FindsFirstOccurrence

\* The invariant is inductive.
LEMMA NextIInv == IInv /\ [Next]_vars => IInv'
<1> SUFFICES ASSUME IInv, [Next]_vars PROVE IInv'
  OBVIOUS
<1>1. CASE FindStep
  BY <1>1, EndsStep, LoadBlockStep, TestBitStep, NextBlockStep, TailPositionStep
     DEF FindStep
<1>2. CASE TokenizeQuery \/ TokenizeName
  BY <1>2, TokenizeStep
<1>3. CASE CompareTokens \/ Judge
  BY <1>3, VerdictStep
<1>4. CASE Finished \/ UNCHANGED vars
  <2>1. UNCHANGED vars
    BY <1>4 DEF Finished
  <2>2. /\ UNCHANGED input /\ UNCHANGED find /\ UNCHANGED tokenize
        /\ UNCHANGED verdict /\ pc' = pc /\ p' = p /\ mask' = mask /\ pos' = pos
    BY <2>1 DEF vars, find
  <2>3. TypeOK'
    BY <2>2, StringsStay DEF IInv, TypeOK, input, find, tokenize, verdict
  <2>4. StartInv' /\ BlockInv' /\ BitsInv'
    BY <2>2, StringsStay, OccursStays
       DEF IInv, StartInv, BlockInv, BitsInv, NoneBefore, Covered, Paired
  <2>5. FindsFirstOccurrence'
    BY <2>2, StringsStay, OccursStays DEF IInv, FindsFirstOccurrence
  <2> QED
    BY <2>3, <2>4, <2>5 DEF IInv
<1> QED
  BY <1>1, <1>2, <1>3, <1>4 DEF Next

\* The variables keep their types: a position that is handed over for
\* highlighting lies in the text, and no token is empty.
THEOREM TypeCorrect == Spec => []TypeOK
<1>1. IInv => TypeOK
  BY DEF IInv
<1> QED
  BY <1>1, InitIInv, NextIInv, PTL DEF Spec

\* The block search, for 8, 16 or any number of characters to a block, finds
\* what a search position by position finds: the first occurrence.
THEOREM FirstOccurrence == Spec => []FindsFirstOccurrence
<1>1. IInv => FindsFirstOccurrence
  BY DEF IInv
<1> QED
  BY <1>1, InitIInv, NextIInv, PTL DEF Spec

\* Neither the loads of blocks nor the comparisons leave the text.
THEOREM NothingReadOutside == Spec => []ReadsInside
<1>1. IInv => ReadsInside
  <2>1. SUFFICES ASSUME IInv PROVE ReadsInside
    OBVIOUS
  <2>2. /\ TypeOK /\ p \in Nat /\ Width \in Nat \ {0}
        /\ Len(hay) \in Nat /\ Len(needle) \in Nat /\ Len(needle) >= 2
        /\ End = Len(hay) - Len(needle) + 1
    BY <2>1, Strings, MatchingAssumption DEF IInv, TypeOK
  <2>3. ASSUME pc = "bits"
        PROVE  /\ p + Width <= Len(hay)
               /\ \A b \in mask : p + b \div 2 + Len(needle) <= Len(hay)
    <3>1. p + Width <= End
      BY <2>1, <2>3 DEF IInv, BitsInv
    <3>2. \A b \in mask : b \div 2 \in 0..(Width - 1)
      BY <2>2, BitNumbers DEF TypeOK
    <3> QED
      BY <2>2, <3>1, <3>2
  <2>4. pc = "block" /\ p < End => p + Len(needle) <= Len(hay)
    BY <2>2
  <2> QED
    BY <2>3, <2>4 DEF ReadsInside
<1> QED
  BY <1>1, InitIInv, NextIInv, PTL DEF Spec

----------------------------------------------------------------------------
(* TokenMatcher. *)

\* The tokens of s that end before n.
RunsBefore(s, n) ==
    {Sub(s, r[1], r[2]) : r \in
        {q \in (0..Len(s)) \X (1..Len(s)) :
            IsRun(s, q[1], q[2]) /\ q[1] + q[2] < n}}

Scanned(s, tokens, n, from) ==
    /\ n \in 0..(Len(s) + 1)
    /\ tokens = RunsBefore(s, n)
    /\ n <= Len(s) =>
          /\ from \in 0..n
          /\ \A m \in from..(n - 1) : At(s, m) \notin Sep
          /\ from > 0 => At(s, from - 1) \in Sep

\* At most one token ends at the position: the one from start.
LEMMA TokenThatEnds ==
    ASSUME NEW s \in Seq(Char), NEW tokens, Scanned(s, tokens, i, start),
           i <= Len(s), NEW r \in (0..Len(s)) \X (1..Len(s)), r[1] + r[2] = i
    PROVE  /\ IsRun(s, r[1], r[2]) <=> r[1] = start /\ TokenEnds(s)
           /\ r[1] \in Nat /\ r[2] \in Nat \ {0} /\ start \in Nat /\ i \in Nat
<1> DEFINE from == r[1]
           len  == r[2]
<1>1. /\ Len(s) \in Nat /\ from \in Nat /\ len \in Nat \ {0}
      /\ from + len = i /\ i \in Nat /\ start \in 0..i /\ from < i
      /\ \A m \in start..(i - 1) : At(s, m) \notin Sep
      /\ start > 0 => At(s, start - 1) \in Sep
  BY DEF Scanned
<1> HIDE DEF from, len
<1>2. ASSUME IsRun(s, from, len) PROVE from = start /\ TokenEnds(s)
  <2>1. TokenEnds(s)
    BY <1>1, <1>2 DEF IsRun, TokenEnds
  <2>2. /\ \A m \in from..(i - 1) : At(s, m) \notin Sep
        /\ from > 0 => At(s, from - 1) \in Sep
    BY <1>1, <1>2 DEF IsRun
  <2>3. ~(from < start)
    <3>1. SUFFICES ASSUME from < start PROVE FALSE
      OBVIOUS
    <3>2. start > 0 /\ start - 1 \in from..(i - 1)
      BY <1>1, <3>1
    <3> QED
      BY <1>1, <2>2, <3>2
  <2>4. ~(start < from)
    <3>1. SUFFICES ASSUME start < from PROVE FALSE
      OBVIOUS
    <3>2. from > 0 /\ from - 1 \in start..(i - 1)
      BY <1>1, <3>1
    <3> QED
      BY <1>1, <2>2, <3>2
  <2> QED
    BY <1>1, <2>1, <2>3, <2>4
<1>3. ASSUME from = start, TokenEnds(s) PROVE IsRun(s, from, len)
  BY <1>1, <1>3 DEF IsRun, TokenEnds
<1> QED
  BY <1>1, <1>2, <1>3 DEF from, len

\* One round of the loop.
LEMMA Round ==
    ASSUME NEW s \in Seq(Char), NEW tokens, Scanned(s, tokens, i, start),
           i <= Len(s), NEW newTokens, newTokens = WithToken(s, tokens),
           Advance(s)
    PROVE  Scanned(s, newTokens, i', start')
<1>1. /\ Len(s) \in Nat /\ i \in Nat /\ start \in 0..i /\ i' = i + 1
      /\ tokens = RunsBefore(s, i)
      /\ \A m \in start..(i - 1) : At(s, m) \notin Sep
      /\ start > 0 => At(s, start - 1) \in Sep
      /\ start' = IF TokenEnds(s) THEN i + 1 ELSE start
  BY DEF Scanned, Advance
<1>2. newTokens = RunsBefore(s, i + 1)
  <2>1. ASSUME NEW t \in newTokens PROVE t \in RunsBefore(s, i + 1)
    <3>1. CASE t \in tokens
      <4>1. PICK r \in (0..Len(s)) \X (1..Len(s)) :
                   /\ IsRun(s, r[1], r[2]) /\ r[1] + r[2] < i
                   /\ t = Sub(s, r[1], r[2])
        BY <1>1, <3>1 DEF RunsBefore
      <4>2. r[1] \in Nat /\ r[2] \in Nat
        OBVIOUS
      <4>3. r[1] + r[2] < i + 1
        BY <1>1, <4>1, <4>2
      <4> QED
        BY <4>1, <4>3 DEF RunsBefore
    <3>2. CASE t \notin tokens
      <4>1. TokenEnds(s) /\ i > start /\ t = Sub(s, start, i - start)
        BY <2>1, <3>2 DEF WithToken
      <4>2. start \in 0..Len(s) /\ i - start \in 1..Len(s)
            /\ start + (i - start) = i /\ i < i + 1
        BY <1>1, <4>1
      <4>3. PICK r \in (0..Len(s)) \X (1..Len(s)) :
                   r[1] = start /\ r[2] = i - start
        <5>1. <<start, i - start>> \in (0..Len(s)) \X (1..Len(s))
          BY <4>2
        <5> QED
          BY <5>1
      <4>4. r[1] + r[2] = i /\ r[1] + r[2] < i + 1
        BY <4>2, <4>3
      <4>5. IsRun(s, r[1], r[2])
        BY <4>1, <4>3, <4>4, TokenThatEnds
      <4> QED
        BY <4>1, <4>3, <4>4, <4>5 DEF RunsBefore
    <3> QED
      BY <3>1, <3>2
  <2>2. ASSUME NEW t \in RunsBefore(s, i + 1) PROVE t \in newTokens
    <3>1. PICK r \in (0..Len(s)) \X (1..Len(s)) :
                 /\ IsRun(s, r[1], r[2]) /\ r[1] + r[2] < i + 1
                 /\ t = Sub(s, r[1], r[2])
      BY <2>2 DEF RunsBefore
    <3>2. r[1] \in Nat /\ r[2] \in Nat \ {0}
      OBVIOUS
    <3>3. CASE r[1] + r[2] < i
      <4>1. t \in tokens
        BY <1>1, <3>1, <3>3 DEF RunsBefore
      <4> QED
        BY <4>1 DEF WithToken
    <3>4. CASE ~(r[1] + r[2] < i)
      <4>1. r[1] + r[2] = i
        BY <1>1, <3>1, <3>2, <3>4
      <4>2. r[1] = start /\ TokenEnds(s)
        BY <3>1, <4>1, TokenThatEnds
      <4>3. i > start /\ r[2] = i - start
        BY <1>1, <3>2, <4>1, <4>2
      <4> QED
        BY <3>1, <4>2, <4>3 DEF WithToken
    <3> QED
      BY <3>3, <3>4
  <2> QED
    BY <2>1, <2>2
<1>3. ASSUME i + 1 <= Len(s)
      PROVE  /\ start' \in 0..(i + 1)
             /\ \A m \in start'..((i + 1) - 1) : At(s, m) \notin Sep
             /\ start' > 0 => At(s, start' - 1) \in Sep
  <2>1. CASE TokenEnds(s)
    <3>1. start' = i + 1 /\ (i + 1) - 1 = i /\ i # Len(s)
      BY <1>1, <1>3, <2>1
    <3>2. At(s, i) \in Sep
      BY <2>1, <3>1 DEF TokenEnds
    <3> QED
      BY <1>1, <3>1, <3>2
  <2>2. CASE ~TokenEnds(s)
    <3>1. start' = start /\ At(s, i) \notin Sep
      BY <1>1, <2>2 DEF TokenEnds
    <3>2. \A m \in start..((i + 1) - 1) : m = i \/ m \in start..(i - 1)
      BY <1>1
    <3> QED
      BY <1>1, <3>1, <3>2
  <2> QED
    BY <2>1, <2>2
<1> QED
  BY <1>1, <1>2, <1>3 DEF Scanned

\* Nothing was collected, and nothing is to be, at the beginning.
LEMMA ScanBegins ==
    ASSUME NEW s \in Seq(Char)
    PROVE  Scanned(s, {}, 0, 0)
<1>1. \A r \in (0..Len(s)) \X (1..Len(s)) :
         r[1] \in Nat /\ r[2] \in Nat /\ ~(r[1] + r[2] < 0)
  OBVIOUS
<1>2. RunsBefore(s, 0) = {}
  BY <1>1 DEF RunsBefore
<1> QED
  BY <1>2 DEF Scanned

\* When the loop ends it has all tokens.
LEMMA ScanEnds ==
    ASSUME NEW s \in Seq(Char), NEW tokens, NEW n, NEW from,
           Scanned(s, tokens, n, from), ~(n <= Len(s))
    PROVE  tokens = Runs(s)
<1>1. n = Len(s) + 1 /\ Len(s) \in Nat /\ tokens = RunsBefore(s, n)
  BY DEF Scanned
<1>2. \A r \in (0..Len(s)) \X (1..Len(s)) :
         IsRun(s, r[1], r[2]) => r[1] + r[2] < n
  BY <1>1 DEF IsRun
<1> QED
  BY <1>1, <1>2 DEF RunsBefore, Runs

NoOccurrence == \A at \in 0..(End - 1) : ~Occurs(at)

\* What is said of tokens carries over to the next state.
LEMMA TokensStay ==
    ASSUME UNCHANGED input
    PROVE  /\ NoOccurrence' <=> NoOccurrence
           /\ Runs(needle)' = Runs(needle)
           /\ Runs(hay)' = Runs(hay)
BY StringsStay, OccursStays DEF NoOccurrence, Runs, IsRun, Sub, At

\* The query is tokenized before the text is looked at, the name only when the
\* needle was not found in it.
QueryTokensInv ==
    /\ pc = "query" =>
          doTokenMatch /\ Scanned(needle, queryTokens, i, start)
    /\ pc # "query" /\ doTokenMatch => queryTokens = Runs(needle)

NameTokensInv ==
    /\ pc \in {"query", "find", "block", "bits", "found"} => nameTokens = {}
    /\ pc \in {"find", "block", "bits", "found"} => i = 0 /\ start = 0
    /\ pc \in {"name", "tokens"} => doTokenMatch /\ NoOccurrence
    /\ pc = "name" => Scanned(hay, nameTokens, i, start)
    /\ pc = "tokens" => nameTokens = Runs(hay)

NoVerdictYet == pc # "done" => ~hit /\ ~tokenMatch

TokenInv ==
    /\ QueryTokensInv
    /\ NameTokensInv
    /\ NoVerdictYet
    /\ TokenSetRule

LEMMA InitTokenInv == Init => TokenInv
<1> SUFFICES ASSUME Init PROVE TokenInv
  OBVIOUS
<1>1. TypeOK
  BY InitIInv DEF IInv
<1>2. /\ pc = IF doTokenMatch THEN "query" ELSE "find"
      /\ i = 0 /\ start = 0 /\ queryTokens = {} /\ nameTokens = {}
      /\ ~hit /\ ~tokenMatch
  BY DEF Init
<1>3. Scanned(needle, {}, 0, 0)
  BY <1>1, Strings, ScanBegins
<1> QED
  BY <1>2, <1>3
     DEF TokenInv, QueryTokensInv, NameTokensInv, NoVerdictYet, TokenSetRule

LEMMA TokenizeQueryInv == ASSUME IInv, TokenInv, TokenizeQuery PROVE TokenInv'
<1>1. /\ pc = "query" /\ UNCHANGED input /\ UNCHANGED verdict
      /\ nameTokens' = nameTokens /\ nameTokens = {} /\ doTokenMatch
      /\ Scanned(needle, queryTokens, i, start) /\ ~hit /\ ~tokenMatch
      /\ needle \in Seq(Char)
  BY Strings DEF IInv, TokenInv, QueryTokensInv, NameTokensInv, NoVerdictYet,
                 TokenizeQuery
<1>2. ~hit' /\ ~tokenMatch' /\ nameTokens' = {} /\ doTokenMatch'
  BY <1>1, StringsStay DEF verdict
<1>3. CASE i <= Len(needle)
  <2>1. /\ pc' = "query" /\ Advance(needle)
        /\ queryTokens' = WithToken(needle, queryTokens)
    BY <1>1, <1>3 DEF TokenizeQuery
  <2>2. Scanned(needle, queryTokens', i', start')
    BY <1>1, <1>3, <2>1, Round
  <2>3. Scanned(needle, queryTokens, i, start)'
    BY <1>1, <2>2, StringsStay DEF Scanned, RunsBefore, IsRun, Sub, At
  <2> QED
    BY <1>2, <2>1, <2>3
       DEF TokenInv, QueryTokensInv, NameTokensInv, NoVerdictYet, TokenSetRule
<1>4. CASE ~(i <= Len(needle))
  <2>1. pc' = "find" /\ i' = 0 /\ start' = 0 /\ queryTokens' = queryTokens
    BY <1>4 DEF TokenizeQuery, Rewind
  <2>2. queryTokens' = Runs(needle)'
    BY <1>1, <1>4, <2>1, ScanEnds, TokensStay
  <2> QED
    BY <1>2, <2>1, <2>2
       DEF TokenInv, QueryTokensInv, NameTokensInv, NoVerdictYet, TokenSetRule
<1> QED
  BY <1>3, <1>4

LEMMA TokenizeNameInv == ASSUME IInv, TokenInv, TokenizeName PROVE TokenInv'
<1>1. /\ pc = "name" /\ UNCHANGED input /\ UNCHANGED verdict
      /\ queryTokens' = queryTokens /\ queryTokens = Runs(needle)
      /\ doTokenMatch /\ NoOccurrence
      /\ Scanned(hay, nameTokens, i, start) /\ ~hit /\ ~tokenMatch
      /\ hay \in Seq(Char)
  BY Strings DEF IInv, TokenInv, QueryTokensInv, NameTokensInv, NoVerdictYet,
                 TokenizeName
<1>2. /\ ~hit' /\ ~tokenMatch' /\ doTokenMatch' /\ NoOccurrence'
      /\ queryTokens' = Runs(needle)'
  BY <1>1, StringsStay, TokensStay DEF verdict
<1>3. CASE i <= Len(hay)
  <2>1. /\ pc' = "name" /\ Advance(hay)
        /\ nameTokens' = WithToken(hay, nameTokens)
    BY <1>1, <1>3 DEF TokenizeName
  <2>2. Scanned(hay, nameTokens', i', start')
    BY <1>1, <1>3, <2>1, Round
  <2>3. Scanned(hay, nameTokens, i, start)'
    BY <1>1, <2>2, StringsStay DEF Scanned, RunsBefore, IsRun, Sub, At
  <2> QED
    BY <1>2, <2>1, <2>3
       DEF TokenInv, QueryTokensInv, NameTokensInv, NoVerdictYet, TokenSetRule
<1>4. CASE ~(i <= Len(hay))
  <2>1. pc' = "tokens" /\ nameTokens' = nameTokens
    BY <1>4 DEF TokenizeName
  <2>2. nameTokens' = Runs(hay)'
    BY <1>1, <1>4, <2>1, ScanEnds, TokensStay
  <2> QED
    BY <1>2, <2>1, <2>2
       DEF TokenInv, QueryTokensInv, NameTokensInv, NoVerdictYet, TokenSetRule
<1> QED
  BY <1>3, <1>4

LEMMA CompareTokensInv == ASSUME IInv, TokenInv, CompareTokens PROVE TokenInv'
<1>1. /\ pc = "tokens" /\ pc' = "done" /\ UNCHANGED input /\ UNCHANGED tokenize
      /\ queryTokens = Runs(needle) /\ nameTokens = Runs(hay)
      /\ doTokenMatch /\ NoOccurrence /\ ~tokenMatch
  BY DEF TokenInv, QueryTokensInv, NameTokensInv, NoVerdictYet,
         CompareTokens, Done
<1>2. /\ doTokenMatch' /\ NoOccurrence'
      /\ queryTokens' = Runs(needle)' /\ nameTokens' = Runs(hay)'
      /\ queryTokens' = queryTokens /\ nameTokens' = nameTokens
  BY <1>1, StringsStay, TokensStay DEF tokenize
<1>3. hit' <=> AllQueryTokensPresent
  BY DEF CompareTokens, Done
<1>4. hit' <=> Runs(needle)' # {} /\ Runs(needle)' \subseteq Runs(hay)'
  BY <1>2, <1>3 DEF AllQueryTokensPresent
<1>5. TokenSetRule'
  BY <1>2, <1>4 DEF TokenSetRule, NoOccurrence
<1> QED
  BY <1>1, <1>2, <1>5 DEF TokenInv, QueryTokensInv, NameTokensInv, NoVerdictYet

LEMMA JudgeInv == ASSUME IInv, TokenInv, Judge PROVE TokenInv'
<1>1. /\ pc = "found" /\ UNCHANGED input /\ UNCHANGED tokenize
      /\ tokenMatch' = tokenMatch /\ ~tokenMatch /\ ~hit
      /\ doTokenMatch => queryTokens = Runs(needle)
      /\ nameTokens = {} /\ i = 0 /\ start = 0
      /\ hay \in Seq(Char) /\ End \in Int
  BY Strings DEF IInv, TokenInv, QueryTokensInv, NameTokensInv, NoVerdictYet, Judge
<1>2. /\ doTokenMatch' = doTokenMatch /\ NoOccurrence' <=> NoOccurrence
      /\ queryTokens' = queryTokens /\ nameTokens' = {} /\ i' = 0 /\ start' = 0
      /\ doTokenMatch' => queryTokens' = Runs(needle)'
      /\ ~tokenMatch'
  BY <1>1, StringsStay, TokensStay DEF tokenize
<1>3. pos = npos => NoOccurrence
  <2>1. \A at \in 0..(End - 1) : at # npos
    BY <1>1 DEF npos
  <2> QED
    BY <1>1, <2>1 DEF IInv, FindsFirstOccurrence, NoOccurrence, Occurs
<1>4. pos # npos => ~NoOccurrence
  BY <1>1 DEF IInv, FindsFirstOccurrence, NoOccurrence, Occurs
<1>5. CASE pos = npos /\ doTokenMatch
  <2>1. pc' = "name" /\ hit' = hit
    BY <1>5 DEF Judge
  <2>2. Scanned(hay, nameTokens, i, start)'
    <3>1. Scanned(hay, {}, 0, 0)
      BY <1>1, ScanBegins
    <3> QED
      BY <1>1, <1>2, <3>1, StringsStay DEF Scanned, RunsBefore, IsRun, Sub, At
  <2> QED
    BY <1>1, <1>2, <1>3, <1>5, <2>1, <2>2
       DEF TokenInv, QueryTokensInv, NameTokensInv, NoVerdictYet, TokenSetRule
<1>6. CASE pos = npos /\ ~doTokenMatch
  <2>1. pc' = "done" /\ ~hit' /\ NoOccurrence' /\ ~doTokenMatch'
    BY <1>2, <1>3, <1>6 DEF Judge, Done
  <2>2. \A at \in (0..(End - 1))' : ~Occurs(at)'
    BY <2>1 DEF NoOccurrence
  <2>3. TokenSetRule'
    BY <1>2, <2>1, <2>2 DEF TokenSetRule
  <2> QED
    BY <1>2, <2>1, <2>3
       DEF TokenInv, QueryTokensInv, NameTokensInv, NoVerdictYet
<1>7. CASE pos # npos
  <2>1. pc' = "done" /\ (~wholeWord => hit')
    BY <1>7 DEF Judge, Done
  <2>2. \E at \in (0..(End - 1))' : Occurs(at)'
    <3>1. \E at \in 0..(End - 1) : Occurs(at)
      BY <1>4, <1>7 DEF NoOccurrence
    <3> QED
      BY <1>1, <3>1, StringsStay, OccursStays
  <2>3. ~tokenMatch' /\ (~wholeWord' => hit')
    BY <1>1, <1>2, <2>1 DEF input
  <2>4. TokenSetRule'
    BY <2>2, <2>3 DEF TokenSetRule
  <2> QED
    BY <1>2, <2>1, <2>4
       DEF TokenInv, QueryTokensInv, NameTokensInv, NoVerdictYet
<1> QED
  BY <1>5, <1>6, <1>7

\* The block search leaves the tokens alone.
LEMMA FindStepInv == ASSUME TokenInv, FindStep PROVE TokenInv'
<1>1. /\ pc \in {"find", "block", "bits"}
      /\ pc' \in {"block", "bits", "found"}
      /\ UNCHANGED input /\ UNCHANGED tokenize /\ UNCHANGED verdict
  BY DEF FindStep, Begin, LoadBlock, TestBit, NextBlock, TailStep, NotFound, Found
<1>2. /\ queryTokens' = queryTokens /\ nameTokens' = {} /\ i' = 0 /\ start' = 0
      /\ ~hit' /\ ~tokenMatch'
      /\ doTokenMatch => queryTokens = Runs(needle)
  BY <1>1 DEF TokenInv, QueryTokensInv, NameTokensInv, NoVerdictYet,
              tokenize, verdict
<1> QED
  BY <1>1, <1>2, StringsStay, TokensStay
     DEF TokenInv, QueryTokensInv, NameTokensInv, NoVerdictYet, TokenSetRule

LEMMA NextTokenInv == IInv /\ TokenInv /\ [Next]_vars => TokenInv'
<1> SUFFICES ASSUME IInv, TokenInv, [Next]_vars PROVE TokenInv'
  OBVIOUS
<1>1. CASE Finished \/ UNCHANGED vars
  <2>1. UNCHANGED vars
    BY <1>1 DEF Finished
  <2>2. /\ UNCHANGED input /\ pc' = pc /\ i' = i /\ start' = start
        /\ queryTokens' = queryTokens /\ nameTokens' = nameTokens
        /\ hit' = hit /\ tokenMatch' = tokenMatch /\ wholeWord' = wholeWord
    BY <2>1 DEF vars, input, tokenize, verdict
  <2>3. QueryTokensInv' /\ NameTokensInv'
    <3>1. \A t, n, from : /\ Scanned(needle, t, n, from)' <=>
                             Scanned(needle, t, n, from)
                          /\ Scanned(hay, t, n, from)' <=>
                             Scanned(hay, t, n, from)
      BY <2>2, StringsStay DEF Scanned, RunsBefore, IsRun, Sub, At
    <3> QED
      BY <2>2, <3>1, StringsStay, TokensStay
         DEF TokenInv, QueryTokensInv, NameTokensInv
  <2>4. TokenSetRule'
    <3>1. NoOccurrence' <=> NoOccurrence
      BY <2>2, TokensStay
    <3> QED
      BY <2>2, <3>1, StringsStay, TokensStay
         DEF TokenInv, TokenSetRule, NoOccurrence
  <2> QED
    BY <2>2, <2>3, <2>4 DEF TokenInv, NoVerdictYet
<1> QED
  BY <1>1, FindStepInv, TokenizeQueryInv, TokenizeNameInv, CompareTokensInv,
     JudgeInv DEF Next

\* Without the whole-word option an entry is a result if the query is a part
\* of its text or, for a query with separators and at least one token, all
\* tokens of the query are tokens of the text; and a match by tokens is only
\* looked for where the query is no part of the text.
THEOREM TokenSetsDecide == Spec => []TokenSetRule
<1>1. TokenInv => TokenSetRule
  BY DEF TokenInv
<1> QED
  BY <1>1, InitIInv, NextIInv, InitTokenInv, NextTokenInv, PTL DEF Spec
=============================================================================
