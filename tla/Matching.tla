------------------------------ MODULE Matching ------------------------------
(***************************************************************************)
(* The test of one entry in SearchEngine::SearchSubstring (src/core/search)*)
(* step by step: the block search of SimdSearch, then, for a query with    *)
(* separators, the comparison of token sets of TokenMatcher, then the      *)
(* whole-word test.                                                        *)
(*                                                                         *)
(* Offsets are counted from 0, as in the code: At(s, p) is s[p] there.     *)
(* Sse2Find and Avx2Find are the same loop with 8 and 16 characters to a   *)
(* block; a byte mask has two bits for each of them.  text is the name of  *)
(* the entry, or its path with matchPath.  Sorted vectors of tokens        *)
(* searched by binary_search are sets.                                     *)
(***************************************************************************)
EXTENDS Integers, Sequences

CONSTANTS
    Char,
    Lower,       \* towlower
    Sep,         \* IsTokenSep: the characters that separate tokens
    WordChar,    \* isWordChar: alphanumeric, or '_'
    Width,       \* characters in a block
    Texts,       \* the texts considered
    Queries      \* the queries considered

ASSUME MatchingAssumption ==
    /\ Lower \in [Char -> Char]
    /\ Sep \subseteq Char
    /\ WordChar \subseteq Char
    /\ Width \in Nat \ {0}
    /\ Texts \subseteq Seq(Char)
    /\ Queries \subseteq {q \in Seq(Char) : Len(q) >= 2}

VARIABLES
    text,
    query,
    caseSensitive,
    wholeWord,
    pc,
    p,             \* the position of the block, or of the tail
    mask,          \* bits of the block still to be examined
    pos,           \* where the needle was found, or npos
    i, start,      \* TokenizeView: its position, and where the token starts
    queryTokens,
    nameTokens,
    tokenMatch,
    hit            \* the entry is among the results

input == <<text, query, caseSensitive, wholeWord>>
find == <<p, mask, pos>>
tokenize == <<i, start, queryTokens, nameTokens>>
verdict == <<tokenMatch, hit>>

vars == <<input, pc, find, tokenize, verdict>>

npos == -1

LowerSeq(s) == [n \in 1..Len(s) |-> Lower[s[n]]]

\* haystackData, haystackLen and needle.
hay == IF caseSensitive THEN text ELSE LowerSeq(text)
needle == IF caseSensitive THEN query ELSE LowerSeq(query)

At(s, n) == s[n + 1]
Sub(s, from, len) == SubSeq(s, from + 1, from + len)

QueryHasSeparators == \E n \in 1..Len(query) : query[n] \in Sep

doTokenMatch == ~caseSensitive /\ QueryHasSeparators

Init ==
    /\ text \in Texts
    /\ query \in Queries
    /\ caseSensitive \in BOOLEAN
    /\ wholeWord \in BOOLEAN
    /\ pc = IF doTokenMatch THEN "query" ELSE "find"
    /\ p = 0
    /\ mask = {}
    /\ pos = npos
    /\ i = 0
    /\ start = 0
    /\ queryTokens = {}
    /\ nameTokens = {}
    /\ tokenMatch = FALSE
    /\ hit = FALSE

----------------------------------------------------------------------------
(* SimdFindSubstring. *)

\* Mutant: one position too many.
EndTooFar == Len(hay) - Len(needle) + 2

\* end: one past the last position at which the needle fits.
End == Len(hay) - Len(needle) + 1

\* wmemcmp(hay + at, needle, needleLen) == 0
Equal(at) == Sub(hay, at, Len(needle)) = needle

Found(at) ==
    /\ pos' = at
    /\ pc' = "found"

\* A needle that is longer than the text ends the search here.
Begin ==
    /\ pc = "find"
    /\ IF End <= 0 THEN Found(npos) ELSE pc' = "block" /\ UNCHANGED pos
    /\ UNCHANGED <<input, p, mask, tokenize, verdict>>

\* Both bits of each character of the block that equals the needle's first.
LoadBlock ==
    /\ pc = "block"
    /\ p + Width <= End
    /\ mask' = {b \in 0..(2 * Width - 1) : At(hay, p + b \div 2) = At(needle, 0)}
    /\ pc' = "bits"
    /\ UNCHANGED <<input, p, pos, tokenize, verdict>>

\* mask &= mask - 1
ClearLowest(m) == {b \in m : \E a \in m : a < b}

\* _BitScanForward, and the bits of that character are cleared.
TestBit ==
    /\ pc = "bits"
    /\ \E bit \in mask :
          /\ \A b \in mask : bit <= b
          /\ IF Equal(p + bit \div 2)
             THEN Found(p + bit \div 2) /\ UNCHANGED mask
             ELSE mask' = ClearLowest(ClearLowest(mask))
                  /\ UNCHANGED <<pos, pc>>
    /\ UNCHANGED <<input, p, tokenize, verdict>>

\* Mutant: the block is not advanced.
SameBlock ==
    /\ pc = "bits"
    /\ mask = {}
    /\ pc' = "block"
    /\ UNCHANGED <<input, find, tokenize, verdict>>

NextBlock ==
    /\ pc = "bits"
    /\ mask = {}
    /\ p' = p + Width
    /\ pc' = "block"
    /\ UNCHANGED <<input, mask, pos, tokenize, verdict>>

\* Mutant: blocks only.
NoTail ==
    /\ pc = "block"
    /\ p + Width > End
    /\ Found(npos)
    /\ UNCHANGED <<input, p, mask, tokenize, verdict>>

\* The positions after the last whole block, one by one.
TailStep ==
    /\ pc = "block"
    /\ p + Width > End
    /\ p < End
    /\ IF At(hay, p) = At(needle, 0) /\ Equal(p)
       THEN Found(p) /\ UNCHANGED p
       ELSE p' = p + 1 /\ UNCHANGED <<pos, pc>>
    /\ UNCHANGED <<input, mask, tokenize, verdict>>

NotFound ==
    /\ pc = "block"
    /\ p >= End
    /\ Found(npos)
    /\ UNCHANGED <<input, p, mask, tokenize, verdict>>

FindStep == Begin \/ LoadBlock \/ TestBit \/ NextBlock \/ TailStep \/ NotFound

----------------------------------------------------------------------------
(* TokenMatcher. *)

TokenEnds(s) == i = Len(s) \/ At(s, i) \in Sep

\* Mutant: separators next to each other.
WithEmptyToken(s, tokens) ==
    IF TokenEnds(s) THEN tokens \cup {Sub(s, start, i - start)} ELSE tokens

\* One round of the loop of TokenizeView over s.
WithToken(s, tokens) ==
    IF TokenEnds(s) /\ i > start
    THEN tokens \cup {Sub(s, start, i - start)}
    ELSE tokens

Advance(s) ==
    /\ i' = i + 1
    /\ start' = IF TokenEnds(s) THEN i + 1 ELSE start

Rewind == i' = 0 /\ start' = 0

\* The query, lowercased, once for all entries.
TokenizeQuery ==
    /\ pc = "query"
    /\ IF i <= Len(needle)
       THEN /\ queryTokens' = WithToken(needle, queryTokens)
            /\ Advance(needle)
            /\ UNCHANGED pc
       ELSE Rewind /\ pc' = "find" /\ UNCHANGED queryTokens
    /\ UNCHANGED <<input, find, nameTokens, verdict>>

TokenizeName ==
    /\ pc = "name"
    /\ IF i <= Len(hay)
       THEN /\ nameTokens' = WithToken(hay, nameTokens)
            /\ Advance(hay)
            /\ UNCHANGED pc
       ELSE Rewind /\ pc' = "tokens" /\ UNCHANGED nameTokens
    /\ UNCHANGED <<input, find, queryTokens, verdict>>

\* Mutant: without the test for no tokens at all.
SubsetOfTokens == queryTokens \subseteq nameTokens

AllQueryTokensPresent ==
    /\ queryTokens # {}
    /\ queryTokens \subseteq nameTokens

Done(verdictOfEntry) ==
    /\ hit' = verdictOfEntry
    /\ pc' = "done"

CompareTokens ==
    /\ pc = "tokens"
    /\ IF AllQueryTokensPresent
       THEN pos' = 0 /\ tokenMatch' = TRUE /\ Done(TRUE)
       ELSE Done(FALSE) /\ UNCHANGED <<pos, tokenMatch>>
    /\ UNCHANGED <<input, p, mask, tokenize>>

----------------------------------------------------------------------------
(* What SearchSubstring makes of pos. *)

MatchesWholeWord(at, len) ==
    /\ ~(at > 0 /\ At(hay, at - 1) \in WordChar)
    /\ ~(at + len < Len(hay) /\ At(hay, at + len) \in WordChar)

Judge ==
    /\ pc = "found"
    /\ \/ /\ pos = npos
          /\ IF doTokenMatch THEN pc' = "name" /\ UNCHANGED hit ELSE Done(FALSE)
       \/ /\ pos # npos
          /\ Done(wholeWord => MatchesWholeWord(pos, Len(needle)))
    /\ UNCHANGED <<input, find, tokenize, tokenMatch>>

Finished == pc = "done" /\ UNCHANGED vars

Next == FindStep \/ TokenizeQuery \/ TokenizeName \/ CompareTokens \/ Judge
        \/ Finished

Spec == Init /\ [][Next]_vars

\* The thread that searches runs on.
FairSpec == Spec /\ WF_vars(Next)

----------------------------------------------------------------------------
TypeOK ==
    /\ text \in Texts
    /\ query \in Queries
    /\ caseSensitive \in BOOLEAN
    /\ wholeWord \in BOOLEAN
    /\ pc \in {"query", "find", "block", "bits", "found", "name", "tokens",
               "done"}
    /\ p \in Nat
    /\ mask \subseteq 0..(2 * Width - 1)
    /\ pos \in {npos} \cup 0..Len(hay)
    /\ i \in Nat
    /\ start \in Nat
    /\ queryTokens \subseteq Seq(Char) \ {<<>>}
    /\ nameTokens \subseteq Seq(Char) \ {<<>>}
    /\ tokenMatch \in BOOLEAN
    /\ hit \in BOOLEAN

\* Every block that is loaded, and every comparison with the whole needle, is
\* inside the text: a name lies in the middle of a pool, so that reading on
\* would compare with the names after it.
ReadsInside ==
    /\ pc = "bits" =>
          /\ p + Width <= Len(hay)
          /\ \A b \in mask : p + b \div 2 + Len(needle) <= Len(hay)
    /\ pc = "block" /\ p < End => p + Len(needle) <= Len(hay)

\* The needle is at position at of the text.
Occurs(at) ==
    /\ at \in 0..(End - 1)
    /\ \A n \in 0..(Len(needle) - 1) : At(hay, at + n) = At(needle, n)

\* The block search returns the first occurrence of the needle, or npos if
\* there is none: no candidate is skipped between blocks, among the bits of a
\* mask or in the tail, and none is taken before an earlier one.
FindsFirstOccurrence ==
    pc = "found" =>
        \/ pos = npos /\ \A at \in 0..(End - 1) : ~Occurs(at)
        \/ Occurs(pos) /\ \A at \in 0..(pos - 1) : ~Occurs(at)

\* The len characters of s at from are a run without a separator that cannot
\* be made longer.
IsRun(s, from, len) ==
    /\ from + len <= Len(s)
    /\ \A n \in from..(from + len - 1) : At(s, n) \notin Sep
    /\ from > 0 => At(s, from - 1) \in Sep
    /\ from + len < Len(s) => At(s, from + len) \in Sep

\* The tokens of s: its longest runs without a separator.
Runs(s) ==
    {Sub(s, r[1], r[2]) : r \in
        {q \in (0..Len(s)) \X (1..Len(s)) : IsRun(s, q[1], q[2])}}

\* README.md:64: a query with a separator matches if every token of it is a
\* token of the name; the query may also be a part of the name.  A query of
\* separators only is no exception, and a name found by its tokens has none
\* of it highlighted.
TokenSetRule ==
    pc = "done" /\ ~wholeWord =>
        /\ hit <=> \/ \E at \in 0..(End - 1) : Occurs(at)
                   \/ /\ doTokenMatch
                      /\ Runs(needle) # {}
                      /\ Runs(needle) \subseteq Runs(hay)
        /\ tokenMatch => \A at \in 0..(End - 1) : ~Occurs(at)

\* The test of an entry ends, with separators next to each other and needles
\* that nearly match included.
TestEnds == <>(pc = "done")
=============================================================================
