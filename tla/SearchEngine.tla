---------------------------- MODULE SearchEngine ----------------------------
(***************************************************************************)
(* SearchEngine::SearchSubstring and SearchRegex (src/core/search): the    *)
(* entries are cut into one chunk per hardware thread; every thread tests  *)
(* the entries of its chunk in order and keeps the hits; a shared counter  *)
(* of hits lets all of them stop early; the chunks' hits are then put      *)
(* together in order, up to the maximum.                                   *)
(*                                                                         *)
(* The caller holds the index shared, so the entries do not change.  Which *)
(* of them match the query is the set hits, chosen at the start; an        *)
(* entry's index is counted from 0, as in the code.                        *)
(***************************************************************************)
EXTENDS Integers, SequencesExt

CONSTANTS
    EntryCounts,   \* the sizes of index considered
    NumThreads,    \* hardware_concurrency, at least 1
    MaxResults

ASSUME SearchAssumption ==
    /\ EntryCounts \subseteq Nat
    /\ NumThreads \in Nat \ {0}
    /\ MaxResults \in Nat

VARIABLES
    entryCount,
    hits,          \* the entries that are live and match
    cancelToken,
    collected,     \* the shared counter
    pc,            \* what each thread does next
    i,             \* the entry it is at
    local,         \* the hits it keeps
    t,             \* the future being read, of futures 0 to t - 1 all were
    results

vars == <<entryCount, hits, cancelToken, collected, pc, i, local, t, results>>

Thread == 0..(NumThreads - 1)

ChunkSize == (entryCount + NumThreads - 1) \div NumThreads

Min2(a, b) == IF a < b THEN a ELSE b

ChunkBegin(th) == th * ChunkSize

\* Mutant: not cut off at the last entry.
ChunkEndUncapped(th) == ChunkBegin(th) + ChunkSize

ChunkEnd(th) == Min2(ChunkBegin(th) + ChunkSize, entryCount)

\* The threads that are started: the loop ends at the first empty chunk.
Started == {th \in Thread : ChunkBegin(th) < entryCount}

Init ==
    /\ entryCount \in EntryCounts
    /\ hits \in SUBSET (0..(entryCount - 1))
    /\ cancelToken = FALSE
    /\ collected = 0
    /\ i = [th \in Thread |-> ChunkBegin(th)]
    /\ pc = [th \in Thread |-> IF th \in Started THEN "cancelled?" ELSE "done"]
    /\ local = [th \in Thread |-> <<>>]
    /\ t = 0
    /\ results = <<>>

Goto(th, label) == pc' = [pc EXCEPT ![th] = label]

\* ExecuteSearch, or the end of the window, cancels this search.
Cancel ==
    /\ ~cancelToken
    /\ cancelToken' = TRUE
    /\ UNCHANGED <<entryCount, hits, collected, pc, i, local, t, results>>

----------------------------------------------------------------------------
(* The body of a thread's loop. *)

ReadCancel(th) ==
    /\ pc[th] = "cancelled?"
    /\ Goto(th, IF i[th] >= ChunkEnd(th) \/ cancelToken THEN "done" ELSE "full?")
    /\ UNCHANGED <<collected, i, local>>

\* Mutant: one hit too early.
ReadCollectedEarly(th) ==
    /\ pc[th] = "full?"
    /\ Goto(th, IF collected + 1 >= MaxResults THEN "done" ELSE "test")
    /\ UNCHANGED <<collected, i, local>>

\* Mutant: each thread counts its own hits.
ReadCollectedLocal(th) ==
    /\ pc[th] = "full?"
    /\ Goto(th, IF Len(local[th]) >= MaxResults THEN "done" ELSE "test")
    /\ UNCHANGED <<collected, i, local>>

ReadCollected(th) ==
    /\ pc[th] = "full?"
    /\ Goto(th, IF collected >= MaxResults THEN "done" ELSE "test")
    /\ UNCHANGED <<collected, i, local>>

\* Mutant: goes on to the next entry only after a hit.
TestAgain(th) ==
    /\ pc[th] = "test"
    /\ IF i[th] \in hits
       THEN local' = [local EXCEPT ![th] = Append(@, i[th])] /\ Goto(th, "count")
       ELSE Goto(th, "cancelled?") /\ UNCHANGED local
    /\ UNCHANGED <<collected, i>>

Test(th) ==
    /\ pc[th] = "test"
    /\ IF i[th] \in hits
       THEN /\ local' = [local EXCEPT ![th] = Append(@, i[th])]
            /\ Goto(th, "count")
            /\ UNCHANGED i
       ELSE /\ i' = [i EXCEPT ![th] = @ + 1]
            /\ Goto(th, "cancelled?")
            /\ UNCHANGED local
    /\ UNCHANGED collected

Count(th) ==
    /\ pc[th] = "count"
    /\ collected' = collected + 1
    /\ i' = [i EXCEPT ![th] = @ + 1]
    /\ Goto(th, "cancelled?")
    /\ UNCHANGED local

Step(th) ==
    /\ ReadCancel(th) \/ ReadCollected(th) \/ Test(th) \/ Count(th)
    /\ UNCHANGED <<entryCount, hits, cancelToken, t, results>>

----------------------------------------------------------------------------
(* The caller reads the futures in the order in which it started them.     *)

\* Mutant: futures are read as they become ready.
MergeReady ==
    /\ t < NumThreads
    /\ \E th \in Thread :
          /\ pc[th] = "done"
          /\ ToSet(local[th]) \cap ToSet(results) = {}
          /\ results' = results \o SubSeq(local[th], 1,
                            Min2(Len(local[th]), MaxResults - Len(results)))
    /\ t' = t + 1
    /\ UNCHANGED <<entryCount, hits, cancelToken, collected, pc, i, local>>

Merge ==
    /\ t < NumThreads
    /\ pc[t] = "done"
    /\ results' = results \o SubSeq(local[t], 1,
                      Min2(Len(local[t]), MaxResults - Len(results)))
    /\ t' = t + 1
    /\ UNCHANGED <<entryCount, hits, cancelToken, collected, pc, i, local>>

Returned == t = NumThreads

Next ==
    \/ Cancel
    \/ \E th \in Thread : Step(th)
    \/ Merge
    \/ Returned /\ UNCHANGED vars

Spec == Init /\ [][Next]_vars

FairSpec == Spec /\ WF_vars(Merge) /\ \A th \in Thread : WF_vars(Step(th))

----------------------------------------------------------------------------
\* The values of the variables; an entry is only looked at if there is one.
TypeOK ==
    /\ entryCount \in EntryCounts
    /\ hits \subseteq 0..(entryCount - 1)
    /\ cancelToken \in BOOLEAN
    /\ collected \in Nat
    /\ pc \in [Thread -> {"cancelled?", "full?", "test", "count", "done"}]
    /\ i \in [Thread -> Nat]
    /\ \A th \in Thread : pc[th] \in {"test", "count"} => i[th] < entryCount
    /\ local \in [Thread -> Seq(Nat)]
    /\ t \in 0..NumThreads
    /\ results \in Seq(Nat)

Increasing(s) == \A a, b \in 1..Len(s) : a < b => s[a] < s[b]

\* Whatever the threads do and whenever the search is cancelled, the results
\* are entries that match, each at most once, in the order of the index, and
\* at most the maximum of them: the chunks do not overlap, and the threads'
\* overshooting of the shared counter is cut off.
ResultsAreOrderedHits ==
    /\ Len(results) <= MaxResults
    /\ Increasing(results)
    /\ ToSet(results) \subseteq hits

\* A search that is not cancelled returns all hits, or as many as the maximum
\* allows: no entry is left out between two chunks, and no thread stops early
\* because of hits that do not make it into the results.
NoHitLost ==
    Returned /\ ~cancelToken =>
        Len(results) = Min2(MaxResults, Cardinality(hits))

\* The threads overshoot the maximum by at most one hit each.
BoundedOvershoot == collected <= MaxResults + NumThreads - 1

\* Every search returns, cancelled or not.
SearchReturns == <>Returned
=============================================================================
