--------------------------- MODULE SearchWindow ---------------------------
(***************************************************************************)
(* MainWindow (src/ui) as far as it searches: typing, the debounce timer,  *)
(* one search thread at a time, the messages posted back to the window,    *)
(* the virtual list view, and the deletion of the selected files.          *)
(*                                                                         *)
(* The UI thread handles one message after the other: a posted message     *)
(* first, then the user's input, then the timer.  While it asks for a      *)
(* confirmation the dialog goes on handling messages, but the window takes *)
(* no input.  What a search finds is SearchEngine's promise: all that      *)
(* matches, or some of it if it was cancelled, in the order of the index.  *)
(***************************************************************************)
EXTENDS Integers, SequencesExt

CONSTANTS
    Text,          \* contents of the search bar
    Short,         \* one of them, of less than two characters
    Files,         \* a set of numbers: files, in the order of the index
    Match,         \* Match[text][option]: the files a search is to find
    MaxInputs,     \* bound: key strokes, options, clicks and deletions
    MaxJobs,       \* bound: jobs of the indexer
    MaxChanges     \* bound: changes of the index

ASSUME WindowAssumption ==
    /\ Short \in Text
    /\ Files \subseteq Nat /\ IsFiniteSet(Files)
    /\ Match \in [Text -> [BOOLEAN -> SUBSET Files]]
    /\ MaxInputs \in Nat
    /\ MaxJobs \in Nat
    /\ MaxChanges \in Nat

VARIABLES
    text,          \* of m_hSearchBar
    option,        \* one of the search options
    enabled,       \* m_hSearchBar is enabled
    timer,         \* kSearchTimerId is set
    joining,       \* the UI thread is in ExecuteSearch, at the join
    asking,        \* it is in the MessageBox of DeleteSelectedFiles
    asked,         \* history: the files selected when the question was put
    deleted,       \* history: the files handed to SHFileOperation
    current,       \* m_currentResults
    shown,         \* history: the search current comes from
    order,         \* m_sortColumn, m_sortDescending: "none", "asc", "desc"
    rows,          \* item count of the list view
    selected,      \* its selected rows
    cancel,        \* m_searchCancel
    search,        \* the search thread: [pc, text, option]; it holds the lock
                   \* of the index shared at "search" and "posted"
    posted,        \* messages posted to the window
    index,         \* the live files of the pool
    job,           \* a job of the indexer is running
    inputs, jobs, changes    \* counted up to the bounds

bar == <<text, option, enabled, timer>>
list == <<current, shown, order, rows, selected>>
dialog == <<asking, asked, deleted>>
indexer == <<index, job, jobs, changes>>

vars == <<bar, joining, dialog, list, cancel, search, posted, indexer, inputs>>

\* std::sort: the numbers of S, one before the other.
Sorted(S, Before(_, _)) ==
    CHOOSE s \in [1..Cardinality(S) -> S] :
        \A a, b \in DOMAIN s : a < b => Before(s[a], s[b])

Nothing == [text |-> Short, option |-> FALSE, complete |-> TRUE]

Results(entries, from) ==
    [type |-> "results", entries |-> entries, from |-> from, ready |-> FALSE]
Status(ready) ==
    [type |-> "status", entries |-> <<>>, from |-> Nothing, ready |-> ready]

Init ==
    /\ text = Short
    /\ option = FALSE
    /\ enabled = TRUE
    /\ timer = FALSE
    /\ joining = FALSE
    /\ asking = FALSE
    /\ asked = {}
    /\ deleted = {}
    /\ current = <<>>
    /\ shown = Nothing
    /\ order = "none"
    /\ rows = 0
    /\ selected = {}
    /\ cancel = FALSE
    /\ search = [pc |-> "none", text |-> Short, option |-> FALSE]
    /\ posted = <<>>
    /\ index = Files
    /\ job = FALSE
    /\ inputs = 0
    /\ jobs = 0
    /\ changes = 0

----------------------------------------------------------------------------
(* What the user does. *)

\* The next input reaches the window.
Input ==
    /\ ~joining
    /\ ~asking
    /\ posted = <<>>
    /\ inputs < MaxInputs
    /\ inputs' = inputs + 1
    /\ UNCHANGED <<search, posted, indexer>>

\* Mutant: the selection is kept.
SetItemCountOnly(n) ==
    /\ rows' = n
    /\ UNCHANGED selected

\* ListView_SetItemCount: rows that no longer exist are not selected either.
SetItemCount(n) ==
    /\ rows' = n
    /\ selected' = {r \in selected : r <= n}

\* Mutant: the list view is not told that there are no results.
TypeNoItemCount(new) ==
    /\ Input
    /\ enabled
    /\ new # text
    /\ text' = new
    /\ IF new = Short
       THEN timer' = FALSE /\ current' = <<>> /\ shown' = Nothing
       ELSE timer' = TRUE /\ UNCHANGED <<current, shown>>
    /\ UNCHANGED <<option, enabled, joining, dialog, order, rows, selected,
                   cancel>>

\* OnSearchChanged: the timer starts anew.  A search that runs is not touched.
Type(new) ==
    /\ Input
    /\ enabled
    /\ new # text
    /\ text' = new
    /\ IF new = Short
       THEN /\ timer' = FALSE
            /\ current' = <<>>
            /\ shown' = Nothing
            /\ SetItemCount(0)
       ELSE /\ timer' = TRUE
            /\ UNCHANGED <<current, shown, rows, selected>>
    /\ UNCHANGED <<option, enabled, joining, dialog, order, cancel>>

\* TriggerSearch, and ExecuteSearch up to the join of the last search.
TriggerSearch ==
    /\ joining' = (text # Short)
    /\ cancel' = (cancel \/ text # Short)

ToggleOption ==
    /\ Input
    /\ option' = ~option
    /\ TriggerSearch
    /\ UNCHANGED <<text, enabled, timer, dialog, list>>

\* ApplyCurrentSort: the files have their names in the order of the index.
Arranged(entries, o) ==
    CASE o = "none" -> entries
      [] o = "asc"  -> Sorted(ToSet(entries), <)
      [] o = "desc" -> Sorted(ToSet(entries), >)

\* OnColumnClick, on the column of the names.
ColumnClick ==
    /\ Input
    /\ order' = IF order = "asc" THEN "desc" ELSE "asc"
    /\ current' = Arranged(current, order')
    /\ SetItemCount(Len(current))
    /\ UNCHANGED <<bar, joining, dialog, shown, cancel>>

Select(S) ==
    /\ Input
    /\ S # selected
    /\ selected' = S
    /\ UNCHANGED <<bar, joining, dialog, current, shown, order, rows, cancel>>

\* The files in the selected rows.
Chosen == {current[r] : r \in selected \cap 1..Len(current)}

\* DeleteSelectedFiles up to the question.
Delete ==
    /\ Input
    /\ selected # {}
    /\ asking' = TRUE
    /\ asked' = Chosen
    /\ UNCHANGED <<bar, joining, deleted, list, cancel>>

\* The answer.  The files are looked up now, in the rows selected by now.
Answer(yes) ==
    /\ asking
    /\ ~joining
    /\ posted = <<>>
    /\ asking' = FALSE
    /\ deleted' = IF yes THEN Chosen ELSE {}
    /\ UNCHANGED <<bar, joining, asked, list, cancel, search, posted, indexer,
                   inputs>>

User ==
    \/ \E new \in Text : Type(new)
    \/ \E S \in SUBSET (1..rows) : Select(S)
    \/ ToggleOption \/ ColumnClick \/ Delete
    \/ \E yes \in BOOLEAN : Answer(yes)

----------------------------------------------------------------------------
(* The message loop, that of the MessageBox included. *)

OnTimer ==
    /\ ~joining
    /\ posted = <<>>
    /\ timer
    /\ timer' = FALSE
    /\ TriggerSearch
    /\ UNCHANGED <<text, option, enabled, dialog, list, search, posted,
                   indexer, inputs>>

\* Mutant: the flag of the last search is left set.
ExecuteStillCancelled ==
    /\ joining
    /\ search.pc \in {"none", "ended"}
    /\ joining' = FALSE
    /\ search' = [pc |-> "search", text |-> text, option |-> option]
    /\ UNCHANGED <<bar, dialog, list, cancel, posted, indexer, inputs>>

\* The rest of ExecuteSearch: the lock is taken shared, and handed on to a new
\* thread.
ExecuteSearch ==
    /\ joining
    /\ search.pc \in {"none", "ended"}
    /\ joining' = FALSE
    /\ cancel' = FALSE
    /\ search' = [pc |-> "search", text |-> text, option |-> option]
    /\ UNCHANGED <<bar, dialog, list, posted, indexer, inputs>>

Take(type) ==
    /\ ~joining
    /\ posted # <<>>
    /\ Head(posted).type = type
    /\ posted' = Tail(posted)
    /\ UNCHANGED <<text, option, timer, joining, dialog, order, cancel, search,
                   indexer, inputs>>

OnSearchResults ==
    /\ Take("results")
    /\ current' = Arranged(Head(posted).entries, order)
    /\ shown' = Head(posted).from
    /\ SetItemCount(Len(Head(posted).entries))
    /\ UNCHANGED enabled

\* The results stay, and come back with a click on a column.
OnIndexerStatus ==
    /\ Take("status")
    /\ enabled' = Head(posted).ready
    /\ IF Head(posted).ready THEN UNCHANGED <<rows, selected>>
                             ELSE SetItemCount(0)
    /\ UNCHANGED <<current, shown>>

UI == OnTimer \/ ExecuteSearch \/ OnSearchResults \/ OnIndexerStatus

----------------------------------------------------------------------------
(* The search thread: it searches and posts what it found, and gives the   *)
(* lock back when it ends.                                                 *)

Hits == Match[search.text][search.option] \cap index

\* Mutant: the results are sent, and not posted.
SendResults ==
    /\ search.pc = "search"
    /\ ~joining
    /\ search' = [search EXCEPT !.pc = "posted"]
    /\ \E found \in SUBSET Hits :
          /\ ~cancel => found = Hits
          /\ posted' = Append(posted,
                Results(Sorted(found, <),
                        [text |-> search.text, option |-> search.option,
                         complete |-> found = Hits]))
    /\ UNCHANGED <<bar, joining, dialog, list, cancel, indexer, inputs>>

PostResults ==
    /\ search.pc = "search"
    /\ search' = [search EXCEPT !.pc = "posted"]
    /\ \E found \in SUBSET Hits :
          /\ ~cancel => found = Hits
          /\ posted' = Append(posted,
                Results(Sorted(found, <),
                        [text |-> search.text, option |-> search.option,
                         complete |-> found = Hits]))
    /\ UNCHANGED <<bar, joining, dialog, list, cancel, indexer, inputs>>

SearchEnds ==
    /\ search.pc = "posted"
    /\ search' = [search EXCEPT !.pc = "ended"]
    /\ UNCHANGED <<bar, joining, dialog, list, cancel, posted, indexer, inputs>>

----------------------------------------------------------------------------
(* The indexer: jobs, which replace the index, and the watchers' changes.  *)

CanLockExclusive == search.pc \notin {"search", "posted"}

JobStarts ==
    /\ ~job
    /\ jobs < MaxJobs
    /\ jobs' = jobs + 1
    /\ job' = TRUE
    /\ posted' = Append(posted, Status(FALSE))
    /\ UNCHANGED <<bar, joining, dialog, list, cancel, search, index, changes,
                   inputs>>

JobEnds ==
    /\ job
    /\ job' = FALSE
    /\ posted' = Append(posted, Status(TRUE))
    /\ UNCHANGED <<bar, joining, dialog, list, cancel, search, index, jobs,
                   changes, inputs>>

IndexChanges ==
    /\ CanLockExclusive
    /\ changes < MaxChanges
    /\ changes' = changes + 1
    /\ \E f \in Files :
          index' = IF f \in index THEN index \ {f} ELSE index \cup {f}
    /\ UNCHANGED <<bar, joining, dialog, list, cancel, search, posted, job,
                   jobs, inputs>>

Indexer == JobStarts \/ JobEnds \/ IndexChanges

Next == User \/ UI \/ PostResults \/ SearchEnds \/ Indexer

Spec == Init /\ [][Next]_vars

\* The UI thread handles its messages and the search thread runs on; the user
\* and the indexer need not do anything.
FairSpec == Spec /\ WF_vars(UI) /\ WF_vars(PostResults \/ SearchEnds)

----------------------------------------------------------------------------
Origin == [text : Text, option : BOOLEAN, complete : BOOLEAN]

Message == [type : {"results", "status"}, entries : Seq(Files), from : Origin,
            ready : BOOLEAN]

TypeOK ==
    /\ text \in Text
    /\ {option, enabled, timer, joining, asking, cancel, job} \subseteq BOOLEAN
    /\ asked \subseteq Files
    /\ deleted \subseteq Files
    /\ current \in Seq(Files)
    /\ shown \in Origin
    /\ order \in {"none", "asc", "desc"}
    /\ rows \in Nat
    /\ selected \subseteq 1..rows
    /\ search \in [pc : {"none", "search", "posted", "ended"}, text : Text,
                   option : BOOLEAN]
    /\ posted \in Seq(Message)
    /\ index \subseteq Files
    /\ inputs \in 0..MaxInputs
    /\ jobs \in 0..MaxJobs
    /\ changes \in 0..MaxChanges

\* Every row of the list view has a result: the callbacks that fill, open,
\* copy or delete a row never find it missing, whatever results, status and
\* clicks came in between.
RowsHaveResults == rows \in {0, Len(current)}

\* Once the user stops typing and toggling, the list shows all the results for
\* what is in the search bar, and nothing older replaces them: cancelled
\* searches post what they have before they are joined, and the timer may
\* start one search while another was just asked for.  (A job of the indexer
\* hides the rows.)
LastQueryShown ==
    \A t \in Text \ {Short} :
        <>[](text = t) =>
            <>[](/\ shown = [text |-> t, option |-> option, complete |-> TRUE]
                 /\ rows = Len(current) \/ jobs > 0)

\* The UI thread gets past the join: the thread it waits for never waits for
\* the window.
ExecuteSearchReturns == joining ~> ~joining

----------------------------------------------------------------------------
(* What the repository says of the program, and the code does not do.      *)

\* MainWindow.cpp:717, "Are you sure you want to delete <n> file(s)?": a yes
\* deletes the files that were selected when the question was put.
DeletesWhatWasAsked ==
    [][\A yes \in BOOLEAN : Answer(yes) => deleted' \subseteq asked]_vars
=============================================================================
