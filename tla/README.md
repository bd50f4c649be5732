# winindex: a TLA+ model

winindex is a file search program for Windows. It scans the selected drives into
a flat index in memory, keeps the index current from change notifications, saves
it to one file, and searches it from several threads while the user types.

This directory models that program. TLC checks the models on small instances;
TLAPS proves, for every instance, the safety properties of all of its parts: the index
store, the indexer, the watcher, the search engine, the test of one entry, the rows of the
window, the settings file and both scanners. Line numbers below are of the files under `src/`; `PROJECT.json` maps
every definition to the lines it stands for.

- [1. The system](#1-the-system)
- [2. The modules and the code](#2-the-modules-and-the-code)
- [3. The runs](#3-the-runs)
- [4. Where the code and its documents disagree](#4-where-the-code-and-its-documents-disagree)
- [5. The proofs](#5-the-proofs)
- [6. What is not modelled](#6-what-is-not-modelled)
- [7. Plan](#7-plan)

## 1. The system

### Components

| Component | State it keeps | Operations | What makes it correct |
|---|---|---|---|
| **IndexPool** (`core/storage/IndexPool`) | `meta`, `nameLowerPool`, `pathPool` | `AddEntry`, `GetPath`, `GetName`, `GetNameLower`, `Clear` | views stay inside the pools; the lowercased name is that of the entry |
| **IndexStore** (`core/storage/IndexStore`) | one pool behind `m_mutex` (a `shared_mutex`), the staging buffer | `Load`, `Save`, `BeginWrite`/`AddEntry`/`EndWrite`, `ApplyAdd`, `ApplyRemove`, `ApplyRename`, `RemoveEntriesUnderPath`, `LockShared` | readers see whole operations; nothing changes under a reader |
| **IndexSerializer** (`core/storage/IndexSerializer`) | `winindex.idx` | `Serialize`, `Deserialize` | a crash costs the index at most; what is loaded is what was saved |
| **Indexer** (`core/indexer/Indexer`) | worker thread, scan threads, `m_watchers` behind `m_watchersMutex`, `m_cancel`, `m_completionEvent` | `StartIndexing`, `IndexPaths`, `RemovePaths`, `StartLiveMonitoring`, `ApplyChange`, `Cancel`, destructor | the index follows the files; one watcher per root; jobs and destruction end |
| **ChangeWatcher** (`core/indexer/ChangeWatcher`) | a thread, `m_hDir`, `m_stop`, `m_hStop`, its buffer | `Start`, `Stop`, `RunWatch` | every collected change is delivered once and in order; `Stop` returns |
| **Scanners** (`FindFileScanner`, `MftScanner`, `DriveEnumerator`) | a directory queue and an open listing, or the map of MFT records | `Scan` | every file that is not excluded, once and under its path, whatever others move meanwhile; the scan ends |
| **UsnJournalMonitor** | a volume handle | `ReplaySince` and others | not called by the program |
| **SearchEngine** (`core/search/SearchEngine`) | a thread per chunk, a shared counter | `SearchSubstring`, `SearchRegex` | ordered hits, none lost below the maximum |
| **SimdSearch, TokenMatcher** | none | `Contains`, `Matches` | equal to a plain search |
| **MainWindow** (`ui/MainWindow`) | search bar, timer, search thread, results, virtual list | message handlers | the list shows the last query; rows have results |
| **Settings** and its dialogs | the members, the INI file | `Load`, `Save`, `OnOk` of both dialogs, the option toggles | what was confirmed is there at the next start |
| **Logger, PathUtils, main** | a log file; none; the message loop | | |

### How they interact

- The **UI thread** runs `MainWindow`. It starts jobs (`Indexer`) and searches,
  and receives *posted* messages: `WM_INDEXER_STATUS` from the worker and
  `WM_SEARCH_RESULTS` from the search thread. It joins the search thread without
  handling messages (`MainWindow.cpp:435`).
- At most one **worker** runs a rebuild, `IndexPaths` or `RemovePaths`. A command
  that finds the completion event reset is dropped (`Indexer.cpp:80`). The worker
  starts a **scan thread** per root and joins them, swaps the index, saves it and
  starts watchers.
- A **watcher thread** per root calls `Indexer::ApplyChange`, which takes
  `IndexStore::m_mutex` exclusively.
- `m_watchersMutex` guards `m_watchers`. It is held by whoever starts watchers and
  *while watcher threads are joined*.
- The **search thread** takes `m_mutex` shared for the whole search and posts its
  results before it lets go of it; `SearchEngine` starts further threads below it.
- The UI thread alone changes and saves the **settings**; the worker copies the roots and
  the exclusions when a job begins (`Indexer.cpp:217-227`, `106`) and hands them to the
  scanner of each root: `MftScanner` for an NTFS drive if the volume can be opened,
  `FindFileScanner` for everything else (`Indexer.cpp:326-340`).
- `Save` holds `m_mutex` shared while it writes; `Load` and `EndWrite` prepare a
  new pool without a lock and swap it in under the exclusive one.

### What is hard here

Readers that keep raw views while writers wait; offsets that are recomputed, not
stored; a file truncated in place; events that arrive between a scan and the swap;
purging and stopping watchers in two steps; joins with a mutex held; events for
files that are gone again; completions without data; results posted by a search
that was cancelled; a dialog that pumps messages; a directory tree that changes while it
is walked, by path or by noted parents; a settings file written key after key; threads that
outlive the five seconds `Stop` waits for them; a folder that moves with all its files, and one event
for it. `PROJECT.json` lists these as hazards, each at its line, with the properties that would
notice, or the reason why none does.

## 2. The modules and the code

    IndexPool ── IndexStore ─┬─ IndexStoreRefinement ─┬─ MCIndexStore
                             │   └─ INSTANCE FileIndex└─ IndexStoreRefinementProofs
                             └─ IndexStoreProofs ───────┘
    ChangeWatcher ─┬─ MCChangeWatcher      SearchWindow ─┬─ MCSearchWindow
                   └─ ChangeWatcherProofs                └─ SearchWindowProofs
    Indexer ─┬─ MCIndexer                  Matching ─┬─ MCMatching
             └─ IndexerProofs                        └─ MatchingProofs
                                           SearchEngine ── SearchEngineProofs
    ScannedVolume ─┬─ FindFileScanner ─┬─ DriveScan ─┬─ MCDriveScan
                   └─ MftScanner ──────┤             └─ DriveScanProofs
                             Settings ─┘

Each component is used by the next through its promise. `Indexer` sees the store
as `FileIndex` describes it (how many entries each file has), and watchers as
queues without loss; `SearchWindow` sees a search as what `SearchEngine` is checked
to deliver. Operators marked *Mutant* stand beside the definition they vary: each is
a plausible mistake in that code, and each property listed in `PROJECT.json` is
violated when its mutant takes the definition's place. They are not part of any
specification.

**IndexPool, IndexStore.** A path is a sequence of components instead of
characters, a component counting as one unit of length; paths of different
lengths keep the offset arithmetic honest. Size, times and attributes are one
*stamp*. The variables are the code's members (`pool`, `stagingBuf`), the holders of
the shared lock (`readers`), the file, and the indexing thread's locals
(`fresh`, `buf`, `k`, `runningPathOffset`, position `pc`). A writer's critical
section is one action guarded by `CanLockExclusive`; everything done without the
lock is split where another thread can come in: staging, building the fresh
pool entry by entry, serialising record by record, opening (truncating) and
writing the file, reading record by record, swapping. `Crash` can happen in any
state and leaves only the file. A file is `"torn"` between truncation and a
complete write; the CRC rejects it. Both steps of `Save` may fail.

**FileIndex** is the abstract specification: entries numbered in the order of their arrival,
a rebuild that is staged and takes effect at once, by exactly what was staged, and a copy on
disk, with atomic additions, removals, renames, save and load. It promises
exact paths after a load only if the saved index was *compact* (had lost no entry
since its last rebuild): that is what the code delivers, and finding 1 below is about
the rest; of an index that is not compact a save still keeps the number of entries, their
order and their stamps. **IndexStoreRefinement** maps the store to it (the live metas under
their positions in `meta`; the file as `Deserialize` would decode it; what `EndWrite` has built
and what is left to build) and states `ImplementsFileIndex`.

**Indexer.** `fs` is the file system, changed by other programs at any time. The UI
thread's position is `ui.pc`, the worker's `worker.pc`; `left`/`found` are what the scan
threads have still to examine and have collected, `watcher[r]` the watchers of a root
with the queue of events on the way and the step of `ApplyChange` each is in (it
asks the file system, then the store, in two steps). `mutex` is
`m_watchersMutex`. A whole operation of the store is one step. `touched` is a
history variable: the files changed by anybody, for which the program gives no
guarantee once a job overlaps the change. `Calm` restricts changes to times when no
job runs and all watchers are up. `LoseVolume` ends the thread of a watcher while it stays in
`m_watchers`; nothing is promised about its root from then on, everything about the others.

*Folders.* `folders` are the paths with a folder, `Below` what is under each. A folder that is moved,
renamed or recycled goes with everything below it and is one event, with its own name
(`FolderLeaves`, `FolderArrives`; a rename is one after the other). `Probe` does nothing for a path that
is a folder's (`Indexer.cpp:265-266`), so what came or went below it is not dealt with: the history
variable `adrift` collects it, and a rebuild empties it.

*Threads that are late.* `Stop` waits five seconds (`ChangeWatcher.cpp:32`), ignores whether the thread
ended, closes the handles, and the watcher leaves `m_watchers`; the loop over a batch never looks at
`m_stop` (`ChangeWatcher.cpp:83-116`). `StopTimesOut(r)` is that: what the thread was doing and its
queue move to a name from `Late`, and whoever called `Stop` goes on. From then on the thread handles the
events it has, one after the other, in all the steps of a watcher, also after the root was removed
and after `~Indexer`. The path of an event begins with `m_root` of an object that may be freed by then
(`ChangeWatcher.cpp:85`): the event is handled as always, or under a path that names nothing
(`ForgetEvent`). That the program may crash instead is not a state; the behaviour ends there.
`timedOut` is a history variable, the roots this happened to.

**ChangeWatcher.** `RunWatch` is split at its waits and at each callback. The kernel
side (`FileSystem`, `Complete`, `LoseVolume`) is modelled from how `RunWatch` uses
`ReadDirectoryChangesW`: changes are collected from the first call on, an overflow
forgets them and makes the next call complete without bytes. The callback keeps a
copy of the names below the root, just to see whether it could.

**SearchEngine.** One position per thread in the loop, with the four separate reads
and writes of shared data (`cancelToken`, `collected` read, test, `collected`
increment), and the merge, which reads the futures in order. Which entries match is a
parameter; how that is decided is the subject of `Matching`.

**Matching.** What one thread of the search does with one entry: the block loop of
`Sse2Find`/`Avx2Find` (one module, the block width is a parameter) with its bit mask, the
tail, the tokenizer loop over the query and over the name, the comparison of tokens, the
whole-word test. Offsets count from 0 as in the code. A sorted vector searched by
`binary_search` is a set of tokens.

**ScannedVolume** is the volume as both scanners see it: a tree given by the `parent` of each
file and folder, reparse points that stand for folders, and what is moved, created or deleted
by others (`Relocate`). It holds what the scanners share: the options of the scan, the cancel
token, the excluded paths (`IsExcluded`) and the files given to `onFile`, as a bag of files with
the path each was reported under. `touched` is a history variable: whatever had another path at
some time during the scan.

**FindFileScanner.** `dirQueue` holds *paths*; `NextDirectory` opens what is at the next one
now (`Resolve`), `Entry` is one turn of the inner loop, in any order. An open listing must
return what is in the folder all the time and may return what came or went.

**MftScanner.** `ReadRecord` notes the parent a record has at that moment, `EndReading` ends the
first loop (the table is read, the token is set, or `DeviceIoControl` or `CreateFileW` fails),
`Emit` resolves one file. The recursion of `resolvePath` is `Line`, the records it comes to one
after the other, as many as there can be without a cycle;
where the noted parents form a cycle the stack overflows and the process ends (`MftOverflow`).

**Settings.** `mem` are the members, `ini` the file, and `SaveKey` writes one key. Lists are
stored as one string with separators and cut when read (`Joined`, `Split`, `ReadString`). The
dialogs are the sets of values they can be confirmed with.

**DriveScan** composes these: start-up with the set-up dialog, the settings dialog, the options
and the rebuild command on the window's thread; one root of a job, from the copy of the
settings to the end of the scan, on the worker's; other programs; and the end of the process at
any moment, which leaves the settings file.

**SearchWindow.** One action per message handler of `MainWindow` that takes part in
a search, the search thread, and the indexer as seen from the window (status
messages, changes of the index under the lock). Windows delivers posted messages
before input and input before `WM_TIMER`; the guards say so. `asking` is the message
box of `DeleteSelectedFiles`, during which messages are still handled.

## 3. The runs

| Run | Question | Distinct states |
|---|---|---|
| `store` | Are views in bounds, names consistent, readers undisturbed, files never mixed, and does the store implement `FileIndex`? | 245,902 |
| `store_round_trip` | Does saving and loading bring back the live entries? (No: finding 1) | |
| `indexer_calm` | When changes leave jobs alone, does the index become and stay exact? Do jobs and destruction end? | 373,227 |
| `indexer_jobs` | Under every interleaving of jobs, changes, stops that run out of time and closing: is any untouched file lost or doubled, a watcher doubled, the search bar left disabled? Is what nobody watches saved as it is in memory, does anything but a late thread outlive the destructor? | 2,270,487 |
| `indexer_folders` | Does the index follow folders that are moved? (No: finding 3) | |
| `indexer_remove` | Does `RemovePaths` remove all? (No: finding 2) | |
| `change_watcher` | Is every collected change delivered once and in order, do events suffice to follow, does `Stop` return? | 328,464 |
| `search_engine` | Are results ordered hits, with none lost below the maximum, and does the search return? | 57,344 |
| `matching` | Does the block search find the first occurrence without reading outside, do tokens follow the documented rule? | 868,618 |
| `drive_scan` | Is what stays put collected once, under its path, and not if excluded, by either scanner, whatever is moved? Do settings survive restarts and crashes? Do scans end? | 351,635 |
| `search_window` | Does the list end up with the last query's results, do rows always have results, does the join end? | 652,774 |
| `delete_selected` | Does a confirmed deletion delete what was selected? (No: finding 4) | |

### Properties

- **`ViewsInBounds`**: no offset and length handed out reaches outside the pools.
  **`NameLowerMatchesName`**: the two ways of making the lowercased name agree.
  **`PoolStableUnderReaders`**: no writer moves the pool under a reader.
  **`NoMixedFile`**: the file goes from good to good only through torn.
  **`ImplementsFileIndex`**: every step is an atomic operation or invisible.
- **`SettledIndexIsExact`**, **`IndexCatchesUp`**: in the calm case the index is exact
  when all events are applied, and eventually for good. Left out are excluded files (see
  "Observations") and the files that came or went with a folder above them since the last rebuild
  (`adrift`, finding 3):
  a folder that moves damages nothing else, and a rebuild repairs that.
  **`UntouchedFilesIndexedOnce`**: without the calm assumption, still true of the files
  nobody touched. **`OneWatcherPerRoot`**, **`SearchBarEnabled`**, **`JobsComplete`**,
  **`DestructionReturns`**: what the code's joins, mutex and events are for.
- **`UnwatchedFilesAreSaved`**: between jobs, a file below no root in `m_watchers` has as many entries in
  memory as in the saved file: what a job did to it was saved, and nobody changes it
  afterwards. `RemovePathsThread` stops the watchers before it saves for this. **`OnlyLateThreadsRunOn`**:
  after `~Indexer` no worker and no scan thread is left, nor a watcher that a worker started after
  `Cancel` had emptied `m_watchers`. Both are as strong as the code allows: roots whose thread
  did not end in time are left out of the first, those threads out of the second; if no `Stop` ran out of
  time, there are none. The program does not promise more, see "Observations".
- **`EveryChangeOnceInOrder`**, **`EventsSuffice`**, **`CollectedIsDelivered`**,
  **`StopReturns`** of the watcher. The properties speak about collected changes: an
  overflow loses changes and nothing in the program rescans.
- **`ResultsAreOrderedHits`**, **`NoHitLost`**, **`BoundedOvershoot`**,
  **`SearchReturns`** of the search engine.
- **`FindsFirstOccurrence`**, **`ReadsInside`**: the block search against the definition of a
  first occurrence. **`TokenSetRule`**: `README.md:64`, with the tokens defined as the longest
  runs without a separator. **`TestEnds`**.
- **`UntouchedFilesCollectedOnce`**: when a scan was not cut short, every file that had the same
  path all the time was given to `onFile` once, with that path, if it is below the root, not
  excluded and, for `FindFileScanner`, not behind a reparse point or a folder that cannot be
  listed; and not at all otherwise. The folders moved around it have no say in this: a file that
  keeps its path has ancestors that keep theirs, although the queue holds paths and the parents
  are noted at different times. A link that is followed reports files twice, or under a path that
  is not theirs. **`ScanEnds`**: no folder keeps the queue or the listing busy for ever, wherever
  folders are moved (a bounded number of times). It holds of `MftScanner`
  only because a process that overflows its stack ends as well.
- **`SettingsSurvive`**: after any sequence of starts, dialogs, options, saves and crashes, each key
  has the value last confirmed, or, after a crash during `Save`, the one before. Values
  the file cannot hold are left out (`ReadsBack`), the empty exclusion list among them (see
  "Observations").
  **`FileHoldsConfirmed`** says the same of the strings in the file, before `Load` cuts them into
  lists; no run states it, since `SettingsSurvive` fails where it does. Both are proved.
- **`RowsHaveResults`**, **`LastQueryShown`**, **`ExecuteSearchReturns`** of the window.

### Bounds, and why they are enough

- *Store*: at most 3 metas, 8 path components, 2 staged entries; a file on the drive
  and one in a directory, so that paths have two lengths and one prefix covers one of
  them, under another spelling; one stamp. That is enough for a tombstone between two
  live entries, a rename (which adds one), a saved file with more characters than
  records account for, loading it, adding to it and saving it again. One searcher: a
  second one would only hold the lock longer. The round trip needs two metas.
- *Indexer*: two disjoint roots. In the calm run one of them has two paths, `g` and `f`, where `g` may be a
  folder with `f` in it, or a file; two changes and one command: a file is created and removed, or
  removed and created, while the first event is on its way, a folder with a file in it is renamed (two
  changes) or arrives and goes. In `indexer_jobs` a path per root, one of them excluded, three commands, one
  change and one late thread (`Late`; a second `Stop` waits until that one has ended). Three commands reach
  the sequences in which a root is removed, added again and removed, a command is dropped while a job
  runs, or a root is removed with its thread left over and added again. The start includes a saved
  index that is missing, good or out of date. One volume may be lost in the calm run (`MaxLost`), none in the others. Two commands are
  too many for the calm run, see "Observations" in section 4.
- *Drive and settings*: a tree of four folders (one of them a link, one not to be listed) and two
  files; `dirD` and `dirE` can be moved into each other and to the drive, `fileF` can be deleted, created
  and moved (`MayMove`), twice in all (`MaxMoves`): enough for a cycle of noted parents and
  for a folder that is moved from the queue or out of an open listing. Records come in two orders: folders
  first, or last. Paths longer than three names are too long (`PathLimit`), a list of more than
  five names and separators is cut (`BufferLimit`). The user starts the program or uses a dialog
  or the menu four times (`MaxUses`), the first two of them before a scan (`MaxScanUses`); not
  while a job runs (`MayConfirm`). One root of a job is followed, as roots are scanned
  independently; the volume is as it was when the next scan starts, which keeps nothing of the
  last one. One option stands for five, one interval for all.
- *Watcher*: two names, a buffer of two records, five changes: an overflow, a batch after
  it, and a rename (two records) that is split by the end of the buffer.
- *Search engine*: 3 threads, 0, 1, 2, 4 and 5 entries (fewer entries than threads, a
  short last chunk, an empty last chunk), all sets of hits, a maximum of 2.
- *Matching*: blocks of 2 characters; all texts of up to 5 characters over a letter in two cases
  and a separator, and of 4 with `_` as well, all queries of 2 and 3, both options: two blocks,
  a block and a tail, a tail alone, a needle longer than the text, tokens at both ends, adjacent
  separators, a query of separators only. The theorem is for every width.
- *Window*: two queries of at least two characters and the empty one, one option, three
  files of which each query finds one or two, four inputs, one job, one change.

### Fairness

The safety runs use `Spec` without fairness. The others assume weak fairness of each
thread of the program (`UI`, `Worker`, `Scanner(r)`, `Watcher(r)`, `Step(th)`,
`Merge`, `RunWatch`, `Stop`, the search thread): Windows schedules every runnable
thread, none of them needs to win a race infinitely often, and no strong
fairness is assumed. `Complete` is fair because the kernel completes calls for which it
has data. The user, other programs and, in `SearchWindow`, the indexer are not
fair: they may do nothing for ever. `StopTimesOut`, of the watcher
and of the indexer, and failures are never forced.

Deadlock is checked everywhere except where the program waits for a user who may do no
more: in the window runs and in `drive_scan`.

## 4. Where the code and its documents disagree

1. **Round trip** (`store_round_trip`). `Serialize` writes all of `pathPool` but only the
   records of live entries; `Deserialize` takes paths to lie end to end. After a removal
   every later entry comes back under characters of another path
   (`IndexSerializer.cpp:57`, `216-233`), though `IndexSerializer.cpp:63` says that
   deleted entries are dropped and a test expects the rest to be there. The test has its
   tombstone last, where nothing is shifted.
2. **Removing roots** (`indexer_remove`). `RemovePathsThread` purges, then stops the
   watchers, then saves (`Indexer.cpp:150-152`); a change in between is saved under a root
   that was removed. `Indexer.h:52` says all entries go.
3. **Folders** (`indexer_folders`). `BuildAndApplyAdd` returns for a directory (`Indexer.cpp:265-266`) and
   `ApplyRemove` looks for an entry with just the path of the event. A folder that is renamed, moved or
   recycled is one event or two that name the folder only, so the entries of its files stay as
   they were, and its files get none at the new place, until the next rebuild.
   `docs/architecture.md:100-101` says that watchers "feed live changes back" (`README.md:70` calls full
   monitoring "in active development").
4. **Deleting files** (`delete_selected`). The rows are turned into paths after
   the confirmation (`MainWindow.cpp:718`); results that arrive meanwhile replace
   what the question was about.

Observations that no run states:

- *Threads after Stop.* The loop over a batch of events (`ChangeWatcher.cpp:83-116`) does not look at `m_stop`,
  each event may walk the whole index, and `Stop` ignores that its wait of five seconds was in vain
  (`ChangeWatcher.cpp:32`). A thread with a full batch then goes on applying events: entries come back
  under a root that was removed, and after `Cancel` it uses a `ChangeWatcher`, later an `Indexer`, that
  is deleted. No document says that it does not, so there is no run for it: `UnwatchedFilesAreSaved`
  and `OnlyLateThreadsRunOn` say what is left when it happens.
- *Excluded paths.* Only scanners ask for exclusion; `ApplyChange` (`Indexer.cpp:283`) does not, so a file
  below an excluded path is in the index after its first change. `README.md:121` says "excluded from indexing".
- *An empty exclusion list* is taken for none and replaced by the defaults at the next start
  (`Settings.cpp:46`), while `README.md:141` says that a saved list "is used as-is and the defaults are not
  re-injected".
- *Whole words and tokens.* The whole-word test is skipped for names that match by their tokens
  (`SearchEngine.cpp:237`), and an underscore separates tokens but belongs to a word: with the
  option on, a query with a separator finds names in which its tokens are parts of words.
  `ISearchEngine.h:14` says "Match only whole words (word-boundary check)".
- *Whole words after the first.* Only the first occurrence of the query is tested (`SearchEngine.cpp:238`): the
  whole word `foo` in `foobar foo` is not found.
- *Clearing the search bar* neither cancels the running search nor drops its posted result, which then
  fills the list under "Enter a search term to begin." (`MainWindow.cpp:408`).
- *Excluded paths with a backslash at the end* match what is in the folder and not the folder itself
  (`FindFileScanner.cpp:14-27`). The dialogs return such a path for a drive root only. The model has
  paths as sequences of names, in which the two spellings are the same.
- *A list over 4095 characters* is cut anywhere (`Settings.cpp:168`): its last path may become one
  that contains it, and exclude or index more than was asked for.
- *A folder with `;` in its name* is a legal location, and is cut in two when the list is read back
  (`Settings.cpp:39`, `75`): the next start indexes two other paths.
- *The set-up dialog* is shown again after it was cancelled, but what is chosen in it then is not
  indexed: `StartIndexing` loads the index built meanwhile (`MainWindow.cpp:207`).
- *The flag that ends the set-up* is the first key written (`Settings.cpp:72`): a crash right after it
  leaves a program that is set up with nothing selected.
- *`resolvePath` does not look for cycles* (`MftScanner.cpp:122`).

## 5. The proofs

Every theorem is about `Spec` of its module, for all values of the constants that meet
the named assumptions.

| Module | Theorem | What it proves |
|---|---|---|
| `IndexStoreProofs` | `TypeCorrect` | `[]TypeOK` |
| | `ViewsAlwaysInBounds` | `[]ViewsInBounds` |
| | `SearchedNameIsShown` | `[]NameLowerMatchesName` |
| | `PoolIsStableUnderReaders` | `PoolStableUnderReaders` |
| | `FileIsNeverMixed` | `NoMixedFile` |
| `IndexStoreRefinementProofs` | `StoreImplementsFileIndex` | `ImplementsFileIndex`, that is `FileIndex!Spec` under the refinement mapping |
| `IndexerProofs` | `TypeCorrect` | `[]TypeOK` |
| | `NoRootWatchedTwice` | `[]OneWatcherPerRoot` |
| | `SearchBarComesBack` | `[]SearchBarEnabled` |
| | `OnlyLateThreads` | `[]OnlyLateThreadsRunOn` |
| | `UnwatchedAreSaved` | `[]UnwatchedFilesAreSaved` |
| | `EveryUntouchedFileOnce` | `[]UntouchedFilesIndexedOnce`, for `SeparateRoots` and selections that are not empty |
| | `SettledIsExact` | `[]SettledIndexIsExact`, for the same and `[][OneWay]_selected` |
| `ChangeWatcherProofs` | `TypeCorrect` | `[]TypeOK` |
| | `NoChangeTwice` | `[]EveryChangeOnceInOrder` |
| | `CopyCatchesUp` | `[]EventsSuffice` |
| `SearchEngineProofs` | `TypeCorrect` | `[]TypeOK` |
| | `ResultsInOrder` | `[]ResultsAreOrderedHits` |
| | `OneTooManyEach` | `[]BoundedOvershoot` |
| | `AllHitsReturned` | `[]NoHitLost` |
| `MatchingProofs` | `TypeCorrect` | `[]TypeOK` |
| | `FirstOccurrence` | `[]FindsFirstOccurrence` |
| | `NothingReadOutside` | `[]ReadsInside` |
| | `TokenSetsDecide` | `[]TokenSetRule` |
| `SearchWindowProofs` | `TypeCorrect` | `[]TypeOK` |
| | `EveryRowHasAResult` | `[]RowsHaveResults` |
| `DriveScanProofs` | `FileIsConfirmed` | `[]FileHoldsConfirmed` |
| | `SettingsAreKept` | `[]SettingsSurvive` |
| | `TypeCorrect` | `[]TypeOK` |
| | `ScansAreExact` | `[]UntouchedFilesCollectedOnce`, for `NamesOfFolders` |

### What is assumed

The named assumptions of the modules: `Lower` is an idempotent function on components
(`LowerAssumption`), the saver is not a search thread (`StoreAssumption`), inputs are paths
(`InputsAssumption`); a block has at least one character and a query at least two
(`MatchingAssumption`, the test at `SearchEngine.cpp:48`); there are finitely many roots,
and names of roots and of late threads are different (`IndexerAssumption`), and finitely many files (`WindowAssumption`); the keys of the options are strings
other than those of the lists, and lists of paths are lists of sequences of names
(`SettingsAssumption`); a volume has finitely many files and folders, no file is a folder
(`VolumeAssumption`), at the start nothing is in itself, not even by way of others, and nothing in a
folder that is not there (`LayoutAssumption`); the file table has each record once or more, in any order
(`MftAssumption`); bounds are numbers. TLC evaluates each of them.

`EveryUntouchedFileOnce` and `SettledIsExact` have hypotheses of their own: no two roots have a
file in common, no selection is empty and, for the latter, no dialog both adds and removes roots
(`OneWay`). They restrict what the user chooses, not what the program
does, and the theorems are false without any of them (see "Observations"). `ScansAreExact` has
`NamesOfFolders`: the locations and exclusions a user gives have no files and no links in them. The
dialogs let the user pick folders. A root that leads through a link is opened by
`FindFileScanner` like any other, and files are then reported under the path through the link,
which is not the one that `PathOf` gives them. Everything else in this
section holds of overlapping roots, empty selections, any dialog and any location as well.

### The arguments

None of these properties is inductive.

*The store: bounds.* What `Load` puts into the pool depends on the
lengths found in the file; those were written by `Serialize`, perhaps in an
earlier session, from a pool that had tombstones. `IInv` therefore
follows the lengths all the way round:

- `Layout(pool)`, `Layout(fresh)`: views are inside, and metas are `Ordered`: they do not
  overlap and follow each other as their paths do;
- `SerializingInv`: the records written so far can be laid end to end before the path of
  the first meta that was not written yet (this is where `Ordered` is needed);
- `WritingInv`, `FileInv`: hence they `Fit` into the characters saved with them;
- `LoadingInv`: `runningPathOffset` is the sum of the lengths read so far, and nothing in
  the new pool ends beyond it.

`Fits` is stated with a function that gives each record its offset, so that no recursive
operator is involved; `FitsEmpty`, `FitsAppend` and `FitsMonotone` are all that is used of
it. `AddEntryLayout`, `TombstoneLayout` and `AddRecordLayout` say what the three ways of
changing a pool preserve. There is one lemma per group of actions (`SearchStep`,
`ChangeStep`, `RebuildStep`, `SaveStep`, `LoadStep`, `CrashStep`), combined in `NextIInv`.
The theorem shows that finding 1 garbles paths but never makes the program read outside
its memory.

*The store: names and the file.* `LowerInv` says of every entry, tombstones and the pool under
construction included, that its lowercased name is that of the name its offsets point to. A
loaded entry satisfies it whatever characters it was given, because `Deserialize` lowercases
those: finding 1 shows a wrong name but never searches another one than it shows. `ImageInv`
counts the records of `Save` against the live entries it has passed, and says that from opening
to writing the file is torn and the pool is that which was serialised, since `Save` is a reader.

*The refinement.* Each operation is one step of `FileIndex` (`AddIsAdd`, `RemoveIsRemoveOne`,
`RenameIsRename`, `RemoveUnderIsRemoveAllBelow`, `RebuildIsRebuild`, `OpenIsTruncate`, `WriteIsSave`,
`LoadIsLoad`, `CrashIsCrash`), everything else is invisible (`InvisibleSteps`), and `StepIsStep`
combines them. Three things are not visible in one step and need `RefinementInv`. A path has at
least one component (`LengthsInv`), so that a removed path leaves a hole and a pool with a hole is not
compact. The records of a save are those of the live metas before `k`, in order (`RecordedInv`,
with the numbering of one by the other as a function that grows step by step), which gives the
numbering `FileIndex` asks for. And
what `Load` has built so far is what the records read so far decode to (`LoadedInv`). A record's offset
is a sum over the ones before it, a recursive function; `RecordOffsetIs` unfolds it, `LeastElement` and
the induction over `Nat` it gives carry what has to be true at every record.

*The indexer.* `JobsInv` fixes who may run when: the worker exists exactly while the completion
event is reset, `m_cancel` is set exactly once the window is closing, the mutex is held by who
is stopping watchers (`ThreadsInv`); scan threads have work only while the worker waits for
them (`ScansInv`); a root without a watcher has no event either, and there is no late thread before
a `Stop` has run out of time (`WatchersInv`), and a root that
was stopped stays so until the job, or the destructor, is done (`StopsInv`): meanwhile
nobody starts a watcher (`NobodyStarts`), as the window does so only before the first job and
a worker only in a job that removes nothing, and the destructor waits for the worker. `StatusInv`
says which steps of a job separate the status that disables the search bar from the one that
enables it.

*Each file once.* `IndexInv` counts the entries of one untouched file at every step of every job
(`ScanProgress`, `PathsProgress`, `PurgeProgress`, `Settled`): before the swap it is still to be
found or was found by just one scan thread, while roots are added it is in the index once or in
the root whose turn has not come, while roots are removed it is wanted or still to be purged.
`RootsInv` compares the roots of the job with the selection, which the user may have edited since,
and `EventsInv` says that watchers only ever work on files that were touched.

*The settled index.* `SettledIndexIsExact` is about a moment at which nothing is under way; what leads
there is harder, since a watcher that takes an event looks at the file as it is by then, and between
removing an entry and adding it again the file may go, come back and be in the queue several times.
`Story` relates the queue of a watcher, the entries of one path, whether there is anything at the path
and whether that is a file (a folder is there too, and `Probe` passes it by): each
event about the path begins as the one before it ended, the last ends with what is there,
an Added event that comes first finds no entry, and without an event the entries are right. Events
are queued (`StoryGrows`, `StoryGoesOn`), taken (`StoryAfter`, `StoryWithoutOther`) and say in the
end what is there (`StoryOfFile`, `StoryTold`); what is in `adrift` has no story (`AdriftStep`); `EventApplied` and `ChangeTells` carry it through the watcher and the file
system. `CalmInv` says when it holds: while no job runs, for every file of every root but those whose
volumes were lost (`FilesInv`). A job starts with empty queues and nothing is queued while it runs
(`DrainedStep`), so each file is as in `FileInv`, now for the files that were touched as well; for
this the lemmas about one file through every step are stated for any set of files to leave out. That
no watcher of a deselected root survives the job that removes it (`NoneKept`, `Stopping`) and that jobs
are about the right roots (`SelectedOnly`) is where `OneWay` is needed. `Exact` leaves excluded
files out, which watchers add (see "Observations").

*What nobody watches.* `UnwatchedInv` says that the events of a watcher are about files below its root and
those of a late thread about files below a root in `timedOut` (`LateEvents`), that no `Stop` is under
way but in a removal or while closing (`Stopping`), and that outside a job what no watcher is
responsible for is as saved (`SavedInv`). A job that wrote to the index is left with `Save` (`SavedAtEnd`); at other times only watchers
write to it, each to what is below its root (`UnservedStep`); and no root loses its watcher, or is
added to `timedOut`, while none is told to stop (`WatchedStays`). None of this needs roots without a
common file.

*The watcher.* The changes the thread's buffer still has to deliver, followed by the kernel's, are
one sequence (`Held`): a change enters it at the end and leaves it at the front when it is
delivered, or all at once when the kernel's part overflows. The numbers in it grow and are larger
than those delivered (`OrderInv`), each number was delivered, is held or was missed (`CoverInv`),
and the callback's copy changed as the held records say is what there is (`CopyInv`). The last is
stated per name by the last record that names it (`Present`), which avoids folding over a
sequence.

*The search engine.* Each thread has kept the hits from the begin of its chunk to the entry it
is at (`LocalInv`), and the counter is the number of hits passed in all chunks (`CountInv`). A
thread between its test of the counter and its addition is `Adding`, and the counter with
them stays below the maximum plus the number of threads (`OvershootInv`). Results are the hits
passed in the chunks merged so far, or the maximum of them (`MergeInv`), and a thread that
was not cancelled stops only at the end of its chunk or with enough hits (`DoneInv`).

*The block search.* Nothing before the block, or before the position in the
tail, is an occurrence (`NoneBefore`); inside a block the mask holds both bits or none of each
character (`Paired`) and those of every occurrence not yet ruled out (`Covered`). `LowestBits`
shows that clearing the lowest bit twice removes just one character, which needs `Paired`;
`EqualIsOccurs` that `wmemcmp` compares what `Occurs` says.

*The tokens.* The tokenizer has collected the longest runs without a separator that end before its
position, and `start` is where the one it is in begins (`Scanned`); one turn of the loop
(`Round`) collects the run that ends there, if one does (`TokenThatEnds`). At the end of the
string those are all its runs (`ScanEnds`).

*The window.* The number of rows is set before the results are sorted in one handler and after it
in another, so sorting must not change how many there are. The results are sorted from a set, hence
no result may be in a list twice (`DistinctInv`, also of the lists on their way in messages). That
a finite set can be listed in either order is proved by giving each element its rank
(`OrderedListing`, `SortedLists`).

*The settings file.* While `Save` runs the members do not change and are among the values expected,
and each key behind it is in the file with the value of its member (`SaveInv`). A crash leaves
keys with new values and keys with old ones, all of them expected.

*The way back.* `Save` joins the paths of a list in one loop and `Load` splits the string in another;
both are recursive functions on a prefix of their input. `LoopComputes` unfolds any such function, and
`AlikeToTheEnd` compares two of them turn by turn. `SplitReads` says what each turn of `getline` does,
`JoinedBegins` where each path begins in the string, and by induction over the paths the loop that
reads has, at the end of each path, read just the paths so far (`OneMore`, `PathIsRead`); that is
`SplitJoined`. `RoundTripInv` follows it through every dialog, save, crash and start. It needs to know
that the members are lists of sequences of names (`ListsInv`).

*The volume.* It is a tree at every moment, whatever others move (`Tree`, kept by `MovedTree`: something is
not moved below itself, as `Relocate` asks). That there is one way from the drive to each file, and that
`PathOf` gives it (`OneRouteToEach`, `PathsAreRoutes`), is proved along the tree: the set of what has no
such way would have an element whose parent is outside (`Forest`). What is in something that was touched
is touched (`TouchedBelow`), hence the path of a file that was left alone is the same at every
moment of a scan, and each folder on it is where it was (`UntouchedWay`). `ResolveLeads` and
`ResolveWay` say where the file system comes out at a path: at the folder that has it, if none of its
names is a link, for a folder on an untouched way in particular.

*The breadth-first scan.* `Followed` is about one untouched file with the path `p`. The file was
collected, or its folder's listing is open, or the beginning of `p` as far as a folder above it is
in the queue, and only one of these (`FindFileInv`), as long as each folder on the way can be
listed and is not excluded; everything that was taken from the queue on the way could be
(`Walked`), which is why a file out of reach is not collected. Other folders, moved ones with equal
names included, cannot add it: what is listed under a path and was left alone has
that path and the name that is listed (`SamePaths`, `EntryElsewhere`). `NextDirectoryStep`, `EntryStep`, `EndListingStep` and
`FindFileMoved` carry it through the steps.

*The scan by records.* Of what was left alone the parent noted is the right one, whenever it was noted,
and it is noted when its record is behind (`MftInv`). Hence the recursion climbs the way of an
untouched file (`LineClimbs`, `LineIsWay`), and `ResolvedWay` shows that it stops at the drive with the
path of the file. Whatever the others make of the table, each path begins with the drive
(`ResolvedFromDrive`, for `TypeOK`).

*The composition.* `ScanInv` says what exists while the worker is busy, and that a scan that has ended
without the token has an empty queue or an emitted table; `ScannedOnce` combines this with `DueReachable`:
what is due by the definition of the property is what the scan can reach.

The proof found a mistake in an earlier version of `Entry`, where two arms of a `CASE` applied to a
link that is a folder, and which one is taken is then left open: TLC takes the first, the prover
cannot. The code tests for reparse points first, and so do the arms now.

### Only model-checked

- All liveness: fairness and `ENABLED` are out of the prover's reach.
- Of `SettledIndexIsExact` what happens after a dialog that both adds and removes roots: in the calm
  run it may be the only command, in the theorem there is none.

- Of `UntouchedFilesCollectedOnce` what a location or exclusion through a link does: see above.

Every invariant that a passing run checks is stated by a theorem, and so are the action properties
`PoolStableUnderReaders`, `NoMixedFile` and the refinement of `FileIndex`.

## 6. What is not modelled

- The **USN cursor map** in the index file: the program never fills it.
- The **age** of the index (`IsIndexValid`, `GetIndexAgeSeconds`) and the **CRC**
  computation: a torn file is recognised, by assumption.
- **Integer widths** of offsets and lengths (32 and 16 bits): unbounded here.
- **Failure of `CreateThread` and `CreateEvent`**: taken to succeed.
- **Crashes after a timed-out `Stop`**: what a thread does to memory that was freed. In `Indexer` it
  handles its events or forgets them.
- **Folders**: in `Indexer` a scan sees the files below a folder that moves meanwhile one by one, as
  they are at that moment; the walk itself is the subject of `DriveScan`.
- In `Indexer` the saved file is what `Save` promises for a compact index; damage by
  finding 1 is studied in `IndexStore` alone.
- **RE2** and the whole-word test of the regex search, which applies UTF-8 offsets to UTF-16
  text; `ScalarFindInsensitive`, which nothing calls. That the whole-word test looks at the first
  occurrence only is in the model; no document promises more.
- **UsnJournalMonitor**: constructed, never called by the program.
- **The watcher of a lost volume** never comes back, in the code and in `Indexer`; nothing is
  stated about its root.
- **Settings**: the log level, the width of the interval (64 bits saved as 32), values with a
  separator in them, failing writes, a string cut within a name.
- **Dialogs while a job runs** (`DriveScan`): the worker would copy lists that are being replaced, a
  data race (`Indexer.cpp:217`).
- **Scanners**: progress reports, sizes and times, case folding, hard links, several roots in one
  `Scan`. A volume that cannot be opened gives an empty scan, like one read that failed.
- **DriveEnumerator** beyond its results.
- **Logger, PathUtils, main**, dialogs, menus, layout, clipboard, drag and drop: no
  state whose order of changes could go wrong in a way a small model would show.

## 7. Plan

Done: the store, its promise and its first theorems; the indexer, with volumes that are lost,
folders that are moved and threads that outlive their watcher; the watcher; the search engine; the test of one entry and its theorems; the window; the settings, both
scanners, and their composition.

The theorems of every component are proved: each invariant that a run checks, the refinement of
`FileIndex`, the round trip of the settings, the settled index and the scanners among them.

What is left is what no theorem here can state (liveness), what the theorems exclude by
their hypotheses (section 5), and what is listed in section 6; of that, hard links and several roots
in one `Scan` would be the next to be modelled.
