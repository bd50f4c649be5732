------------------------------ MODULE Indexer ------------------------------
(***************************************************************************)
(* Indexer (src/core/indexer): builds the index by scanning the selected   *)
(* roots, keeps it current from the events of one ChangeWatcher per root,  *)
(* saves it, and loads it when the program starts.                         *)
(*                                                                         *)
(* Its threads:                                                            *)
(*   - the UI thread (MainWindow), which starts jobs and closes;           *)
(*   - at most one worker, for a rebuild, new paths or removed paths;      *)
(*   - a scan thread per root, joined by the worker;                       *)
(*   - a watcher thread per root, which applies the events of its root;    *)
(*   - watcher threads that have outlived their ChangeWatcher, since Stop  *)
(*     waits five seconds for a thread and then goes on without it;      *)
(* and the file system, which other programs change all the time.          *)
(*                                                                         *)
(* The store is seen from outside (FileIndex is the promise IndexStore     *)
(* keeps): how many entries each file has, in memory and in the saved      *)
(* file.  An operation that locks the store is one step.  How events get   *)
(* lost on their way to a watcher is the subject of ChangeWatcher.         *)
(***************************************************************************)
EXTENDS Integers, Sequences, FiniteSets

CONSTANTS
    File,          \* the paths at which there may be a file
    Folder,        \* those at which there may be a folder at times
    Below,         \* Below[d]: the paths below d, folders or not
    Root,          \* the paths a user may select
    Under,         \* Under[r]: the paths below r
    Excluded,      \* the paths below an excluded path
    Late,          \* names for the threads that outlived their watcher
    NoFile,        \* no file
    NoRoot,        \* no root
    Fixed,         \* the local fixed drives, used while nothing is selected
    Selections,    \* the selections the settings dialog may return
    Calm,          \* changes wait for jobs and watchers, commands for events
    MaxChanges,    \* bound: changes of the file system
    MaxOps,        \* bound: commands of the user, closing apart
    MaxLost        \* bound: volumes lost

ASSUME IndexerAssumption ==
    /\ Folder \subseteq File
    /\ Below \in [Folder -> SUBSET File]
    /\ Under \in [Root -> SUBSET File]
    /\ Root \cap Late = {}
    /\ Excluded \subseteq File
    /\ Fixed \subseteq Root
    /\ NoFile \notin File
    /\ NoRoot \notin Root \cup Late
    /\ IsFiniteSet(Root)
    /\ Selections \subseteq SUBSET Root
    /\ Calm \in BOOLEAN
    /\ MaxChanges \in Nat
    /\ {MaxOps, MaxLost} \subseteq Nat

VARIABLES
    fs,          \* the paths with a file
    folders,     \* the paths with a folder
    touched,     \* history: the paths changed since the saved index was exact,
                 \* or whose roots were (de)selected with no job to follow
    adrift,      \* history: the paths that came or went with a folder above
                 \* them since the last rebuild began
    changes,     \* the number of changes so far
    ops,         \* the number of commands so far
    selected,    \* Settings::GetSelectedDrives
    index,       \* entries of each file in IndexStore
    saved,       \* the same in winindex.idx, or NoIndex
    status,      \* the last IndexerStatus posted to the window
    cancel,      \* m_cancel
    completed,   \* m_completionEvent is set
    mutex,       \* m_watchersMutex: "free" or its holder
    ui,          \* [pc, todo]: the UI thread
    worker,      \* [pc, roots, todo, cur]: the thread of m_thread
    left,        \* files each scan thread has still to examine
    found,       \* entries each scan thread has collected
    watcher,     \* [live, lost, stop, queue, at] for each root and late thread
    timedOut     \* history: the roots for whose thread a Stop waited in vain

disk == <<fs, folders, touched, changes>>
environment == <<disk, adrift, timedOut>>
store == <<index, saved, status>>
scan == <<left, found>>

vars == <<environment, ops, selected, store, cancel, completed, mutex, ui,
          worker, scan, watcher>>

Thread == Root \cup Late

NoIndex == [f \in File |-> -1]

Event == [type : {"Added", "Removed", "Modified"}, file : File]

\* live: watchers of this root in m_watchers, or 1 for a late thread; lost:
\* their threads have ended with the volume; at: what the thread does with the
\* event it took.
NoWatcher == [live |-> 0, lost |-> FALSE, stop |-> FALSE, queue |-> <<>>,
              at |-> [step |-> "idle", file |-> NoFile]]

NoWorker == [pc |-> "none", roots |-> {}, todo |-> {}, cur |-> NoRoot]

\* The roots a rebuild scans and StartLiveMonitoring watches.
Effective(selection) == IF selection = {} THEN Fixed ELSE selection

FilesUnder(roots) == UNION {Under[r] : r \in roots}

\* What a scan of the roots collects from a file system that stands still.
Scanned(files, roots) ==
    [f \in File |-> Cardinality({r \in roots : f \in Under[r]
                                     /\ f \in files /\ f \notin Excluded})]

\* A path is of a file or of a folder, and below folders only.
Placed(files, dirs) ==
    /\ files \cap dirs = {}
    /\ \A d \in Folder \ dirs : Below[d] \cap (files \cup dirs) = {}

\* The saved index is of an earlier time, and the selection may have been
\* edited since.
Init ==
    /\ fs \in SUBSET File
    /\ folders \in SUBSET Folder
    /\ Placed(fs, folders)
    /\ selected \in Selections
    /\ saved \in {NoIndex} \cup
                 {Scanned(files, Effective(selected)) : files \in
                     {old \in SUBSET File : \E dirs \in SUBSET Folder :
                                               Placed(old, dirs)}}
    /\ Calm /\ saved # NoIndex =>
          saved = Scanned(fs, Effective(selected))
    /\ touched = IF saved = NoIndex THEN {}
                 ELSE {f \in File :
                          saved[f] # Scanned(fs, Effective(selected))[f]}
    /\ adrift = {}
    /\ changes = 0
    /\ ops = 0
    /\ index = [f \in File |-> 0]
    /\ status = "Idle"
    /\ cancel = FALSE
    /\ completed = TRUE
    /\ mutex = "free"
    /\ ui = [pc |-> "start", todo |-> {}]
    /\ worker = NoWorker
    /\ left = [r \in Root |-> {}]
    /\ found = [r \in Root |-> {}]
    /\ watcher = [t \in Thread |-> NoWatcher]
    /\ timedOut = {}

----------------------------------------------------------------------------
(* The file system.  A change is an event for every watcher above it.      *)

Exists == fs \cup folders

Watched(t) == watcher[t].live > 0

\* Every event was applied.
Drained == \A t \in Thread : /\ watcher[t].queue = <<>>
                             /\ watcher[t].at.step = "idle"

MayChange ==
    /\ changes < MaxChanges
    /\ ui.pc # "gone"
    /\ Calm => /\ ui.pc = "idle"
               /\ completed
               /\ \A r \in Effective(selected) : Watched(r)

\* Every watcher of a root above the path is given the event; a thread that
\* outlived its watcher is not, since Stop has closed the directory.
Notify(w, event) ==
    [t \in Thread |->
        IF t \in Late \/ w[t].lost \/ event.file \notin Under[t] THEN w[t]
        ELSE [w[t] EXCEPT !.queue = @ \o [i \in 1..w[t].live |-> event]]]

\* The paths in moved change without an event that names them.
Change(files, dirs, named, moved, notified) ==
    /\ MayChange
    /\ Placed(files, dirs)
    /\ fs' = files
    /\ folders' = dirs
    /\ touched' = touched \cup named \cup moved
    /\ adrift' = adrift \cup moved
    /\ changes' = changes + 1
    /\ watcher' = notified
    /\ UNCHANGED <<timedOut, ops, selected, store, cancel, completed, mutex,
                   ui, worker, scan>>

Added(f) == [type |-> "Added", file |-> f]
Removed(f) == [type |-> "Removed", file |-> f]
Modified(f) == [type |-> "Modified", file |-> f]

CreateFile(f) ==
    /\ f \notin Exists
    /\ Change(fs \cup {f}, folders, {f}, {}, Notify(watcher, Added(f)))

DeleteFile(f) ==
    /\ f \in fs
    /\ Change(fs \ {f}, folders, {f}, {}, Notify(watcher, Removed(f)))

\* A folder is modified by what is created in it.
Write(f) ==
    /\ f \in Exists
    /\ Change(fs, folders, {f}, {}, Notify(watcher, Modified(f)))

\* RunWatch turns RENAMED_OLD_NAME into Removed and RENAMED_NEW_NAME into
\* Added, so Indexer never sees a Renamed event.
RenameFile(f, g) ==
    /\ f \in fs
    /\ g \notin Exists
    /\ Change((fs \ {f}) \cup {g}, folders, {f, g}, {},
              Notify(Notify(watcher, Removed(f)), Added(g)))

\* A folder is moved away, renamed or recycled with all there is below it, or
\* removed if that is nothing: one event, which names the folder only.
FolderLeaves(d) ==
    /\ d \in folders
    /\ Change(fs \ Below[d], folders \ ({d} \cup Below[d]), {d},
              Exists \cap Below[d], Notify(watcher, Removed(d)))

\* A folder is created, or arrives under this name with these contents: again
\* one event.  A rename is FolderLeaves of the old name followed by this.
FolderArrives(d, files, dirs) ==
    /\ d \notin Exists
    /\ Change(fs \cup files, folders \cup {d} \cup dirs, {d}, files \cup dirs,
              Notify(watcher, Added(d)))

\* The volume of r goes away, if only for a moment: RunWatch returns, and what
\* it was not yet given is not applied.
LoseVolume(r) ==
    /\ Watched(r) /\ ~watcher[r].lost /\ ~watcher[r].stop
    /\ watcher[r].at.step = "idle"
    /\ Cardinality({q \in Root : watcher[q].lost}) < MaxLost
    /\ watcher' = [watcher EXCEPT ![r].lost = TRUE, ![r].queue = <<>>]
    /\ UNCHANGED <<environment, ops, selected, store, cancel, completed, mutex,
                   ui, worker, scan>>

----------------------------------------------------------------------------
(* Watcher threads: ApplyChange.                                           *)

\* Mutant: removal does not look whether there is an entry.
RemoveUnmatched(f) == index' = [index EXCEPT ![f] = @ - 1]

\* IndexStore::ApplyAdd and ApplyRemove, seen from outside.
ApplyAdd(f) == index' = [index EXCEPT ![f] = @ + 1]
ApplyRemove(f) == index' = [index EXCEPT ![f] = IF @ > 0 THEN @ - 1 ELSE 0]

At(t, step, f) ==
    watcher' = [watcher EXCEPT ![t].at = [step |-> step, file |-> f],
                               ![t].queue = IF watcher[t].at.step = "idle"
                                            THEN Tail(@) ELSE @]

Quiet(t) == At(t, "idle", NoFile)

NextEvent(t) == Head(watcher[t].queue)

\* Mutant: an entry is not removed if the file is back already.
RemoveUnlessBack(t) ==
    /\ Watched(t)
    /\ watcher[t].at.step = "idle"
    /\ watcher[t].queue # <<>>
    /\ NextEvent(t).type \in {"Removed", "Modified"}
    /\ IF NextEvent(t).type = "Removed" /\ NextEvent(t).file \in fs
       THEN UNCHANGED index ELSE ApplyRemove(NextEvent(t).file)
    /\ IF NextEvent(t).type = "Modified"
       THEN At(t, "probe", NextEvent(t).file)
       ELSE Quiet(t)

\* Removed, and the first half of Modified.
TakeRemove(t) ==
    /\ Watched(t)
    /\ watcher[t].at.step = "idle"
    /\ watcher[t].queue # <<>>
    /\ NextEvent(t).type \in {"Removed", "Modified"}
    /\ ApplyRemove(NextEvent(t).file)
    /\ IF NextEvent(t).type = "Modified"
       THEN At(t, "probe", NextEvent(t).file)
       ELSE Quiet(t)

\* Mutant: folders are added as well.
ProbeAny(t, f) ==
    /\ IF f \in Exists THEN At(t, "add", f) ELSE Quiet(t)
    /\ UNCHANGED index

\* BuildAndApplyAdd asks for the attributes of the path, at once for an Added
\* event, after ApplyRemove for a Modified one, and goes on if it is of a file:
\* nothing is done for a path that is gone, nor for a folder and what is in it.
Probe(t, f) ==
    /\ IF f \in fs THEN At(t, "add", f) ELSE Quiet(t)
    /\ UNCHANGED index

TakeAdded(t) ==
    /\ Watched(t)
    /\ watcher[t].at.step = "idle"
    /\ watcher[t].queue # <<>>
    /\ NextEvent(t).type = "Added"
    /\ Probe(t, NextEvent(t).file)

ProbeModified(t) ==
    /\ watcher[t].at.step = "probe"
    /\ Probe(t, watcher[t].at.file)

FinishAdd(t) ==
    /\ watcher[t].at.step = "add"
    /\ ApplyAdd(watcher[t].at.file)
    /\ Quiet(t)

\* A late thread takes its root from a ChangeWatcher that was freed: the event
\* may be handled as ever, or under a path that names nothing.  (It may crash
\* the program, too: then there are no further states.)
ForgetEvent(t) ==
    /\ t \in Late
    /\ Watched(t)
    /\ watcher[t].at.step = "idle"
    /\ watcher[t].queue # <<>>
    /\ Quiet(t)
    /\ UNCHANGED index

\* The thread ends between two events; what is queued is never applied.  Stop
\* closes the directory.
WatcherExits(t) ==
    /\ watcher[t].stop
    /\ watcher[t].at.step = "idle"
    /\ watcher' = [watcher EXCEPT ![t] = NoWatcher]
    /\ UNCHANGED index

Watcher(t) ==
    /\ \/ TakeRemove(t) \/ TakeAdded(t) \/ ProbeModified(t)
       \/ FinishAdd(t) \/ ForgetEvent(t) \/ WatcherExits(t)
    /\ UNCHANGED <<environment, ops, selected, saved, status, cancel,
                   completed, mutex, ui, worker, scan>>

----------------------------------------------------------------------------
(* The UI thread: what MainWindow asks for.                                *)

\* The head of StartIndexing, IndexPaths and RemovePaths once no job runs.
StartJob(pc, roots) ==
    /\ cancel' = FALSE
    /\ completed' = FALSE
    /\ worker' = [pc |-> pc, roots |-> roots, todo |-> roots, cur |-> NoRoot]
    /\ adrift' = IF pc = "rebuild" THEN {} ELSE adrift

NoJob == UNCHANGED <<cancel, completed, worker, adrift>>

\* OnCreate: StartIndexing(false).  An index that cannot be loaded, or has no
\* entries, is rebuilt.
StartUp ==
    /\ ui.pc = "start"
    /\ IF saved # NoIndex /\ \E f \in File : saved[f] > 0
       THEN /\ index' = saved
            /\ status' = "WatchingForChanges"
            /\ ui' = [pc |-> "watch", todo |-> Effective(selected)]
            /\ NoJob
       ELSE /\ ui' = [ui EXCEPT !.pc = "idle"]
            /\ StartJob("rebuild", {})
            /\ status' = IF saved = NoIndex THEN status ELSE "Scanning"
            /\ UNCHANGED index
    /\ UNCHANGED <<disk, timedOut, ops, selected, saved, mutex, scan, watcher>>

\* Mutant: without the check that the root is watched already.
AddWatcherAgain(r) == watcher' = [watcher EXCEPT ![r].live = @ + 1]

\* The body of the loop of StartWatchersForRoots under the mutex.
AddWatcher(r) ==
    watcher' = [watcher EXCEPT ![r].live = IF @ > 0 THEN @ ELSE @ + 1]

\* StartLiveMonitoring after a load, on the UI thread.
StartWatcherUI(r) ==
    /\ ui.pc = "watch"
    /\ r \in ui.todo
    /\ mutex = "free"
    /\ AddWatcher(r)
    /\ ui' = [ui EXCEPT !.todo = @ \ {r}]
    /\ UNCHANGED mutex

StartedUI ==
    /\ ui.pc = "watch"
    /\ ui.todo = {}
    /\ ui' = [ui EXCEPT !.pc = "idle"]
    /\ UNCHANGED <<mutex, watcher>>

MayCommand ==
    /\ ui.pc = "idle"
    /\ ops < MaxOps
    /\ Calm => completed /\ Drained

\* The rebuild command, and the offer to rebuild when a file is gone: dropped
\* while a job runs.
Rebuild ==
    /\ MayCommand
    /\ completed
    /\ ops' = ops + 1
    /\ StartJob("rebuild", {})
    /\ UNCHANGED <<disk, timedOut, selected, store, mutex, ui, scan, watcher>>

\* The settings dialog is confirmed: the selection is saved, and the job it
\* calls for is dropped while another one runs.
ChangeSettings(new) ==
    LET added   == new \ selected
        removed == selected \ new
    IN  /\ MayCommand
        /\ new # selected
        /\ ops' = ops + 1
        /\ selected' = new
        /\ IF completed
           THEN /\ \/ added # {} /\ removed # {} /\ StartJob("rebuild", {})
                   \/ removed = {} /\ StartJob("nextPath", added)
                   \/ added = {} /\ StartJob("purge", removed)
                /\ UNCHANGED touched
           ELSE /\ NoJob
                /\ touched' = touched \cup FilesUnder(added \cup removed)
        /\ UNCHANGED <<fs, folders, changes, timedOut, store, mutex, ui, scan,
                       watcher>>

----------------------------------------------------------------------------
(* Stop of the watchers in a set, one after the other, by whoever holds    *)
(* the mutex: the event is set, and the thread is waited for, but for five *)
(* seconds at most.                                                        *)

SignalStop(r) ==
    /\ Watched(r)
    /\ ~watcher[r].stop
    /\ watcher' = [watcher EXCEPT ![r].stop = TRUE]

\* WaitForSingleObject gives up, and Stop goes on as if the thread had ended:
\* the directory is closed, and the watcher leaves m_watchers.  The thread is
\* left with the events it holds; it looks at m_stop after those only.
StopTimesOut(r) ==
    /\ watcher[r].stop
    /\ timedOut' = timedOut \cup {r}
    /\ \E t \in Late :
          /\ watcher[t] = NoWatcher
          /\ watcher' = [watcher EXCEPT ![t] = watcher[r], ![r] = NoWatcher]
    /\ UNCHANGED <<disk, adrift, ops, selected, store, cancel, completed,
                   mutex, ui, worker, scan>>

\* The root a thread waits for is the only one it has signalled.
Joining(roots) == \E r \in roots : watcher[r].stop

StillWatched(roots) == {r \in roots : Watched(r)}

----------------------------------------------------------------------------
(* Closing the window: ~Indexer.                                           *)

Destroy ==
    /\ ui.pc = "idle"
    /\ cancel' = TRUE
    /\ ui' = [ui EXCEPT !.pc = "cancel"]
    /\ UNCHANGED <<environment, ops, selected, store, completed, mutex,
                   worker, scan, watcher>>

CancelLocks ==
    /\ ui.pc = "cancel"
    /\ mutex = "free"
    /\ mutex' = "ui"
    /\ ui' = [pc |-> "sweep", todo |-> StillWatched(Root)]
    /\ UNCHANGED watcher

\* "sweep" is the loop of Cancel, "destroy" the destructors of m_watchers.
StopWatcherUI(r) ==
    /\ ui.pc \in {"sweep", "destroy"}
    /\ r \in ui.todo
    /\ ~Joining(ui.todo)
    /\ SignalStop(r)
    /\ UNCHANGED <<mutex, ui>>

CancelUnlocks ==
    /\ ui.pc = "sweep"
    /\ StillWatched(ui.todo) = {}
    /\ mutex' = "free"
    /\ ui' = [pc |-> "wait", todo |-> {}]
    /\ UNCHANGED watcher

\* Mutant: m_watchers is taken to be empty since Cancel.
NoWatchersLeft ==
    /\ ui.pc = "wait"
    /\ completed
    /\ ui' = [pc |-> "destroy", todo |-> {}]
    /\ UNCHANGED <<mutex, watcher>>

WaitForCompletion ==
    /\ ui.pc = "wait"
    /\ completed
    /\ ui' = [pc |-> "destroy", todo |-> StillWatched(Root)]
    /\ UNCHANGED <<mutex, watcher>>

Destroyed ==
    /\ ui.pc = "destroy"
    /\ StillWatched(ui.todo) = {}
    /\ ui' = [pc |-> "gone", todo |-> {}]
    /\ UNCHANGED <<mutex, watcher>>

UI ==
    \/ StartUp
    \/ /\ \/ StartedUI
          \/ CancelLocks \/ CancelUnlocks \/ WaitForCompletion \/ Destroyed
          \/ \E r \in Root : StartWatcherUI(r) \/ StopWatcherUI(r)
       /\ UNCHANGED <<environment, ops, selected, store, cancel, completed,
                      worker, scan>>

----------------------------------------------------------------------------
(* Scan threads: ScanDriveInto.  The scanner examines one file at a time,  *)
(* skips the excluded ones and stops when it sees m_cancel.                *)

ScanFile(r) ==
    /\ \E f \in left[r] :
          /\ left' = [left EXCEPT ![r] = @ \ {f}]
          /\ found' = [found EXCEPT ![r] =
                          @ \cup (({f} \cap fs) \ Excluded)]
    /\ UNCHANGED <<environment, ops, selected, store, cancel, completed,
                   mutex, ui, worker, watcher>>

ScanCancelled(r) ==
    /\ cancel
    /\ left[r] # {}
    /\ left' = [left EXCEPT ![r] = {}]
    /\ UNCHANGED <<environment, ops, selected, store, cancel, completed,
                   mutex, ui, worker, found, watcher>>

Scanner(r) == ScanFile(r) \/ ScanCancelled(r)

----------------------------------------------------------------------------
(* The worker.                                                             *)

Goto(pc) == worker' = [worker EXCEPT !.pc = pc]

\* IndexingThread reads the selection on its own thread.
BeginRebuild ==
    /\ worker.pc = "rebuild"
    /\ LET roots == Effective(selected)
       IN  /\ worker' = [worker EXCEPT !.pc = "scan", !.roots = roots]
           /\ left' = [r \in Root |-> IF r \in roots THEN Under[r] ELSE {}]
           /\ found' = [r \in Root |-> {}]
    /\ status' = "Scanning"
    /\ UNCHANGED <<index, saved, completed, mutex, watcher>>

\* Mutant: a cancelled rebuild returns without SetEvent.
ReturnCancelled ==
    /\ worker.pc = "scan"
    /\ \A r \in Root : left[r] = {}
    /\ Goto(IF cancel THEN "none" ELSE "swap")
    /\ UNCHANGED <<store, completed, mutex, scan, watcher>>

JoinScans ==
    /\ worker.pc = "scan"
    /\ \A r \in Root : left[r] = {}
    /\ Goto(IF cancel THEN "signal" ELSE "swap")
    /\ UNCHANGED <<store, completed, mutex, scan, watcher>>

\* Mutant: a rebuild adds to the index instead of replacing it.
AppendToIndex ==
    /\ worker.pc = "swap"
    /\ index' = [f \in File |->
                    index[f] + Cardinality({r \in worker.roots : f \in found[r]})]
    /\ found' = [r \in Root |-> {}]
    /\ Goto("save")
    /\ UNCHANGED <<saved, status, completed, mutex, left, watcher>>

\* BeginWrite, AddEntry and EndWrite: readers see the swap only.
SwapIndex ==
    /\ worker.pc = "swap"
    /\ index' = [f \in File |-> Cardinality({r \in worker.roots : f \in found[r]})]
    /\ found' = [r \in Root |-> {}]
    /\ Goto("save")
    /\ UNCHANGED <<saved, status, completed, mutex, left, watcher>>

\* Save and EmitStatusDone, then StartLiveMonitoring reads the selection again.
SaveRebuild ==
    /\ worker.pc = "save"
    /\ saved' = index
    /\ status' = "WatchingForChanges"
    /\ worker' = [worker EXCEPT !.pc = "watch", !.todo = Effective(selected)]
    /\ UNCHANGED <<index, completed, mutex, scan, watcher>>

\* StartWatchersForRoots reads m_cancel, and then takes the mutex.
CheckCancel(r) ==
    /\ worker.pc = "watch"
    /\ r \in worker.todo
    /\ IF cancel THEN Goto("signal")
       ELSE worker' = [worker EXCEPT !.pc = "start", !.todo = @ \ {r},
                                      !.cur = r]
    /\ UNCHANGED <<store, completed, mutex, scan, watcher>>

StartWatcher ==
    /\ worker.pc = "start"
    /\ mutex = "free"
    /\ AddWatcher(worker.cur)
    /\ worker' = [worker EXCEPT !.pc = "watch", !.cur = NoRoot]
    /\ UNCHANGED <<store, completed, mutex, scan>>

AllStarted ==
    /\ worker.pc = "watch"
    /\ worker.todo = {}
    /\ Goto("signal")
    /\ UNCHANGED <<store, completed, mutex, scan, watcher>>

\* IndexPathsThread, one root: scan it, and add what was found entry by entry.
\* SetEvent is the last thing every job does.
ScanPath(r) ==
    /\ worker.pc = "nextPath"
    /\ ~cancel
    /\ r \in worker.todo
    /\ worker' = [worker EXCEPT !.pc = "scanPath", !.cur = r]
    /\ left' = [left EXCEPT ![r] = Under[r]]
    /\ status' = "Scanning"
    /\ UNCHANGED <<index, saved, completed, mutex, found, watcher>>

ApplyPath ==
    /\ worker.pc = "scanPath"
    /\ left[worker.cur] = {}
    /\ found[worker.cur] # {}
    /\ \E f \in found[worker.cur] :
          /\ ApplyAdd(f)
          /\ found' = [found EXCEPT ![worker.cur] = @ \ {f}]
    /\ UNCHANGED <<saved, status, completed, mutex, worker, left, watcher>>

PathApplied ==
    /\ worker.pc = "scanPath"
    /\ left[worker.cur] = {}
    /\ found[worker.cur] = {}
    /\ worker' = [worker EXCEPT !.pc = "nextPath", !.todo = @ \ {worker.cur},
                                !.cur = NoRoot]
    /\ UNCHANGED <<store, completed, mutex, scan, watcher>>

\* Save, EmitStatusDone and StartWatchersForRoots are skipped when cancelled.
SavePaths ==
    /\ worker.pc = "nextPath"
    /\ cancel \/ worker.todo = {}
    /\ IF cancel
       THEN Goto("signal") /\ UNCHANGED <<saved, status>>
       ELSE /\ saved' = index
            /\ status' = "WatchingForChanges"
            /\ worker' = [worker EXCEPT !.pc = "watch", !.todo = worker.roots]
    /\ UNCHANGED <<index, completed, mutex, scan, watcher>>

\* RemovePathsThread: RemoveEntriesUnderPath for each root ...
PurgePath(r) ==
    /\ worker.pc = "purge"
    /\ r \in worker.todo
    /\ index' = [f \in File |-> IF f \in Under[r] THEN 0 ELSE index[f]]
    /\ worker' = [worker EXCEPT !.todo = @ \ {r}]
    /\ status' = "Scanning"
    /\ UNCHANGED <<saved, completed, mutex, scan, watcher>>

\* ... then StopWatchersForRoots, which waits with the mutex held ...
StopLocks ==
    /\ worker.pc = "purge"
    /\ worker.todo = {}
    /\ mutex = "free"
    /\ mutex' = "worker"
    /\ worker' = [worker EXCEPT !.pc = "stop",
                                !.todo = StillWatched(worker.roots)]
    /\ UNCHANGED <<store, completed, scan, watcher>>

StopWatcher(r) ==
    /\ worker.pc = "stop"
    /\ r \in worker.todo
    /\ ~Joining(worker.todo)
    /\ SignalStop(r)
    /\ UNCHANGED <<store, completed, mutex, worker, scan>>

\* Mutants: the threads are not waited for; the mutex is not released.
StopWithoutJoin ==
    /\ worker.pc = "stop"
    /\ \A r \in worker.todo : watcher[r].stop \/ ~Watched(r)
    /\ mutex' = "free"
    /\ Goto("saveRemoval")
    /\ UNCHANGED <<store, completed, scan, watcher>>

StopKeepsLock ==
    /\ worker.pc = "stop"
    /\ StillWatched(worker.todo) = {}
    /\ Goto("saveRemoval")
    /\ UNCHANGED <<store, completed, mutex, scan, watcher>>

StopUnlocks ==
    /\ worker.pc = "stop"
    /\ StillWatched(worker.todo) = {}
    /\ mutex' = "free"
    /\ Goto("saveRemoval")
    /\ UNCHANGED <<store, completed, scan, watcher>>

\* Mutant: without EmitStatusDone.
SaveRemovalSilently ==
    /\ worker.pc = "saveRemoval"
    /\ saved' = index
    /\ Goto("signal")
    /\ UNCHANGED <<index, status, completed, mutex, scan, watcher>>

\* ... then Save and EmitStatusDone, whether it was cancelled or not.
SaveRemoval ==
    /\ worker.pc = "saveRemoval"
    /\ saved' = index
    /\ status' = "WatchingForChanges"
    /\ Goto("signal")
    /\ UNCHANGED <<index, completed, mutex, scan, watcher>>

\* SetEvent(m_completionEvent), and the thread ends.
Signal ==
    /\ worker.pc = "signal"
    /\ completed' = TRUE
    /\ worker' = NoWorker
    /\ found' = [r \in Root |-> {}]
    /\ UNCHANGED <<store, mutex, left, watcher>>

Worker ==
    /\ \/ BeginRebuild \/ JoinScans \/ SwapIndex \/ SaveRebuild
       \/ StartWatcher \/ AllStarted
       \/ ApplyPath \/ PathApplied \/ SavePaths
       \/ StopLocks \/ StopUnlocks \/ SaveRemoval \/ Signal
       \/ \E r \in Root : CheckCancel(r) \/ ScanPath(r) \/ PurgePath(r)
                          \/ StopWatcher(r)
    /\ UNCHANGED <<environment, ops, selected, cancel, ui>>

----------------------------------------------------------------------------
FileSystem ==
    \/ \E f \in File : CreateFile(f) \/ DeleteFile(f) \/ Write(f)
    \/ \E f, g \in File : RenameFile(f, g)
    \/ \E d \in Folder : FolderLeaves(d)
    \/ \E d \in Folder : \E files, dirs \in SUBSET Below[d] :
          dirs \subseteq Folder /\ FolderArrives(d, files, dirs)
    \/ \E r \in Root : LoseVolume(r)

User == Rebuild \/ Destroy \/ \E new \in Selections : ChangeSettings(new)

\* The program has ended.
Gone == ui.pc = "gone" /\ UNCHANGED vars

Next ==
    \/ FileSystem \/ User \/ UI \/ Worker
    \/ \E r \in Root : Scanner(r) \/ StopTimesOut(r)
    \/ \E t \in Thread : Watcher(t)
    \/ Gone

\* Every thread that can take a step eventually takes one; the user and other
\* programs need not do anything, and no Stop needs to run out of time.
Fairness ==
    /\ WF_vars(UI)
    /\ WF_vars(Worker)
    /\ \A r \in Root : WF_vars(Scanner(r))
    /\ \A t \in Thread : WF_vars(Watcher(t))

Spec == Init /\ [][Next]_vars

FairSpec == Spec /\ Fairness

----------------------------------------------------------------------------
UIState ==
    [pc : {"start", "watch", "idle", "cancel", "sweep", "wait", "destroy",
           "gone"},
     todo : SUBSET Root]

WorkerState ==
    [pc : {"none", "rebuild", "scan", "swap", "save", "watch", "start",
           "nextPath", "scanPath", "purge", "stop", "saveRemoval", "signal"},
     roots : SUBSET Root, todo : SUBSET Root, cur : Root \cup {NoRoot}]

ApplyState == [step : {"idle", "probe", "add"}, file : File \cup {NoFile}]

WatcherState ==
    [live : Nat, lost : BOOLEAN, stop : BOOLEAN, queue : Seq(Event),
     at : ApplyState]

TypeOK ==
    /\ fs \subseteq File
    /\ folders \subseteq Folder
    /\ Placed(fs, folders)
    /\ touched \subseteq File
    /\ adrift \subseteq File
    /\ timedOut \subseteq Root
    /\ changes \in 0..MaxChanges
    /\ ops \in 0..MaxOps
    /\ selected \in Selections
    /\ index \in [File -> Nat]
    /\ saved = NoIndex \/ saved \in [File -> Nat]
    /\ status \in {"Idle", "Scanning", "WatchingForChanges"}
    /\ cancel \in BOOLEAN
    /\ completed \in BOOLEAN
    /\ mutex \in {"free", "ui", "worker"}
    /\ ui \in UIState
    /\ worker \in WorkerState
    /\ left \in [Root -> SUBSET File]
    /\ found \in [Root -> SUBSET File]
    /\ watcher \in [Thread -> WatcherState]

Idle == ui.pc = "idle" /\ completed

\* The index is what it should be in the selected roots whose volumes were not
\* lost, but for excluded files, which watchers add, and for what came or went
\* with a folder above it, which watchers are not told of.
Exact ==
    \A f \in FilesUnder({r \in Effective(selected) : ~watcher[r].lost})
                \ (Excluded \cup adrift) :
        index[f] = Scanned(fs, Effective(selected))[f]

\* At most one watcher of a root is ever in m_watchers, whatever jobs follow
\* one another and from whichever thread they start watchers: two of them
\* would apply every event twice.
OneWatcherPerRoot == \A r \in Root : watcher[r].live <= 1

\* When no job runs, the last status the window was sent is the one that
\* enables the search bar: no job ends, nor is dropped, with the window left
\* in "Scanning".
SearchBarEnabled == Idle => status = "WatchingForChanges"

\* Between jobs, a file that no watcher is responsible for has as many entries
\* in memory as in the file: what a job did to it was saved, and nobody changes
\* it afterwards, so that a root that was removed stays as it was saved.  This
\* is what StopWatchersForRoots stops the watchers for, before Save; it fails
\* for roots whose thread did not end within five seconds.
UnwatchedFilesAreSaved ==
    Idle => \A f \in File \ FilesUnder({r \in Root : Watched(r)} \cup timedOut) :
                index[f] = saved[f]

\* Once ~Indexer has returned, none of its threads runs (a watcher that a
\* worker starts after Cancel has emptied m_watchers included) but those that a
\* Stop has given up on.
OnlyLateThreadsRunOn ==
    ui.pc = "gone" =>
        /\ worker.pc = "none"
        /\ \A r \in Root : left[r] = {} /\ watcher[r] = NoWatcher
        /\ timedOut = {} => \A t \in Late : watcher[t] = NoWatcher

\* A file nobody touched has exactly one entry if it is below a selected root
\* and not excluded, and none otherwise, after any sequence of start-up, load,
\* rebuild, added and removed roots, and whatever happens to the other files:
\* no job loses an entry, doubles it or leaves it behind.  Left out are the
\* files of a root (de)selected while a job ran: that command is dropped.
UntouchedFilesIndexedOnce ==
    Idle => \A f \in File \ touched :
                index[f] = Scanned(fs, Effective(selected))[f]

\* If nothing changes while a job runs or before the watchers do, the index of
\* the selected roots is exact whenever every event was applied, although the
\* file may be gone, or back, or a folder by the time its event is handled.
\* What moves with a folder is left out, until the next rebuild.
SettledIndexIsExact == Calm /\ Idle /\ Drained => Exact

\* A job that was started ends, and its completion event is set.
JobsComplete == ~completed ~> completed

\* ~Indexer returns: Cancel, which joins watchers with the mutex held, and the
\* worker, which may hold it or be about to start a watcher, never wait for
\* each other.
DestructionReturns == ui.pc = "cancel" ~> ui.pc = "gone"

\* In a calm system the index becomes exact, and stays so once the files stop
\* changing, but for what moved with a folder since the last rebuild.
IndexCatchesUp ==
    <>[](Exact \/ ui.pc \in {"cancel", "sweep", "wait", "destroy", "gone"})

----------------------------------------------------------------------------
(* What the repository says of the program, and the code does not do.      *)

\* Indexer.h:52, "Remove all index entries under the given paths and save".
RemovePathsRemovesAll ==
    [][SaveRemoval => \A f \in FilesUnder(worker.roots) : saved'[f] = 0]_vars

\* docs/architecture.md: "Post-build, UsnJournalMonitor (NTFS) or
\* ChangeWatcher (non-NTFS) feed live changes back into IndexStore via
\* Apply{Add,Remove,Rename}."  A folder that is moved is one change, and the
\* files below it keep the entries they had.
FoldersAreFollowed ==
    Calm /\ Idle /\ Drained =>
        \A f \in adrift : index[f] = Scanned(fs, Effective(selected))[f]
=============================================================================
