--------------------------- MODULE IndexerProofs ---------------------------
(***************************************************************************)
(* For every finite set of roots, whatever files, folders and changes      *)
(* there are: no root is watched twice, the search bar comes back, only    *)
(* threads a Stop has given up on run after the destructor, a file that    *)
(* nobody touches is in the index exactly once or, as it should, not at    *)
(* all, in a calm system the index is exact once all events were applied,  *)
(* but for what moved with a folder, and a file no watcher is responsible  *)
(* for is saved as it is in memory.                                        *)
(*                                                                         *)
(* None of these is inductive. They rest on who may run when: the worker   *)
(* exists until the completion event is set, the destructor waits for it,  *)
(* and the watchers of a root are only started by the job that indexed it  *)
(* or by StartWatching, which the window calls when no job is running.     *)
(***************************************************************************)
EXTENDS Indexer, FiniteSetTheorems, TLAPS

USE DEF Thread

----------------------------------------------------------------------------
(* The threads of Indexer.                                                 *)

Closing == ui.pc \in {"cancel", "sweep", "wait", "destroy", "gone"}

\* Who runs, who holds the mutex, and when m_cancel and the completion event
\* are set.
ThreadsInv ==
    /\ completed <=> worker.pc = "none"
    /\ cancel <=> Closing
    /\ ui.pc \in {"start", "watch", "destroy", "gone"} => completed
    /\ mutex = "ui" <=> ui.pc = "sweep"
    /\ mutex = "worker" <=> worker.pc = "stop"
    /\ worker.pc \in {"start", "scanPath"} => worker.cur \in Root

\* A scan thread has work only while the worker waits for it.
ScansInv ==
    \A r \in Root :
        left[r] # {} => \/ worker.pc = "scan"
                        \/ worker.pc = "scanPath" /\ worker.cur = r

\* A root that is not in m_watchers has no thread, queue or stop event, and a
\* thread is late only if a Stop has given up on it.
WatchersInv ==
    /\ \A t \in Thread : watcher[t].live = 0 => watcher[t] = NoWatcher
    /\ timedOut = {} => \A t \in Late : watcher[t].live = 0

\* What was stopped so far stays stopped: nobody starts a watcher of a root
\* that the worker, or the destructor, has dealt with.
StopsInv ==
    /\ worker.pc = "stop" =>
          \A r \in worker.roots \ worker.todo : watcher[r].live = 0
    /\ worker.pc = "saveRemoval" => \A r \in worker.roots : watcher[r].live = 0
    /\ ui.pc = "destroy" => \A r \in Root \ ui.todo : watcher[r].live = 0
    /\ ui.pc = "gone" => \A r \in Root : watcher[r].live = 0

\* The steps of a job at which the window may have been told of it and not
\* yet that it is done.
Busy == {"rebuild", "scan", "swap", "save", "nextPath", "scanPath", "purge",
         "stop", "saveRemoval"}

StatusInv ==
    \/ status = "WatchingForChanges"
    \/ ui.pc = "start"
    \/ cancel
    \/ worker.pc \in Busy

JobsInv ==
    /\ TypeOK
    /\ ThreadsInv
    /\ ScansInv
    /\ WatchersInv
    /\ OneWatcherPerRoot
    /\ StopsInv
    /\ StatusInv

----------------------------------------------------------------------------
(* Types.                                                                  *)

\* A set of roots has a number of elements.
LEMMA RootsCounted ==
    ASSUME NEW S \in SUBSET Root
    PROVE  Cardinality(S) \in Nat
BY FS_Subset, FS_CardinalityType, IndexerAssumption DEF IndexerAssumption

LEMMA ScannedType ==
    ASSUME NEW files, NEW roots \in SUBSET Root
    PROVE  Scanned(files, roots) \in [File -> Nat]
<1>1. ASSUME NEW f \in File
      PROVE  Cardinality({r \in roots : /\ f \in Under[r]
                                        /\ f \in files /\ f \notin Excluded})
                \in Nat
  BY RootsCounted
<1> QED
  BY <1>1 DEF Scanned

LEMMA EffectiveType ==
    ASSUME NEW selection \in Selections
    PROVE  Effective(selection) \in SUBSET Root
BY IndexerAssumption DEF IndexerAssumption, Effective

LEMMA NoWatcherType == NoWatcher \in WatcherState
BY DEF NoWatcher, WatcherState, ApplyState

LEMMA WatcherFields ==
    ASSUME NEW w \in WatcherState
    PROVE  /\ w.live \in Nat /\ w.lost \in BOOLEAN /\ w.stop \in BOOLEAN
           /\ w.queue \in Seq(Event)
           /\ w.at \in ApplyState
           /\ w = [live |-> w.live, lost |-> w.lost, stop |-> w.stop,
                   queue |-> w.queue, at |-> w.at]
BY DEF WatcherState

LEMMA NotifyType ==
    ASSUME NEW w \in [Thread -> WatcherState], NEW event \in Event
    PROVE  Notify(w, event) \in [Thread -> WatcherState]
<1>1. ASSUME NEW r \in Thread
      PROVE  [w[r] EXCEPT !.queue = @ \o [i \in 1..w[r].live |-> event]]
                \in WatcherState
  <2> DEFINE q == w[r].queue \o [i \in 1..w[r].live |-> event]
  <2>1. w[r].queue \in Seq(Event) /\ w[r].live \in Nat
    BY WatcherFields
  <2>2. [i \in 1..w[r].live |-> event] \in Seq(Event)
    BY <2>1
  <2>3. q \in Seq(Event)
    BY <2>1, <2>2
  <2> HIDE DEF q
  <2>4. [w[r] EXCEPT !.queue = q] \in WatcherState
    BY <2>3 DEF WatcherState
  <2> QED
    BY <2>4 DEF q
<1> QED
  BY <1>1 DEF Notify

\* What a watcher's own thread does to it, and to no other.
LEMMA AtFacts ==
    ASSUME TypeOK, NEW r \in Thread, NEW step \in {"idle", "probe", "add"},
           NEW f \in File \cup {NoFile}, At(r, step, f),
           watcher[r].at.step = "idle" => watcher[r].queue # <<>>
    PROVE  /\ watcher' \in [Thread -> WatcherState]
           /\ \A q \in Thread \ {r} : watcher'[q] = watcher[q]
           /\ watcher'[r].live = watcher[r].live
           /\ watcher'[r].lost = watcher[r].lost
           /\ watcher'[r].stop = watcher[r].stop
           /\ watcher'[r].at = [step |-> step, file |-> f]
           /\ watcher'[r].queue = IF watcher[r].at.step = "idle"
                                  THEN Tail(watcher[r].queue)
                                  ELSE watcher[r].queue
<1> DEFINE q == IF watcher[r].at.step = "idle" THEN Tail(watcher[r].queue)
                ELSE watcher[r].queue
           a == [step |-> step, file |-> f]
<1>1. watcher \in [Thread -> WatcherState] /\ watcher[r] \in WatcherState
  BY DEF TypeOK
<1>2. q \in Seq(Event) /\ a \in ApplyState
  BY <1>1, WatcherFields DEF ApplyState
<1>3. watcher' = [watcher EXCEPT ![r].at = a, ![r].queue = q]
  BY DEF At
<1> HIDE DEF q, a
<1>4. [watcher[r] EXCEPT !.at = a, !.queue = q] \in WatcherState
  BY <1>1, <1>2 DEF WatcherState
<1>5. /\ watcher'[r] = [watcher[r] EXCEPT !.at = a, !.queue = q]
      /\ watcher' \in [Thread -> WatcherState]
      /\ \A p \in Thread \ {r} : watcher'[p] = watcher[p]
  BY <1>1, <1>3, <1>4
<1>6. /\ watcher'[r].live = watcher[r].live
      /\ watcher'[r].lost = watcher[r].lost
      /\ watcher'[r].stop = watcher[r].stop
      /\ watcher'[r].at = a
      /\ watcher'[r].queue = q
  BY <1>1, <1>5 DEF WatcherState
<1> QED
  BY <1>5, <1>6 DEF q, a

LEMMA InitType == Init => TypeOK
<1> SUFFICES ASSUME Init PROVE TypeOK
  OBVIOUS
<1>1. selected \in Selections /\ Effective(selected) \in SUBSET Root
  BY EffectiveType DEF Init
<1>2. saved = NoIndex \/ saved \in [File -> Nat]
  BY <1>1, ScannedType DEF Init
<1>3. watcher \in [Thread -> WatcherState]
  BY NoWatcherType DEF Init
<1>4. ui \in UIState /\ worker \in WorkerState
  BY DEF Init, UIState, WorkerState, NoWorker
<1>5. /\ touched \subseteq File /\ folders \subseteq Folder
      /\ Placed(fs, folders) /\ adrift = {} /\ timedOut = {}
  BY DEF Init
<1>6. changes \in 0..MaxChanges /\ ops \in 0..MaxOps
  BY IndexerAssumption DEF Init, IndexerAssumption
<1> QED
  BY <1>1, <1>2, <1>3, <1>4, <1>5, <1>6 DEF Init, TypeOK

LEMMA FileSystemType == TypeOK /\ FileSystem => TypeOK'
<1> SUFFICES ASSUME TypeOK, FileSystem PROVE TypeOK'
  OBVIOUS
<1> USE DEF TypeOK
<1>1. ASSUME NEW files \in SUBSET File, NEW dirs \in SUBSET Folder,
             NEW named \in SUBSET File, NEW moved \in SUBSET File,
             NEW w \in [Thread -> WatcherState],
             Change(files, dirs, named, moved, w)
      PROVE  TypeOK'
  <2>1. Placed(fs', folders') /\ fs' \subseteq File /\ folders' \subseteq Folder
    BY <1>1 DEF Change
  <2> QED
    BY <1>1, <2>1, IndexerAssumption
    DEF Change, MayChange, IndexerAssumption, store, scan, NoIndex
<1>2. ASSUME NEW f \in File
      PROVE  Added(f) \in Event /\ Removed(f) \in Event /\ Modified(f) \in Event
  BY DEF Added, Removed, Modified, Event
<1>3. ASSUME NEW f \in File, CreateFile(f) \/ DeleteFile(f) \/ Write(f)
      PROVE  TypeOK'
  BY <1>1, <1>2, <1>3, NotifyType DEF CreateFile, DeleteFile, Write
<1>4. ASSUME NEW f \in File, NEW g \in File, RenameFile(f, g)
      PROVE  TypeOK'
  BY <1>1, <1>2, <1>4, NotifyType DEF RenameFile
<1>5. Folder \subseteq File /\ Below \in [Folder -> SUBSET File]
  BY IndexerAssumption DEF IndexerAssumption
<1>6. ASSUME NEW d \in Folder, FolderLeaves(d)
      PROVE  TypeOK'
  BY <1>1, <1>2, <1>5, <1>6, NotifyType DEF FolderLeaves, Exists
<1>7. ASSUME NEW d \in Folder, NEW files \in SUBSET Below[d],
             NEW dirs \in SUBSET Below[d], dirs \subseteq Folder,
             FolderArrives(d, files, dirs)
      PROVE  TypeOK'
  BY <1>1, <1>2, <1>5, <1>7, NotifyType DEF FolderArrives
<1>8. ASSUME NEW r \in Root, LoseVolume(r)
      PROVE  TypeOK'
  <2>1. ASSUME NEW w \in WatcherState, NEW q \in Seq(Event)
        PROVE  [w EXCEPT !.lost = TRUE, !.queue = q] \in WatcherState
    BY DEF WatcherState
  <2>2. watcher' \in [Thread -> WatcherState]
    <3>1. <<>> \in Seq(Event)
      OBVIOUS
    <3> QED
      BY <2>1, <3>1, <1>8 DEF LoseVolume
  <2> QED
    BY <2>2, <1>8 DEF LoseVolume, environment, disk, store, scan, NoIndex
<1> QED
  BY <1>3, <1>4, <1>6, <1>7, <1>8 DEF FileSystem

LEMMA WatcherType ==
    ASSUME TypeOK, NEW r \in Thread, Watcher(r)
    PROVE  TypeOK'
<1> USE DEF TypeOK
<1>1. ASSUME watcher' \in [Thread -> WatcherState], index' \in [File -> Nat]
      PROVE  TypeOK'
  BY <1>1 DEF Watcher, environment, disk, scan, NoIndex
<1>2. watcher[r] \in WatcherState
  OBVIOUS
<1>3. ASSUME NEW f, ApplyAdd(f) \/ ApplyRemove(f)
      PROVE  index' \in [File -> Nat]
  BY <1>3 DEF ApplyAdd, ApplyRemove
<1>4. watcher[r].queue # <<>> => NextEvent(r).file \in File
  <2>1. watcher[r].queue \in Seq(Event)
    BY <1>2, WatcherFields
  <2>2. watcher[r].queue # <<>> => Head(watcher[r].queue) \in Event
    BY <2>1
  <2> QED
    BY <2>2 DEF NextEvent, Event
<1>5. watcher[r].at.file \in File \cup {NoFile}
  BY <1>2, WatcherFields DEF ApplyState
<1>6. CASE TakeRemove(r)
  BY <1>1, <1>3, <1>4, <1>6, AtFacts DEF TakeRemove, Quiet
<1>7. CASE TakeAdded(r)
  BY <1>1, <1>4, <1>7, AtFacts DEF TakeAdded, Probe, Quiet
<1>8. CASE ProbeModified(r)
  BY <1>1, <1>5, <1>8, AtFacts DEF ProbeModified, Probe, Quiet
<1>9. CASE FinishAdd(r)
  BY <1>1, <1>3, <1>9, AtFacts DEF FinishAdd, Quiet
<1>10. CASE ForgetEvent(r)
  BY <1>1, <1>10, AtFacts DEF ForgetEvent, Quiet
<1>11. CASE WatcherExits(r)
  BY <1>1, <1>11, NoWatcherType DEF WatcherExits
<1> QED
  BY <1>6, <1>7, <1>8, <1>9, <1>10, <1>11 DEF Watcher

\* A thread that has outlived its watcher keeps what it had.
LEMMA StopTimesOutFacts ==
    ASSUME TypeOK, NEW r \in Root, StopTimesOut(r)
    PROVE  /\ watcher' \in [Thread -> WatcherState]
           /\ timedOut' = timedOut \cup {r}
           /\ watcher[r].stop
           /\ watcher'[r] = NoWatcher
           /\ \A q \in Root \ {r} : watcher'[q] = watcher[q]
           /\ \E t \in Late : /\ watcher[t] = NoWatcher
                            /\ watcher'[t] = watcher[r]
                            /\ \A q \in Thread \ {r, t} : watcher'[q] = watcher[q]
           /\ UNCHANGED <<disk, adrift, ops, selected, store, cancel, completed,
                          mutex, ui, worker, scan>>
<1>1. /\ watcher[r].stop /\ timedOut' = timedOut \cup {r}
      /\ UNCHANGED <<disk, adrift, ops, selected, store, cancel, completed,
                     mutex, ui, worker, scan>>
  BY DEF StopTimesOut
<1>2. PICK t \in Late :
         /\ watcher[t] = NoWatcher
         /\ watcher' = [watcher EXCEPT ![t] = watcher[r], ![r] = NoWatcher]
  BY DEF StopTimesOut
<1>3. /\ watcher \in [Thread -> WatcherState] /\ watcher[r] \in WatcherState
      /\ t \notin Root
  BY IndexerAssumption DEF TypeOK, IndexerAssumption
<1>4. /\ watcher' \in [Thread -> WatcherState]
      /\ watcher'[r] = NoWatcher
      /\ watcher'[t] = watcher[r]
      /\ \A q \in Thread \ {r, t} : watcher'[q] = watcher[q]
  BY <1>2, <1>3, NoWatcherType
<1> QED
  BY <1>1, <1>2, <1>3, <1>4

LEMMA StopTimesOutType ==
    ASSUME TypeOK, NEW r \in Root, StopTimesOut(r)
    PROVE  TypeOK'
BY StopTimesOutFacts DEF TypeOK, disk, store, scan, NoIndex

\* What AddWatcher, SignalStop and the end of a thread make of the watchers.
LEMMA AddWatcherFacts ==
    ASSUME TypeOK, NEW r \in Root, AddWatcher(r)
    PROVE  /\ watcher' \in [Thread -> WatcherState]
           /\ \A q \in Thread \ {r} : watcher'[q] = watcher[q]
           /\ watcher[r].live > 0 => watcher'[r] = watcher[r]
           /\ watcher[r].live = 0 => watcher'[r] = [watcher[r] EXCEPT !.live = 1]
<1> DEFINE n == IF watcher[r].live > 0 THEN watcher[r].live
                ELSE watcher[r].live + 1
<1>1. watcher \in [Thread -> WatcherState] /\ watcher[r] \in WatcherState
  BY DEF TypeOK
<1>2. watcher[r].live \in Nat /\ n \in Nat
  BY <1>1, WatcherFields
<1>3. watcher' = [watcher EXCEPT ![r].live = n]
  BY DEF AddWatcher
<1> HIDE DEF n
<1>4. [watcher[r] EXCEPT !.live = n] \in WatcherState
  BY <1>1, <1>2 DEF WatcherState
<1>5. /\ watcher'[r] = [watcher[r] EXCEPT !.live = n]
      /\ watcher' \in [Thread -> WatcherState]
      /\ \A q \in Thread \ {r} : watcher'[q] = watcher[q]
  BY <1>1, <1>3, <1>4
<1>6. [watcher[r] EXCEPT !.live = watcher[r].live] = watcher[r]
  BY <1>1 DEF WatcherState
<1> QED
  BY <1>2, <1>5, <1>6 DEF n

LEMMA SignalStopFacts ==
    ASSUME TypeOK, NEW r \in Root, SignalStop(r)
    PROVE  /\ watcher' \in [Thread -> WatcherState]
           /\ \A q \in Thread \ {r} : watcher'[q] = watcher[q]
           /\ watcher'[r] = [watcher[r] EXCEPT !.stop = TRUE]
<1>1. watcher \in [Thread -> WatcherState] /\ watcher[r] \in WatcherState
  BY DEF TypeOK
<1>2. [watcher[r] EXCEPT !.stop = TRUE] \in WatcherState
  BY <1>1 DEF WatcherState
<1> QED
  BY <1>1, <1>2 DEF SignalStop

LEMMA StartJobType ==
    ASSUME NEW pc \in {"rebuild", "nextPath", "purge"},
           NEW roots \in SUBSET Root, StartJob(pc, roots)
    PROVE  /\ worker' \in WorkerState /\ completed' \in BOOLEAN
           /\ cancel' \in BOOLEAN /\ adrift' \in {{}, adrift}
BY DEF StartJob, WorkerState

LEMMA UIType == TypeOK /\ UI => TypeOK'
<1> SUFFICES ASSUME TypeOK, UI PROVE TypeOK'
  OBVIOUS
<1> USE DEF TypeOK
<1>1. ui.todo \in SUBSET Root /\ ui.pc \in {"start", "watch", "idle", "cancel",
         "sweep", "wait", "destroy", "gone"}
  BY DEF UIState
<1>2. ASSUME NEW pc \in {"start", "watch", "idle", "cancel", "sweep", "wait",
                         "destroy", "gone"},
             NEW todo \in SUBSET Root
      PROVE  [pc |-> pc, todo |-> todo] \in UIState
  BY DEF UIState
<1>3. ASSUME NEW roots \in SUBSET Root
      PROVE  StillWatched(roots) \in SUBSET Root
  BY DEF StillWatched
<1>4. CASE StartUp
  <2>1. ui' \in UIState
    BY <1>1, <1>2, <1>4, EffectiveType DEF StartUp, UIState
  <2>2. /\ worker' \in WorkerState /\ completed' \in BOOLEAN
        /\ cancel' \in BOOLEAN /\ adrift' \in SUBSET File
    BY <1>4, StartJobType DEF StartUp, NoJob
  <2> QED
    <3>1. index' \in [File -> Nat]
      BY <1>4 DEF StartUp
    <3> QED
      BY <1>4, <2>1, <2>2, <3>1 DEF StartUp, disk, scan, NoIndex
<1>5. ASSUME ui' \in UIState, watcher' \in [Thread -> WatcherState],
             mutex' \in {"free", "ui", "worker"},
             UNCHANGED <<environment, ops, selected, store, cancel, completed,
                         worker, scan>>
      PROVE  TypeOK'
  BY <1>5 DEF environment, disk, store, scan, NoIndex
<1>6. CASE ~StartUp
  <2>1. UNCHANGED <<environment, ops, selected, store, cancel, completed,
                    worker, scan>>
    BY <1>6 DEF UI
  <2>2. CASE StartedUI
    BY <1>5, <2>1, <2>2 DEF StartedUI, UIState
  <2>3. CASE CancelLocks
    BY <1>2, <1>3, <1>5, <2>1, <2>3 DEF CancelLocks
  <2>4. CASE CancelUnlocks
    BY <1>2, <1>5, <2>1, <2>4 DEF CancelUnlocks
  <2>5. CASE WaitForCompletion
    BY <1>2, <1>3, <1>5, <2>1, <2>5 DEF WaitForCompletion
  <2>6. CASE Destroyed
    BY <1>2, <1>5, <2>1, <2>6 DEF Destroyed
  <2>7. ASSUME NEW r \in Root, StartWatcherUI(r)
        PROVE  TypeOK'
    <3>1. ui' \in UIState
      BY <2>7 DEF StartWatcherUI, UIState
    <3> QED
      BY <1>5, <2>1, <2>7, <3>1, AddWatcherFacts DEF StartWatcherUI
  <2>8. ASSUME NEW r \in Root, StopWatcherUI(r)
        PROVE  TypeOK'
    BY <1>5, <2>1, <2>8, SignalStopFacts DEF StopWatcherUI
  <2> QED
    BY <1>6, <2>2, <2>3, <2>4, <2>5, <2>6, <2>7, <2>8 DEF UI
<1> QED
  BY <1>4, <1>6

LEMMA WorkerType == TypeOK /\ Worker => TypeOK'
<1> SUFFICES ASSUME TypeOK, Worker PROVE TypeOK'
  OBVIOUS
<1> USE DEF TypeOK
<1>1. /\ worker.pc \in {"none", "rebuild", "scan", "swap", "save", "watch",
                        "start", "nextPath", "scanPath", "purge", "stop",
                        "saveRemoval", "signal"}
      /\ worker.roots \in SUBSET Root
      /\ worker.todo \in SUBSET Root
      /\ worker.cur \in Root \cup {NoRoot}
  BY DEF WorkerState
<1>2. Effective(selected) \in SUBSET Root
  BY EffectiveType
<1>3. Under \in [Root -> SUBSET File]
  BY IndexerAssumption DEF IndexerAssumption
<1>4. UNCHANGED <<environment, ops, selected, cancel, ui>>
  BY DEF Worker
<1>5. ASSUME worker' \in WorkerState, UNCHANGED scan,
             UNCHANGED <<store, completed, mutex, watcher>>
      PROVE  TypeOK'
  BY <1>4, <1>5 DEF environment, disk, store, scan, NoIndex
<1>6. ASSUME worker' \in WorkerState, UNCHANGED scan,
             index' \in [File -> Nat],
             saved' = saved \/ saved' = index,
             status' \in {"Idle", "Scanning", "WatchingForChanges"},
             UNCHANGED <<completed, mutex, watcher>>
      PROVE  TypeOK'
  BY <1>4, <1>6 DEF environment, disk, scan, NoIndex
<1>7. ASSUME worker' \in WorkerState,
             left' \in [Root -> SUBSET File], found' \in [Root -> SUBSET File],
             index' \in [File -> Nat], UNCHANGED saved,
             status' \in {"Idle", "Scanning", "WatchingForChanges"},
             completed' \in BOOLEAN,
             UNCHANGED <<mutex, watcher>>
      PROVE  TypeOK'
  BY <1>4, <1>7 DEF environment, disk, NoIndex
<1>8. ASSUME worker' \in WorkerState, UNCHANGED <<store, completed, scan>>,
             mutex' \in {"free", "ui", "worker"},
             watcher' \in [Thread -> WatcherState]
      PROVE  TypeOK'
  BY <1>4, <1>8 DEF environment, disk, store, scan, NoIndex
<1>9. CASE BeginRebuild
  <2>1. worker' \in WorkerState
    BY <1>2, <1>9 DEF BeginRebuild, WorkerState
  <2>2. left' \in [Root -> SUBSET File] /\ found' \in [Root -> SUBSET File]
    BY <1>2, <1>3, <1>9 DEF BeginRebuild
  <2> QED
    BY <1>7, <1>9, <2>1, <2>2 DEF BeginRebuild
<1>10. CASE JoinScans
  BY <1>5, <1>10 DEF JoinScans, Goto, WorkerState
<1>11. CASE SwapIndex
  <2>1. ASSUME NEW f \in File
        PROVE  Cardinality({r \in worker.roots : f \in found[r]}) \in Nat
    BY <1>1, RootsCounted
  <2>2. index' \in [File -> Nat]
    BY <1>11, <2>1 DEF SwapIndex
  <2>3. worker' \in WorkerState
    BY <1>11 DEF SwapIndex, Goto, WorkerState
  <2>4. found' \in [Root -> SUBSET File]
    BY <1>11 DEF SwapIndex
  <2> QED
    BY <1>7, <1>11, <2>2, <2>3, <2>4 DEF SwapIndex
<1>12. CASE SaveRebuild
  BY <1>2, <1>6, <1>12 DEF SaveRebuild, WorkerState
<1>13. CASE StartWatcher
  <2>1. worker' \in WorkerState
    BY <1>13 DEF StartWatcher, WorkerState
  <2>2. watcher' \in [Thread -> WatcherState]
    <3>1. CASE worker.cur \in Root
      BY <1>13, <3>1, AddWatcherFacts DEF StartWatcher
    <3>2. CASE worker.cur \notin Root
      <4>1. worker.cur \notin Thread
        BY <1>1, <3>2, IndexerAssumption DEF IndexerAssumption
      <4> QED
        BY <1>13, <4>1 DEF StartWatcher, AddWatcher
    <3> QED
      BY <3>1, <3>2
  <2> QED
    BY <1>8, <1>13, <2>1, <2>2 DEF StartWatcher
<1>14. CASE AllStarted
  BY <1>5, <1>14 DEF AllStarted, Goto, WorkerState
<1>15. CASE ApplyPath
  <2>1. index' \in [File -> Nat]
    <3>1. PICK f \in found[worker.cur] : index' = [index EXCEPT ![f] = @ + 1]
      BY <1>15 DEF ApplyPath, ApplyAdd
    <3>2. ASSUME NEW g \in File
          PROVE  index'[g] \in Nat
      <4>1. index[g] \in Nat
        OBVIOUS
      <4> QED
        BY <3>1, <4>1
    <3> QED
      BY <3>1, <3>2
  <2>2. found' \in [Root -> SUBSET File]
    BY <1>15 DEF ApplyPath
  <2> QED
    BY <1>7, <1>15, <2>1, <2>2 DEF ApplyPath
<1>16. CASE PathApplied
  BY <1>5, <1>16 DEF PathApplied, WorkerState
<1>17. CASE SavePaths
  <2>1. worker' \in WorkerState
    BY <1>1, <1>17 DEF SavePaths, Goto, WorkerState
  <2> QED
    BY <1>6, <1>17, <2>1 DEF SavePaths
<1>18. CASE StopLocks
  <2>1. StillWatched(worker.roots) \in SUBSET Root
    BY <1>1 DEF StillWatched
  <2>2. worker' \in WorkerState
    BY <1>18, <2>1 DEF StopLocks, WorkerState
  <2> QED
    BY <1>8, <1>18, <2>2 DEF StopLocks
<1>19. CASE StopUnlocks
  BY <1>8, <1>19 DEF StopUnlocks, Goto, WorkerState
<1>20. CASE SaveRemoval
  BY <1>6, <1>20 DEF SaveRemoval, Goto, WorkerState
<1>21. CASE Signal
  BY <1>7, <1>21 DEF Signal, NoWorker, WorkerState, store
<1>22. ASSUME NEW r \in Root, CheckCancel(r)
       PROVE  TypeOK'
  <2>1. worker' \in WorkerState
    <3>1. CASE cancel
      BY <1>22, <3>1 DEF CheckCancel, Goto, WorkerState
    <3>2. CASE ~cancel
      <4>1. ASSUME NEW w \in WorkerState, NEW pc \in {"start"},
                   NEW todo \in SUBSET Root
            PROVE  [w EXCEPT !.pc = pc, !.todo = todo, !.cur = r]
                      \in WorkerState
        BY DEF WorkerState
      <4>2. worker.todo \ {r} \in SUBSET Root
        BY <1>1
      <4> QED
        BY <1>22, <3>2, <4>1, <4>2, ZenonT(40) DEF CheckCancel
    <3> QED
      BY <3>1, <3>2
  <2> QED
    BY <1>5, <1>22, <2>1 DEF CheckCancel
<1>23. ASSUME NEW r \in Root, ScanPath(r)
       PROVE  TypeOK'
  <2>1. worker' \in WorkerState
    BY <1>23 DEF ScanPath, WorkerState
  <2>2. left' \in [Root -> SUBSET File]
    BY <1>3, <1>23 DEF ScanPath
  <2> QED
    BY <1>7, <1>23, <2>1, <2>2 DEF ScanPath
<1>24. ASSUME NEW r \in Root, PurgePath(r)
       PROVE  TypeOK'
  <2>1. worker' \in WorkerState
    BY <1>24 DEF PurgePath, WorkerState
  <2>2. index' \in [File -> Nat]
    BY <1>24 DEF PurgePath
  <2> QED
    BY <1>6, <1>24, <2>1, <2>2 DEF PurgePath
<1>25. ASSUME NEW r \in Root, StopWatcher(r)
       PROVE  TypeOK'
  BY <1>8, <1>25, SignalStopFacts DEF StopWatcher
<1> QED
  BY <1>9, <1>10, <1>11, <1>12, <1>13, <1>14, <1>15, <1>16, <1>17, <1>18,
     <1>19, <1>20, <1>21, <1>22, <1>23, <1>24, <1>25 DEF Worker

LEMMA ScannerType ==
    ASSUME TypeOK, NEW r \in Root, Scanner(r)
    PROVE  TypeOK'
<1>1. left' \in [Root -> SUBSET File]
  BY DEF TypeOK, Scanner, ScanFile, ScanCancelled
<1>2. found' \in [Root -> SUBSET File]
  BY DEF TypeOK, Scanner, ScanFile, ScanCancelled
<1> QED
  BY <1>1, <1>2
  DEF TypeOK, Scanner, ScanFile, ScanCancelled, environment, disk, store, NoIndex

LEMMA UserType == TypeOK /\ User => TypeOK'
<1> SUFFICES ASSUME TypeOK, User PROVE TypeOK'
  OBVIOUS
<1> USE DEF TypeOK
<1>1. {} \in SUBSET Root
  OBVIOUS
<1>2. MayCommand => ops + 1 \in 0..MaxOps
  BY IndexerAssumption DEF MayCommand, IndexerAssumption
<1>3. CASE Rebuild
  BY <1>1, <1>2, <1>3, StartJobType DEF Rebuild, disk, store, scan, NoIndex
<1>4. CASE Destroy
  BY <1>4 DEF Destroy, environment, disk, store, scan, NoIndex, UIState
<1>5. ASSUME NEW new \in Selections, ChangeSettings(new)
      PROVE  TypeOK'
  <2>1. new \in SUBSET Root /\ selected \in SUBSET Root
    BY IndexerAssumption DEF IndexerAssumption
  <2>2. /\ worker' \in WorkerState /\ completed' \in BOOLEAN
        /\ cancel' \in BOOLEAN /\ adrift' \in SUBSET File
    BY <1>1, <1>5, <2>1, StartJobType DEF ChangeSettings, NoJob
  <2>3. touched' \in SUBSET File
    <3>1. FilesUnder((new \ selected) \cup (selected \ new)) \in SUBSET File
      BY <2>1, IndexerAssumption DEF IndexerAssumption, FilesUnder
    <3> QED
      BY <1>5, <3>1 DEF ChangeSettings
  <2> QED
    BY <1>2, <1>5, <2>2, <2>3 DEF ChangeSettings, store, scan, NoIndex
<1> QED
  BY <1>3, <1>4, <1>5 DEF User

LEMMA NextType == TypeOK /\ [Next]_vars => TypeOK'
<1>1. TypeOK /\ UNCHANGED vars => TypeOK'
  BY DEF TypeOK, vars, environment, disk, store, scan, NoIndex
<1> QED
  BY <1>1, FileSystemType, UserType, UIType, WorkerType, ScannerType,
     WatcherType, StopTimesOutType
  DEF Next, Gone

\* The index holds counts of entries, and every other variable what the code
\* may put into it, for all files, roots, selections and bounds.
THEOREM TypeCorrect == Spec => []TypeOK
BY InitType, NextType, PTL DEF Spec

----------------------------------------------------------------------------
(* Who runs.                                                               *)

\* Other programs, scan threads and watchers start and end no job.
LEMMA BystanderSteps ==
    ASSUME \/ FileSystem
           \/ \E r \in Root : Scanner(r) \/ StopTimesOut(r)
           \/ \E t \in Thread : Watcher(t)
           \/ Gone
           \/ UNCHANGED vars
    PROVE  UNCHANGED <<ops, selected, saved, status, cancel, completed, mutex,
                       ui, worker>>
<1>1. ASSUME FileSystem
      PROVE  UNCHANGED <<ops, selected, saved, status, cancel, completed,
                         mutex, ui, worker>>
  BY <1>1 DEF FileSystem, CreateFile, DeleteFile, Write, RenameFile,
              FolderLeaves, FolderArrives, Change, LoseVolume, store
<1>2. ASSUME NEW r \in Root, Scanner(r) \/ StopTimesOut(r)
      PROVE  UNCHANGED <<ops, selected, saved, status, cancel, completed,
                         mutex, ui, worker>>
  BY <1>2 DEF Scanner, ScanFile, ScanCancelled, StopTimesOut, store
<1>3. ASSUME NEW r \in Thread, Watcher(r)
      PROVE  UNCHANGED <<ops, selected, saved, status, cancel, completed,
                         mutex, ui, worker>>
  BY <1>3 DEF Watcher
<1>4. ASSUME Gone \/ UNCHANGED vars
      PROVE  UNCHANGED <<ops, selected, saved, status, cancel, completed,
                         mutex, ui, worker>>
  BY <1>4 DEF Gone, vars, store
<1> QED
  BY <1>1, <1>2, <1>3, <1>4

\* The index was loaded, or it is rebuilt.
LEMMA StartUpCases ==
    ASSUME TypeOK, StartUp
    PROVE  \/ /\ ui'.pc = "watch" /\ NoJob
              /\ saved # NoIndex /\ index' = saved
              /\ status' = "WatchingForChanges"
           \/ /\ ui'.pc = "idle" /\ StartJob("rebuild", {})
              /\ UNCHANGED index
<1>1. CASE saved # NoIndex /\ \E f \in File : saved[f] > 0
  <2>1. /\ ui' = [pc |-> "watch", todo |-> Effective(selected)] /\ NoJob
        /\ index' = saved /\ status' = "WatchingForChanges"
    BY <1>1, Zenon DEF StartUp
  <2> QED
    BY <1>1, <2>1
<1>2. CASE ~(saved # NoIndex /\ \E f \in File : saved[f] > 0)
  <2>1. /\ ui' = [ui EXCEPT !.pc = "idle"] /\ StartJob("rebuild", {})
        /\ UNCHANGED index
    BY <1>2, Zenon DEF StartUp
  <2>2. [ui EXCEPT !.pc = "idle"].pc = "idle"
    BY DEF TypeOK, UIState
  <2> QED
    BY <2>1, <2>2
<1> QED
  BY <1>1, <1>2

LEMMA ThreadsStep == TypeOK /\ ThreadsInv /\ [Next]_vars => ThreadsInv'
<1> SUFFICES ASSUME TypeOK, ThreadsInv, [Next]_vars PROVE ThreadsInv'
  OBVIOUS
<1> USE DEF ThreadsInv, Closing
<1>1. CASE UNCHANGED <<cancel, completed, mutex, ui, worker>>
  BY <1>1
<1>2. CASE User
  <2>1. CASE Destroy
    BY <2>1 DEF Destroy, TypeOK, UIState
  <2>2. CASE Rebuild
    BY <2>2 DEF Rebuild, MayCommand, StartJob
  <2>3. ASSUME NEW new \in Selections, ChangeSettings(new)
        PROVE  ThreadsInv'
    BY <2>3 DEF ChangeSettings, MayCommand, StartJob, NoJob
  <2> QED
    BY <1>2, <2>1, <2>2, <2>3 DEF User
<1>3. CASE UI
  <2>1. CASE StartUp
    <3>1. ui.pc = "start" /\ mutex' = mutex
      BY <2>1 DEF StartUp
    <3>2. CASE UNCHANGED <<cancel, completed, worker>> /\ ui'.pc = "watch"
      BY <3>1, <3>2
    <3>3. CASE StartJob("rebuild", {}) /\ ui'.pc = "idle"
      BY <3>1, <3>3 DEF StartJob
    <3> QED
      BY <2>1, <3>2, <3>3, StartUpCases DEF NoJob
  <2>2. CASE ~StartUp
    <3>1. UNCHANGED <<cancel, completed, worker>>
      BY <1>3, <2>2 DEF UI
    <3>2. CASE StartedUI
      BY <3>1, <3>2 DEF StartedUI, TypeOK, UIState
    <3>3. CASE CancelLocks
      BY <3>1, <3>3 DEF CancelLocks
    <3>4. CASE CancelUnlocks
      BY <3>1, <3>4 DEF CancelUnlocks
    <3>5. CASE WaitForCompletion
      BY <3>1, <3>5 DEF WaitForCompletion
    <3>6. CASE Destroyed
      BY <3>1, <3>6 DEF Destroyed
    <3>7. ASSUME NEW r \in Root, StartWatcherUI(r) \/ StopWatcherUI(r)
          PROVE  ThreadsInv'
      BY <3>1, <3>7 DEF StartWatcherUI, StopWatcherUI, TypeOK, UIState
    <3> QED
      BY <1>3, <2>2, <3>2, <3>3, <3>4, <3>5, <3>6, <3>7 DEF UI
  <2> QED
    BY <2>1, <2>2
<1>4. CASE Worker
  <2>1. UNCHANGED <<cancel, ui>>
    BY <1>4 DEF Worker
  <2>2. worker \in WorkerState
    BY DEF TypeOK
  <2>3. CASE BeginRebuild
    BY <2>1, <2>2, <2>3 DEF BeginRebuild, WorkerState
  <2>4. CASE JoinScans
    BY <2>1, <2>2, <2>4 DEF JoinScans, Goto, WorkerState
  <2>5. CASE SwapIndex
    BY <2>1, <2>2, <2>5 DEF SwapIndex, Goto, WorkerState
  <2>6. CASE SaveRebuild
    BY <2>1, <2>2, <2>6 DEF SaveRebuild, WorkerState
  <2>7. CASE StartWatcher
    BY <2>1, <2>2, <2>7 DEF StartWatcher, WorkerState
  <2>8. CASE AllStarted
    BY <2>1, <2>2, <2>8 DEF AllStarted, Goto, WorkerState
  <2>9. CASE ApplyPath
    BY <2>1, <2>9 DEF ApplyPath
  <2>10. CASE PathApplied
    BY <2>1, <2>2, <2>10 DEF PathApplied, WorkerState
  <2>11. CASE SavePaths
    BY <2>1, <2>2, <2>11 DEF SavePaths, Goto, WorkerState
  <2>12. CASE StopLocks
    BY <2>1, <2>2, <2>12 DEF StopLocks, WorkerState
  <2>13. CASE StopUnlocks
    BY <2>1, <2>2, <2>13 DEF StopUnlocks, Goto, WorkerState
  <2>14. CASE SaveRemoval
    BY <2>1, <2>2, <2>14 DEF SaveRemoval, Goto, WorkerState
  <2>15. CASE Signal
    BY <2>1, <2>15 DEF Signal, NoWorker
  <2>16. ASSUME NEW r \in Root, CheckCancel(r)
         PROVE  ThreadsInv'
    BY <2>1, <2>2, <2>16 DEF CheckCancel, Goto, WorkerState
  <2>17. ASSUME NEW r \in Root, ScanPath(r)
         PROVE  ThreadsInv'
    BY <2>1, <2>2, <2>17 DEF ScanPath, WorkerState
  <2>18. ASSUME NEW r \in Root, PurgePath(r)
         PROVE  ThreadsInv'
    BY <2>1, <2>2, <2>18 DEF PurgePath, WorkerState
  <2>19. ASSUME NEW r \in Root, StopWatcher(r)
         PROVE  ThreadsInv'
    BY <2>1, <2>19 DEF StopWatcher
  <2> QED
    BY <1>4, <2>3, <2>4, <2>5, <2>6, <2>7, <2>8, <2>9, <2>10, <2>11, <2>12,
       <2>13, <2>14, <2>15, <2>16, <2>17, <2>18, <2>19 DEF Worker
<1> QED
  BY <1>1, <1>2, <1>3, <1>4, BystanderSteps DEF Next

\* What a step may do to the watchers of one root: only StartWatchersForRoots
\* brings one into m_watchers, and one that goes leaves nothing behind.
Kept(q) ==
    /\ watcher'[q].live = watcher[q].live
    /\ watcher[q].live = 0 => watcher'[q] = watcher[q]

Started(q) ==
    /\ q \in Root
    /\ watcher[q].live = 0
    /\ watcher'[q].live = 1
    /\ StartWatcherUI(q) \/ (StartWatcher /\ worker.cur = q)

LEMMA KeptByNotify ==
    ASSUME NEW w \in [Thread -> WatcherState], NEW event \in Event,
           NEW q \in Thread
    PROVE  /\ Notify(w, event)[q].live = w[q].live
           /\ w[q].live = 0 => Notify(w, event)[q] = w[q]
<1> DEFINE new == w[q].queue \o [i \in 1..w[q].live |-> event]
<1>1. w[q] \in WatcherState /\ w[q].queue \in Seq(Event)
  BY WatcherFields
<1>2. \/ Notify(w, event)[q] = w[q]
      \/ Notify(w, event)[q] = [w[q] EXCEPT !.queue = new]
  BY DEF Notify
<1>3. w[q].live = 0 => new = w[q].queue
  BY <1>1
<1> HIDE DEF new
<1>4. /\ [w[q] EXCEPT !.queue = new].live = w[q].live
      /\ [w[q] EXCEPT !.queue = w[q].queue] = w[q]
  BY <1>1 DEF WatcherState
<1> QED
  BY <1>2, <1>3, <1>4

\* The steps that change m_watchers, or what is in it.
LEMMA WatchersMoves ==
    ASSUME [Next]_vars
    PROVE  \/ UNCHANGED watcher
           \/ FileSystem
           \/ \E t \in Thread : Watcher(t)
           \/ \E r \in Root : StopTimesOut(r)
           \/ \E r \in Root : SignalStop(r)
           \/ \E r \in Root : StartWatcherUI(r)
           \/ StartWatcher
<1>1. CASE UI
  <2>1. \/ \E r \in Root : StartWatcherUI(r)
        \/ \E r \in Root : StopWatcherUI(r)
        \/ UNCHANGED watcher
    BY <1>1
    DEF UI, StartUp, StartedUI, CancelLocks, CancelUnlocks, WaitForCompletion,
        Destroyed
  <2>2. ASSUME NEW r \in Root, StopWatcherUI(r)
        PROVE  SignalStop(r)
    BY <2>2 DEF StopWatcherUI
  <2> QED
    BY <2>1, <2>2
<1>2. CASE Worker
  <2>1. \/ StartWatcher
        \/ \E r \in Root : StopWatcher(r)
        \/ UNCHANGED watcher
    BY <1>2
    DEF Worker, BeginRebuild, JoinScans, SwapIndex, SaveRebuild, AllStarted,
        ApplyPath, PathApplied, SavePaths, StopLocks, StopUnlocks, SaveRemoval,
        Signal, CheckCancel, ScanPath, PurgePath
  <2>2. ASSUME NEW r \in Root, StopWatcher(r)
        PROVE  SignalStop(r)
    BY <2>2 DEF StopWatcher
  <2> QED
    BY <2>1, <2>2
<1>3. CASE User \/ Gone \/ UNCHANGED vars
  BY <1>3 DEF User, Rebuild, Destroy, ChangeSettings, Gone, vars
<1>4. ASSUME NEW r \in Root, Scanner(r)
      PROVE  UNCHANGED watcher
  BY <1>4 DEF Scanner, ScanFile, ScanCancelled
<1> QED
  BY <1>1, <1>2, <1>3, <1>4 DEF Next

\* So does one that outlives its watcher, but under another name.
Outlives(q) ==
    /\ q \in Late
    /\ timedOut' # {}
    /\ watcher'[q].live # 0

LEMMA ThreadStep ==
    ASSUME TypeOK, WatchersInv, [Next]_vars, NEW q \in Thread
    PROVE  Kept(q) \/ Started(q) \/ watcher'[q] = NoWatcher \/ Outlives(q)
<1>1. watcher \in [Thread -> WatcherState] /\ watcher[q] \in WatcherState
  BY DEF TypeOK
<1>2. CASE UNCHANGED watcher
  BY <1>2 DEF Kept
<1>3. CASE FileSystem
  <2>1. ASSUME NEW f \in File, CreateFile(f) \/ DeleteFile(f) \/ Write(f)
        PROVE  Kept(q)
    BY <1>1, <2>1, KeptByNotify
    DEF CreateFile, DeleteFile, Write, Change, Kept, Added, Removed,
        Modified, Event
  <2>2. ASSUME NEW f \in File, NEW g \in File, RenameFile(f, g)
        PROVE  Kept(q)
    <3> DEFINE w == Notify(watcher, Removed(f))
    <3>1. Removed(f) \in Event /\ Added(g) \in Event
      BY DEF Added, Removed, Event
    <3>2. w \in [Thread -> WatcherState]
      BY <1>1, <3>1, NotifyType
    <3>3. watcher' = Notify(w, Added(g))
      BY <2>2 DEF RenameFile, Change
    <3>4. w[q].live = watcher[q].live /\ (w[q].live = 0 => w[q] = watcher[q])
      BY <1>1, <3>1, KeptByNotify
    <3> HIDE DEF w
    <3>5. /\ watcher'[q].live = w[q].live
          /\ w[q].live = 0 => watcher'[q] = w[q]
      BY <3>1, <3>2, <3>3, KeptByNotify
    <3> QED
      BY <3>4, <3>5 DEF Kept
  <2>3. ASSUME NEW r \in Root, LoseVolume(r)
        PROVE  Kept(q)
    <3>1. watcher[r].live > 0
      BY <2>3 DEF LoseVolume, Watched
    <3>2. CASE q = r
      <4>1. watcher'[q] = [watcher[q] EXCEPT !.lost = TRUE, !.queue = <<>>]
        BY <1>1, <2>3, <3>2 DEF LoseVolume
      <4>2. watcher'[q].live = watcher[q].live
        BY <1>1, <4>1 DEF WatcherState
      <4> QED
        BY <3>1, <3>2, <4>2 DEF Kept
    <3>3. CASE q # r
      BY <1>1, <2>3, <3>3 DEF LoseVolume, Kept
    <3> QED
      BY <3>2, <3>3
  <2>4. ASSUME NEW d \in Folder
        PROVE  Added(d) \in Event /\ Removed(d) \in Event
    BY IndexerAssumption DEF IndexerAssumption, Added, Removed, Event
  <2>5. ASSUME NEW d \in Folder, NEW files, NEW dirs,
               FolderLeaves(d) \/ FolderArrives(d, files, dirs)
        PROVE  Kept(q)
    <3>1. /\ watcher' = Notify(watcher, Removed(d))
             \/ watcher' = Notify(watcher, Added(d))
          /\ watcher \in [Thread -> WatcherState]
      BY <1>1, <2>5 DEF FolderLeaves, FolderArrives, Change
    <3> QED
      BY <2>4, <3>1, KeptByNotify DEF Kept
  <2> QED
    BY <1>3, <2>1, <2>2, <2>3, <2>5 DEF FileSystem
<1>4. ASSUME NEW r \in Thread, Watcher(r)
      PROVE  Kept(q) \/ watcher'[q] = NoWatcher
  <2>1. watcher[r] \in WatcherState
    BY DEF TypeOK
  <2>2. watcher[r].at.step # "idle" => watcher[r].live # 0
    BY DEF WatchersInv, NoWatcher
  <2>3. CASE WatcherExits(r)
    BY <1>1, <2>3 DEF WatcherExits, Kept
  <2>4. ASSUME NEW step \in {"idle", "probe", "add"},
               NEW f \in File \cup {NoFile}, At(r, step, f),
               watcher[r].at.step = "idle" => watcher[r].queue # <<>>,
               watcher[r].live # 0
        PROVE  Kept(q)
    <3>1. /\ watcher'[r].live = watcher[r].live
          /\ \A p \in Thread \ {r} : watcher'[p] = watcher[p]
      BY <2>4, AtFacts
    <3> QED
      BY <2>4, <3>1 DEF Kept
  <2>5. watcher[r].queue # <<>> => NextEvent(r).file \in File
    <3>1. watcher[r].queue \in Seq(Event)
      BY <2>1, WatcherFields
    <3>2. watcher[r].queue # <<>> => Head(watcher[r].queue) \in Event
      BY <3>1
    <3> QED
      BY <3>2 DEF NextEvent, Event
  <2>6. watcher[r].at.file \in File \cup {NoFile} /\ watcher[r].live \in Nat
    BY <2>1, WatcherFields DEF ApplyState
  <2>7. CASE TakeRemove(r)
    BY <2>4, <2>5, <2>6, <2>7 DEF TakeRemove, Quiet, Watched
  <2>8. CASE TakeAdded(r)
    BY <2>4, <2>5, <2>6, <2>8 DEF TakeAdded, Probe, Quiet, Watched
  <2>9. CASE ProbeModified(r)
    BY <2>2, <2>4, <2>6, <2>9 DEF ProbeModified, Probe, Quiet
  <2>10. CASE FinishAdd(r)
    BY <2>2, <2>4, <2>10 DEF FinishAdd, Quiet
  <2>11. CASE ForgetEvent(r)
    BY <2>4, <2>6, <2>11 DEF ForgetEvent, Quiet, Watched
  <2> QED
    BY <1>4, <2>3, <2>7, <2>8, <2>9, <2>10, <2>11 DEF Watcher
<1>5. ASSUME NEW r \in Root, SignalStop(r)
      PROVE  Kept(q)
  <2>1. watcher[r].live > 0
    BY <1>5 DEF SignalStop, Watched
  <2>2. [watcher[r] EXCEPT !.stop = TRUE].live = watcher[r].live
    <3>1. watcher[r] \in WatcherState
      BY DEF TypeOK
    <3> QED
      BY <3>1 DEF WatcherState
  <2>3. watcher'[r].live = watcher[r].live
    BY <1>5, <2>2, SignalStopFacts
  <2>4. watcher[r].live # 0
    BY <2>1
  <2>5. q # r => watcher'[q] = watcher[q]
    BY <1>5, SignalStopFacts
  <2> QED
    BY <2>3, <2>4, <2>5 DEF Kept
<1>6. ASSUME NEW r \in Root, AddWatcher(r),
             StartWatcherUI(r) \/ (StartWatcher /\ worker.cur = r)
      PROVE  Kept(q) \/ Started(q)
  <2>1. watcher[q].live \in Nat
    BY <1>1, WatcherFields
  <2>2. [watcher[q] EXCEPT !.live = 1].live = 1
    BY <1>1 DEF WatcherState
  <2>3. CASE q # r
    BY <1>6, <2>3, AddWatcherFacts DEF Kept
  <2>4. CASE q = r /\ watcher[q].live > 0
    BY <1>6, <2>4, AddWatcherFacts DEF Kept
  <2>5. CASE q = r /\ watcher[q].live = 0
    <3>1. watcher'[q] = [watcher[q] EXCEPT !.live = 1]
      BY <1>6, <2>5, AddWatcherFacts
    <3> QED
      BY <1>6, <2>2, <2>5, <3>1 DEF Started
  <2> QED
    BY <2>1, <2>3, <2>4, <2>5
<1>7. ASSUME NEW r \in Root, StartWatcherUI(r)
      PROVE  Kept(q) \/ Started(q)
  <2>1. AddWatcher(r)
    BY <1>7 DEF StartWatcherUI
  <2> QED
    BY <1>6, <1>7, <2>1
<1>8. CASE StartWatcher
  <2>1. CASE worker.cur \in Root
    BY <1>6, <1>8, <2>1 DEF StartWatcher
  <2>2. CASE worker.cur \notin Root
    <3>1. worker.cur \notin Thread
      BY <2>2, IndexerAssumption DEF TypeOK, WorkerState, IndexerAssumption
    <3> QED
      BY <1>1, <1>8, <3>1 DEF StartWatcher, AddWatcher, Kept
  <2> QED
    BY <2>1, <2>2
<1>9. ASSUME NEW r \in Root, StopTimesOut(r)
      PROVE  Kept(q) \/ watcher'[q] = NoWatcher \/ Outlives(q)
  <2>1. PICK t \in Late :
           /\ watcher'[t] = watcher[r]
           /\ \A p \in Thread \ {r, t} : watcher'[p] = watcher[p]
    BY <1>9, StopTimesOutFacts
  <2>2. watcher[r].live # 0
    <3>1. watcher[r].stop /\ ~NoWatcher.stop
      BY <1>9, StopTimesOutFacts DEF NoWatcher
    <3> QED
      BY <3>1 DEF WatchersInv
  <2>3. timedOut' # {} /\ watcher'[r] = NoWatcher
    BY <1>9, StopTimesOutFacts
  <2> QED
    BY <2>1, <2>2, <2>3 DEF Kept, Outlives
<1> QED
  BY <1>2, <1>3, <1>4, <1>5, <1>7, <1>8, <1>9, WatchersMoves

LEMMA LiveStep ==
    ASSUME TypeOK, WatchersInv, [Next]_vars, NEW q \in Root
    PROVE  Kept(q) \/ Started(q) \/ watcher'[q] = NoWatcher
BY ThreadStep, IndexerAssumption DEF Outlives, IndexerAssumption

\* No step forgets that a Stop has given up.
LEMMA TimedOutGrows ==
    ASSUME [Next]_vars
    PROVE  timedOut \subseteq timedOut'
<1>1. ASSUME UNCHANGED timedOut
      PROVE  timedOut \subseteq timedOut'
  BY <1>1
<1>2. CASE FileSystem
  <2>1. UNCHANGED timedOut
    BY <1>2 DEF FileSystem, CreateFile, DeleteFile, Write, RenameFile,
                FolderLeaves, FolderArrives, Change, LoseVolume, environment
  <2> QED
    BY <2>1
<1>3. CASE User \/ UI \/ Worker \/ Gone \/ UNCHANGED vars
  <2>1. UNCHANGED timedOut
    BY <1>3 DEF User, Rebuild, Destroy, ChangeSettings, UI, StartUp, Worker,
                Gone, vars, environment
  <2> QED
    BY <2>1
<1>4. ASSUME NEW r \in Root, Scanner(r)
      PROVE  UNCHANGED timedOut
  BY <1>4 DEF Scanner, ScanFile, ScanCancelled, environment, disk
<1>5. ASSUME NEW r \in Root, StopTimesOut(r)
      PROVE  timedOut \subseteq timedOut'
  BY <1>5 DEF StopTimesOut
<1>6. ASSUME NEW t \in Thread, Watcher(t)
      PROVE  UNCHANGED timedOut
  BY <1>6 DEF Watcher, environment, disk
<1> QED
  BY <1>1, <1>2, <1>3, <1>4, <1>5, <1>6 DEF Next

LEMMA WatchersStep ==
    TypeOK /\ WatchersInv /\ OneWatcherPerRoot /\ [Next]_vars
        => WatchersInv' /\ OneWatcherPerRoot'
<1> SUFFICES ASSUME TypeOK, WatchersInv, OneWatcherPerRoot, [Next]_vars
             PROVE  WatchersInv' /\ OneWatcherPerRoot'
  OBVIOUS
<1>1. NoWatcher.live = 0
  BY DEF NoWatcher
<1>2. ASSUME NEW t \in Thread
      PROVE  watcher'[t].live = 0 => watcher'[t] = NoWatcher
  BY <1>1, ThreadStep DEF WatchersInv, Kept, Started, Outlives
<1>3. ASSUME NEW t \in Late, timedOut' = {}
      PROVE  watcher'[t].live = 0
  <2>1. watcher[t].live = 0 /\ t \notin Root
    BY <1>3, TimedOutGrows, IndexerAssumption
    DEF WatchersInv, IndexerAssumption
  <2> QED
    BY <1>1, <1>3, <2>1, ThreadStep DEF Kept, Started, Outlives
<1>4. ASSUME NEW q \in Root
      PROVE  watcher'[q].live <= 1
  BY <1>1, <1>4, LiveStep DEF OneWatcherPerRoot, Kept, Started
<1> QED
  BY <1>2, <1>3, <1>4 DEF WatchersInv, OneWatcherPerRoot

LEMMA ScansStep ==
    TypeOK /\ ThreadsInv /\ ScansInv /\ [Next]_vars => ScansInv'
<1> SUFFICES ASSUME TypeOK, ThreadsInv, ScansInv, [Next]_vars PROVE ScansInv'
  OBVIOUS
<1> USE DEF ScansInv
<1>1. worker \in WorkerState
  BY DEF TypeOK
<1>2. CASE UNCHANGED <<left, worker>>
  BY <1>2
<1>3. ASSUME NEW r \in Root, Scanner(r)
      PROVE  ScansInv'
  <2>1. \A q \in Root : left'[q] \subseteq left[q]
    BY <1>3 DEF Scanner, ScanFile, ScanCancelled, TypeOK
  <2>2. UNCHANGED worker
    BY <1>3 DEF Scanner, ScanFile, ScanCancelled
  <2> QED
    BY <2>1, <2>2
<1>4. CASE Worker
  <2>1. CASE BeginRebuild
    BY <1>1, <2>1 DEF BeginRebuild, WorkerState
  <2>2. CASE JoinScans
    BY <2>2 DEF JoinScans, scan
  <2>3. CASE SwapIndex
    BY <2>3 DEF SwapIndex
  <2>4. CASE ApplyPath
    BY <2>4 DEF ApplyPath
  <2>5. CASE PathApplied
    BY <2>5 DEF PathApplied, scan
  <2>6. ASSUME NEW r \in Root, ScanPath(r)
        PROVE  ScansInv'
    <3>1. \A q \in Root \ {r} : left'[q] = {}
      BY <2>6 DEF ScanPath, TypeOK
    <3>2. worker'.pc = "scanPath" /\ worker'.cur = r
      BY <1>1, <2>6 DEF ScanPath, WorkerState
    <3> QED
      BY <3>1, <3>2
  <2>7. ASSUME worker.pc \notin {"scan", "scanPath"}, left' = left
        PROVE  ScansInv'
    BY <2>7
  <2>8. ASSUME NEW r \in Root, CheckCancel(r) \/ PurgePath(r) \/ StopWatcher(r)
        PROVE  ScansInv'
    BY <2>7, <2>8 DEF CheckCancel, PurgePath, StopWatcher, scan
  <2> QED
    BY <1>4, <2>1, <2>2, <2>3, <2>4, <2>5, <2>6, <2>7, <2>8
    DEF Worker, SaveRebuild, StartWatcher, AllStarted, SavePaths, StopLocks,
        StopUnlocks, SaveRemoval, Signal, scan
<1>5. ASSUME worker.pc = "none", left' = left
      PROVE  ScansInv'
  BY <1>5
<1>6. CASE StartUp
  BY <1>5, <1>6 DEF StartUp, ThreadsInv, scan
<1>7. CASE User
  BY <1>2, <1>5, <1>7
  DEF User, Rebuild, Destroy, ChangeSettings, NoJob, ThreadsInv, scan
<1>8. CASE UI
  BY <1>2, <1>6, <1>8 DEF UI, scan
<1>9. ASSUME \/ FileSystem \/ Gone \/ UNCHANGED vars
             \/ \E t \in Thread : Watcher(t)
             \/ \E r \in Root : StopTimesOut(r)
      PROVE  ScansInv'
  <2>1. UNCHANGED left
    BY <1>9
    DEF FileSystem, CreateFile, DeleteFile, Write, RenameFile, FolderLeaves,
        FolderArrives, Change, LoseVolume, Watcher, StopTimesOut, Gone, vars,
        scan
  <2> QED
    BY <1>2, <1>9, <2>1, BystanderSteps
<1> QED
  BY <1>3, <1>4, <1>7, <1>8, <1>9 DEF Next

LEMMA StatusStep ==
    TypeOK /\ ThreadsInv /\ StatusInv /\ [Next]_vars => StatusInv'
<1> SUFFICES ASSUME TypeOK, ThreadsInv, StatusInv, [Next]_vars
             PROVE  StatusInv'
  OBVIOUS
<1> USE DEF StatusInv, Busy
<1>1. worker \in WorkerState
  BY DEF TypeOK
<1>2. CASE UNCHANGED <<status, cancel, ui, worker>>
  BY <1>2
<1>3. CASE Worker
  <2>1. UNCHANGED <<cancel, ui>>
    BY <1>3 DEF Worker
  <2>2. ASSUME worker'.pc \in Busy
        PROVE  StatusInv'
    BY <2>2
  <2>3. ASSUME status' = "WatchingForChanges"
        PROVE  StatusInv'
    BY <2>3
  <2>4. ASSUME worker.pc \notin Busy, UNCHANGED status
        PROVE  StatusInv'
    BY <2>1, <2>4
  <2>5. CASE BeginRebuild
    BY <1>1, <2>2, <2>5 DEF BeginRebuild, WorkerState
  <2>6. CASE JoinScans
    BY <1>1, <2>1, <2>6 DEF JoinScans, Goto, WorkerState
  <2>7. CASE SwapIndex
    BY <1>1, <2>2, <2>7 DEF SwapIndex, Goto, WorkerState
  <2>8. CASE ApplyPath
    BY <2>2, <2>8 DEF ApplyPath
  <2>9. CASE PathApplied
    BY <1>1, <2>2, <2>9 DEF PathApplied, WorkerState
  <2>10. CASE SavePaths
    BY <1>1, <2>1, <2>3, <2>10 DEF SavePaths
  <2>11. CASE StopLocks
    BY <1>1, <2>2, <2>11 DEF StopLocks, WorkerState
  <2>12. CASE StopUnlocks
    BY <1>1, <2>2, <2>12 DEF StopUnlocks, Goto, WorkerState
  <2>13. ASSUME NEW r \in Root, ScanPath(r) \/ PurgePath(r) \/ StopWatcher(r)
         PROVE  StatusInv'
    BY <1>1, <2>2, <2>13 DEF ScanPath, PurgePath, StopWatcher, WorkerState
  <2>14. ASSUME NEW r \in Root, CheckCancel(r)
         PROVE  StatusInv'
    BY <2>4, <2>14 DEF CheckCancel, store
  <2> QED
    BY <1>3, <2>3, <2>4, <2>5, <2>6, <2>7, <2>8, <2>9, <2>10, <2>11, <2>12,
       <2>13, <2>14
    DEF Worker, SaveRebuild, StartWatcher, AllStarted, SaveRemoval, Signal,
        store
<1>4. ASSUME NEW pc \in Busy, NEW roots, StartJob(pc, roots)
      PROVE  StatusInv'
  BY <1>4 DEF StartJob
<1>5. CASE User
  <2>1. CASE Destroy
    BY <2>1 DEF Destroy
  <2>2. CASE Rebuild
    BY <1>4, <2>2 DEF Rebuild
  <2>3. ASSUME NEW new \in Selections, ChangeSettings(new)
        PROVE  StatusInv'
    BY <1>2, <1>4, <2>3 DEF ChangeSettings, NoJob, store
  <2> QED
    BY <1>5, <2>1, <2>2, <2>3 DEF User
<1>6. CASE UI
  <2>1. CASE StartUp
    BY <1>4, <2>1, StartUpCases
  <2>2. CASE ~StartUp
    <3>1. UNCHANGED <<status, cancel, worker>>
      BY <1>6, <2>2 DEF UI, store
    <3>2. ui.pc # "start"
      BY <1>6, <2>2
      DEF UI, StartedUI, CancelLocks, CancelUnlocks, WaitForCompletion,
          Destroyed, StartWatcherUI, StopWatcherUI
    <3> QED
      BY <3>1, <3>2
  <2> QED
    BY <2>1, <2>2
<1> QED
  BY <1>2, <1>3, <1>5, <1>6, BystanderSteps DEF Next

\* While watchers are stopped, or the program ends, nobody starts one.
LEMMA NobodyStarts ==
    ASSUME TypeOK, ThreadsInv, WatchersInv, [Next]_vars, NEW q \in Root,
           \/ worker.pc \in {"stop", "saveRemoval"}
           \/ ui.pc \in {"destroy", "gone"},
           watcher[q].live = 0
    PROVE  watcher'[q].live = 0
<1>1. ~StartWatcherUI(q)
  BY DEF ThreadsInv, StartWatcherUI
<1>2. ~StartWatcher
  BY DEF ThreadsInv, StartWatcher
<1> QED
  BY <1>1, <1>2, LiveStep DEF Kept, Started, NoWatcher

\* A job is started only when there is none; otherwise the worker moves alone.
LEMMA WorkerMoves ==
    ASSUME ThreadsInv, [Next]_vars
    PROVE  \/ Worker
           \/ worker' = worker
           \/ /\ worker.pc = "none"
              /\ worker'.pc \in {"rebuild", "nextPath", "purge"}
<1>1. CASE User
  <2>1. CASE Rebuild \/ Destroy
    BY <2>1 DEF Rebuild, Destroy, StartJob, ThreadsInv
  <2>2. ASSUME NEW new \in Selections, ChangeSettings(new)
        PROVE  \/ worker' = worker
               \/ /\ worker.pc = "none"
                  /\ worker'.pc \in {"rebuild", "nextPath", "purge"}
    BY <2>2 DEF ChangeSettings, StartJob, NoJob, ThreadsInv
  <2> QED
    BY <1>1, <2>1, <2>2 DEF User
<1>2. CASE UI
  BY <1>2 DEF UI, StartUp, StartJob, NoJob, ThreadsInv
<1>3. CASE UNCHANGED worker
  BY <1>3
<1> QED
  BY <1>1, <1>2, <1>3, BystanderSteps DEF Next

\* How the worker comes to stop watchers, and past it.
LEMMA WorkerStops ==
    ASSUME TypeOK, Worker
    PROVE  \/ worker' = worker
           \/ StopLocks
           \/ StopUnlocks
           \/ worker'.pc \notin {"stop", "saveRemoval"}
<1>1. worker \in WorkerState
  BY DEF TypeOK
<1>2. ASSUME \/ BeginRebuild \/ JoinScans \/ SwapIndex \/ SaveRebuild
             \/ StartWatcher \/ AllStarted
      PROVE  worker'.pc \notin {"stop", "saveRemoval"}
  BY <1>1, <1>2
  DEF BeginRebuild, JoinScans, SwapIndex, SaveRebuild, StartWatcher,
      AllStarted, Goto, WorkerState
<1>3. CASE ApplyPath
  BY <1>3 DEF ApplyPath
<1>4. CASE PathApplied
  BY <1>1, <1>4 DEF PathApplied, WorkerState
<1>5. CASE SavePaths
  BY <1>1, <1>5 DEF SavePaths, Goto, WorkerState
<1>6. CASE SaveRemoval
  BY <1>1, <1>6 DEF SaveRemoval, Goto, WorkerState
<1>7. CASE Signal
  BY <1>7 DEF Signal, NoWorker
<1>8. ASSUME NEW r \in Root, CheckCancel(r)
      PROVE  worker'.pc \notin {"stop", "saveRemoval"}
  BY <1>1, <1>8 DEF CheckCancel, Goto, WorkerState
<1>9. ASSUME NEW r \in Root, ScanPath(r) \/ PurgePath(r) \/ StopWatcher(r)
      PROVE  worker' = worker \/ worker'.pc \notin {"stop", "saveRemoval"}
  BY <1>1, <1>9 DEF ScanPath, PurgePath, StopWatcher, WorkerState
<1> QED
  BY <1>2, <1>3, <1>4, <1>5, <1>6, <1>7, <1>8, <1>9 DEF Worker

LEMMA StopsStep ==
    TypeOK /\ ThreadsInv /\ WatchersInv /\ StopsInv /\ [Next]_vars => StopsInv'
<1> SUFFICES ASSUME TypeOK, ThreadsInv, WatchersInv, StopsInv, [Next]_vars
             PROVE  StopsInv'
  OBVIOUS
<1>1. worker \in WorkerState /\ ui \in UIState
  BY DEF TypeOK
<1>2. \A q \in Root : watcher[q].live \in Nat
  BY WatcherFields DEF TypeOK
<1>3. worker'.pc = "stop" =>
         \A r \in worker'.roots \ worker'.todo : watcher'[r].live = 0
  <2> SUFFICES ASSUME worker'.pc = "stop", NEW r \in worker'.roots \ worker'.todo
               PROVE  watcher'[r].live = 0
    OBVIOUS
  <2>1. CASE StopLocks
    <3>1. /\ UNCHANGED watcher /\ worker'.roots = worker.roots
          /\ worker'.todo = StillWatched(worker.roots)
      BY <1>1, <2>1 DEF StopLocks, WorkerState
    <3>2. r \in worker.roots /\ r \in Root /\ ~Watched(r)
      BY <1>1, <3>1 DEF StillWatched, WorkerState
    <3> QED
      BY <1>2, <3>1, <3>2 DEF Watched
  <2>2. CASE worker.pc = "stop" /\ worker' = worker
    <3>1. watcher[r].live = 0 /\ r \in Root
      BY <1>1, <2>2 DEF StopsInv, WorkerState
    <3> QED
      BY <2>2, <3>1, NobodyStarts
  <2>3. StopUnlocks => worker'.pc = "saveRemoval"
    BY <1>1 DEF StopUnlocks, Goto, WorkerState
  <2> QED
    BY <2>1, <2>2, <2>3, WorkerMoves, WorkerStops
<1>4. worker'.pc = "saveRemoval" =>
         \A r \in worker'.roots : watcher'[r].live = 0
  <2> SUFFICES ASSUME worker'.pc = "saveRemoval", NEW r \in worker'.roots
               PROVE  watcher'[r].live = 0
    OBVIOUS
  <2>1. CASE StopUnlocks
    <3>1. /\ UNCHANGED watcher /\ worker'.roots = worker.roots
          /\ worker.pc = "stop"
          /\ StillWatched(worker.todo) = {}
      BY <1>1, <2>1 DEF StopUnlocks, Goto, WorkerState
    <3>2. r \in worker.roots /\ r \in Root
      BY <1>1, <3>1 DEF WorkerState
    <3>3. watcher[r].live = 0
      BY <1>2, <3>1, <3>2 DEF StillWatched, Watched, StopsInv
    <3> QED
      BY <3>1, <3>3
  <2>2. CASE worker.pc = "saveRemoval" /\ worker' = worker
    <3>1. watcher[r].live = 0 /\ r \in Root
      BY <1>1, <2>2 DEF StopsInv, WorkerState
    <3> QED
      BY <2>2, <3>1, NobodyStarts
  <2>3. StopLocks => worker'.pc = "stop"
    BY <1>1 DEF StopLocks, WorkerState
  <2> QED
    BY <2>1, <2>2, <2>3, WorkerMoves, WorkerStops
<1>5. /\ ui'.pc = "destroy" => \A r \in Root \ ui'.todo : watcher'[r].live = 0
      /\ ui'.pc = "gone" => \A r \in Root : watcher'[r].live = 0
  <2>1. CASE WaitForCompletion
    <3>1. UNCHANGED watcher
          /\ ui' = [pc |-> "destroy", todo |-> StillWatched(Root)]
      BY <2>1 DEF WaitForCompletion
    <3> QED
      BY <1>2, <3>1 DEF StillWatched, Watched
  <2>2. CASE Destroyed
    <3>1. /\ UNCHANGED watcher /\ ui.pc = "destroy"
          /\ ui' = [pc |-> "gone", todo |-> {}]
          /\ StillWatched(ui.todo) = {}
      BY <2>2 DEF Destroyed
    <3> QED
      BY <1>1, <1>2, <3>1 DEF StillWatched, Watched, StopsInv, UIState
  <2>3. CASE ui' = ui
    BY <2>3, NobodyStarts DEF StopsInv
  <2>4. CASE UI /\ ui'.pc \in {"destroy", "gone"}
    <3>1. ~StartUp
      BY <2>4, StartUpCases
    <3>2. \/ WaitForCompletion \/ Destroyed \/ ui' = ui
      BY <1>1, <2>4, <3>1
      DEF UI, StartedUI, CancelLocks, CancelUnlocks, StartWatcherUI,
          StopWatcherUI, ThreadsInv, UIState
    <3> QED
      BY <2>1, <2>2, <2>3, <3>2
  <2>5. User => ui' = ui \/ ui'.pc \notin {"destroy", "gone"}
    BY <1>1 DEF User, Rebuild, Destroy, ChangeSettings, UIState
  <2> QED
    BY <2>3, <2>4, <2>5, BystanderSteps DEF Next, Worker
<1> QED
  BY <1>3, <1>4, <1>5 DEF StopsInv

----------------------------------------------------------------------------
LEMMA InitJobs == Init => JobsInv
<1> SUFFICES ASSUME Init PROVE JobsInv
  OBVIOUS
<1>1. TypeOK
  BY InitType
<1>2. ThreadsInv /\ ScansInv /\ StatusInv
  BY DEF Init, ThreadsInv, Closing, ScansInv, StatusInv, NoWorker
<1>3. WatchersInv /\ OneWatcherPerRoot /\ StopsInv
  BY DEF Init, WatchersInv, OneWatcherPerRoot, StopsInv, NoWatcher, NoWorker
<1> QED
  BY <1>1, <1>2, <1>3 DEF JobsInv

LEMMA NextJobs == JobsInv /\ [Next]_vars => JobsInv'
BY NextType, ThreadsStep, ScansStep, WatchersStep, StopsStep, StatusStep
DEF JobsInv

LEMMA JobsInvariant == Spec => []JobsInv
BY InitJobs, NextJobs, PTL DEF Spec

\* StartLiveMonitoring, the worker's StartWatchersForRoots and ApplyChange in
\* any order: m_watchers never holds two watchers of a root.
THEOREM NoRootWatchedTwice == Spec => []OneWatcherPerRoot
<1>1. JobsInv => OneWatcherPerRoot
  BY DEF JobsInv
<1> QED
  BY <1>1, JobsInvariant, PTL

\* Whatever job ended last, and however: the window has the status that
\* enables the search bar.
THEOREM SearchBarComesBack == Spec => []SearchBarEnabled
<1>1. JobsInv => SearchBarEnabled
  BY DEF JobsInv, StatusInv, ThreadsInv, Closing, Busy, SearchBarEnabled, Idle
<1> QED
  BY <1>1, JobsInvariant, PTL

\* When ~Indexer returns there is no worker, no scan thread with work and no
\* watcher, not even one that was started after Cancel emptied m_watchers, and
\* no other thread either, unless a Stop has given up on one.
THEOREM OnlyLateThreads == Spec => []OnlyLateThreadsRunOn
<1>1. JobsInv => OnlyLateThreadsRunOn
  BY DEF JobsInv, ThreadsInv, ScansInv, StopsInv, WatchersInv,
         OnlyLateThreadsRunOn
<1> QED
  BY <1>1, JobsInvariant, PTL

----------------------------------------------------------------------------
(***************************************************************************)
(* A file that nobody touches is in the index once if it is to be indexed, *)
(* and else not at all, if no two roots have a file in common.             *)
(*                                                                         *)
(* The invariant counts the entries of one such file: in the index, in     *)
(* what the worker has collected and in what the scan threads have still   *)
(* to collect, and says for every place of the worker, and of the window   *)
(* that gives it its jobs, how many there are in each.  Watchers do not    *)
(* interfere, since their events are about files that were touched.        *)
(***************************************************************************)

SeparateRoots == \A q, r \in Root : q # r => Under[q] \cap Under[r] = {}

Covered(f, roots) == \E r \in roots : f \in Under[r]

Wanted(f) == IF f \in fs \ Excluded /\ Covered(f, selected) THEN 1 ELSE 0

\* The files of the events that wait, and of the one that is applied.
Queued(w) == {w.queue[i].file : i \in 1..Len(w.queue)}

EventsTouched(w, files) ==
    /\ Queued(w) \subseteq files
    /\ w.at.step # "idle" => w.at.file \in files

\* Watchers work on files that were touched.
EventsInv == \A t \in Thread : EventsTouched(watcher[t], touched)

\* What the scans have to examine and have collected, of some files.
FoundOf(w, examine, collected, files) ==
    \A r \in Root :
        /\ examine[r] \cup collected[r] \subseteq Under[r]
        /\ examine[r] \cap collected[r] = {}
        /\ collected[r] \subseteq files \ Excluded
        /\ collected[r] # {} => \/ w.pc \in {"scan", "swap", "signal"}
                                \/ w.pc = "scanPath" /\ w.cur = r

FoundInv == FoundOf(worker, left, found, fs \cup touched)

\* The roots of a job are those the selection calls for, but for some files.
RootsOf(w, selection, files) ==
    /\ w.pc \in {"scan", "swap"} =>
          \A r \in (w.roots \ selection) \cup (selection \ w.roots) :
              Under[r] \subseteq files
    /\ w.pc \in {"nextPath", "scanPath"} =>
          /\ w.todo \subseteq w.roots
          /\ w.pc = "scanPath" => w.cur \in w.todo
          /\ \A r \in w.roots \ selection : Under[r] \subseteq files
    /\ w.pc = "purge" =>
          /\ w.todo \subseteq w.roots
          /\ \A r \in w.roots \cap selection : Under[r] \subseteq files

\* Those of a root that was edited since.
RootsInv == RootsOf(worker, selected, touched)

\* How far the job has come with a file nobody touched.
ScanProgress(f) ==
    worker.pc \in {"scan", "swap"} =>
        \A r \in worker.roots :
            f \in Under[r] => \/ f \in left[r]
                              \/ f \in found[r]
                              \/ f \notin fs \ Excluded

ToBeAdded(f) ==
    /\ Covered(f, worker.todo)
    /\ worker.pc = "scanPath" /\ f \in Under[worker.cur] =>
          f \in left[worker.cur] \cup found[worker.cur]

PathsProgress(f) ==
    worker.pc \in {"nextPath", "scanPath"} =>
        index[f] = IF ToBeAdded(f) THEN 0 ELSE Wanted(f)

PurgeProgress(f) ==
    worker.pc = "purge" => Covered(f, worker.todo) \/ index[f] = Wanted(f)

Settled(f) ==
    worker.pc \notin {"rebuild", "scan", "swap", "nextPath", "scanPath",
                      "purge"} =>
        index[f] = Wanted(f)

FileInv(f) ==
    IF ui.pc = "start"
    THEN saved = NoIndex \/ saved[f] = Wanted(f)
    ELSE /\ ScanProgress(f)
         /\ PathsProgress(f)
         /\ PurgeProgress(f)
         /\ Settled(f)

IndexInv ==
    /\ EventsInv
    /\ FoundInv
    /\ RootsInv
    /\ cancel \/ \A f \in File \ touched : FileInv(f)

----------------------------------------------------------------------------
(* Counting.                                                               *)

\* A set that has no two elements is empty or has one.
LEMMA AtMostOne ==
    ASSUME NEW S, \A x, y \in S : x = y
    PROVE  Cardinality(S) = IF S = {} THEN 0 ELSE 1
<1>1. CASE S = {}
  BY <1>1, FS_EmptySet
<1>2. CASE S # {}
  <2>1. PICK x \in S : S = {x}
    BY <1>2
  <2> QED
    BY <1>2, <2>1, FS_Singleton
<1> QED
  BY <1>1, <1>2

\* Where roots are separate a file is found by one scan at most.
LEMMA FoundByOne ==
    ASSUME SeparateRoots, NEW roots \in SUBSET Root, NEW f,
           NEW S \in SUBSET {r \in roots : f \in Under[r]}
    PROVE  Cardinality(S) = IF S = {} THEN 0 ELSE 1
<1>1. \A q, r \in S : q = r
  BY DEF SeparateRoots
<1> QED
  BY <1>1, AtMostOne

LEMMA ScannedOnce ==
    ASSUME SeparateRoots, NEW files, NEW roots \in SUBSET Root, NEW f \in File
    PROVE  Scanned(files, roots)[f] =
               IF f \in files \ Excluded /\ Covered(f, roots) THEN 1 ELSE 0
<1> DEFINE S == {r \in roots : f \in Under[r] /\ f \in files /\ f \notin Excluded}
<1>1. Scanned(files, roots)[f] = Cardinality(S)
  BY DEF Scanned
<1>2. Cardinality(S) = IF S = {} THEN 0 ELSE 1
  BY FoundByOne
<1>3. S # {} <=> f \in files \ Excluded /\ Covered(f, roots)
  BY DEF Covered
<1> QED
  BY <1>1, <1>2, <1>3

LEMMA WantedIsScanned ==
    ASSUME SeparateRoots, {} \notin Selections, TypeOK, NEW f \in File
    PROVE  Scanned(fs, Effective(selected))[f] = Wanted(f)
<1>1. Effective(selected) = selected /\ selected \in SUBSET Root
  BY IndexerAssumption DEF TypeOK, Effective, IndexerAssumption
<1> QED
  BY <1>1, ScannedOnce DEF Wanted

----------------------------------------------------------------------------
(* Changes of the file system are recorded.                                *)

LEMMA FileSystemStep ==
    ASSUME TypeOK, FileSystem
    PROVE  /\ touched \subseteq touched'
           /\ \A f \in File \ touched' : f \in fs' <=> f \in fs
           /\ UNCHANGED <<index, left, found>>
<1>1. ASSUME NEW files, NEW dirs, NEW named, NEW moved, NEW w,
             Change(files, dirs, named, moved, w)
      PROVE  /\ fs' = files /\ touched' = touched \cup named \cup moved
             /\ UNCHANGED <<index, left, found>>
  BY <1>1 DEF Change, store, scan
<1>2. ASSUME NEW f \in File, CreateFile(f) \/ DeleteFile(f) \/ Write(f)
      PROVE  /\ touched \subseteq touched'
             /\ \A g \in File \ touched' : g \in fs' <=> g \in fs
             /\ UNCHANGED <<index, left, found>>
  BY <1>1, <1>2 DEF CreateFile, DeleteFile, Write
<1>3. ASSUME NEW f \in File, NEW g \in File, RenameFile(f, g)
      PROVE  /\ touched \subseteq touched'
             /\ \A h \in File \ touched' : h \in fs' <=> h \in fs
             /\ UNCHANGED <<index, left, found>>
  BY <1>1, <1>3 DEF RenameFile
<1>4. ASSUME NEW d \in Folder, FolderLeaves(d)
      PROVE  /\ touched \subseteq touched'
             /\ \A g \in File \ touched' : g \in fs' <=> g \in fs
             /\ UNCHANGED <<index, left, found>>
  BY <1>1, <1>4 DEF FolderLeaves, Exists
<1>5. ASSUME NEW d \in Folder, NEW files, NEW dirs, FolderArrives(d, files, dirs)
      PROVE  /\ touched \subseteq touched'
             /\ \A g \in File \ touched' : g \in fs' <=> g \in fs
             /\ UNCHANGED <<index, left, found>>
  BY <1>1, <1>5 DEF FolderArrives
<1>6. ASSUME NEW r \in Root, LoseVolume(r)
      PROVE  UNCHANGED <<fs, touched, index, left, found>>
  BY <1>6 DEF LoseVolume, environment, disk, store, scan
<1> QED
  BY <1>2, <1>3, <1>4, <1>5, <1>6 DEF FileSystem

\* A file that is still untouched is there, or not, as before.
LEMMA TouchedStep ==
    ASSUME TypeOK, [Next]_vars
    PROVE  /\ touched \subseteq touched'
           /\ \A f \in File \ touched' : f \in fs' <=> f \in fs
<1>1. CASE FileSystem
  BY <1>1, FileSystemStep
<1>2. CASE UNCHANGED <<fs, touched>>
  BY <1>2
<1>3. CASE User
  <2>1. CASE Rebuild \/ Destroy
    BY <1>2, <2>1 DEF Rebuild, Destroy, environment, disk
  <2>2. ASSUME NEW new \in Selections, ChangeSettings(new)
        PROVE  fs' = fs /\ touched \subseteq touched'
    BY <2>2 DEF ChangeSettings
  <2> QED
    BY <1>3, <2>1, <2>2 DEF User
<1>4. CASE UI \/ Worker \/ Gone \/ UNCHANGED vars
  BY <1>2, <1>4 DEF UI, StartUp, Worker, Gone, vars, environment, disk
<1>5. ASSUME NEW r \in Root, Scanner(r) \/ StopTimesOut(r)
      PROVE  UNCHANGED <<fs, touched>>
  BY <1>5 DEF Scanner, ScanFile, ScanCancelled, StopTimesOut, environment, disk
<1>6. ASSUME NEW t \in Thread, Watcher(t)
      PROVE  UNCHANGED <<fs, touched>>
  BY <1>6 DEF Watcher, environment, disk
<1> QED
  BY <1>1, <1>2, <1>3, <1>4, <1>5, <1>6 DEF Next

LEMMA NotifyTouches ==
    ASSUME NEW w \in [Thread -> WatcherState], NEW event \in Event,
           NEW q \in Thread, NEW files, EventsTouched(w[q], files),
           q \notin Late /\ event.file \in Under[q] => event.file \in files
    PROVE  EventsTouched(Notify(w, event)[q], files)
<1> DEFINE copies == [i \in 1..w[q].live |-> event]
           new == w[q].queue \o copies
<1>1. w[q] \in WatcherState /\ w[q].queue \in Seq(Event) /\ w[q].live \in Nat
  BY WatcherFields
<1>2. \/ Notify(w, event)[q] = w[q]
      \/ /\ Notify(w, event)[q] = [w[q] EXCEPT !.queue = new]
         /\ event.file \in files
  BY DEF Notify
<1>3. ASSUME event.file \in files
      PROVE  new \in Seq(Event) /\ \A i \in 1..Len(new) : new[i].file \in files
  <2> w[q].queue \in Seq(Event) /\ w[q].live \in Nat
    BY <1>1
  <2>1. copies \in Seq(Event) /\ Len(copies) = w[q].live
    OBVIOUS
  <2>2. \A i \in 1..Len(copies) : copies[i].file \in files
    BY <1>1, <1>3, <2>1
  <2>3. \A i \in 1..Len(w[q].queue) : w[q].queue[i].file \in files
    BY DEF EventsTouched, Queued
  <2> HIDE DEF copies
  <2>4. new \in Seq(Event) /\ Len(new) = Len(w[q].queue) + Len(copies)
    BY <1>1, <2>1
  <2>5. ASSUME NEW i \in 1..Len(new)
        PROVE  new[i].file \in files
    <3>1. CASE i <= Len(w[q].queue)
      BY <1>1, <2>1, <2>3, <3>1
    <3>2. CASE i > Len(w[q].queue)
      <4>1. new[i] = copies[i - Len(w[q].queue)]
        BY <1>1, <2>1, <2>4, <3>2
      <4> QED
        BY <1>1, <2>1, <2>2, <2>4, <3>2, <4>1
    <3> QED
      BY <1>1, <3>1, <3>2
  <2> QED
    BY <2>4, <2>5
<1> HIDE DEF new
<1>4. /\ [w[q] EXCEPT !.queue = new].queue = new
      /\ [w[q] EXCEPT !.queue = new].at = w[q].at
  BY <1>1 DEF WatcherState
<1>5. CASE Notify(w, event)[q] = w[q]
  BY <1>5
<1>6. CASE /\ Notify(w, event)[q] = [w[q] EXCEPT !.queue = new]
           /\ event.file \in files
  <2> DEFINE v == Notify(w, event)[q]
  <2>1. v.queue = new /\ v.at = w[q].at
    BY <1>4, <1>6
  <2> HIDE DEF v
  <2> QED
    BY <1>3, <1>6, <2>1 DEF EventsTouched, Queued, v
<1> QED
  BY <1>2, <1>5, <1>6

\* A watcher's thread: it takes its next event or goes on with the last one.
LEMMA WatcherTouches ==
    ASSUME TypeOK, NEW r \in Thread, Watcher(r),
           NEW files, EventsTouched(watcher[r], files)
    PROVE  /\ EventsTouched(watcher'[r], files)
           /\ \A q \in Thread \ {r} : watcher'[q] = watcher[q]
           /\ \A f \in File \ files : index'[f] = index[f]
           /\ index' \in [File -> Nat]
<1>1. /\ watcher \in [Thread -> WatcherState] /\ watcher[r] \in WatcherState
      /\ watcher[r].queue \in Seq(Event)
      /\ watcher[r].at \in ApplyState
      /\ index \in [File -> Nat]
  BY WatcherFields DEF TypeOK
<1>2. ASSUME watcher[r].queue # <<>>
      PROVE  /\ NextEvent(r).file \in File \cap files
             /\ \A i \in 1..Len(Tail(watcher[r].queue)) :
                   Tail(watcher[r].queue)[i].file \in files
  <2> DEFINE queue == watcher[r].queue
  <2>1. \A i \in 1..Len(queue) : queue[i].file \in files
    BY DEF EventsTouched, Queued
  <2>2. queue \in Seq(Event) /\ queue # <<>>
    BY <1>1, <1>2
  <2> HIDE DEF queue
  <2>3. /\ Head(queue) \in Event /\ Head(queue).file \in files
        /\ \A i \in 1..Len(Tail(queue)) : Tail(queue)[i].file \in files
    BY <2>1, <2>2
  <2> QED
    BY <2>3 DEF queue, NextEvent, Event
<1>3. /\ watcher[r].at.file \in File \cup {NoFile}
      /\ watcher[r].at.step # "idle" => watcher[r].at.file \in files
      /\ NoFile \notin File
  BY <1>1, IndexerAssumption DEF ApplyState, EventsTouched, IndexerAssumption
<1>4. ASSUME NEW step \in {"idle", "probe", "add"},
             NEW f \in File \cup {NoFile}, At(r, step, f),
             watcher[r].at.step = "idle" => watcher[r].queue # <<>>,
             step # "idle" => f \in files
      PROVE  /\ EventsTouched(watcher'[r], files)
             /\ \A q \in Thread \ {r} : watcher'[q] = watcher[q]
  <2>1. /\ \A q \in Thread \ {r} : watcher'[q] = watcher[q]
        /\ watcher'[r].at = [step |-> step, file |-> f]
        /\ watcher'[r].queue = IF watcher[r].at.step = "idle"
                               THEN Tail(watcher[r].queue)
                               ELSE watcher[r].queue
    BY <1>4, AtFacts
  <2>2. \A i \in 1..Len(watcher'[r].queue) :
           watcher'[r].queue[i].file \in files
    <3>1. CASE watcher[r].at.step = "idle"
      BY <1>2, <1>4, <2>1, <3>1
    <3>2. CASE watcher[r].at.step # "idle"
      BY <2>1, <3>2 DEF EventsTouched, Queued
    <3> QED
      BY <3>1, <3>2
  <2>3. watcher'[r].at.step # "idle" => watcher'[r].at.file \in files
    BY <1>4, <2>1
  <2>4. Queued(watcher'[r]) \subseteq files
    BY <2>2 DEF Queued
  <2> QED
    BY <2>1, <2>3, <2>4 DEF EventsTouched
<1>5. ASSUME NEW f \in files, ApplyAdd(f) \/ ApplyRemove(f)
      PROVE  /\ \A g \in File \ files : index'[g] = index[g]
             /\ index' \in [File -> Nat]
  BY <1>1, <1>5 DEF ApplyAdd, ApplyRemove
<1>6. CASE TakeRemove(r)
  BY <1>2, <1>4, <1>5, <1>6 DEF TakeRemove, Quiet
<1>7. CASE TakeAdded(r)
  BY <1>1, <1>2, <1>4, <1>7 DEF TakeAdded, Probe, Quiet
<1>8. CASE ProbeModified(r)
  BY <1>1, <1>3, <1>4, <1>8 DEF ProbeModified, Probe, Quiet
<1>9. CASE FinishAdd(r)
  BY <1>3, <1>4, <1>5, <1>9 DEF FinishAdd, Quiet
<1>10. CASE ForgetEvent(r)
  BY <1>1, <1>4, <1>10 DEF ForgetEvent, Quiet
<1>11. CASE WatcherExits(r)
  <2>1. Queued(NoWatcher) = {} /\ NoWatcher.at.step = "idle"
    BY DEF Queued, NoWatcher
  <2> QED
    BY <1>1, <1>11, <2>1 DEF WatcherExits, EventsTouched
<1> QED
  BY <1>6, <1>7, <1>8, <1>9, <1>10, <1>11 DEF Watcher

\* A late thread brings with it what its watcher had.
LEMMA EventsStep ==
    ASSUME TypeOK, [Next]_vars, NEW q \in Thread, NEW files,
           q \notin Late => touched' \cap Under[q] \subseteq files,
           EventsTouched(watcher[q], files),
           q \in Late => \A r \in Root :
                            StopTimesOut(r) => EventsTouched(watcher[r], files)
    PROVE  EventsTouched(watcher'[q], files)
<1>1. watcher \in [Thread -> WatcherState] /\ watcher[q] \in WatcherState
  BY DEF TypeOK
<1>2. ASSUME NEW w, w.queue = watcher[q].queue, w.at = watcher[q].at
      PROVE  EventsTouched(w, files)
  BY <1>1, <1>2 DEF EventsTouched, Queued
<1>3. CASE watcher' = watcher
  BY <1>2, <1>3
<1>4. CASE FileSystem
  <2>1. ASSUME NEW f \in File
        PROVE  /\ {Added(f), Removed(f), Modified(f)} \subseteq Event
               /\ Added(f).file = f /\ Removed(f).file = f /\ Modified(f).file = f
    BY DEF Added, Removed, Modified, Event
  <2>2. /\ EventsTouched(watcher[q], files)
        /\ \A f \in touched' : q \notin Late /\ f \in Under[q] => f \in files
    OBVIOUS
  <2>3. ASSUME NEW f \in File, CreateFile(f) \/ DeleteFile(f) \/ Write(f)
        PROVE  EventsTouched(watcher'[q], files)
    BY <1>1, <2>1, <2>2, <2>3, NotifyTouches
    DEF CreateFile, DeleteFile, Write, Change
  <2>4. ASSUME NEW f \in File, NEW g \in File, RenameFile(f, g)
        PROVE  EventsTouched(watcher'[q], files)
    <3> DEFINE w == Notify(watcher, Removed(f))
    <3>1. f \in touched' /\ g \in touched' /\ watcher' = Notify(w, Added(g))
      BY <2>4 DEF RenameFile, Change
    <3>2. w \in [Thread -> WatcherState]
      BY <1>1, <2>1, NotifyType
    <3>3. EventsTouched(w[q], files)
      <4>1. /\ Removed(f) \in Event
            /\ q \notin Late /\ Removed(f).file \in Under[q] =>
                  Removed(f).file \in files
        BY <2>1, <2>2, <3>1
      <4> QED
        BY <1>1, <2>2, <4>1, NotifyTouches
    <3> HIDE DEF w
    <3> QED
      BY <2>1, <3>1, <3>2, <3>3, NotifyTouches
  <2>5. ASSUME NEW d \in Folder, NEW contents, NEW dirs,
               FolderLeaves(d) \/ FolderArrives(d, contents, dirs)
        PROVE  EventsTouched(watcher'[q], files)
    <3>1. d \in File
      BY IndexerAssumption DEF IndexerAssumption
    <3>2. /\ \/ watcher' = Notify(watcher, Removed(d))
             \/ watcher' = Notify(watcher, Added(d))
          /\ d \in touched'
      BY <2>5 DEF FolderLeaves, FolderArrives, Change
    <3>3. ASSUME NEW event \in {Added(d), Removed(d)}
          PROVE  EventsTouched(Notify(watcher, event)[q], files)
      <4>1. /\ event \in Event
            /\ q \notin Late /\ event.file \in Under[q] => event.file \in files
        BY <2>1, <2>2, <3>1, <3>2, <3>3
      <4> QED
        BY <1>1, <2>2, <4>1, NotifyTouches
    <3> QED
      BY <3>2, <3>3
  <2>6. ASSUME NEW r \in Root, LoseVolume(r)
        PROVE  EventsTouched(watcher'[q], files)
    <3>1. CASE q = r
      <4> DEFINE w == [watcher[q] EXCEPT !.lost = TRUE, !.queue = <<>>]
      <4>1. watcher'[q] = w
        BY <1>1, <2>6, <3>1 DEF LoseVolume
      <4>2. w.queue = <<>> /\ w.at = watcher[q].at
        BY <1>1 DEF WatcherState
      <4>3. Queued(w) = {}
        BY <4>2 DEF Queued
      <4> HIDE DEF w
      <4> QED
        BY <1>1, <4>1, <4>2, <4>3 DEF EventsTouched
    <3>2. CASE q # r
      BY <1>1, <1>2, <2>6, <3>2 DEF LoseVolume
    <3> QED
      BY <3>1, <3>2
  <2> QED
    BY <1>4, <2>3, <2>4, <2>5, <2>6 DEF FileSystem
<1>5. ASSUME NEW r \in Thread, Watcher(r)
      PROVE  EventsTouched(watcher'[q], files)
  <2>1. EventsTouched(watcher[r], File \cup {NoFile})
    <3>1. watcher[r] \in WatcherState
      BY DEF TypeOK
    <3>2. watcher[r].queue \in Seq(Event) /\ watcher[r].at \in ApplyState
      BY <3>1, WatcherFields
    <3>3. \A i \in 1..Len(watcher[r].queue) : watcher[r].queue[i] \in Event
      BY <3>2
    <3> QED
      BY <3>2, <3>3 DEF EventsTouched, Queued, Event, ApplyState
  <2>2. CASE r = q
    BY <1>5, <2>2, WatcherTouches
  <2>3. CASE r # q
    BY <1>2, <1>5, <2>1, <2>3, WatcherTouches
  <2> QED
    BY <2>2, <2>3
<1>6. ASSUME NEW r \in Root, AddWatcher(r)
      PROVE  EventsTouched(watcher'[q], files)
  <2>1. /\ [watcher[q] EXCEPT !.live = 1].queue = watcher[q].queue
        /\ [watcher[q] EXCEPT !.live = 1].at = watcher[q].at
        /\ watcher[q].live \in Nat
    BY <1>1 DEF WatcherState
  <2>2. CASE q # r \/ watcher[q].live > 0
    BY <1>2, <1>6, <2>2, AddWatcherFacts
  <2>3. CASE q = r /\ watcher[q].live = 0
    BY <1>2, <1>6, <2>1, <2>3, AddWatcherFacts
  <2> QED
    BY <2>1, <2>2, <2>3
<1>7. ASSUME NEW r \in Root, SignalStop(r)
      PROVE  EventsTouched(watcher'[q], files)
  <2>1. /\ [watcher[q] EXCEPT !.stop = TRUE].queue = watcher[q].queue
        /\ [watcher[q] EXCEPT !.stop = TRUE].at = watcher[q].at
    BY <1>1 DEF WatcherState
  <2> QED
    BY <1>2, <1>7, <2>1, SignalStopFacts
<1>8. ASSUME NEW r \in Root, StartWatcherUI(r)
      PROVE  EventsTouched(watcher'[q], files)
  <2>1. AddWatcher(r)
    BY <1>8 DEF StartWatcherUI
  <2> QED
    BY <1>6, <2>1
<1>9. CASE StartWatcher
  <2>1. CASE worker.cur \in Root
    BY <1>6, <1>9, <2>1 DEF StartWatcher
  <2>2. CASE worker.cur \notin Root
    <3>1. worker.cur \notin Thread
      BY <2>2, IndexerAssumption DEF TypeOK, WorkerState, IndexerAssumption
    <3> QED
      BY <1>1, <1>3, <1>9, <3>1 DEF StartWatcher, AddWatcher
  <2> QED
    BY <2>1, <2>2
<1>10. ASSUME NEW r \in Root, StopTimesOut(r)
       PROVE  EventsTouched(watcher'[q], files)
  <2>1. EventsTouched(NoWatcher, files)
    BY DEF EventsTouched, Queued, NoWatcher
  <2>2. PICK t \in Late :
           /\ watcher'[t] = watcher[r]
           /\ \A p \in Thread \ {r, t} : watcher'[p] = watcher[p]
    BY <1>10, StopTimesOutFacts
  <2>3. watcher'[r] = NoWatcher
    BY <1>10, StopTimesOutFacts
  <2> QED
    BY <1>10, <2>1, <2>2, <2>3
<1> QED
  BY <1>3, <1>4, <1>5, <1>7, <1>8, <1>9, <1>10, WatchersMoves

----------------------------------------------------------------------------
(* What the scans have found, and for which roots.                         *)

LEMMA FoundStep ==
    ASSUME TypeOK, ThreadsInv, ScansInv, [Next]_vars,
           NEW files, fs \subseteq files, FoundOf(worker, left, found, files)
    PROVE  FoundOf(worker', left', found', files)
<1> DEFINE After == FoundOf(worker', left', found', files)
<1>1. /\ worker \in WorkerState
      /\ left \in [Root -> SUBSET File] /\ found \in [Root -> SUBSET File]
      /\ Under \in [Root -> SUBSET File]
  BY IndexerAssumption DEF TypeOK, IndexerAssumption
<1> DEFINE Holder(r) == \/ worker'.pc \in {"scan", "swap", "signal"}
                        \/ (worker'.pc = "scanPath" /\ worker'.cur = r)
<1>3. ASSUME \A r \in Root : /\ left'[r] \cup found'[r] \subseteq Under[r]
                             /\ left'[r] \cap found'[r] = {}
                             /\ found'[r] \subseteq files \ Excluded
                             /\ found'[r] # {} => Holder(r)
      PROVE  After
  BY <1>3 DEF FoundOf
<1>4. ASSUME UNCHANGED <<left, found>>,
             \A r \in Root : found[r] # {} => Holder(r)
      PROVE  After
  <2> HIDE DEF Holder
  <2> QED
    BY <1>3, <1>4 DEF FoundOf
<1>5. ASSUME UNCHANGED <<left, found, worker>>
      PROVE  After
  BY <1>4, <1>5 DEF FoundOf
<1>6. ASSUME UNCHANGED <<left, found>>,
             worker.pc \notin {"scan", "swap", "signal", "scanPath"}
      PROVE  After
  BY <1>4, <1>6 DEF FoundOf
<1>7. ASSUME UNCHANGED left, \A r \in Root : found'[r] = {}
      PROVE  After
  BY <1>3, <1>7 DEF FoundOf
<1>8. ASSUME NEW q \in Root, Scanner(q)
      PROVE  After
  <2>1. UNCHANGED worker
    BY <1>8 DEF Scanner, ScanFile, ScanCancelled
  <2>2. CASE ScanCancelled(q)
    <3>1. found' = found /\ \A r \in Root : left'[r] \subseteq left[r]
      BY <1>1, <2>2 DEF ScanCancelled
    <3> QED
      BY <1>3, <2>1, <3>1 DEF FoundOf
  <2>3. CASE ScanFile(q)
    <3>1. PICK f \in left[q] :
             /\ left' = [left EXCEPT ![q] = @ \ {f}]
             /\ found' = [found EXCEPT ![q] = @ \cup (({f} \cap fs) \ Excluded)]
      BY <2>3 DEF ScanFile
    <3>2. worker.pc = "scan" \/ (worker.pc = "scanPath" /\ worker.cur = q)
      BY <3>1 DEF ScansInv
    <3>3. \A r \in Root \ {q} : left'[r] = left[r] /\ found'[r] = found[r]
      BY <1>1, <3>1
    <3>4. /\ left'[q] = left[q] \ {f}
          /\ found'[q] = found[q] \cup (({f} \cap fs) \ Excluded)
      BY <1>1, <3>1
    <3>5. /\ left[q] \cup found[q] \subseteq Under[q]
          /\ left[q] \cap found[q] = {}
          /\ found[q] \subseteq files \ Excluded
      BY DEF FoundOf
    <3>6. /\ left'[q] \cup found'[q] \subseteq Under[q]
          /\ left'[q] \cap found'[q] = {}
          /\ found'[q] \subseteq files \ Excluded
      BY <3>1, <3>4, <3>5
    <3> QED
      BY <1>3, <2>1, <3>2, <3>3, <3>6 DEF FoundOf
  <2> QED
    BY <1>8, <2>2, <2>3 DEF Scanner
<1>9. CASE Worker
  <2>1. CASE BeginRebuild
    <3>1. \A r \in Root : found'[r] = {} /\ left'[r] \subseteq Under[r]
      BY <1>1, <2>1 DEF BeginRebuild
    <3> QED
      BY <1>3, <3>1
  <2>2. CASE JoinScans
    BY <1>1, <1>4, <2>2 DEF JoinScans, Goto, WorkerState, scan
  <2>3. CASE SwapIndex
    BY <1>7, <2>3 DEF SwapIndex
  <2>4. CASE ApplyPath
    <3>1. PICK f : found' = [found EXCEPT ![worker.cur] = @ \ {f}]
      BY <2>4 DEF ApplyPath
    <3>2. UNCHANGED <<left, worker>>
      BY <2>4 DEF ApplyPath
    <3>3. \A r \in Root : found'[r] \subseteq found[r]
      BY <1>1, <3>1
    <3> QED
      BY <1>3, <3>2, <3>3 DEF FoundOf
  <2>5. CASE PathApplied
    <3>1. \A r \in Root : found[r] = {}
      BY <2>5 DEF PathApplied, FoundOf
    <3> QED
      BY <1>4, <2>5, <3>1 DEF PathApplied, scan
  <2>6. CASE Signal
    BY <1>7, <2>6 DEF Signal
  <2>7. ASSUME NEW q \in Root, ScanPath(q)
        PROVE  After
    <3>1. /\ found' = found
          /\ left'[q] = Under[q]
          /\ \A r \in Root \ {q} : left'[r] = left[r]
      BY <1>1, <2>7 DEF ScanPath
    <3>2. \A r \in Root : found[r] = {}
      BY <2>7 DEF ScanPath, FoundOf
    <3> QED
      BY <1>3, <3>1, <3>2 DEF FoundOf
  <2>8. ASSUME NEW q \in Root, CheckCancel(q) \/ PurgePath(q) \/ StopWatcher(q)
        PROVE  After
    BY <1>6, <2>8 DEF CheckCancel, PurgePath, StopWatcher, scan
  <2> QED
    BY <1>6, <1>9, <2>1, <2>2, <2>3, <2>4, <2>5, <2>6, <2>7, <2>8
    DEF Worker, SaveRebuild, StartWatcher, AllStarted, SavePaths, StopLocks,
        StopUnlocks, SaveRemoval, scan
<1>10. CASE User
  BY <1>5, <1>6, <1>10
  DEF User, Rebuild, Destroy, ChangeSettings, NoJob, ThreadsInv, scan
<1>11. CASE UI
  BY <1>5, <1>6, <1>11 DEF UI, StartUp, NoJob, ThreadsInv, scan
<1>12. CASE FileSystem
  BY <1>5, <1>12, FileSystemStep, BystanderSteps
<1>13. ASSUME \/ \E t \in Thread : Watcher(t)
              \/ \E r \in Root : StopTimesOut(r)
              \/ Gone \/ UNCHANGED vars
       PROVE  After
  <2>1. UNCHANGED <<left, found>>
    BY <1>13 DEF Watcher, StopTimesOut, Gone, vars, scan
  <2> QED
    BY <1>5, <1>13, <2>1, BystanderSteps
<1> QED
  BY <1>8, <1>9, <1>10, <1>11, <1>12, <1>13 DEF Next

----------------------------------------------------------------------------
(* The roots of the job and the selection.                                 *)

\* A selection that is edited while a job runs touches the files of the roots
\* that come and go.
LEMMA DroppedCommand ==
    ASSUME TypeOK, NEW new \in Selections, ChangeSettings(new), ~completed
    PROVE  \A r \in (new \ selected) \cup (selected \ new) :
               Under[r] \subseteq touched'
BY DEF ChangeSettings, FilesUnder

LEMMA RootsStep ==
    ASSUME {} \notin Selections, TypeOK, ThreadsInv, [Next]_vars,
           NEW files, RootsOf(worker, selected, files),
           NEW more, files \subseteq more,
           \A new \in Selections : ChangeSettings(new) /\ ~completed =>
               \A r \in (new \ selected) \cup (selected \ new) :
                   Under[r] \subseteq more
    PROVE  RootsOf(worker', selected', more)
<1> DEFINE After == RootsOf(worker', selected', more)
<1>1. worker \in WorkerState
  BY DEF TypeOK
<1>2. Effective(selected) = selected /\ selected \in SUBSET Root
  BY IndexerAssumption DEF TypeOK, Effective, IndexerAssumption
<1>3. CASE UNCHANGED <<worker, selected>>
  BY <1>1, <1>3 DEF RootsOf
<1>4. ASSUME worker'.pc \notin {"scan", "swap", "nextPath", "scanPath", "purge"}
      PROVE  After
  BY <1>4 DEF RootsOf
<1>5. CASE Worker
  <2>1. UNCHANGED selected
    BY <1>5 DEF Worker, environment, disk
  <2>2. CASE BeginRebuild
    <3>1. worker'.pc = "scan" /\ worker'.roots = selected
      BY <1>1, <1>2, <2>2 DEF BeginRebuild, WorkerState
    <3> QED
      BY <2>1, <3>1 DEF RootsOf
  <2>3. CASE JoinScans
    <3>1. worker'.pc \in {"swap", "signal"} /\ worker'.roots = worker.roots
          /\ worker.pc = "scan"
      BY <1>1, <2>3 DEF JoinScans, Goto, WorkerState
    <3> QED
      BY <2>1, <3>1 DEF RootsOf
  <2>4. CASE ApplyPath
    BY <1>3, <2>1, <2>4 DEF ApplyPath
  <2>5. CASE PathApplied
    <3>1. /\ worker'.pc = "nextPath" /\ worker'.roots = worker.roots
          /\ worker'.todo = worker.todo \ {worker.cur}
          /\ worker.pc = "scanPath"
      BY <1>1, <2>5 DEF PathApplied, WorkerState
    <3> QED
      BY <2>1, <3>1 DEF RootsOf
  <2>6. ASSUME NEW r \in Root, ScanPath(r)
        PROVE  After
    <3>1. /\ worker'.pc = "scanPath" /\ worker'.roots = worker.roots
          /\ worker'.todo = worker.todo /\ worker'.cur = r
          /\ worker.pc = "nextPath" /\ r \in worker.todo
      BY <1>1, <2>6 DEF ScanPath, WorkerState
    <3> QED
      BY <2>1, <3>1 DEF RootsOf
  <2>7. ASSUME NEW r \in Root, PurgePath(r)
        PROVE  After
    <3>1. /\ worker'.pc = "purge" /\ worker'.roots = worker.roots
          /\ worker'.todo = worker.todo \ {r} /\ worker.pc = "purge"
      BY <1>1, <2>7 DEF PurgePath, WorkerState
    <3> QED
      BY <2>1, <3>1 DEF RootsOf
  <2>8. ASSUME NEW r \in Root, StopWatcher(r)
        PROVE  After
    BY <1>3, <2>1, <2>8 DEF StopWatcher
  <2>9. ASSUME NEW r \in Root, CheckCancel(r)
        PROVE  After
    BY <1>1, <1>4, <2>9 DEF CheckCancel, Goto, WorkerState
  <2>10. CASE SavePaths
    BY <1>1, <1>4, <2>10 DEF SavePaths, Goto, WorkerState
  <2>11. CASE SwapIndex \/ SaveRebuild \/ StartWatcher
    BY <1>1, <1>4, <2>11
    DEF SwapIndex, SaveRebuild, StartWatcher, Goto, WorkerState
  <2>12. CASE AllStarted \/ StopLocks \/ StopUnlocks
    BY <1>1, <1>4, <2>12
    DEF AllStarted, StopLocks, StopUnlocks, Goto, WorkerState
  <2>13. CASE SaveRemoval
    BY <1>1, <1>4, <2>13 DEF SaveRemoval, Goto, WorkerState
  <2>14. CASE Signal
    BY <1>4, <2>14 DEF Signal, NoWorker
  <2> QED
    BY <1>5, <2>2, <2>3, <2>4, <2>5, <2>6, <2>7, <2>8, <2>9, <2>10, <2>11,
       <2>12, <2>13, <2>14 DEF Worker
<1>6. ASSUME NEW roots, StartJob("rebuild", roots)
      PROVE  After
  BY <1>4, <1>6 DEF StartJob
<1>7. CASE User
  <2>1. CASE Rebuild
    BY <1>6, <2>1 DEF Rebuild
  <2>2. CASE Destroy
    BY <1>3, <2>2 DEF Destroy
  <2>3. ASSUME NEW new \in Selections, ChangeSettings(new)
        PROVE  After
    <3>1. selected' = new
      BY <2>3 DEF ChangeSettings
    <3>2. CASE ~completed
      <4>1. worker' = worker
        BY <2>3, <3>2 DEF ChangeSettings, NoJob
      <4>2. \A r : r \in new \/ r \notin selected \/ Under[r] \subseteq more
        BY <2>3, <3>2
      <4>3. \A r : r \notin new \/ r \in selected \/ Under[r] \subseteq more
        BY <2>3, <3>2
      <4>4. worker'.pc \in {"scan", "swap"} =>
               \A r \in (worker'.roots \ selected') \cup (selected' \ worker'.roots) :
                   Under[r] \subseteq more
        BY <1>1, <3>1, <4>1, <4>2, <4>3 DEF RootsOf
      <4>5. worker'.pc \in {"nextPath", "scanPath"} =>
               /\ worker'.todo \subseteq worker'.roots
               /\ worker'.pc = "scanPath" => worker'.cur \in worker'.todo
               /\ \A r \in worker'.roots \ selected' : Under[r] \subseteq more
        BY <1>1, <3>1, <4>1, <4>2 DEF RootsOf
      <4>6. worker'.pc = "purge" =>
               /\ worker'.todo \subseteq worker'.roots
               /\ \A r \in worker'.roots \cap selected' : Under[r] \subseteq more
        BY <1>1, <3>1, <4>1, <4>3 DEF RootsOf
      <4> QED
        BY <4>4, <4>5, <4>6 DEF RootsOf
    <3>3. CASE completed
      <4>1. CASE StartJob("rebuild", {})
        BY <1>6, <4>1
      <4>2. CASE StartJob("nextPath", new \ selected)
        BY <3>1, <4>2 DEF StartJob, RootsOf
      <4>3. CASE StartJob("purge", selected \ new)
        BY <3>1, <4>3 DEF StartJob, RootsOf
      <4> QED
        BY <2>3, <3>3, <4>1, <4>2, <4>3 DEF ChangeSettings
    <3> QED
      BY <3>2, <3>3
  <2> QED
    BY <1>7, <2>1, <2>2, <2>3 DEF User
<1>8. CASE UI
  BY <1>3, <1>6, <1>8 DEF UI, StartUp, NoJob
<1> QED
  BY <1>3, <1>5, <1>7, <1>8, BystanderSteps DEF Next

----------------------------------------------------------------------------
(* One file, through every step.                                           *)

\* Nobody clears m_cancel once the window closes.
LEMMA CancelStays == ThreadsInv /\ [Next]_vars /\ cancel => cancel'
<1> SUFFICES ASSUME ThreadsInv, [Next]_vars, cancel PROVE cancel'
  OBVIOUS
<1>1. ui.pc \notin {"start", "watch", "idle"}
  BY DEF ThreadsInv, Closing
<1>2. CASE User
  BY <1>1, <1>2 DEF User, Rebuild, Destroy, ChangeSettings, MayCommand
<1>3. CASE UI
  BY <1>1, <1>3 DEF UI, StartUp
<1>4. CASE Worker
  BY <1>4 DEF Worker
<1> QED
  BY <1>2, <1>3, <1>4, BystanderSteps DEF Next

LEMMA FileUnchanged ==
    ASSUME NEW f, FileInv(f), f \in fs' <=> f \in fs,
           UNCHANGED <<selected, saved, worker, left, found>>,
           index'[f] = index[f],
           ui'.pc = "start" <=> ui.pc = "start"
    PROVE  FileInv(f)'
<1>1. Wanted(f)' = Wanted(f)
  BY DEF Wanted, Covered
<1>2. CASE ui.pc = "start"
  BY <1>1, <1>2 DEF FileInv, NoIndex
<1>3. CASE ui.pc # "start"
  <2>1. /\ ScanProgress(f) /\ PathsProgress(f)
        /\ PurgeProgress(f) /\ Settled(f)
    BY <1>3 DEF FileInv
  <2>2. ScanProgress(f)'
    BY <2>1 DEF ScanProgress
  <2>3. PathsProgress(f)'
    BY <1>1, <2>1 DEF PathsProgress, ToBeAdded, Covered
  <2>4. PurgeProgress(f)' /\ Settled(f)'
    BY <1>1, <2>1 DEF PurgeProgress, Settled, Covered
  <2> QED
    BY <1>3, <2>2, <2>3, <2>4 DEF FileInv
<1> QED
  BY <1>2, <1>3

LEMMA FileScanned ==
    ASSUME TypeOK, ThreadsInv, ScansInv,
           NEW files, FoundOf(worker, left, found, fs \cup files),
           RootsOf(worker, selected, files),
           NEW r \in Root, Scanner(r), ~cancel,
           NEW f \in File, FileInv(f), f \in fs' <=> f \in fs
    PROVE  FileInv(f)'
<1>1. UNCHANGED <<fs, index, saved, selected, ui, worker>>
  BY DEF Scanner, ScanFile, ScanCancelled, environment, disk, store
<1>2. PICK g \in left[r] :
         /\ left' = [left EXCEPT ![r] = @ \ {g}]
         /\ found' = [found EXCEPT ![r] = @ \cup (({g} \cap fs) \ Excluded)]
  BY DEF Scanner, ScanFile, ScanCancelled
<1>3. /\ left \in [Root -> SUBSET File] /\ found \in [Root -> SUBSET File]
      /\ worker \in WorkerState
  BY DEF TypeOK
<1>4. /\ left'[r] = left[r] \ {g}
      /\ found'[r] = found[r] \cup (({g} \cap fs) \ Excluded)
      /\ \A q \in Root \ {r} : left'[q] = left[q] /\ found'[q] = found[q]
  BY <1>2, <1>3
<1>5. worker.pc = "scan" \/ (worker.pc = "scanPath" /\ worker.cur = r)
  BY <1>2 DEF ScansInv
<1>6. ui.pc # "start"
  BY <1>5 DEF ThreadsInv
<1>7. ScanProgress(f)'
  <2> SUFFICES ASSUME worker.pc = "scan", NEW q \in worker.roots, f \in Under[q]
               PROVE  f \in left'[q] \/ f \in found'[q] \/ f \notin fs \ Excluded
    BY <1>1, <1>5 DEF ScanProgress
  <2>1. f \in left[q] \/ f \in found[q] \/ f \notin fs \ Excluded
    BY <1>6 DEF FileInv, ScanProgress
  <2>2. q \in Root
    BY <1>3 DEF WorkerState
  <2> QED
    BY <1>4, <2>1, <2>2
<1>8. PathsProgress(f)'
  <2> SUFFICES ASSUME worker.pc = "scanPath"
               PROVE  PathsProgress(f)'
    BY <1>1, <1>5 DEF PathsProgress
  <2>1. /\ worker.cur = r /\ r \in worker.todo
        /\ index[f] = IF ToBeAdded(f) THEN 0 ELSE Wanted(f)
    BY <1>5, <1>6 DEF FileInv, PathsProgress, RootsOf
  <2>2. left[r] \cup found[r] \subseteq Under[r]
    BY DEF FoundOf
  <2>3. Wanted(f)' = Wanted(f)
    BY <1>1 DEF Wanted, Covered
  <2>4. CASE f = g /\ f \notin fs \ Excluded
    <3>1. ToBeAdded(f) /\ Wanted(f) = 0
      BY <1>2, <2>1, <2>2, <2>4 DEF ToBeAdded, Covered, Wanted
    <3> QED
      BY <1>1, <2>1, <2>3, <3>1 DEF PathsProgress
  <2>5. CASE ~(f = g /\ f \notin fs \ Excluded)
    <3>1. f \in left'[r] \cup found'[r] <=> f \in left[r] \cup found[r]
      BY <1>2, <1>4, <2>5
    <3>2. ToBeAdded(f)' <=> ToBeAdded(f)
      BY <1>1, <2>1, <3>1 DEF ToBeAdded, Covered
    <3> QED
      BY <1>1, <2>1, <2>3, <3>2 DEF PathsProgress
  <2> QED
    BY <2>4, <2>5
<1>9. PurgeProgress(f)' /\ Settled(f)'
  BY <1>1, <1>5 DEF PurgeProgress, Settled
<1> QED
  BY <1>1, <1>6, <1>7, <1>8, <1>9 DEF FileInv

\* BeginWrite to EndWrite: every file the scans found, once.
LEMMA FileSwapped ==
    ASSUME SeparateRoots, TypeOK, ThreadsInv, ScansInv,
           NEW files, FoundOf(worker, left, found, fs \cup files),
           RootsOf(worker, selected, files),
           SwapIndex, UNCHANGED <<environment, selected>>,
           NEW f \in File \ files, ScanProgress(f)
    PROVE  index'[f] = Wanted(f)
<1> DEFINE S == {r \in worker.roots : f \in found[r]}
<1>1. worker.roots \in SUBSET Root /\ worker.pc = "swap" /\ selected \in SUBSET Root
  BY IndexerAssumption DEF SwapIndex, TypeOK, WorkerState, IndexerAssumption
<1>2. \A r \in worker.roots : f \in found[r] => f \in Under[r] /\ f \in fs \ Excluded
  BY <1>1 DEF FoundOf
<1>3. \A r \in worker.roots : f \in Under[r] /\ f \in fs \ Excluded => f \in found[r]
  BY <1>1 DEF ScanProgress, ScansInv
<1>4. Covered(f, worker.roots) <=> Covered(f, selected)
  BY <1>1 DEF RootsOf, Covered
<1>5. S # {} <=> f \in fs \ Excluded /\ Covered(f, selected)
  BY <1>2, <1>3, <1>4 DEF Covered
<1>6. Cardinality(S) = IF S = {} THEN 0 ELSE 1
  <2>1. S \in SUBSET {r \in worker.roots : f \in Under[r]}
    BY <1>2
  <2> QED
    BY <1>1, <2>1, FoundByOne
<1>7. index'[f] = Cardinality(S)
  BY DEF SwapIndex
<1> QED
  BY <1>5, <1>6, <1>7 DEF Wanted

LEMMA FileWorked ==
    ASSUME SeparateRoots, TypeOK, ThreadsInv, ScansInv,
           NEW files, FoundOf(worker, left, found, fs \cup files),
           RootsOf(worker, selected, files),
           Worker, ~cancel, NEW f \in File \ files, FileInv(f)
    PROVE  FileInv(f)'
<1>1. UNCHANGED <<fs, touched, selected, ui, cancel>>
  BY DEF Worker, environment, disk
<1>2. /\ worker \in WorkerState /\ index \in [File -> Nat]
      /\ left \in [Root -> SUBSET File] /\ found \in [Root -> SUBSET File]
      /\ selected \in SUBSET Root
      /\ worker.todo \in SUBSET Root /\ worker.roots \in SUBSET Root
  BY IndexerAssumption DEF TypeOK, IndexerAssumption, WorkerState
<1>3. Wanted(f)' = Wanted(f)
  BY <1>1 DEF Wanted, Covered
<1>4. worker.pc # "none"
  BY DEF Worker, BeginRebuild, JoinScans, SwapIndex, SaveRebuild, StartWatcher,
         AllStarted, ApplyPath, PathApplied, SavePaths, StopLocks, StopUnlocks,
         SaveRemoval, Signal, CheckCancel, ScanPath, PurgePath, StopWatcher
<1>5. ui.pc # "start" /\ ui'.pc # "start"
  BY <1>1, <1>4 DEF ThreadsInv
<1>6. /\ ScanProgress(f) /\ PathsProgress(f)
      /\ PurgeProgress(f) /\ Settled(f)
  BY <1>5 DEF FileInv
<1>7. ASSUME worker'.pc \notin {"rebuild", "scan", "swap", "nextPath",
                                "scanPath", "purge"},
             index'[f] = Wanted(f)
      PROVE  FileInv(f)'
  BY <1>3, <1>5, <1>7
  DEF FileInv, ScanProgress, PathsProgress, PurgeProgress, Settled
<1>8. ASSUME worker.pc \notin {"rebuild", "scan", "swap", "nextPath",
                               "scanPath", "purge"},
             worker'.pc \notin {"rebuild", "scan", "swap", "nextPath",
                                "scanPath", "purge"},
             index' = index
      PROVE  FileInv(f)'
  BY <1>6, <1>7, <1>8 DEF Settled
<1>9. CASE BeginRebuild
  <2>1. /\ worker'.pc = "scan"
        /\ \A r \in worker'.roots \cap Root : left'[r] = Under[r]
        /\ worker'.roots \in SUBSET Root
    BY <1>2, <1>9, EffectiveType DEF BeginRebuild, WorkerState, TypeOK
  <2> QED
    BY <1>5, <2>1
    DEF FileInv, ScanProgress, PathsProgress, PurgeProgress, Settled
<1>10. CASE JoinScans
  <2>1. /\ worker'.pc = "swap" /\ worker'.roots = worker.roots
        /\ worker.pc = "scan" /\ UNCHANGED <<left, found>>
    BY <1>2, <1>10 DEF JoinScans, Goto, WorkerState, scan
  <2> QED
    BY <1>1, <1>5, <1>6, <2>1
    DEF FileInv, ScanProgress, PathsProgress, PurgeProgress, Settled
<1>11. CASE SwapIndex
  <2>1. worker'.pc = "save"
    BY <1>2, <1>11 DEF SwapIndex, Goto, WorkerState
  <2> QED
    BY <1>1, <1>6, <1>7, <1>11, <2>1, FileSwapped DEF environment, disk, Worker
<1>12. CASE SaveRebuild
  BY <1>2, <1>8, <1>12 DEF SaveRebuild, WorkerState
<1>13. CASE StartWatcher
  BY <1>2, <1>8, <1>13 DEF StartWatcher, WorkerState, store
<1>14. CASE AllStarted
  BY <1>2, <1>8, <1>14 DEF AllStarted, Goto, WorkerState, store
<1>15. CASE StopUnlocks
  BY <1>2, <1>8, <1>15 DEF StopUnlocks, Goto, WorkerState, store
<1>16. CASE SaveRemoval
  BY <1>2, <1>8, <1>16 DEF SaveRemoval, Goto, WorkerState
<1>17. CASE Signal
  BY <1>8, <1>17 DEF Signal, NoWorker, store
<1>18. ASSUME NEW r \in Root, CheckCancel(r)
       PROVE  FileInv(f)'
  <2>1. worker'.pc = "start"
    BY <1>2, <1>18 DEF CheckCancel, WorkerState
  <2> QED
    BY <1>8, <1>18, <2>1 DEF CheckCancel, store
<1>19. ASSUME NEW r \in Root, StopWatcher(r)
       PROVE  FileInv(f)'
  BY <1>8, <1>19 DEF StopWatcher, store
<1>20. ASSUME NEW r \in Root, ScanPath(r)
       PROVE  FileInv(f)'
  <2>1. /\ worker'.pc = "scanPath" /\ worker'.todo = worker.todo
        /\ worker'.cur = r /\ worker.pc = "nextPath"
        /\ left'[r] = Under[r] /\ UNCHANGED <<index, found>>
    BY <1>2, <1>20 DEF ScanPath, WorkerState
  <2>2. ToBeAdded(f)' <=> ToBeAdded(f)
    BY <2>1 DEF ToBeAdded, Covered
  <2> QED
    BY <1>3, <1>5, <1>6, <2>1, <2>2
    DEF FileInv, ScanProgress, PathsProgress, PurgeProgress, Settled
<1>21. CASE ApplyPath
  <2> DEFINE r == worker.cur
  <2>1. PICK g \in found[r] : /\ index' = [index EXCEPT ![g] = @ + 1]
                              /\ found' = [found EXCEPT ![r] = @ \ {g}]
    BY <1>21 DEF ApplyPath, ApplyAdd
  <2>2. /\ worker.pc = "scanPath" /\ UNCHANGED <<worker, left>>
        /\ r \in Root /\ r \in worker.todo /\ r \in worker.roots
    BY <1>21 DEF ApplyPath, ThreadsInv, RootsOf
  <2>3. /\ left[r] = {} /\ found[r] \subseteq Under[r]
        /\ found[r] \subseteq (fs \cup files) \ Excluded
    BY <1>21, <2>2 DEF ApplyPath, FoundOf
  <2>4. found'[r] = found[r] \ {g} /\ g \in File
    BY <1>2, <2>1, <2>2
  <2>5. index[f] = IF ToBeAdded(f) THEN 0 ELSE Wanted(f)
    BY <1>6, <2>2 DEF PathsProgress
  <2>6. index'[f] = IF ToBeAdded(f)' THEN 0 ELSE Wanted(f)
    <3>1. CASE f = g
      <4>1. ToBeAdded(f) /\ ~ToBeAdded(f)'
        BY <2>1, <2>2, <2>3, <2>4, <3>1 DEF ToBeAdded, Covered
      <4>2. r \in selected
        BY <2>1, <2>2, <2>3, <3>1 DEF RootsOf
      <4>3. Wanted(f) = 1
        BY <2>1, <2>3, <3>1, <4>2 DEF Wanted, Covered
      <4>4. index'[f] = index[f] + 1
        BY <1>2, <2>1, <3>1
      <4> QED
        BY <2>5, <4>1, <4>3, <4>4
    <3>2. CASE f # g
      <4>1. ToBeAdded(f)' <=> ToBeAdded(f)
        BY <2>2, <2>4, <3>2 DEF ToBeAdded, Covered
      <4>2. index'[f] = index[f]
        BY <1>2, <2>1, <3>2
      <4> QED
        BY <2>5, <4>1, <4>2
    <3> QED
      BY <3>1, <3>2
  <2> QED
    BY <1>3, <1>5, <2>2, <2>6
    DEF FileInv, ScanProgress, PathsProgress, PurgeProgress, Settled
<1>22. CASE PathApplied
  <2> DEFINE r == worker.cur
  <2>1. /\ worker'.pc = "nextPath" /\ worker'.todo = worker.todo \ {r}
        /\ worker.pc = "scanPath" /\ left[r] = {} /\ found[r] = {}
        /\ index' = index /\ r \in Root
    BY <1>2, <1>22 DEF PathApplied, ThreadsInv, WorkerState, store
  <2>2. ToBeAdded(f)' <=> ToBeAdded(f)
    <3>1. CASE f \in Under[r]
      <4>1. ~ToBeAdded(f)
        BY <2>1, <3>1 DEF ToBeAdded
      <4>2. ~Covered(f, worker'.todo)
        BY <1>2, <2>1, <3>1 DEF Covered, SeparateRoots
      <4> QED
        BY <4>1, <4>2 DEF ToBeAdded
    <3>2. CASE f \notin Under[r]
      BY <2>1, <3>2 DEF ToBeAdded, Covered
    <3> QED
      BY <3>1, <3>2
  <2> QED
    BY <1>3, <1>5, <1>6, <2>1, <2>2
    DEF FileInv, ScanProgress, PathsProgress, PurgeProgress, Settled
<1>23. CASE SavePaths
  <2>1. /\ worker.todo = {} /\ worker.pc = "nextPath" /\ worker'.pc = "watch"
        /\ index' = index
    BY <1>2, <1>23 DEF SavePaths, WorkerState
  <2> QED
    BY <1>6, <1>7, <2>1 DEF PathsProgress, ToBeAdded, Covered
<1>24. ASSUME NEW r \in Root, PurgePath(r)
       PROVE  FileInv(f)'
  <2>1. /\ worker.pc = "purge" /\ worker'.pc = "purge"
        /\ worker'.todo = worker.todo \ {r} /\ r \in worker.roots
        /\ index'[f] = IF f \in Under[r] THEN 0 ELSE index[f]
    BY <1>2, <1>24 DEF PurgePath, WorkerState, RootsOf
  <2>2. CASE f \in Under[r]
    <3>1. r \notin selected
      BY <2>1, <2>2 DEF RootsOf
    <3>2. Wanted(f) = 0
      BY <1>2, <2>2, <3>1 DEF Wanted, Covered, SeparateRoots
    <3> QED
      BY <1>3, <1>5, <2>1, <2>2, <3>2
      DEF FileInv, ScanProgress, PathsProgress, PurgeProgress, Settled
  <2>3. CASE f \notin Under[r]
    <3>1. Covered(f, worker'.todo) <=> Covered(f, worker.todo)
      BY <2>1, <2>3 DEF Covered
    <3> QED
      BY <1>3, <1>5, <1>6, <2>1, <2>3, <3>1
      DEF FileInv, ScanProgress, PathsProgress, PurgeProgress, Settled
  <2> QED
    BY <2>2, <2>3
<1>25. CASE StopLocks
  <2>1. /\ worker.todo = {} /\ worker.pc = "purge" /\ worker'.pc = "stop"
        /\ index' = index
    BY <1>2, <1>25 DEF StopLocks, WorkerState, store
  <2> QED
    BY <1>6, <1>7, <2>1 DEF PurgeProgress, Covered
<1> QED
  BY <1>9, <1>10, <1>11, <1>12, <1>13, <1>14, <1>15, <1>16, <1>17, <1>18,
     <1>19, <1>20, <1>21, <1>22, <1>23, <1>24, <1>25 DEF Worker

\* The user's commands.  A settings change starts from an index that is right.
LEMMA FileCommanded ==
    ASSUME SeparateRoots, TypeOK, ThreadsInv, User, ~cancel', ~cancel,
           NEW f \in File, completed \/ f \notin touched', FileInv(f)
    PROVE  FileInv(f)'
<1>1. ASSUME ui'.pc # "start", worker'.pc = "rebuild"
      PROVE  FileInv(f)'
  BY <1>1
  DEF FileInv, ScanProgress, PathsProgress, PurgeProgress, Settled
<1>2. CASE Rebuild
  <2>1. ui'.pc = "idle" /\ worker'.pc = "rebuild"
    BY <1>2 DEF Rebuild, MayCommand, StartJob
  <2> QED
    BY <1>1, <2>1
<1>3. ~Destroy
  BY DEF Destroy
<1>4. ASSUME NEW new \in Selections, ChangeSettings(new)
      PROVE  FileInv(f)'
  <2> DEFINE added == new \ selected
             removed == selected \ new
  <2>1. /\ ui.pc = "idle" /\ selected' = new
        /\ UNCHANGED <<fs, index, saved, ui, left, found>>
    BY <1>4 DEF ChangeSettings, MayCommand, store, scan
  <2>2. new \in SUBSET Root /\ selected \in SUBSET Root
    BY IndexerAssumption DEF TypeOK, IndexerAssumption
  <2>3. ASSUME ~Covered(f, added), ~Covered(f, removed)
        PROVE  Wanted(f)' = Wanted(f)
    BY <2>1, <2>3 DEF Wanted, Covered
  <2>4. CASE ~completed
    <3>1. UNCHANGED worker
      BY <1>4, <2>4 DEF ChangeSettings, NoJob
    <3>2. Wanted(f)' = Wanted(f)
      BY <1>4, <2>3, <2>4, DroppedCommand DEF Covered
    <3>3. /\ ScanProgress(f) /\ PathsProgress(f)
          /\ PurgeProgress(f) /\ Settled(f)
      BY <2>1 DEF FileInv
    <3>4. ScanProgress(f)'
      BY <2>1, <3>1, <3>3 DEF ScanProgress
    <3>5. PathsProgress(f)'
      BY <2>1, <3>1, <3>2, <3>3 DEF PathsProgress, ToBeAdded, Covered
    <3>6. PurgeProgress(f)' /\ Settled(f)'
      BY <2>1, <3>1, <3>2, <3>3 DEF PurgeProgress, Settled, Covered
    <3> QED
      BY <2>1, <3>4, <3>5, <3>6 DEF FileInv
  <2>5. CASE completed
    <3>1. index[f] = Wanted(f)
      BY <2>1, <2>5 DEF FileInv, Settled, ThreadsInv
    <3>2. CASE StartJob("rebuild", {})
      BY <1>1, <2>1, <3>2 DEF StartJob
    <3>3. CASE removed = {} /\ StartJob("nextPath", added)
      <4>1. /\ worker'.pc = "nextPath" /\ worker'.todo = added
            /\ ToBeAdded(f)' <=> Covered(f, added)
        BY <3>3 DEF StartJob, ToBeAdded, Covered
      <4>2. CASE Covered(f, added)
        <5>1. Wanted(f) = 0
          BY <2>2, <4>2 DEF Wanted, Covered, SeparateRoots
        <5> QED
          BY <2>1, <3>1, <4>1, <4>2, <5>1
          DEF FileInv, ScanProgress, PathsProgress, PurgeProgress, Settled
      <4>3. CASE ~Covered(f, added)
        <5>1. Wanted(f)' = Wanted(f)
          BY <2>3, <3>3, <4>3 DEF Covered
        <5> QED
          BY <2>1, <3>1, <4>1, <4>3, <5>1
          DEF FileInv, ScanProgress, PathsProgress, PurgeProgress, Settled
      <4> QED
        BY <4>2, <4>3
    <3>4. CASE added = {} /\ StartJob("purge", removed)
      <4>1. worker'.pc = "purge" /\ worker'.todo = removed
        BY <3>4 DEF StartJob
      <4>2. ~Covered(f, removed) => Wanted(f)' = Wanted(f)
        BY <2>3, <3>4 DEF Covered
      <4>3. Covered(f, worker'.todo) \/ index'[f] = Wanted(f)'
        BY <2>1, <3>1, <4>1, <4>2
      <4> QED
        BY <2>1, <4>1, <4>3
        DEF FileInv, ScanProgress, PathsProgress, PurgeProgress, Settled
    <3> QED
      BY <1>4, <2>5, <3>2, <3>3, <3>4 DEF ChangeSettings
  <2> QED
    BY <2>4, <2>5
<1> QED
  BY <1>2, <1>3, <1>4 DEF User

\* The steps of the UI thread: loading the index, or starting a rebuild.
LEMMA FileUI ==
    ASSUME TypeOK, ThreadsInv, UI, ~cancel, NEW f \in File, FileInv(f)
    PROVE  FileInv(f)'
<1>1. CASE StartUp
  <2>1. /\ ui.pc = "start" /\ worker.pc = "none"
        /\ saved = NoIndex \/ saved[f] = Wanted(f)
    BY <1>1 DEF StartUp, ThreadsInv, FileInv
  <2>2. Wanted(f)' = Wanted(f)
    BY <1>1 DEF StartUp, environment, disk, Wanted, Covered
  <2>3. CASE ui'.pc = "watch" /\ NoJob /\ saved # NoIndex /\ index' = saved
    BY <2>1, <2>2, <2>3
    DEF NoJob, FileInv, ScanProgress, PathsProgress, PurgeProgress, Settled
  <2>4. CASE ui'.pc = "idle" /\ StartJob("rebuild", {})
    <3>1. worker'.pc = "rebuild"
      BY <2>4 DEF StartJob
    <3> QED
      BY <2>4, <3>1
      DEF FileInv, ScanProgress, PathsProgress, PurgeProgress, Settled
  <2> QED
    BY <1>1, <2>3, <2>4, StartUpCases
<1>2. CASE ~StartUp
  <2>1. UNCHANGED <<fs, selected, index, saved, worker, left, found>>
    BY <1>2 DEF UI, environment, disk, store, scan
  <2>2. ui.pc # "start" /\ ui'.pc # "start"
    BY <1>2
    DEF UI, StartedUI, CancelLocks, CancelUnlocks, WaitForCompletion,
        Destroyed, StartWatcherUI, StopWatcherUI, TypeOK, UIState
  <2> QED
    BY <2>1, <2>2, FileUnchanged
<1> QED
  BY <1>1, <1>2

----------------------------------------------------------------------------
LEMMA InitIndex ==
    SeparateRoots /\ {} \notin Selections /\ Init => IndexInv
<1> SUFFICES ASSUME SeparateRoots, {} \notin Selections, Init PROVE IndexInv
  OBVIOUS
<1>1. TypeOK
  BY InitType
<1>2. EventsInv
  BY DEF Init, EventsInv, EventsTouched, Queued, NoWatcher
<1>3. FoundInv /\ RootsInv
  BY DEF Init, FoundInv, FoundOf, RootsInv, RootsOf, NoWorker
<1>4. ASSUME NEW f \in File \ touched
      PROVE  FileInv(f)
  <2>1. saved # NoIndex => saved[f] = Scanned(fs, Effective(selected))[f]
    BY DEF Init
  <2> QED
    BY <1>1, <2>1, WantedIsScanned DEF Init, FileInv
<1> QED
  BY <1>2, <1>3, <1>4 DEF IndexInv

LEMMA NextIndex ==
    SeparateRoots /\ {} \notin Selections /\ JobsInv /\ IndexInv /\ [Next]_vars
        => IndexInv'
<1> SUFFICES ASSUME SeparateRoots, {} \notin Selections, JobsInv, IndexInv,
                    [Next]_vars
             PROVE  IndexInv'
  OBVIOUS
<1>1. TypeOK /\ ThreadsInv /\ ScansInv /\ EventsInv /\ FoundInv /\ RootsInv
  BY DEF JobsInv, IndexInv
<1>2. EventsInv' /\ FoundInv' /\ RootsInv'
  <2>1. FoundOf(worker', left', found', fs \cup touched)
    BY <1>1, FoundStep DEF FoundInv
  <2>2. found' \in [Root -> SUBSET File]
    BY <1>1, NextType DEF TypeOK
  <2>3. \A f \in File : f \in fs \cup touched => f \in fs' \cup touched'
    BY <1>1, TouchedStep
  <2>4. FoundInv'
    BY <2>1, <2>2, <2>3 DEF FoundInv, FoundOf
  <2>5. touched \subseteq touched'
    BY <1>1, TouchedStep
  <2>6. RootsInv'
    BY <1>1, <2>5, RootsStep, DroppedCommand DEF RootsInv
  <2>7. ASSUME NEW q \in Thread
        PROVE  EventsTouched(watcher'[q], touched')
    <3>1. \A t \in Thread : EventsTouched(watcher[t], touched')
      BY <1>1, <2>5 DEF EventsInv, EventsTouched
    <3> QED
      BY <1>1, <3>1, EventsStep
  <2> QED
    BY <2>4, <2>6, <2>7 DEF EventsInv
<1>3. ASSUME ~cancel', NEW f \in File \ touched'
      PROVE  FileInv(f)'
  <2>1. /\ ~cancel /\ f \in File \ touched /\ FileInv(f)
        /\ f \in fs' <=> f \in fs
    BY <1>1, <1>3, CancelStays, TouchedStep DEF IndexInv
  <2>2. CASE FileSystem
    BY <1>1, <2>1, <2>2, FileSystemStep, BystanderSteps, FileUnchanged
  <2>3. CASE Gone \/ UNCHANGED vars
    <3>1. UNCHANGED <<index, left, found>>
      BY <2>3 DEF Gone, vars, store, scan
    <3> QED
      BY <2>1, <2>3, <3>1, BystanderSteps, FileUnchanged
  <2>4. ASSUME NEW r \in Root, Scanner(r)
        PROVE  FileInv(f)'
    BY <1>1, <2>1, <2>4, FileScanned DEF FoundInv, RootsInv
  <2>5. ASSUME NEW r \in Thread, Watcher(r)
        PROVE  FileInv(f)'
    <3>1. UNCHANGED <<left, found>>
      BY <2>5 DEF Watcher, scan
    <3>2. index'[f] = index[f]
      BY <1>1, <2>1, <2>5, WatcherTouches DEF EventsInv
    <3>3. UNCHANGED <<selected, saved, worker, ui>>
      BY <2>5, BystanderSteps
    <3> QED
      BY <2>1, <3>1, <3>2, <3>3, FileUnchanged
  <2>6. ASSUME NEW r \in Root, StopTimesOut(r)
        PROVE  FileInv(f)'
    <3>1. UNCHANGED <<index, left, found>>
      BY <2>6 DEF StopTimesOut, store, scan
    <3> QED
      BY <2>1, <2>6, <3>1, BystanderSteps, FileUnchanged
  <2>7. CASE User
    BY <1>1, <1>3, <2>1, <2>7, FileCommanded
  <2>8. CASE UI
    BY <1>1, <1>3, <2>1, <2>8, FileUI
  <2>9. CASE Worker
    BY <1>1, <2>1, <2>9, FileWorked DEF FoundInv, RootsInv
  <2> QED
    BY <2>2, <2>3, <2>4, <2>5, <2>6, <2>7, <2>8, <2>9 DEF Next
<1> QED
  BY <1>2, <1>3 DEF IndexInv

\* Whatever load, rebuild, added and removed roots follow one another, and
\* whatever the watchers apply meanwhile: a file nobody touched has its one
\* entry.  The roots must not overlap and the selection never be empty, which
\* SettingsDialog does not see to: IndexPathsThread scans a root again that is
\* below another one, RemoveEntriesUnderPath takes the entries the other root
\* still calls for, and an emptied selection stands for the fixed drives only
\* from the next rebuild on.
THEOREM EveryUntouchedFileOnce ==
    ASSUME SeparateRoots, {} \notin Selections
    PROVE  Spec => []UntouchedFilesIndexedOnce
<1>1. Init => JobsInv /\ IndexInv
  BY InitJobs, InitIndex
<1>2. JobsInv /\ IndexInv /\ [Next]_vars => (JobsInv /\ IndexInv)'
  BY NextJobs, NextIndex
<1>3. JobsInv /\ IndexInv => UntouchedFilesIndexedOnce
  <2> SUFFICES ASSUME JobsInv, IndexInv, Idle, NEW f \in File \ touched
               PROVE  index[f] = Scanned(fs, Effective(selected))[f]
    BY DEF UntouchedFilesIndexedOnce
  <2>1. TypeOK /\ worker.pc = "none" /\ ~cancel /\ ui.pc # "start"
    BY DEF JobsInv, ThreadsInv, Closing, Idle
  <2>2. index[f] = Wanted(f)
    BY <2>1 DEF IndexInv, FileInv, Settled
  <2> QED
    BY <2>1, <2>2, WantedIsScanned
<1> QED
  BY <1>1, <1>2, <1>3, PTL DEF Spec

----------------------------------------------------------------------------
(***************************************************************************)
(* Where changes wait for jobs and commands for events (Calm), the index   *)
(* of the selected roots is exact whenever all events were applied.        *)
(*                                                                         *)
(* A watcher looks at a file when it applies an event, which may be after  *)
(* the next event about that file has been queued, so the entries of a     *)
(* file agree with no state the file system was in.  What is invariant is  *)
(* the story that the queue tells of each file: its events follow from one *)
(* another, and the last one leaves the path as it is now.  The story is   *)
(* of what is there, file or folder, since events do not tell them apart;  *)
(* which of them it is counts only when all is told.                       *)
(***************************************************************************)

\* The events about one file.
About(queue, f) == {i \in 1..Len(queue) : queue[i].file = f}

FirstAbout(queue, f, i) ==
    i \in About(queue, f) /\ \A k \in About(queue, f) : i <= k

LastAbout(queue, f, i) ==
    i \in About(queue, f) /\ \A k \in About(queue, f) : k <= i

NextAbout(queue, f, i, j) ==
    /\ {i, j} \subseteq About(queue, f)
    /\ i < j
    /\ \A k \in About(queue, f) : k <= i \/ j <= k

\* Whether there is something at the path before an event, and after it.
ThereBefore(event) == event.type # "Added"
ThereAfter(event) == event.type # "Removed"

\* What a queue tells of a path that has some entries, counting the one that
\* the watcher is about to add: events follow from one another, the last one
\* leaves something there or not, the first one finds no entry if it is Added,
\* and if there is none the entries are those of a file, or not.
Story(queue, f, entries, there, file) ==
    /\ \A i, j \in 1..Len(queue) :
          NextAbout(queue, f, i, j) =>
              (ThereAfter(queue[i]) <=> ThereBefore(queue[j]))
    /\ \A i \in 1..Len(queue) :
          LastAbout(queue, f, i) => (ThereAfter(queue[i]) <=> there)
    /\ \A i \in 1..Len(queue) :
          FirstAbout(queue, f, i) /\ ~ThereBefore(queue[i]) => entries = 0
    /\ entries <= 1
    /\ About(queue, f) = {} => entries = IF file THEN 1 ELSE 0

LEMMA Appended ==
    ASSUME NEW queue \in Seq(Event), NEW event \in Event
    PROVE  /\ Append(queue, event) \in Seq(Event)
           /\ Len(Append(queue, event)) = Len(queue) + 1
           /\ \A i \in 1..Len(queue) : Append(queue, event)[i] = queue[i]
           /\ Append(queue, event)[Len(queue) + 1] = event
           /\ Len(queue) \in Nat
OBVIOUS

\* An event about another file.
LEMMA StoryGoesOn ==
    ASSUME NEW queue \in Seq(Event), NEW event \in Event,
           NEW f, event.file # f,
           NEW entries, NEW there, NEW file,
           Story(queue, f, entries, there, file)
    PROVE  Story(Append(queue, event), f, entries, there, file)
<1> DEFINE new == Append(queue, event)
<1>1. /\ Len(new) = Len(queue) + 1
      /\ \A i \in 1..Len(queue) : new[i] = queue[i]
      /\ new[Len(queue) + 1] = event
      /\ Len(queue) \in Nat
  BY Appended
<1> HIDE DEF new
<1>2. About(new, f) = About(queue, f) /\ About(queue, f) \subseteq 1..Len(queue)
  BY <1>1 DEF About
<1>3. \A i, j : NextAbout(new, f, i, j) => /\ NextAbout(queue, f, i, j)
                                           /\ {i, j} \subseteq 1..Len(queue)
  BY <1>2 DEF NextAbout
<1>4. \A i : LastAbout(new, f, i) => LastAbout(queue, f, i) /\ i \in 1..Len(queue)
  BY <1>2 DEF LastAbout
<1>5. \A i : FirstAbout(new, f, i) => FirstAbout(queue, f, i) /\ i \in 1..Len(queue)
  BY <1>2 DEF FirstAbout
<1> QED
  BY <1>1, <1>2, <1>3, <1>4, <1>5 DEF Story, new

\* An event about this file.
LEMMA StoryGrows ==
    ASSUME NEW queue \in Seq(Event), NEW event \in Event,
           NEW entries, NEW there \in BOOLEAN, NEW file,
           Story(queue, event.file, entries, there, file), file => there,
           ThereBefore(event) <=> there,
           NEW after \in BOOLEAN, ThereAfter(event) <=> after, NEW later
    PROVE  Story(Append(queue, event), event.file, entries, after, later)
<1> DEFINE new == Append(queue, event)
           f == event.file
           n == Len(queue) + 1
<1>1. /\ Len(new) = n
      /\ \A i \in 1..Len(queue) : new[i] = queue[i]
      /\ new[n] = event
      /\ Len(queue) \in Nat
  BY Appended
<1> HIDE DEF new
<1>2. About(new, f) = About(queue, f) \cup {n} /\ About(queue, f) \subseteq 1..Len(queue)
  BY <1>1 DEF About
<1>3. ASSUME NEW i \in 1..n, NEW j \in 1..n, NextAbout(new, f, i, j)
      PROVE  ThereAfter(new[i]) <=> ThereBefore(new[j])
  <2>1. CASE j = n
    <3>1. LastAbout(queue, f, i) /\ i \in 1..Len(queue)
      BY <1>1, <1>2, <1>3, <2>1 DEF NextAbout, LastAbout
    <3> QED
      BY <1>1, <2>1, <3>1 DEF Story
  <2>2. CASE j # n
    <3>1. NextAbout(queue, f, i, j) /\ {i, j} \subseteq 1..Len(queue)
      BY <1>1, <1>2, <1>3, <2>2 DEF NextAbout
    <3> QED
      BY <1>1, <3>1 DEF Story
  <2> QED
    BY <2>1, <2>2
<1>4. ASSUME NEW i \in 1..n, LastAbout(new, f, i)
      PROVE  ThereAfter(new[i]) <=> after
  BY <1>1, <1>2, <1>4 DEF LastAbout
<1>5. ASSUME NEW i \in 1..n, FirstAbout(new, f, i), ~ThereBefore(new[i])
      PROVE  entries = 0
  <2>1. CASE i = n
    <3>1. About(queue, f) = {}
      BY <1>1, <1>2, <1>5, <2>1 DEF FirstAbout
    <3>2. entries = IF file THEN 1 ELSE 0
      BY <3>1 DEF Story
    <3>3. ~there
      BY <1>1, <1>5, <2>1
    <3> QED
      BY <3>2, <3>3
  <2>2. CASE i # n
    <3>1. FirstAbout(queue, f, i) /\ i \in 1..Len(queue)
      BY <1>1, <1>2, <1>5, <2>2 DEF FirstAbout
    <3> QED
      BY <1>1, <1>5, <3>1 DEF Story
  <2> QED
    BY <2>1, <2>2
<1>6. entries <= 1 /\ About(new, f) # {}
  BY <1>2 DEF Story
<1> QED
  BY <1>1, <1>3, <1>4, <1>5, <1>6 DEF Story, new

LEMMA TailOf ==
    ASSUME NEW queue \in Seq(Event), queue # <<>>
    PROVE  /\ Tail(queue) \in Seq(Event) /\ Head(queue) = queue[1]
           /\ Len(queue) \in Nat \ {0}
           /\ Len(Tail(queue)) = Len(queue) - 1
           /\ \A i \in 1..Len(Tail(queue)) : Tail(queue)[i] = queue[i + 1]
OBVIOUS

LEMMA AboutTail ==
    ASSUME NEW queue \in Seq(Event), queue # <<>>, NEW f
    PROVE  /\ About(Tail(queue), f) \subseteq 1..Len(Tail(queue))
           /\ \A i \in Nat : i \in About(Tail(queue), f) <=>
                                 i # 0 /\ i + 1 \in About(queue, f)
<1>1. /\ Len(queue) \in Nat \ {0} /\ Len(Tail(queue)) = Len(queue) - 1
      /\ \A i \in 1..Len(Tail(queue)) : Tail(queue)[i] = queue[i + 1]
  BY TailOf
<1> DEFINE rest == Tail(queue)
<1> HIDE DEF rest
<1>2. /\ About(rest, f) \subseteq 1..Len(rest)
      /\ \A i \in Nat : i \in About(rest, f) <=>
                            i # 0 /\ i + 1 \in About(queue, f)
  BY <1>1 DEF About, rest
<1> QED
  BY <1>2 DEF rest

\* What the later events tell is told by the tail.
LEMMA TailTells ==
    ASSUME NEW queue \in Seq(Event), queue # <<>>, NEW f,
           NEW entries, NEW there, NEW file,
           Story(queue, f, entries, there, file),
           NEW i \in 1..Len(Tail(queue))
    PROVE  /\ Tail(queue)[i] = queue[i + 1] /\ i + 1 \in 1..Len(queue)
           /\ \A j \in 1..Len(Tail(queue)) :
                 NextAbout(Tail(queue), f, i, j) =>
                     NextAbout(queue, f, i + 1, j + 1)
           /\ LastAbout(Tail(queue), f, i) => LastAbout(queue, f, i + 1)
           /\ FirstAbout(Tail(queue), f, i) =>
                 IF Head(queue).file = f THEN NextAbout(queue, f, 1, i + 1)
                 ELSE FirstAbout(queue, f, i + 1)
<1> DEFINE rest == Tail(queue)
<1>1. /\ Len(queue) \in Nat \ {0} /\ Len(rest) = Len(queue) - 1
      /\ rest[i] = queue[i + 1]
      /\ Head(queue) = queue[1]
  BY TailOf
<1>2. \A k \in Nat : k \in About(rest, f) <=> k # 0 /\ k + 1 \in About(queue, f)
  BY AboutTail
<1> HIDE DEF rest
<1>3. \A k \in About(queue, f) : k \in Nat /\ (k = 1 \/ k - 1 \in About(rest, f))
  <2> TAKE k \in About(queue, f)
  <2>1. k \in 1..Len(queue)
    BY DEF About
  <2>2. k - 1 \in Nat /\ (k - 1) + 1 = k
    BY <1>1, <2>1
  <2> QED
    BY <1>2, <2>1, <2>2
<1>4. 1 \in About(queue, f) <=> Head(queue).file = f
  BY <1>1 DEF About
<1>5. i \in Nat \ {0} /\ i + 1 \in 1..Len(queue)
  BY <1>1 DEF rest
<1>6. ASSUME NEW j \in 1..Len(rest), NextAbout(rest, f, i, j)
      PROVE  NextAbout(queue, f, i + 1, j + 1)
  <2>1. j \in Nat /\ i < j /\ {i, j} \subseteq About(rest, f)
    BY <1>6 DEF NextAbout
  <2>2. {i + 1, j + 1} \subseteq About(queue, f)
    BY <1>2, <1>5, <2>1
  <2>3. ASSUME NEW k \in About(queue, f)
        PROVE  k <= i + 1 \/ j + 1 <= k
    BY <1>3, <1>5, <1>6, <2>1 DEF NextAbout
  <2> QED
    BY <1>5, <2>1, <2>2, <2>3 DEF NextAbout
<1>7. ASSUME LastAbout(rest, f, i)
      PROVE  LastAbout(queue, f, i + 1)
  <2>1. i + 1 \in About(queue, f)
    BY <1>2, <1>5, <1>7 DEF LastAbout
  <2>2. ASSUME NEW k \in About(queue, f)
        PROVE  k <= i + 1
    BY <1>3, <1>5, <1>7 DEF LastAbout
  <2> QED
    BY <2>1, <2>2 DEF LastAbout
<1>8. ASSUME FirstAbout(rest, f, i)
      PROVE  IF Head(queue).file = f THEN NextAbout(queue, f, 1, i + 1)
             ELSE FirstAbout(queue, f, i + 1)
  <2>1. i + 1 \in About(queue, f)
    BY <1>2, <1>5, <1>8 DEF FirstAbout
  <2>2. ASSUME NEW k \in About(queue, f)
        PROVE  k = 1 \/ i + 1 <= k
    BY <1>3, <1>5, <1>8 DEF FirstAbout
  <2>3. CASE Head(queue).file = f
    BY <1>4, <1>5, <2>1, <2>2, <2>3 DEF NextAbout
  <2>4. CASE Head(queue).file # f
    BY <1>4, <1>5, <2>1, <2>2, <2>4 DEF FirstAbout
  <2> QED
    BY <2>3, <2>4
<1> QED
  BY <1>1, <1>5, <1>6, <1>7, <1>8 DEF rest

\* An event about another file is taken.
LEMMA StoryWithoutOther ==
    ASSUME NEW queue \in Seq(Event), queue # <<>>, NEW f,
           Head(queue).file # f,
           NEW entries, NEW there, NEW file,
           Story(queue, f, entries, there, file)
    PROVE  Story(Tail(queue), f, entries, there, file)
<1>1. /\ Len(Tail(queue)) = Len(queue) - 1 /\ Len(queue) \in Nat \ {0}
      /\ Head(queue) = queue[1]
  BY TailOf
<1>2. ASSUME NEW i \in 1..Len(Tail(queue)), NEW j \in 1..Len(Tail(queue)),
             NextAbout(Tail(queue), f, i, j)
      PROVE  ThereAfter(Tail(queue)[i]) <=> ThereBefore(Tail(queue)[j])
  <2>1. /\ Tail(queue)[i] = queue[i + 1] /\ Tail(queue)[j] = queue[j + 1]
        /\ {i + 1, j + 1} \subseteq 1..Len(queue)
        /\ NextAbout(queue, f, i + 1, j + 1)
    BY <1>2, TailTells
  <2> QED
    BY <2>1 DEF Story
<1>3. \A i \in 1..Len(Tail(queue)) :
         LastAbout(Tail(queue), f, i) => (ThereAfter(Tail(queue)[i]) <=> there)
  BY TailTells DEF Story
<1>4. ASSUME NEW i \in 1..Len(Tail(queue)),
             FirstAbout(Tail(queue), f, i), ~ThereBefore(Tail(queue)[i])
      PROVE  entries = 0
  <2>1. /\ Tail(queue)[i] = queue[i + 1] /\ i + 1 \in 1..Len(queue)
        /\ FirstAbout(queue, f, i + 1)
    BY <1>4, TailTells
  <2> QED
    BY <1>4, <2>1 DEF Story
<1>5. ASSUME About(Tail(queue), f) = {}
      PROVE  About(queue, f) = {}
  <2> SUFFICES ASSUME NEW k \in About(queue, f) PROVE FALSE
    OBVIOUS
  <2>1. k \in 1..Len(queue) /\ k # 1
    BY <1>1 DEF About
  <2>2. k - 1 \in Nat /\ k - 1 # 0 /\ (k - 1) + 1 = k
    BY <1>1, <2>1
  <2> QED
    BY <1>5, <2>2, AboutTail
<1> QED
  BY <1>2, <1>3, <1>4, <1>5 DEF Story

\* An event about this file is taken, and the entries are as it says.
LEMMA StoryAfter ==
    ASSUME NEW queue \in Seq(Event), queue # <<>>, NEW f,
           Head(queue).file = f,
           NEW entries, NEW there \in BOOLEAN, NEW file,
           Story(queue, f, entries, there, file),
           NEW n \in {0, 1}, ~ThereAfter(Head(queue)) => n = 0,
           NEW later, (ThereAfter(Head(queue)) <=> there) =>
                          n = IF later THEN 1 ELSE 0
    PROVE  Story(Tail(queue), f, n, there, later)
<1>1. /\ Len(Tail(queue)) = Len(queue) - 1 /\ Len(queue) \in Nat \ {0}
      /\ Head(queue) = queue[1] /\ 1 \in 1..Len(queue)
  BY TailOf
<1>2. ASSUME NEW i \in 1..Len(Tail(queue)), NEW j \in 1..Len(Tail(queue)),
             NextAbout(Tail(queue), f, i, j)
      PROVE  ThereAfter(Tail(queue)[i]) <=> ThereBefore(Tail(queue)[j])
  <2>1. /\ Tail(queue)[i] = queue[i + 1] /\ Tail(queue)[j] = queue[j + 1]
        /\ {i + 1, j + 1} \subseteq 1..Len(queue)
        /\ NextAbout(queue, f, i + 1, j + 1)
    BY <1>2, TailTells
  <2> QED
    BY <2>1 DEF Story
<1>3. \A i \in 1..Len(Tail(queue)) :
         LastAbout(Tail(queue), f, i) => (ThereAfter(Tail(queue)[i]) <=> there)
  BY TailTells DEF Story
<1>4. ASSUME NEW i \in 1..Len(Tail(queue)),
             FirstAbout(Tail(queue), f, i), ~ThereBefore(Tail(queue)[i])
      PROVE  n = 0
  <2>1. /\ NextAbout(queue, f, 1, i + 1) /\ i + 1 \in 1..Len(queue)
        /\ Tail(queue)[i] = queue[i + 1]
    BY <1>4, TailTells
  <2>2. ThereAfter(queue[1]) <=> ThereBefore(queue[i + 1])
    BY <1>1, <2>1 DEF Story
  <2> QED
    BY <1>1, <1>4, <2>1, <2>2
<1>5. ASSUME About(Tail(queue), f) = {}
      PROVE  n = IF later THEN 1 ELSE 0
  <2>1. ASSUME NEW k \in About(queue, f)
        PROVE  k <= 1
    <3>1. k \in 1..Len(queue)
      BY DEF About
    <3>2. k - 1 \in Nat /\ (k - 1) + 1 = k
      BY <1>1, <3>1
    <3>3. k - 1 = 0
      BY <1>5, <3>2, AboutTail
    <3> QED
      BY <3>2, <3>3
  <2>2. LastAbout(queue, f, 1)
    BY <1>1, <2>1 DEF LastAbout, About
  <2>3. ThereAfter(queue[1]) <=> there
    BY <1>1, <2>2 DEF Story
  <2> QED
    BY <1>1, <2>3
<1>6. n <= 1
  OBVIOUS
<1> QED
  BY <1>2, <1>3, <1>4, <1>5, <1>6 DEF Story

\* The watcher looks whether there is a file.
LEMMA StoryOfFile ==
    ASSUME NEW queue, NEW f, NEW there, NEW file,
           Story(queue, f, 1, there, file),
           NEW n, NEW later, n = IF later THEN 1 ELSE 0
    PROVE  Story(queue, f, n, there, later)
BY DEF Story

\* All events were handled.
LEMMA StoryTold ==
    ASSUME NEW f, NEW entries, NEW there, NEW file
    PROVE  Story(<<>>, f, entries, there, file)
               <=> entries = IF file THEN 1 ELSE 0
BY DEF Story, About

----------------------------------------------------------------------------
(* While no job runs, the queues tell the stories; while one does, each    *)
(* file is as the job has left it.                                         *)

\* The entry that the watcher is about to add, or to look for.
Handled(w, f) == IF w.at.step # "idle" /\ w.at.file = f THEN 1 ELSE 0

\* What is there, and is to be indexed if it is a file.
Present(f) == f \in Exists \ Excluded /\ Covered(f, selected)

\* The queue of r tells what became of f, and whether there is a file is what
\* the watcher has still to see if it is about to look.
Sees(w, f) ==
    IF w.at.step = "probe" /\ w.at.file = f THEN Present(f) ELSE Wanted(f) = 1

EventInv(r, f) ==
    Story(watcher[r].queue, f, index[f] + Handled(watcher[r], f), Present(f),
          Sees(watcher[r], f))

\* No dialog is confirmed that both adds and removes roots.
OneWay == selected \subseteq selected' \/ selected' \subseteq selected

\* Watchers work on files of their roots.
OwnEvents == \A r \in Root : EventsTouched(watcher[r], Under[r])

\* A thread that was given up had no more events.
LateDrained ==
    \A t \in Late : watcher[t].queue = <<>> /\ watcher[t].at.step = "idle"

\* Which watchers are told to stop.
Stopping ==
    \A r \in Root :
        watcher[r].stop => worker.pc = "stop" /\ r \in worker.todo

\* Roots that get watchers are selected, those that lose them are not.
SelectedOnly ==
    /\ worker.pc \in {"nextPath", "scanPath"} => worker.roots \subseteq selected
    /\ worker.pc \in {"watch", "start"} => worker.todo \subseteq selected
    /\ worker.pc = "start" => worker.cur \in selected
    /\ worker.pc \in {"purge", "stop", "saveRemoval"} =>
          (worker.roots \cup worker.todo) \cap selected = {}
    /\ ui.pc = "watch" => ui.todo \subseteq selected

\* No watcher is kept of a root that is not selected.
NoneKept ==
    \A r \in Root \ selected :
        \/ watcher[r].live = 0
        \/ worker.pc \in {"purge", "stop"} /\ r \in worker.roots

\* Roots that Exact leaves out.
Missed(r) == r \in selected /\ watcher[r].lost

\* The files of all roots but those, and but what came or went with a folder.
FilesInv ==
    \A r \in Root : \A f \in Under[r] \ (Excluded \cup adrift) :
        \/ Missed(r)
        \/ IF Idle THEN EventInv(r, f) ELSE FileInv(f)

CalmInv ==
    /\ OwnEvents
    /\ FoundOf(worker, left, found, fs)
    /\ RootsOf(worker, selected, {})
    /\ \/ cancel
       \/ /\ Idle \/ Drained
          /\ LateDrained
          /\ Stopping
          /\ SelectedOnly
          /\ NoneKept
          /\ FilesInv

----------------------------------------------------------------------------
(* What may happen in a calm system, and when.                             *)

\* The file system changes only while no job runs and all roots are watched.
LEMMA CalmChange ==
    ASSUME Calm, FileSystem
    PROVE  \/ fs' = fs /\ \E r \in Root : LoseVolume(r)
           \/ Idle /\ \A r \in Effective(selected) : Watched(r)
<1>1. ASSUME NEW files, NEW dirs, NEW named, NEW moved, NEW w,
             Change(files, dirs, named, moved, w)
      PROVE  Idle /\ \A r \in Effective(selected) : Watched(r)
  BY <1>1 DEF Change, MayChange, Idle
<1>2. ASSUME NEW f \in File, CreateFile(f) \/ DeleteFile(f) \/ Write(f)
      PROVE  Idle /\ \A r \in Effective(selected) : Watched(r)
  BY <1>1, <1>2 DEF CreateFile, DeleteFile, Write
<1>3. ASSUME NEW f \in File, NEW g \in File, RenameFile(f, g)
      PROVE  Idle /\ \A r \in Effective(selected) : Watched(r)
  BY <1>1, <1>3 DEF RenameFile
<1>4. ASSUME NEW d \in Folder, NEW contents, NEW dirs,
             FolderLeaves(d) \/ FolderArrives(d, contents, dirs)
      PROVE  Idle /\ \A r \in Effective(selected) : Watched(r)
  BY <1>1, <1>4 DEF FolderLeaves, FolderArrives
<1>5. ASSUME NEW r \in Root, LoseVolume(r)
      PROVE  fs' = fs
  BY <1>5 DEF LoseVolume, environment, disk
<1> QED
  BY <1>2, <1>3, <1>4, <1>5 DEF FileSystem

LEMMA CalmFiles ==
    ASSUME Calm, [Next]_vars
    PROVE  fs' = fs \/ (FileSystem /\ Idle)
<1>1. CASE User
  BY <1>1 DEF User, Rebuild, Destroy, ChangeSettings, environment, disk
<1>2. CASE UI \/ Worker \/ Gone \/ UNCHANGED vars
  BY <1>2 DEF UI, StartUp, Worker, Gone, vars, environment, disk
<1>3. ASSUME NEW r \in Root, Scanner(r) \/ StopTimesOut(r)
      PROVE  fs' = fs
  BY <1>3 DEF Scanner, ScanFile, ScanCancelled, StopTimesOut, environment, disk
<1>4. ASSUME NEW t \in Thread, Watcher(t)
      PROVE  fs' = fs
  BY <1>4 DEF Watcher, environment, disk
<1> QED
  BY <1>1, <1>2, <1>3, <1>4, CalmChange DEF Next

\* What is adrift remains so until a rebuild begins.
LEMMA AdriftStep ==
    ASSUME TypeOK, [Next]_vars
    PROVE  \/ adrift \subseteq adrift'
           \/ /\ worker'.pc = "rebuild"
              /\ completed' = FALSE
              /\ ui'.pc = "idle"
<1>1. CASE UNCHANGED adrift
  BY <1>1
<1>2. CASE FileSystem
  BY <1>2 DEF FileSystem, CreateFile, DeleteFile, Write, RenameFile,
              FolderLeaves, FolderArrives, Change, LoseVolume, environment
<1>3. ASSUME NEW pc, NEW roots, StartJob(pc, roots), ui'.pc = "idle"
      PROVE  \/ adrift \subseteq adrift'
             \/ /\ worker'.pc = "rebuild"
                /\ completed' = FALSE
                /\ ui'.pc = "idle"
  BY <1>3 DEF StartJob
<1>4. CASE User
  <2>1. CASE Rebuild
    BY <1>3, <2>1 DEF Rebuild, MayCommand
  <2>2. CASE Destroy
    BY <1>1, <2>2 DEF Destroy, environment
  <2>3. ASSUME NEW new \in Selections, ChangeSettings(new)
        PROVE  \/ adrift \subseteq adrift'
               \/ /\ worker'.pc = "rebuild"
                  /\ completed' = FALSE
                  /\ ui'.pc = "idle"
    BY <1>1, <1>3, <2>3 DEF ChangeSettings, MayCommand, NoJob
  <2> QED
    BY <1>4, <2>1, <2>2, <2>3 DEF User
<1>5. CASE UI
  <2>1. CASE StartUp
    BY <1>1, <1>3, <2>1, StartUpCases DEF NoJob
  <2>2. CASE ~StartUp
    BY <1>1, <1>5, <2>2 DEF UI, environment
  <2> QED
    BY <2>1, <2>2
<1>6. CASE Worker \/ Gone \/ UNCHANGED vars
  BY <1>1, <1>6 DEF Worker, Gone, vars, environment
<1>7. ASSUME NEW r \in Root, Scanner(r) \/ StopTimesOut(r)
      PROVE  UNCHANGED adrift
  BY <1>7 DEF Scanner, ScanFile, ScanCancelled, StopTimesOut, environment
<1>8. ASSUME NEW t \in Thread, Watcher(t)
      PROVE  UNCHANGED adrift
  BY <1>8 DEF Watcher, environment
<1> QED
  BY <1>1, <1>2, <1>4, <1>5, <1>6, <1>7, <1>8 DEF Next

\* No command is given while a job runs or events wait.
LEMMA CalmCommand ==
    ASSUME Calm, User, ~cancel'
    PROVE  /\ Idle /\ Drained
           /\ UNCHANGED <<watcher, index>>
           /\ completed' = FALSE
           /\ ui' = ui
           /\ \/ Rebuild /\ selected' = selected
              \/ \E new \in Selections : ChangeSettings(new)
<1>1. CASE Rebuild
  BY <1>1 DEF Rebuild, MayCommand, Idle, StartJob, store
<1>2. ~Destroy
  BY DEF Destroy
<1>3. ASSUME NEW new \in Selections, ChangeSettings(new)
      PROVE  /\ Idle /\ Drained
             /\ UNCHANGED <<watcher, index, ui>>
             /\ completed' = FALSE
  BY <1>3 DEF ChangeSettings, MayCommand, Idle, StartJob, store
<1> QED
  BY <1>1, <1>2, <1>3 DEF User

----------------------------------------------------------------------------
(* What a step may do to the watcher of a root.                            *)

SameEvents(q) ==
    /\ watcher'[q].queue = watcher[q].queue
    /\ watcher'[q].at = watcher[q].at
    /\ watcher'[q].lost = watcher[q].lost

LEMMA NotifyKeeps ==
    ASSUME NEW w \in [Thread -> WatcherState], NEW event \in Event,
           NEW q \in Thread
    PROVE  /\ Notify(w, event)[q].live = w[q].live
           /\ Notify(w, event)[q].lost = w[q].lost
           /\ Notify(w, event)[q].stop = w[q].stop
           /\ Notify(w, event)[q].at = w[q].at
<1> DEFINE new == w[q].queue \o [i \in 1..w[q].live |-> event]
<1>1. w[q] \in WatcherState
  OBVIOUS
<1>2. \/ Notify(w, event)[q] = w[q]
      \/ Notify(w, event)[q] = [w[q] EXCEPT !.queue = new]
  BY DEF Notify
<1> HIDE DEF new
<1>3. /\ [w[q] EXCEPT !.queue = new].live = w[q].live
      /\ [w[q] EXCEPT !.queue = new].lost = w[q].lost
      /\ [w[q] EXCEPT !.queue = new].stop = w[q].stop
      /\ [w[q] EXCEPT !.queue = new].at = w[q].at
  BY <1>1 DEF WatcherState
<1> QED
  BY <1>2, <1>3

LEMMA EventTypes ==
    ASSUME NEW f \in File
    PROVE  /\ {Added(f), Removed(f), Modified(f)} \subseteq Event
           /\ Added(f).file = f /\ Removed(f).file = f /\ Modified(f).file = f
           /\ ~ThereBefore(Added(f)) /\ ThereAfter(Added(f))
           /\ ThereBefore(Removed(f)) /\ ~ThereAfter(Removed(f))
           /\ ThereBefore(Modified(f)) /\ ThereAfter(Modified(f))
BY DEF Added, Removed, Modified, Event, ThereBefore, ThereAfter

\* A change of the file system gives watchers events and nothing else.
LEMMA ChangeKeeps ==
    ASSUME TypeOK, FileSystem, NEW q \in Thread,
           ~\E r \in Root : LoseVolume(r)
    PROVE  /\ watcher'[q].live = watcher[q].live
           /\ watcher'[q].lost = watcher[q].lost
           /\ watcher'[q].stop = watcher[q].stop
           /\ watcher'[q].at = watcher[q].at
<1>1. watcher \in [Thread -> WatcherState]
  BY DEF TypeOK
<1>2. ASSUME NEW f \in File, CreateFile(f) \/ DeleteFile(f) \/ Write(f)
      PROVE  /\ watcher'[q].live = watcher[q].live
             /\ watcher'[q].lost = watcher[q].lost
             /\ watcher'[q].stop = watcher[q].stop
             /\ watcher'[q].at = watcher[q].at
  <2>1. PICK event \in Event : watcher' = Notify(watcher, event)
    BY <1>2, EventTypes DEF CreateFile, DeleteFile, Write, Change
  <2> QED
    BY <1>1, <2>1, NotifyKeeps
<1>3. ASSUME NEW f \in File, NEW g \in File, RenameFile(f, g)
      PROVE  /\ watcher'[q].live = watcher[q].live
             /\ watcher'[q].lost = watcher[q].lost
             /\ watcher'[q].stop = watcher[q].stop
             /\ watcher'[q].at = watcher[q].at
  <2> DEFINE w == Notify(watcher, Removed(f))
  <2>1. watcher' = Notify(w, Added(g))
    BY <1>3 DEF RenameFile, Change
  <2>2. w \in [Thread -> WatcherState]
    BY <1>1, EventTypes, NotifyType
  <2>3. /\ w[q].live = watcher[q].live /\ w[q].lost = watcher[q].lost
        /\ w[q].stop = watcher[q].stop /\ w[q].at = watcher[q].at
    BY <1>1, EventTypes, NotifyKeeps
  <2> HIDE DEF w
  <2>4. /\ watcher'[q].live = w[q].live /\ watcher'[q].lost = w[q].lost
        /\ watcher'[q].stop = w[q].stop /\ watcher'[q].at = w[q].at
    BY <2>1, <2>2, EventTypes, NotifyKeeps
  <2> QED
    BY <2>3, <2>4
<1>4. ASSUME NEW d \in Folder, NEW files, NEW dirs,
             FolderLeaves(d) \/ FolderArrives(d, files, dirs)
      PROVE  /\ watcher'[q].live = watcher[q].live
             /\ watcher'[q].lost = watcher[q].lost
             /\ watcher'[q].stop = watcher[q].stop
             /\ watcher'[q].at = watcher[q].at
  <2>1. d \in File
    BY IndexerAssumption DEF IndexerAssumption
  <2>2. PICK event \in Event : watcher' = Notify(watcher, event)
    BY <1>4, <2>1, EventTypes DEF FolderLeaves, FolderArrives, Change
  <2> QED
    BY <1>1, <2>2, NotifyKeeps
<1> QED
  BY <1>2, <1>3, <1>4 DEF FileSystem

\* A thread's own step takes an event, goes on with one, or ends.
LEMMA OwnStep ==
    ASSUME TypeOK, NEW r \in Thread, Watcher(r)
    PROVE  /\ \A q \in Thread \ {r} : watcher'[q] = watcher[q]
           /\ \/ /\ WatcherExits(r)
                 /\ watcher[r].stop
                 /\ watcher'[r] = NoWatcher
                 /\ index' = index
              \/ /\ watcher[r].queue # <<>> \/ watcher[r].at.step # "idle"
                 /\ watcher'[r].live = watcher[r].live
                 /\ watcher'[r].lost = watcher[r].lost
                 /\ watcher'[r].stop = watcher[r].stop
<1>1. /\ watcher \in [Thread -> WatcherState] /\ watcher[r] \in WatcherState
      /\ watcher[r].queue \in Seq(Event)
      /\ watcher[r].at.file \in File \cup {NoFile}
  BY WatcherFields DEF TypeOK, ApplyState
<1>2. ASSUME NEW step \in {"idle", "probe", "add"},
             NEW f \in File \cup {NoFile}, At(r, step, f),
             watcher[r].at.step = "idle" => watcher[r].queue # <<>>
      PROVE  /\ \A q \in Thread \ {r} : watcher'[q] = watcher[q]
             /\ watcher[r].queue # <<>> \/ watcher[r].at.step # "idle"
             /\ watcher'[r].live = watcher[r].live
             /\ watcher'[r].lost = watcher[r].lost
             /\ watcher'[r].stop = watcher[r].stop
  BY <1>2, AtFacts
<1>3. watcher[r].queue # <<>> => NextEvent(r).file \in File
  <2>1. watcher[r].queue # <<>> => Head(watcher[r].queue) \in Event
    BY <1>1
  <2> QED
    BY <2>1 DEF NextEvent, Event
<1>4. CASE TakeRemove(r)
  BY <1>2, <1>3, <1>4 DEF TakeRemove, Quiet
<1>5. CASE TakeAdded(r)
  BY <1>2, <1>3, <1>5 DEF TakeAdded, Probe, Quiet
<1>6. CASE ProbeModified(r)
  BY <1>1, <1>2, <1>6 DEF ProbeModified, Probe, Quiet
<1>7. CASE FinishAdd(r)
  BY <1>2, <1>7 DEF FinishAdd, Quiet
<1>8. CASE WatcherExits(r)
  BY <1>1, <1>8 DEF WatcherExits
<1>9. CASE ForgetEvent(r)
  BY <1>2, <1>9 DEF ForgetEvent, Quiet
<1> QED
  BY <1>4, <1>5, <1>6, <1>7, <1>8, <1>9 DEF Watcher

\* What other threads, and the loss of the volume, do to a watcher.
LEMMA OtherSteps ==
    ASSUME TypeOK, [Next]_vars, NEW q \in Root
    PROVE  \/ SameEvents(q) /\ (watcher'[q].stop => \/ watcher[q].stop
                                             \/ StopWatcher(q)
                                             \/ StopWatcherUI(q))
           \/ Watcher(q)
           \/ /\ LoseVolume(q)
              /\ watcher'[q].queue = <<>> /\ watcher'[q].at = watcher[q].at
              /\ watcher'[q].lost /\ watcher'[q].stop = watcher[q].stop
           \/ StopTimesOut(q) /\ watcher'[q] = NoWatcher
           \/ FileSystem /\ ~\E r \in Root : LoseVolume(r)
<1>1. watcher \in [Thread -> WatcherState] /\ watcher[q] \in WatcherState
  BY DEF TypeOK
<1>2. CASE watcher'[q] = watcher[q]
  BY <1>2 DEF SameEvents
<1>3. ASSUME NEW r \in Root, LoseVolume(r)
      PROVE  \/ SameEvents(q) /\ watcher'[q].stop = watcher[q].stop
             \/ /\ LoseVolume(q)
                /\ watcher'[q].queue = <<>> /\ watcher'[q].at = watcher[q].at
                /\ watcher'[q].lost /\ watcher'[q].stop = watcher[q].stop
  <2> DEFINE w == [watcher[q] EXCEPT !.lost = TRUE, !.queue = <<>>]
  <2>1. CASE q = r
    <3>1. watcher'[q] = w
      BY <1>1, <1>3, <2>1 DEF LoseVolume
    <3>2. /\ w.queue = <<>> /\ w.at = watcher[q].at
          /\ w.lost /\ w.stop = watcher[q].stop
      BY <1>1 DEF WatcherState
    <3> HIDE DEF w
    <3> QED
      BY <1>3, <2>1, <3>1, <3>2
  <2>2. CASE q # r
    <3>1. watcher'[q] = watcher[q]
      BY <1>1, <1>3, <2>2 DEF LoseVolume
    <3> QED
      BY <3>1 DEF SameEvents
  <2> QED
    BY <2>1, <2>2
<1>4. ASSUME NEW r \in Thread, Watcher(r)
      PROVE  Watcher(q) \/ watcher'[q] = watcher[q]
  BY <1>4, OwnStep
<1>5. ASSUME NEW r \in Root, AddWatcher(r)
      PROVE  SameEvents(q) /\ watcher'[q].stop = watcher[q].stop
  <2> DEFINE w == [watcher[q] EXCEPT !.live = 1]
  <2>1. /\ w.queue = watcher[q].queue /\ w.at = watcher[q].at
        /\ w.lost = watcher[q].lost /\ w.stop = watcher[q].stop
        /\ watcher[q].live \in Nat
    BY <1>1 DEF WatcherState
  <2>2. watcher'[q] = watcher[q] \/ watcher'[q] = w
    <3>1. q # r => watcher'[q] = watcher[q]
      BY <1>5, AddWatcherFacts
    <3>2. q = r /\ watcher[q].live > 0 => watcher'[q] = watcher[q]
      BY <1>5, AddWatcherFacts
    <3>3. q = r /\ watcher[q].live = 0 => watcher'[q] = w
      BY <1>5, AddWatcherFacts
    <3> QED
      BY <2>1, <3>1, <3>2, <3>3
  <2> HIDE DEF w
  <2> QED
    BY <2>1, <2>2 DEF SameEvents
<1>6. ASSUME NEW r \in Root, StopWatcher(r) \/ StopWatcherUI(r)
      PROVE  SameEvents(q) /\ (watcher'[q].stop => \/ watcher[q].stop
                                            \/ StopWatcher(q)
                                            \/ StopWatcherUI(q))
  <2> DEFINE w == [watcher[q] EXCEPT !.stop = TRUE]
  <2>1. /\ w.queue = watcher[q].queue /\ w.at = watcher[q].at
        /\ w.lost = watcher[q].lost
    BY <1>1 DEF WatcherState
  <2>2. watcher'[q] = watcher[q] \/ (q = r /\ watcher'[q] = w)
    BY <1>6, SignalStopFacts DEF StopWatcher, StopWatcherUI
  <2> HIDE DEF w
  <2> QED
    BY <1>6, <2>1, <2>2 DEF SameEvents
<1>7. CASE UI
  <2>1. \/ \E r \in Root : StartWatcherUI(r)
        \/ \E r \in Root : StopWatcherUI(r)
        \/ UNCHANGED watcher
    BY <1>7
    DEF UI, StartUp, StartedUI, CancelLocks, CancelUnlocks, WaitForCompletion,
        Destroyed
  <2> QED
    BY <1>2, <1>5, <1>6, <2>1 DEF StartWatcherUI
<1>8. CASE Worker
  <2>1. \/ StartWatcher
        \/ \E r \in Root : StopWatcher(r)
        \/ UNCHANGED watcher
    BY <1>8
    DEF Worker, BeginRebuild, JoinScans, SwapIndex, SaveRebuild, AllStarted,
        ApplyPath, PathApplied, SavePaths, StopLocks, StopUnlocks, SaveRemoval,
        Signal, CheckCancel, ScanPath, PurgePath
  <2>2. CASE StartWatcher /\ worker.cur \notin Root
    <3>1. worker.cur \notin Thread
      BY <2>2, IndexerAssumption DEF TypeOK, WorkerState, IndexerAssumption
    <3>2. watcher'[q] = watcher[q]
      BY <1>1, <2>2, <3>1 DEF StartWatcher, AddWatcher
    <3> QED
      BY <1>2, <3>2
  <2> QED
    BY <1>2, <1>5, <1>6, <2>1, <2>2 DEF StartWatcher
<1>9. CASE User \/ Gone \/ UNCHANGED vars
  BY <1>2, <1>9 DEF User, Rebuild, Destroy, ChangeSettings, Gone, vars
<1>10. ASSUME NEW r \in Root, Scanner(r)
       PROVE  UNCHANGED watcher
  BY <1>10 DEF Scanner, ScanFile, ScanCancelled
<1>11. ASSUME NEW r \in Root, StopTimesOut(r)
       PROVE  \/ watcher'[q] = watcher[q]
              \/ StopTimesOut(q) /\ watcher'[q] = NoWatcher
  BY <1>11, StopTimesOutFacts
<1> QED
  BY <1>2, <1>3, <1>4, <1>7, <1>8, <1>9, <1>10, <1>11 DEF Next

\* When no job runs, only watchers do.
LEMMA IdleQuiet ==
    ASSUME ThreadsInv, Idle
    PROVE  ~UI /\ ~Worker
<1>1. ~UI
  BY
  DEF Idle, UI, StartUp, StartedUI, CancelLocks, CancelUnlocks,
      WaitForCompletion, Destroyed, StartWatcherUI, StopWatcherUI
<1>2. ~Worker
  BY
  DEF Idle, ThreadsInv, Worker, BeginRebuild, JoinScans, SwapIndex,
      SaveRebuild, StartWatcher, AllStarted, ApplyPath, PathApplied,
      SavePaths, StopLocks, StopUnlocks, SaveRemoval, Signal, CheckCancel,
      ScanPath, PurgePath, StopWatcher
<1> QED
  BY <1>1, <1>2

\* A thread that was given up has no directory to get events from.
LEMMA LateChange ==
    ASSUME TypeOK, FileSystem, NEW t \in Late
    PROVE  watcher'[t] = watcher[t]
<1>1. watcher \in [Thread -> WatcherState] /\ t \notin Root
  BY IndexerAssumption DEF TypeOK, IndexerAssumption
<1>2. ASSUME NEW w, NEW event
      PROVE  Notify(w, event)[t] = w[t]
  BY DEF Notify
<1>3. ASSUME NEW f \in File, CreateFile(f) \/ DeleteFile(f) \/ Write(f)
      PROVE  watcher'[t] = watcher[t]
  BY <1>2, <1>3 DEF CreateFile, DeleteFile, Write, Change
<1>4. ASSUME NEW f \in File, NEW g \in File, RenameFile(f, g)
      PROVE  watcher'[t] = watcher[t]
  BY <1>2, <1>4 DEF RenameFile, Change
<1>5. ASSUME NEW d \in Folder, NEW files, NEW dirs,
             FolderLeaves(d) \/ FolderArrives(d, files, dirs)
      PROVE  watcher'[t] = watcher[t]
  BY <1>2, <1>5 DEF FolderLeaves, FolderArrives, Change
<1>6. ASSUME NEW r \in Root, LoseVolume(r)
      PROVE  watcher'[t] = watcher[t]
  BY <1>1, <1>6 DEF LoseVolume
<1> QED
  BY <1>3, <1>4, <1>5, <1>6 DEF FileSystem

\* Where commands wait for events, no thread is given up with events left.
LEMMA LateStep ==
    ASSUME TypeOK, ThreadsInv, [Next]_vars, LateDrained, Stopping,
           Idle \/ Drained
    PROVE  LateDrained'
<1> SUFFICES ASSUME NEW t \in Late
             PROVE  watcher'[t].queue = <<>> /\ watcher'[t].at.step = "idle"
  BY DEF LateDrained
<1>1. /\ watcher[t].queue = <<>> /\ watcher[t].at.step = "idle"
      /\ NoWatcher.queue = <<>> /\ NoWatcher.at.step = "idle"
      /\ t \in Thread \ Root
  BY IndexerAssumption DEF LateDrained, NoWatcher, IndexerAssumption
<1>2. CASE FileSystem
  BY <1>1, <1>2, LateChange
<1>3. ASSUME NEW q \in Thread, Watcher(q)
      PROVE  watcher'[t] \in {watcher[t], NoWatcher}
  BY <1>1, <1>3, OwnStep
<1>4. ASSUME NEW r \in Root, StopTimesOut(r)
      PROVE  watcher'[t] \in {watcher[t], watcher[r]} /\ Drained
  <2>1. Drained
    <3>1. worker.pc = "stop"
      BY <1>4, StopTimesOutFacts DEF Stopping
    <3> QED
      BY <3>1 DEF ThreadsInv, Idle
  <2> QED
    BY <1>1, <1>4, <2>1, StopTimesOutFacts
<1>5. ASSUME NEW r \in Root, SignalStop(r) \/ AddWatcher(r)
      PROVE  watcher'[t] = watcher[t]
  BY <1>1, <1>5, SignalStopFacts, AddWatcherFacts
<1>6. ASSUME NEW r \in Root, StartWatcherUI(r)
      PROVE  watcher'[t] = watcher[t]
  BY <1>5, <1>6 DEF StartWatcherUI
<1>7. CASE StartWatcher
  <2>1. PICK r \in Root : r = worker.cur
    BY <1>7 DEF StartWatcher, ThreadsInv
  <2>2. AddWatcher(r)
    BY <1>7, <2>1 DEF StartWatcher
  <2> QED
    BY <1>1, <1>5, <2>2
<1>8. CASE \E r \in Root : StopTimesOut(r)
  BY <1>1, <1>4, <1>8 DEF Drained
<1> QED
  BY <1>1, <1>2, <1>3, <1>5, <1>6, <1>7, <1>8, WatchersMoves

\* While a job runs no event arrives, and before it all were applied.
LEMMA DrainedStep ==
    ASSUME Calm, TypeOK, ThreadsInv, [Next]_vars, ~cancel', LateDrained,
           Stopping, Idle \/ Drained, ~Idle \/ ~Idle'
    PROVE  Drained'
<1>1. CASE ~Idle
  <2>1. ASSUME NEW q \in Root
        PROVE  watcher'[q].queue = <<>> /\ watcher'[q].at.step = "idle"
    <3>1. watcher[q].queue = <<>> /\ watcher[q].at.step = "idle"
      BY <1>1 DEF Drained
    <3>2. Watcher(q) => watcher'[q] = NoWatcher
      BY <3>1, OwnStep
    <3>3. ~(FileSystem /\ ~\E r \in Root : LoseVolume(r))
      BY <1>1, CalmChange
    <3> QED
      BY <3>1, <3>2, <3>3, OtherSteps DEF SameEvents, NoWatcher
  <2>2. LateDrained'
    BY LateStep
  <2> QED
    BY <2>1, <2>2 DEF Drained, LateDrained
<1>2. CASE Idle
  <2>1. CASE User
    BY <2>1, CalmCommand DEF Drained
  <2>2. ~UI /\ ~Worker
    BY <1>2, IdleQuiet
  <2> QED
    BY <1>2, <2>1, <2>2, BystanderSteps DEF Next, Idle
<1> QED
  BY <1>1, <1>2

\* Only the job that removes roots tells watchers to stop.
LEMMA StoppingStep ==
    ASSUME TypeOK, ThreadsInv, WatchersInv, [Next]_vars, ~cancel, Stopping
    PROVE  Stopping'
<1> SUFFICES ASSUME NEW q \in Root, watcher'[q].stop
             PROVE  worker'.pc = "stop" /\ q \in worker'.todo
  BY DEF Stopping
<1>1. worker \in WorkerState /\ watcher[q].live \in Nat
  BY WatcherFields DEF TypeOK
<1>2. ~StopWatcherUI(q)
  BY DEF StopWatcherUI, ThreadsInv, Closing
<1>3. CASE StopWatcher(q)
  BY <1>3 DEF StopWatcher
<1>4. CASE watcher[q].stop
  <2>1. worker.pc = "stop" /\ q \in worker.todo
    BY <1>4 DEF Stopping
  <2>2. CASE Worker
    <3>1. ~StopUnlocks
      BY <1>1, <1>4, <2>1 DEF StopUnlocks, StillWatched, Watched, WatchersInv, NoWatcher
    <3>2. \E r \in Root : StopWatcher(r)
      BY <2>1, <2>2, <3>1
      DEF Worker, BeginRebuild, JoinScans, SwapIndex, SaveRebuild,
          StartWatcher, AllStarted, ApplyPath, PathApplied, SavePaths,
          StopLocks, SaveRemoval, Signal, CheckCancel, ScanPath, PurgePath
    <3> QED
      BY <2>1, <3>2 DEF StopWatcher
  <2> QED
    BY <2>1, <2>2, WorkerMoves
<1>5. Watcher(q) => watcher[q].stop
  BY OwnStep DEF NoWatcher
<1>6. FileSystem /\ (~\E r \in Root : LoseVolume(r)) => watcher[q].stop
  BY ChangeKeeps
<1>7. watcher'[q] # NoWatcher
  BY DEF NoWatcher
<1> QED
  BY <1>2, <1>3, <1>4, <1>5, <1>6, <1>7, OtherSteps

\* The job is about roots that are selected, or about roots that are not.
LEMMA SelectedStep ==
    ASSUME {} \notin Selections, Calm, TypeOK, ThreadsInv, [Next]_vars,
           ~cancel', RootsOf(worker, selected, {}), SelectedOnly
    PROVE  SelectedOnly'
<1>1. worker \in WorkerState /\ ui \in UIState
  BY DEF TypeOK
<1>2. Effective(selected) = selected /\ selected \in SUBSET Root
  BY IndexerAssumption DEF TypeOK, Effective, IndexerAssumption
<1>3. CASE UNCHANGED <<worker, selected, ui>>
  BY <1>3 DEF SelectedOnly
<1>4. CASE Worker
  <2>1. UNCHANGED <<selected, ui>>
    BY <1>4 DEF Worker
  <2>2. ASSUME worker'.pc \notin {"nextPath", "scanPath", "watch", "start",
                                  "purge", "stop", "saveRemoval"}
        PROVE  SelectedOnly'
    BY <2>1, <2>2 DEF SelectedOnly
  <2>3. CASE BeginRebuild \/ JoinScans \/ SwapIndex \/ AllStarted \/ SaveRemoval
    BY <1>1, <2>2, <2>3
    DEF BeginRebuild, JoinScans, SwapIndex, AllStarted, SaveRemoval, Goto,
        WorkerState
  <2>4. CASE Signal
    BY <2>2, <2>4 DEF Signal, NoWorker
  <2>5. CASE SaveRebuild
    <3>1. worker'.pc = "watch" /\ worker'.todo = selected
      BY <1>1, <1>2, <2>5 DEF SaveRebuild, WorkerState
    <3> QED
      BY <2>1, <3>1 DEF SelectedOnly
  <2>6. CASE StartWatcher
    <3>1. worker'.pc = "watch" /\ worker'.todo = worker.todo /\ worker.pc = "start"
      BY <1>1, <2>6 DEF StartWatcher, WorkerState
    <3> QED
      BY <2>1, <3>1 DEF SelectedOnly
  <2>7. CASE ApplyPath
    BY <1>3, <2>1, <2>7 DEF ApplyPath
  <2>8. CASE PathApplied
    <3>1. /\ worker'.pc = "nextPath" /\ worker'.roots = worker.roots
          /\ worker.pc = "scanPath"
      BY <1>1, <2>8 DEF PathApplied, WorkerState
    <3> QED
      BY <2>1, <3>1 DEF SelectedOnly
  <2>9. CASE SavePaths
    <3>1. CASE worker'.pc = "signal"
      BY <2>2, <3>1
    <3>2. CASE worker'.pc # "signal"
      <4>1. /\ worker'.pc = "watch" /\ worker'.todo = worker.roots
            /\ worker.pc = "nextPath"
        BY <1>1, <2>9, <3>2 DEF SavePaths, Goto, WorkerState
      <4> QED
        BY <2>1, <4>1 DEF SelectedOnly
    <3> QED
      BY <3>1, <3>2
  <2>10. CASE StopLocks
    <3>1. /\ worker'.pc = "stop" /\ worker'.roots = worker.roots
          /\ worker'.todo = StillWatched(worker.roots) /\ worker.pc = "purge"
      BY <1>1, <2>10 DEF StopLocks, WorkerState
    <3> QED
      BY <2>1, <3>1 DEF SelectedOnly, StillWatched
  <2>11. CASE StopUnlocks
    <3>1. /\ worker'.pc = "saveRemoval" /\ worker'.roots = worker.roots
          /\ worker'.todo = worker.todo /\ worker.pc = "stop"
      BY <1>1, <2>11 DEF StopUnlocks, Goto, WorkerState
    <3> QED
      BY <2>1, <3>1 DEF SelectedOnly
  <2>12. ASSUME NEW r \in Root, CheckCancel(r)
         PROVE  SelectedOnly'
    <3>1. CASE worker'.pc = "signal"
      BY <2>2, <3>1
    <3>2. CASE worker'.pc # "signal"
      <4>1. /\ worker'.pc = "start" /\ worker'.todo = worker.todo \ {r}
            /\ worker'.cur = r /\ r \in worker.todo /\ worker.pc = "watch"
        BY <1>1, <2>12, <3>2 DEF CheckCancel, Goto, WorkerState
      <4> QED
        BY <2>1, <4>1 DEF SelectedOnly
    <3> QED
      BY <3>1, <3>2
  <2>13. ASSUME NEW r \in Root, ScanPath(r)
         PROVE  SelectedOnly'
    <3>1. /\ worker'.pc = "scanPath" /\ worker'.roots = worker.roots
          /\ worker.pc = "nextPath"
      BY <1>1, <2>13 DEF ScanPath, WorkerState
    <3> QED
      BY <2>1, <3>1 DEF SelectedOnly
  <2>14. ASSUME NEW r \in Root, PurgePath(r)
         PROVE  SelectedOnly'
    <3>1. /\ worker'.pc = "purge" /\ worker'.roots = worker.roots
          /\ worker'.todo \subseteq worker.todo /\ worker.pc = "purge"
      BY <1>1, <2>14 DEF PurgePath, WorkerState
    <3> QED
      BY <2>1, <3>1 DEF SelectedOnly
  <2>15. ASSUME NEW r \in Root, StopWatcher(r)
         PROVE  SelectedOnly'
    BY <1>3, <2>1, <2>15 DEF StopWatcher
  <2> QED
    BY <1>4, <2>3, <2>4, <2>5, <2>6, <2>7, <2>8, <2>9, <2>10, <2>11, <2>12,
       <2>13, <2>14, <2>15 DEF Worker
<1>5. ASSUME NEW roots, StartJob("rebuild", roots), ui'.pc # "watch"
      PROVE  SelectedOnly'
  BY <1>5 DEF StartJob, SelectedOnly
<1>6. CASE User
  <2>1. ui' = ui /\ ui.pc = "idle" /\ completed
    BY <1>6, CalmCommand DEF Idle
  <2>2. CASE Rebuild
    BY <1>5, <2>1, <2>2 DEF Rebuild
  <2>3. ASSUME NEW new \in Selections, ChangeSettings(new)
        PROVE  SelectedOnly'
    <3>1. selected' = new
      BY <2>3 DEF ChangeSettings
    <3>2. CASE StartJob("rebuild", {})
      BY <1>5, <2>1, <3>2
    <3>3. CASE StartJob("nextPath", new \ selected)
      BY <2>1, <3>1, <3>3 DEF StartJob, SelectedOnly
    <3>4. CASE StartJob("purge", selected \ new)
      BY <2>1, <3>1, <3>4 DEF StartJob, SelectedOnly
    <3> QED
      BY <2>1, <2>3, <3>2, <3>3, <3>4 DEF ChangeSettings
  <2> QED
    BY <1>6, <2>2, <2>3, CalmCommand
<1>7. CASE UI
  <2>1. CASE StartUp
    <3>1. selected' = selected /\ worker.pc = "none"
      BY <2>1 DEF StartUp, ThreadsInv
    <3>2. CASE ui'.pc = "watch" /\ NoJob
      <4>1. ui'.todo = selected
        <5>1. ui' = [pc |-> "watch", todo |-> Effective(selected)]
              \/ ui' = [ui EXCEPT !.pc = "idle"]
          BY <2>1 DEF StartUp
        <5>2. [ui EXCEPT !.pc = "idle"].pc = "idle"
          BY <1>1 DEF UIState
        <5>3. ui' = [pc |-> "watch", todo |-> Effective(selected)]
          BY <3>2, <5>1, <5>2
        <5> QED
          BY <1>2, <5>3
      <4> QED
        BY <3>1, <3>2, <4>1 DEF NoJob, SelectedOnly
    <3>3. CASE ui'.pc = "idle" /\ StartJob("rebuild", {})
      BY <1>5, <3>3
    <3> QED
      BY <2>1, <3>2, <3>3, StartUpCases
  <2>2. CASE ~StartUp
    <3>1. UNCHANGED <<worker, selected>>
      BY <1>7, <2>2 DEF UI
    <3>2. ui'.pc = "watch" => ui.pc = "watch" /\ ui'.todo \subseteq ui.todo
      BY <1>1, <1>7, <2>2
      DEF UI, StartedUI, CancelLocks, CancelUnlocks, WaitForCompletion,
          Destroyed, StartWatcherUI, StopWatcherUI, UIState
    <3> QED
      BY <3>1, <3>2 DEF SelectedOnly
  <2> QED
    BY <2>1, <2>2
<1> QED
  BY <1>3, <1>4, <1>6, <1>7, BystanderSteps DEF Next

\* A root loses its watcher before the job that removed it is done.
LEMMA NoneKeptStep ==
    ASSUME {} \notin Selections, Calm, JobsInv, JobsInv', [Next]_vars,
           [OneWay]_selected, ~cancel', SelectedOnly, NoneKept
    PROVE  NoneKept'
<1> SUFFICES ASSUME NEW q \in Root, q \notin selected', watcher'[q].live # 0
             PROVE  worker'.pc \in {"purge", "stop"} /\ q \in worker'.roots
  BY DEF NoneKept
<1>1. /\ TypeOK /\ ThreadsInv /\ WatchersInv
      /\ worker \in WorkerState /\ StopsInv'
  BY DEF JobsInv, TypeOK
<1>2. CASE User
  <2>1. worker.pc = "none" /\ watcher' = watcher
    BY <1>1, <1>2, CalmCommand DEF Idle, ThreadsInv
  <2>2. q \in selected
    BY <2>1 DEF NoneKept
  <2>3. PICK new \in Selections : ChangeSettings(new)
    BY <1>2, <2>2, CalmCommand
  <2>4. selected' = new /\ completed
    BY <1>2, <2>3, CalmCommand DEF ChangeSettings, Idle
  <2>5. new \ selected = {}
    BY <2>2, <2>4 DEF OneWay
  <2>6. StartJob("purge", selected \ new)
    BY <2>2, <2>3, <2>4, <2>5 DEF ChangeSettings
  <2> QED
    BY <2>2, <2>4, <2>6 DEF StartJob
<1>3. CASE ~User
  <2>1. selected' = selected
    BY <1>3, BystanderSteps DEF Next, UI, StartUp, Worker
  <2>2. watcher[q].live # 0
    <3>1. ~StartWatcherUI(q)
      BY <2>1 DEF StartWatcherUI, SelectedOnly
    <3>2. ~(StartWatcher /\ worker.cur = q)
      BY <2>1 DEF StartWatcher, SelectedOnly
    <3> QED
      BY <1>1, <3>1, <3>2, LiveStep DEF Kept, Started, NoWatcher
  <2>3. worker.pc \in {"purge", "stop"} /\ q \in worker.roots
    BY <2>1, <2>2 DEF NoneKept
  <2>4. CASE worker' = worker
    BY <2>3, <2>4
  <2>5. CASE Worker
    <3>1. \/ StopLocks \/ StopUnlocks
          \/ \E r \in Root : PurgePath(r) \/ StopWatcher(r)
      BY <2>3, <2>5
      DEF Worker, BeginRebuild, JoinScans, SwapIndex, SaveRebuild,
          StartWatcher, AllStarted, ApplyPath, PathApplied, SavePaths,
          SaveRemoval, Signal, CheckCancel, ScanPath
    <3>2. StopLocks => worker'.pc = "stop" /\ worker'.roots = worker.roots
      BY <1>1 DEF StopLocks, WorkerState
    <3>3. ~StopUnlocks
      <4>1. StopUnlocks => worker'.pc = "saveRemoval" /\ worker'.roots = worker.roots
        BY <1>1 DEF StopUnlocks, Goto, WorkerState
      <4> QED
        BY <1>1, <2>3, <4>1 DEF StopsInv
    <3>4. ASSUME NEW r \in Root, PurgePath(r) \/ StopWatcher(r)
          PROVE  worker'.pc = worker.pc /\ worker'.roots = worker.roots
      BY <1>1, <3>4 DEF PurgePath, StopWatcher, WorkerState
    <3> QED
      BY <2>3, <3>1, <3>2, <3>3, <3>4
  <2> QED
    BY <1>1, <2>3, <2>4, <2>5, WorkerMoves
<1> QED
  BY <1>2, <1>3

----------------------------------------------------------------------------
(* The events of one file, through every step.                             *)

\* The watcher takes its next event, or goes on with the last one.
LEMMA EventApplied ==
    ASSUME TypeOK, NEW r \in selected, r \in Root, Watcher(r), ~watcher[r].stop,
           NEW f \in File \ Excluded, f \in Under[r], EventInv(r, f)
    PROVE  EventInv(r, f)'
<1> DEFINE w == watcher[r]
           queue == watcher[r].queue
           entries == index[f] + Handled(watcher[r], f)
           there == Present(f)
           Seen(step, g) == IF step = "probe" /\ g = f THEN there ELSE f \in fs
<1>1. /\ w \in WatcherState /\ queue \in Seq(Event)
      /\ w.at \in ApplyState
      /\ w.at.file \in File \cup {NoFile} /\ NoFile \notin File
      /\ index \in [File -> Nat] /\ index[f] \in Nat
      /\ Handled(w, f) \in {0, 1}
  BY IndexerAssumption, WatcherFields
  DEF TypeOK, ApplyState, IndexerAssumption, Handled
<1> there \in BOOLEAN /\ entries \in Nat
  BY <1>1 DEF Present
<1>2. UNCHANGED <<fs, folders, selected>>
  BY DEF Watcher, environment, disk
<1>3. /\ Covered(f, selected)
      /\ f \in fs => there
      /\ Present(f)' = there
      /\ (Wanted(f) = 1) = (f \in fs)
      /\ (Wanted(f)' = 1) = (f \in fs)
  BY <1>2 DEF Wanted, Covered, Present, Exists
<1>4. Story(queue, f, entries, there, Seen(w.at.step, w.at.file))
  BY <1>3 DEF EventInv, Sees
<1>5. entries <= 1
  BY <1>4 DEF Story
<1>6. ASSUME Story(watcher'[r].queue, f, index'[f] + Handled(watcher'[r], f),
                   there, Seen(watcher'[r].at.step, watcher'[r].at.file))
      PROVE  EventInv(r, f)'
  BY <1>3, <1>6 DEF EventInv, Sees
<1>7. ASSUME queue # <<>>
      PROVE  /\ NextEvent(r) = Head(queue) /\ Head(queue) \in Event
             /\ NextEvent(r).file \in File
             /\ Head(queue) = queue[1] /\ 1 \in 1..Len(queue)
             /\ \A k \in 1..Len(queue) : 1 <= k
  <2>1. Head(queue) \in Event
    BY <1>1, <1>7
  <2>2. /\ Head(queue) = queue[1]
        /\ Len(queue) \in Nat \ {0}
    BY <1>1, <1>7, TailOf
  <2> QED
    BY <2>1, <2>2 DEF NextEvent, Event
<1> HIDE DEF w, queue, entries, there
<1>8. ASSUME queue # <<>>, w.at.step = "idle",
             NEW step \in {"idle", "probe", "add"},
             NEW g \in File \cup {NoFile}, At(r, step, g),
             Head(queue).file # f, g # f,
             index'[f] = index[f]
      PROVE  EventInv(r, f)'
  <2>1. /\ watcher'[r].queue = Tail(queue)
        /\ watcher'[r].at = [step |-> step, file |-> g]
    BY <1>8, AtFacts DEF w, queue
  <2>2. Handled(watcher'[r], f) = 0 /\ Handled(w, f) = 0
    BY <1>8, <2>1 DEF Handled
  <2>3. Story(Tail(queue), f, entries, there, f \in fs)
    BY <1>1, <1>4, <1>8, StoryWithoutOther
  <2>4. entries = index'[f] + Handled(watcher'[r], f)
    BY <1>8, <2>2 DEF entries, w
  <2>5. Seen(watcher'[r].at.step, watcher'[r].at.file) = (f \in fs)
    BY <1>8, <2>1
  <2> HIDE DEF Seen
  <2> QED
    BY <1>6, <2>1, <2>3, <2>4, <2>5
<1>9. ASSUME queue # <<>>, w.at.step = "idle", Head(queue).file = f,
             NEW step \in {"idle", "probe", "add"},
             NEW g \in File \cup {NoFile}, At(r, step, g),
             NEW n \in {0, 1},
             n = index'[f] + (IF step # "idle" /\ g = f THEN 1 ELSE 0),
             ~ThereAfter(Head(queue)) => n = 0,
             (ThereAfter(Head(queue)) <=> there) =>
                 n = IF Seen(step, g) THEN 1 ELSE 0
      PROVE  EventInv(r, f)'
  <2>1. /\ watcher'[r].queue = Tail(queue)
        /\ watcher'[r].at = [step |-> step, file |-> g]
    BY <1>9, AtFacts DEF w, queue
  <2>2. n = index'[f] + Handled(watcher'[r], f)
    BY <1>9, <2>1 DEF Handled
  <2> HIDE DEF Seen
  <2> DEFINE before == Seen(w.at.step, w.at.file)
             later == Seen(step, g)
  <2>3. /\ Story(queue, f, entries, there, before)
        /\ (ThereAfter(Head(queue)) <=> there) => n = IF later THEN 1 ELSE 0
    BY <1>4, <1>9
  <2> HIDE DEF before, later
  <2>4. Story(Tail(queue), f, n, there, later)
    <3>1. queue \in Seq(Event) /\ there \in BOOLEAN
      BY <1>1
    <3>2. /\ queue # <<>> /\ Head(queue).file = f
          /\ n \in {0, 1} /\ (~ThereAfter(Head(queue)) => n = 0)
      BY <1>9
    <3> QED
      BY <2>3, <3>1, <3>2, StoryAfter, Zenon
  <2> QED
    BY <1>6, <2>1, <2>2, <2>4 DEF later
<1>10. ASSUME w.at.step # "idle",
              NEW step \in {"idle", "probe", "add"},
              NEW g \in File \cup {NoFile}, At(r, step, g),
              NEW n, n = index'[f] + (IF step # "idle" /\ g = f THEN 1 ELSE 0),
              \/ /\ n = entries
                 /\ Seen(step, g) = Seen(w.at.step, w.at.file)
              \/ entries = 1 /\ n = IF Seen(step, g) THEN 1 ELSE 0
       PROVE  EventInv(r, f)'
  <2>1. /\ watcher'[r].queue = queue
        /\ watcher'[r].at = [step |-> step, file |-> g]
    BY <1>10, AtFacts DEF w, queue
  <2>2. n = index'[f] + Handled(watcher'[r], f)
    BY <1>10, <2>1 DEF Handled
  <2> HIDE DEF Seen
  <2>3. Story(queue, f, n, there, Seen(step, g))
    <3>1. CASE n = entries /\ Seen(step, g) = Seen(w.at.step, w.at.file)
      BY <1>4, <3>1
    <3>2. CASE entries = 1 /\ n = IF Seen(step, g) THEN 1 ELSE 0
      BY <1>4, <3>2, StoryOfFile
    <3> QED
      BY <1>10, <3>1, <3>2
  <2> QED
    BY <1>6, <2>1, <2>2, <2>3
<1>11. CASE TakeRemove(r)
  <2>1. /\ queue # <<>> /\ w.at.step = "idle" /\ Head(queue).file \in File
        /\ Head(queue).type \in {"Removed", "Modified"}
        /\ ApplyRemove(Head(queue).file)
        /\ IF Head(queue).type = "Modified"
           THEN At(r, "probe", Head(queue).file)
           ELSE At(r, "idle", NoFile)
    BY <1>7, <1>11 DEF TakeRemove, Quiet, queue, w
  <2>2. CASE Head(queue).file = f
    <3>1. entries = index[f]
      BY <1>1, <2>1 DEF entries, Handled, w
    <3>2. index'[f] = 0
      BY <1>1, <1>5, <2>1, <2>2, <3>1 DEF ApplyRemove
    <3>3. ThereAfter(Head(queue)) <=> Head(queue).type = "Modified"
      BY <2>1 DEF ThereAfter
    <3>4. CASE Head(queue).type = "Modified"
      <4>1. /\ 1 = index'[f] + (IF "probe" # "idle" /\ f = f THEN 1 ELSE 0)
            /\ there => Seen("probe", f)
            /\ ThereAfter(Head(queue))
        BY <3>2, <3>3, <3>4
      <4> QED
        BY <1>9, <2>1, <2>2, <3>4, <4>1
    <3>5. CASE Head(queue).type # "Modified"
      <4>1. /\ 0 = index'[f] + (IF "idle" # "idle" /\ NoFile = f THEN 1 ELSE 0)
            /\ ~there => ~Seen("idle", NoFile)
            /\ ~ThereAfter(Head(queue))
        BY <1>3, <3>2, <3>3, <3>5
      <4> QED
        BY <1>9, <2>1, <2>2, <3>5, <4>1
    <3> QED
      BY <3>4, <3>5
  <2>3. CASE Head(queue).file # f
    <3>1. index'[f] = index[f]
      BY <1>1, <2>1, <2>3 DEF ApplyRemove
    <3> QED
      BY <1>1, <1>8, <2>1, <2>3, <3>1
  <2> QED
    BY <2>2, <2>3
<1>12. CASE TakeAdded(r)
  <2>1. /\ queue # <<>> /\ w.at.step = "idle" /\ Head(queue).file \in File
        /\ Head(queue).type = "Added"
        /\ index' = index
        /\ IF Head(queue).file \in fs
           THEN At(r, "add", Head(queue).file)
           ELSE At(r, "idle", NoFile)
    BY <1>7, <1>12 DEF TakeAdded, Probe, Quiet, queue, w
  <2>2. CASE Head(queue).file = f
    <3>1. FirstAbout(queue, f, 1) /\ ~ThereBefore(queue[1]) /\ 1 \in 1..Len(queue)
      BY <1>7, <2>1, <2>2 DEF FirstAbout, About, ThereBefore
    <3>2. entries = 0
      BY <1>4, <3>1 DEF Story
    <3>3. index'[f] = 0
      BY <1>1, <2>1, <3>2 DEF entries, w
    <3>4. ThereAfter(Head(queue))
      BY <2>1 DEF ThereAfter
    <3>5. CASE f \in fs
      <4>1. /\ 1 = index'[f] + (IF "add" # "idle" /\ f = f THEN 1 ELSE 0)
            /\ Seen("add", f)
        BY <3>3, <3>5
      <4> QED
        BY <1>9, <2>1, <2>2, <3>4, <3>5, <4>1
    <3>6. CASE f \notin fs
      <4>1. /\ 0 = index'[f] + (IF "idle" # "idle" /\ NoFile = f THEN 1 ELSE 0)
            /\ ~Seen("idle", NoFile)
        BY <3>3, <3>6
      <4> QED
        BY <1>9, <2>1, <2>2, <3>4, <3>6, <4>1
    <3> QED
      BY <3>5, <3>6
  <2>3. CASE Head(queue).file # f
    BY <1>1, <1>8, <2>1, <2>3
  <2> QED
    BY <2>2, <2>3
<1>13. CASE ProbeModified(r)
  <2>1. /\ w.at.step = "probe"
        /\ index' = index
        /\ IF w.at.file \in fs THEN At(r, "add", w.at.file)
           ELSE At(r, "idle", NoFile)
    BY <1>13 DEF ProbeModified, Probe, Quiet, w
  <2>2. entries = index[f] + (IF w.at.file = f THEN 1 ELSE 0)
    BY <2>1 DEF entries, Handled, w
  <2>3. CASE w.at.file = f
    <3>1. entries = 1 /\ index'[f] = 0
      BY <1>1, <1>5, <2>1, <2>2, <2>3
    <3>2. CASE f \in fs
      <4>1. /\ 1 = index'[f] + (IF "add" # "idle" /\ f = f THEN 1 ELSE 0)
            /\ Seen("add", f)
        BY <3>1, <3>2
      <4> QED
        BY <1>10, <2>1, <2>3, <3>1, <3>2, <4>1
    <3>3. CASE f \notin fs
      <4>1. /\ 0 = index'[f] + (IF "idle" # "idle" /\ NoFile = f THEN 1 ELSE 0)
            /\ ~Seen("idle", NoFile)
        BY <3>1, <3>3
      <4> QED
        BY <1>10, <2>1, <2>3, <3>1, <3>3, <4>1
    <3> QED
      BY <3>2, <3>3
  <2>4. CASE w.at.file # f
    <3>1. PICK step \in {"idle", "add"}, g \in File \cup {NoFile} :
             At(r, step, g) /\ g # f
      BY <1>1, <2>1, <2>4
    <3>2. /\ entries = index'[f] + (IF step # "idle" /\ g = f THEN 1 ELSE 0)
          /\ Seen(step, g) = Seen(w.at.step, w.at.file)
      BY <1>1, <2>1, <2>2, <2>4, <3>1
    <3> QED
      BY <1>10, <2>1, <3>1, <3>2
  <2> QED
    BY <2>3, <2>4
<1>14. CASE FinishAdd(r)
  <2>1. w.at.step = "add" /\ ApplyAdd(w.at.file) /\ At(r, "idle", NoFile)
    BY <1>14 DEF FinishAdd, Quiet, w
  <2>2. entries = index[f] + (IF w.at.file = f THEN 1 ELSE 0)
    BY <2>1 DEF entries, Handled, w
  <2>3. index'[f] = entries
    BY <1>1, <2>1, <2>2 DEF ApplyAdd
  <2>4. /\ entries = index'[f] + (IF "idle" # "idle" /\ NoFile = f THEN 1 ELSE 0)
        /\ Seen("idle", NoFile) = Seen(w.at.step, w.at.file)
    BY <1>1, <2>1, <2>3
  <2> QED
    BY <1>10, <2>1, <2>4
<1>15. ~WatcherExits(r) /\ ~ForgetEvent(r)
  BY IndexerAssumption DEF WatcherExits, ForgetEvent, IndexerAssumption
<1> QED
  BY <1>11, <1>12, <1>13, <1>14, <1>15 DEF Watcher

\* An event that takes a file from what is there, and what is a file, before it
\* to what is so after it.
Tells(event, f, there, file, after, later) ==
    /\ file => there
    /\ event.file = f => /\ ThereBefore(event) <=> there
                         /\ ThereAfter(event) <=> after
    /\ event.file # f => after = there /\ later = file

\* A watcher is given an event.
LEMMA NotifyTells ==
    ASSUME NEW w \in [Thread -> WatcherState], NEW event \in Event,
           NEW q \in Root, w[q].live = 1, ~w[q].lost, NEW f \in Under[q],
           NEW entries, NEW there \in BOOLEAN, NEW after \in BOOLEAN,
           NEW file, NEW later,
           Story(w[q].queue, f, entries, there, file),
           Tells(event, f, there, file, after, later)
    PROVE  Story(Notify(w, event)[q].queue, f, entries, after, later)
<1> DEFINE queue == w[q].queue
<1> USE DEF Tells
<1>1. w[q] \in WatcherState /\ queue \in Seq(Event) /\ q \notin Late
  BY WatcherFields, IndexerAssumption DEF IndexerAssumption
<1>2. CASE event.file \notin Under[q]
  <2>1. Notify(w, event)[q] = w[q] /\ event.file # f
    BY <1>2 DEF Notify
  <2> QED
    BY <2>1
<1>3. CASE event.file \in Under[q]
  <2> DEFINE new == queue \o [i \in 1..w[q].live |-> event]
  <2>1. Notify(w, event)[q] = [w[q] EXCEPT !.queue = new]
    BY <1>1, <1>3 DEF Notify
  <2>2. new = Append(queue, event)
    BY <1>1
  <2> HIDE DEF new
  <2>3. Notify(w, event)[q].queue = Append(queue, event)
    BY <1>1, <2>1, <2>2 DEF WatcherState
  <2> HIDE DEF queue
  <2>4. Story(queue, f, entries, there, file)
    BY DEF queue
  <2>5. CASE event.file = f
    <3>1. /\ queue \in Seq(Event)
          /\ Story(queue, event.file, entries, there, file)
          /\ ThereBefore(event) <=> there
          /\ ThereAfter(event) <=> after
      BY <1>1, <2>4, <2>5 DEF queue
    <3>2. Story(Append(queue, event), event.file, entries, after, later)
      BY <3>1, StoryGrows, Zenon
    <3> QED
      BY <2>3, <2>5, <3>2
  <2>6. CASE event.file # f
    BY <1>1, <2>3, <2>4, <2>6, StoryGoesOn
  <2> QED
    BY <2>5, <2>6
<1> QED
  BY <1>2, <1>3

\* A change of the file system, below a selected root.
LEMMA ChangeTells ==
    ASSUME TypeOK, FileSystem, ~\E q \in Root : LoseVolume(q),
           NEW r \in Root, r \in selected,
           watcher[r].live = 1, ~watcher[r].lost,
           NEW f \in File \ Excluded, f \in Under[r], f \notin adrift',
           EventInv(r, f)
    PROVE  EventInv(r, f)'
<1> DEFINE entries == index[f] + Handled(watcher[r], f)
           probed == watcher[r].at.step = "probe" /\ watcher[r].at.file = f
           there == f \in fs \cup folders
           file == IF probed THEN there ELSE f \in fs
           after == f \in fs' \cup folders'
           later == IF probed THEN after ELSE f \in fs'
<1>1. /\ watcher \in [Thread -> WatcherState]
      /\ fs \cap folders = {}
      /\ Folder \subseteq File
  BY IndexerAssumption DEF TypeOK, Placed, IndexerAssumption
<1>2. UNCHANGED <<index, selected>>
  BY FileSystemStep, BystanderSteps DEF Next
<1>3. /\ Present(f) = there /\ Present(f)' = after
      /\ Sees(watcher[r], f) = file
  BY <1>2 DEF Wanted, Covered, Present, Exists, Sees
<1>4. Story(watcher[r].queue, f, entries, there, file)
  BY <1>3 DEF EventInv
<1>5. /\ Handled(watcher'[r], f) = Handled(watcher[r], f)
      /\ Sees(watcher[r], f)' = later
  <2>1. watcher'[r].at = watcher[r].at
    BY ChangeKeeps
  <2>2. (Wanted(f)' = 1) = (f \in fs')
    BY <1>2 DEF Wanted, Covered
  <2> QED
    BY <1>3, <2>1, <2>2 DEF Handled, Sees
<1> there \in BOOLEAN /\ after \in BOOLEAN /\ (file => there)
  OBVIOUS
<1> HIDE DEF entries
<1>6. ASSUME Story(watcher'[r].queue, f, entries, after, later)
      PROVE  EventInv(r, f)'
  <2>1. EventInv(r, f)' = Story(watcher'[r].queue, f,
                                index'[f] + Handled(watcher'[r], f),
                                Present(f)', Sees(watcher[r], f)')
    BY DEF EventInv
  <2> QED
    BY <1>2, <1>3, <1>5, <1>6, <2>1 DEF entries
<1>7. ASSUME NEW g \in File, NEW event \in {Added(g), Removed(g), Modified(g)},
             watcher' = Notify(watcher, event),
             g = f => /\ ThereBefore(event) <=> there
                      /\ ThereAfter(event) <=> after,
             g # f => (f \in fs' <=> f \in fs) /\ (f \in folders' <=> f \in folders)
      PROVE  Story(watcher'[r].queue, f, entries, after, later)
  <2>1. event \in Event /\ event.file = g
    BY <1>7, EventTypes
  <2>2. /\ event.file = f => /\ ThereBefore(event) <=> there
                             /\ ThereAfter(event) <=> after
        /\ event.file # f => after = there /\ later = file
    BY <1>7, <2>1
  <2> HIDE DEF there, after, file, later
  <2>3. Story(Notify(watcher, event)[r].queue, f, entries, after, later)
    <3>1. event \in Event /\ watcher \in [Thread -> WatcherState]
      BY <1>1, <2>1
    <3>2. Tells(event, f, there, file, after, later)
      BY <2>2 DEF Tells
    <3> QED
      BY <1>4, <3>1, <3>2, NotifyTells, Zenon
  <2> QED
    BY <1>7, <2>3
<1>8. ASSUME NEW g \in File, CreateFile(g) \/ DeleteFile(g) \/ Write(g)
      PROVE  Story(watcher'[r].queue, f, entries, after, later)
  <2>1. CASE CreateFile(g)
    BY <1>7, <2>1, EventTypes DEF CreateFile, Change, Exists
  <2>2. CASE DeleteFile(g)
    BY <1>1, <1>7, <2>2, EventTypes DEF DeleteFile, Change
  <2>3. CASE Write(g)
    BY <1>7, <2>3, EventTypes DEF Write, Change, Exists
  <2> QED
    BY <1>8, <2>1, <2>2, <2>3
<1>9. ASSUME NEW d \in Folder, FolderLeaves(d)
      PROVE  Story(watcher'[r].queue, f, entries, after, later)
  <2>1. /\ d \in File /\ d \in folders
        /\ fs' = fs \ Below[d] /\ folders' = folders \ ({d} \cup Below[d])
        /\ adrift' = adrift \cup ((fs \cup folders) \cap Below[d])
        /\ watcher' = Notify(watcher, Removed(d))
    BY <1>1, <1>9 DEF FolderLeaves, Change, Exists
  <2> QED
    BY <1>1, <1>7, <2>1, EventTypes
<1>10. ASSUME NEW d \in Folder, NEW files, NEW dirs, FolderArrives(d, files, dirs)
       PROVE  Story(watcher'[r].queue, f, entries, after, later)
  <2>1. /\ d \in File /\ d \notin fs \cup folders
        /\ fs' = fs \cup files /\ folders' = folders \cup {d} \cup dirs
        /\ adrift' = adrift \cup (files \cup dirs)
        /\ watcher' = Notify(watcher, Added(d))
    BY <1>1, <1>10 DEF FolderArrives, Change, Exists
  <2> QED
    BY <1>1, <1>7, <2>1, EventTypes
<1>11. ASSUME NEW g \in File, NEW h \in File, RenameFile(g, h)
       PROVE  Story(watcher'[r].queue, f, entries, after, later)
  <2> DEFINE w == Notify(watcher, Removed(g))
             between == f \in (fs \cup folders) \ {g}
             seen == IF probed THEN between ELSE f \in fs \ {g}
  <2>1. /\ g \in fs /\ h \notin fs \cup folders /\ fs' = (fs \ {g}) \cup {h}
        /\ folders' = folders
        /\ watcher' = Notify(w, Added(h))
    BY <1>11 DEF RenameFile, Change, Exists
  <2>2. w \in [Thread -> WatcherState]
    BY <1>1, EventTypes, NotifyType
  <2>3. w[r].live = 1 /\ ~w[r].lost
    <3>1. Removed(g) \in Event /\ r \in Thread
      BY EventTypes
    <3> QED
      BY <1>1, <3>1, NotifyKeeps
  <2>4. /\ between \in BOOLEAN /\ after \in BOOLEAN /\ (seen => between)
        /\ g = f => there /\ ~between
        /\ g # f => between = there /\ seen = file
        /\ h = f => ~between /\ after
        /\ h # f => after = between /\ later = seen
    BY <1>1, <2>1
  <2> HIDE DEF there, after, file, later, between, seen
  <2> DEFINE gone == Removed(g)
             come == Added(h)
  <2>5. /\ gone \in Event /\ gone.file = g
        /\ ThereBefore(gone) /\ ~ThereAfter(gone)
        /\ come \in Event /\ come.file = h
        /\ ~ThereBefore(come) /\ ThereAfter(come)
    BY EventTypes
  <2> HIDE DEF gone, come
  <2>6. Story(Notify(watcher, gone)[r].queue, f, entries, between, seen)
    <3>1. Tells(gone, f, there, file, between, seen)
      BY <2>4, <2>5 DEF Tells
    <3>2. /\ gone \in Event /\ watcher \in [Thread -> WatcherState]
          /\ between \in BOOLEAN
      BY <1>1, <2>4, <2>5
    <3> QED
      BY <1>4, <3>1, <3>2, NotifyTells, Zenon
  <2>7. Story(w[r].queue, f, entries, between, seen)
    BY <2>6 DEF gone
  <2> HIDE DEF w
  <2>8. Tells(come, f, between, seen, after, later)
    BY <2>4, <2>5 DEF Tells
  <2>9. Story(Notify(w, come)[r].queue, f, entries, after, later)
    <3>1. /\ come \in Event /\ between \in BOOLEAN /\ after \in BOOLEAN
      BY <2>4, <2>5
    <3> QED
      BY <2>2, <2>3, <2>7, <2>8, <3>1, NotifyTells, Zenon
  <2> QED
    BY <2>1, <2>9 DEF come
<1> QED
  BY <1>6, <1>8, <1>9, <1>10, <1>11 DEF FileSystem

\* The volume of a selected root that was lost stays so until it is deselected.
LEMMA MissedStep ==
    ASSUME JobsInv, [Next]_vars, [OneWay]_selected, ~cancel', ~cancel,
           Calm, Stopping, SelectedOnly,
           NEW r \in Root, Missed(r), ~Missed(r)'
    PROVE  User /\ worker'.pc = "purge" /\ r \in worker'.todo
<1>1. /\ TypeOK /\ watcher \in [Thread -> WatcherState]
  BY DEF JobsInv, TypeOK
<1>2. watcher'[r].lost
  <2>1. ~watcher[r].stop
    BY DEF Stopping, SelectedOnly, Missed, JobsInv, StopsInv
  <2>2. Watcher(r) => watcher'[r].lost
    BY <1>1, <2>1, OwnStep DEF Missed
  <2>3. ~StopTimesOut(r)
    BY <2>1 DEF StopTimesOut
  <2>4. FileSystem /\ (~\E q \in Root : LoseVolume(q)) => watcher'[r].lost
    <3>1. r \in Thread
      OBVIOUS
    <3> QED
      BY <1>1, <3>1, ChangeKeeps DEF Missed
  <2> QED
    BY <1>1, <2>2, <2>3, <2>4, OtherSteps DEF SameEvents, Missed
<1>3. r \in selected /\ r \notin selected'
  BY <1>2 DEF Missed
<1>4. CASE User
  <2>1. PICK new \in Selections : ChangeSettings(new)
    BY <1>3, <1>4, CalmCommand
  <2>2. selected' = new /\ completed
    BY <1>4, <2>1, CalmCommand DEF ChangeSettings, Idle
  <2>3. new \ selected = {} /\ r \in selected \ new
    BY <1>3, <2>2 DEF OneWay
  <2>4. StartJob("purge", selected \ new)
    BY <2>1, <2>2, <2>3 DEF ChangeSettings
  <2> QED
    BY <1>4, <2>3, <2>4 DEF StartJob
<1>5. CASE ~User
  BY <1>3, <1>5, BystanderSteps DEF Next, UI, StartUp, Worker
<1> QED
  BY <1>4, <1>5

\* A file whose events were all applied has the entries it should have.
LEMMA DrainedTells ==
    ASSUME NEW w, w.queue = <<>>, w.at.step = "idle", NEW f,
           NEW entries \in Nat, NEW there, NEW wanted \in {0, 1}
    PROVE  Story(w.queue, f, entries + Handled(w, f), there, wanted = 1)
               <=> entries = wanted
<1> DEFINE file == wanted = 1
<1>1. wanted = IF file THEN 1 ELSE 0
  OBVIOUS
<1>2. w.queue = <<>> /\ entries + Handled(w, f) = entries
  BY DEF Handled
<1> HIDE DEF file
<1>3. Story(<<>>, f, entries, there, file) <=> entries = IF file THEN 1 ELSE 0
  BY StoryTold
<1> QED
  BY <1>1, <1>2, <1>3 DEF file

\* While a job runs.
LEMMA FileInJob ==
    ASSUME SeparateRoots, {} \notin Selections, Calm, JobsInv, [Next]_vars,
           ~Idle, Drained, ~cancel, ~cancel',
           FoundOf(worker, left, found, fs), RootsOf(worker, selected, {}),
           NEW f \in File, FileInv(f)
    PROVE  FileInv(f)'
<1>1. /\ TypeOK /\ ThreadsInv /\ ScansInv
      /\ FoundOf(worker, left, found, fs \cup {})
      /\ f \in File \ {}
      /\ fs' = fs
  <2>1. fs \cup {} = fs
    OBVIOUS
  <2> QED
    BY <2>1, CalmFiles DEF JobsInv
<1>2. CASE FileSystem
  BY <1>1, <1>2, FileSystemStep, BystanderSteps, FileUnchanged
<1>3. CASE Gone \/ UNCHANGED vars
  <2>1. UNCHANGED <<index, left, found>>
    BY <1>3 DEF Gone, vars, store, scan
  <2> QED
    BY <1>1, <1>3, <2>1, BystanderSteps, FileUnchanged
<1>4. ASSUME NEW q \in Root, Scanner(q)
      PROVE  FileInv(f)'
    BY <1>1, <1>4, FileScanned
<1>5. ASSUME NEW q \in Thread, Watcher(q)
      PROVE  FileInv(f)'
  <2>1. index' = index
    BY <1>1, <1>5, OwnStep DEF Drained
  <2>2. UNCHANGED <<left, found, selected, saved, worker, ui>>
    BY <1>5, BystanderSteps DEF Watcher, scan
  <2> QED
    BY <1>1, <2>1, <2>2, FileUnchanged
<1>6. ~User
  BY CalmCommand
<1>7. CASE UI
  BY <1>1, <1>7, FileUI
<1>8. CASE Worker
  BY <1>1, <1>8, FileWorked
<1>9. ASSUME NEW q \in Root, StopTimesOut(q)
      PROVE  FileInv(f)'
  <2>1. UNCHANGED <<index, left, found>>
    BY <1>9 DEF StopTimesOut, store, scan
  <2> QED
    BY <1>1, <1>9, <2>1, BystanderSteps, FileUnchanged
<1> QED
  BY <1>2, <1>3, <1>4, <1>5, <1>6, <1>7, <1>8, <1>9 DEF Next

\* While none runs: watchers apply events, and the files change.
LEMMA FileWhenIdle ==
    ASSUME SeparateRoots, {} \notin Selections, Calm, JobsInv, [Next]_vars,
           Idle, ~User, OwnEvents, LateDrained, Stopping, NoneKept,
           NEW r \in Root, ~Missed(r), ~Missed(r)',
           NEW f \in File \ Excluded, f \in Under[r], f \notin adrift',
           EventInv(r, f)
    PROVE  EventInv(r, f)'
<1>1. /\ TypeOK /\ ThreadsInv /\ ScansInv /\ WatchersInv /\ OneWatcherPerRoot
      /\ watcher \in [Thread -> WatcherState]
      /\ watcher[r].live \in Nat /\ watcher[r].live <= 1
      /\ selected \in SUBSET Root /\ Effective(selected) = selected
  BY IndexerAssumption, WatcherFields
  DEF JobsInv, TypeOK, OneWatcherPerRoot, Effective, IndexerAssumption
<1>2. worker.pc = "none"
  BY <1>1 DEF Idle, ThreadsInv
<1>3. /\ watcher[r] = NoWatcher \/ r \in selected
      /\ ~watcher[r].stop
  BY <1>1, <1>2 DEF NoneKept, WatchersInv, Stopping
<1>4. ASSUME watcher'[r] = watcher[r], index'[f] = index[f],
             UNCHANGED <<fs, folders, selected>>
      PROVE  EventInv(r, f)'
  <2>1. Wanted(f)' = Wanted(f) /\ Present(f)' = Present(f)
    BY <1>4 DEF Wanted, Covered, Present, Exists
  <2>2. Sees(watcher[r], f)' = Sees(watcher[r], f)
    BY <1>4, <2>1 DEF Sees
  <2> QED
    BY <1>4, <2>1, <2>2 DEF EventInv
<1>5. ASSUME NEW q \in Root, LoseVolume(q)
      PROVE  EventInv(r, f)'
  <2>1. UNCHANGED <<fs, folders, index, selected>>
    BY <1>5 DEF LoseVolume, environment, disk, store
  <2>2. CASE q = r
    <3>1. r \in selected'
      BY <1>3, <1>5, <2>1, <2>2 DEF LoseVolume, Watched, NoWatcher
    <3>2. watcher'[r].lost
      BY <1>1, <1>5, <2>2 DEF LoseVolume, WatcherState
    <3> QED
      BY <3>1, <3>2 DEF Missed
  <2>3. CASE q # r
    <3>1. watcher'[r] = watcher[r]
      BY <1>1, <1>5, <2>3 DEF LoseVolume
    <3> QED
      BY <1>4, <2>1, <3>1
  <2> QED
    BY <2>2, <2>3
<1>6. CASE FileSystem /\ ~\E q \in Root : LoseVolume(q)
  <2>1. CASE r \in selected
    <3>1. watcher[r].live > 0
      BY <1>1, <1>6, <2>1, CalmChange, FileSystemStep DEF Watched
    <3> QED
      BY <1>1, <1>6, <2>1, <3>1, ChangeTells DEF Missed
  <2>2. CASE r \notin selected
    <3>1. UNCHANGED <<index, selected>>
      BY <1>1, <1>6, FileSystemStep, BystanderSteps
    <3>2. watcher[r] = NoWatcher /\ watcher'[r].live = 0
      BY <1>1, <1>3, <1>6, <2>2, ChangeKeeps DEF NoWatcher
    <3>3. watcher'[r] = watcher[r]
      <4>1. watcher[r].live = 0 /\ ~Started(r)
        BY <3>2 DEF Started, NoWatcher
      <4> QED
        BY <1>1, <3>2, <4>1, LiveStep DEF Kept
    <3>4. Wanted(f) = 0 /\ Wanted(f)' = 0
      BY <1>1, <2>2, <3>1 DEF Wanted, Covered, SeparateRoots
    <3>5. watcher[r].queue = <<>> /\ watcher[r].at.step = "idle"
      BY <3>2 DEF NoWatcher
    <3>6. /\ Sees(watcher[r], f) = (Wanted(f) = 1)
          /\ Sees(watcher[r], f)' = (Wanted(f)' = 1)
      BY <3>3, <3>5 DEF Sees
    <3>7. /\ EventInv(r, f) <=> index[f] = 0
          /\ EventInv(r, f)' <=> index'[f] = 0
      <4>1. /\ index[f] \in Nat /\ index' = index
            /\ Wanted(f) \in {0, 1} /\ Wanted(f)' = Wanted(f)
        BY <1>1, <3>1, <3>4 DEF TypeOK
      <4>2. ASSUME NEW there
            PROVE  Story(watcher[r].queue, f, index[f] + Handled(watcher[r], f),
                         there, Wanted(f) = 1) <=> index[f] = Wanted(f)
        <5>1. Wanted(f) \in {0, 1} /\ index[f] \in Nat
          BY <4>1
        <5> QED
          BY <3>5, <5>1, DrainedTells, Zenon
      <4>3. /\ EventInv(r, f) <=> Story(watcher[r].queue, f,
                   index[f] + Handled(watcher[r], f), Present(f), Wanted(f) = 1)
            /\ EventInv(r, f)' <=> Story(watcher[r].queue, f,
                   index[f] + Handled(watcher[r], f), Present(f)', Wanted(f) = 1)
        BY <3>3, <3>6, <4>1 DEF EventInv
      <4> QED
        BY <3>4, <4>1, <4>2, <4>3
    <3> QED
      BY <3>1, <3>7
  <2> QED
    BY <2>1, <2>2
<1>7. ASSUME NEW q \in Root, Watcher(q)
      PROVE  EventInv(r, f)'
  <2>1. CASE q = r
    <3>1. watcher[r] # NoWatcher
      BY <1>1, <1>3, <1>7, <2>1, OwnStep DEF NoWatcher
    <3> QED
      BY <1>1, <1>3, <1>7, <2>1, <3>1, EventApplied
  <2>2. CASE q # r
    <3>1. watcher'[r] = watcher[r]
      BY <1>1, <1>7, <2>2, OwnStep
    <3>2. UNCHANGED <<fs, folders, selected>>
      BY <1>7 DEF Watcher, environment, disk
    <3>3. index'[f] = index[f]
      <4>1. f \in File \ Under[q] /\ EventsTouched(watcher[q], Under[q])
        BY <2>2 DEF OwnEvents, SeparateRoots
      <4> QED
        BY <1>1, <1>7, <4>1, WatcherTouches
    <3> QED
      BY <1>4, <3>1, <3>2, <3>3
  <2> QED
    BY <2>1, <2>2
<1>8. ASSUME NEW q \in Root
      PROVE  ~Scanner(q)
  BY <1>1, <1>2 DEF Scanner, ScanFile, ScanCancelled, ScansInv
<1>9. ~Gone
  BY DEF Gone, Idle
<1>10. CASE UNCHANGED vars
  BY <1>4, <1>10 DEF vars, environment, disk, store
<1>11. ASSUME NEW t \in Late, Watcher(t)
       PROVE  EventInv(r, f)'
  <2>1. index' = index /\ watcher'[r] = watcher[r]
    BY <1>1, <1>11, OwnStep, IndexerAssumption DEF LateDrained, IndexerAssumption
  <2>2. UNCHANGED <<fs, folders, selected>>
    BY <1>11 DEF Watcher, environment, disk
  <2> QED
    BY <1>4, <2>1, <2>2
<1>12. ASSUME NEW q \in Root
       PROVE  ~StopTimesOut(q)
  BY <1>2 DEF Stopping, StopTimesOut
<1> QED
  BY <1>1, <1>5, <1>6, <1>7, <1>8, <1>9, <1>10, <1>11, <1>12, IdleQuiet
  DEF Next, FileSystem

LEMMA FilesStep ==
    ASSUME SeparateRoots, {} \notin Selections, Calm, JobsInv, JobsInv',
           [Next]_vars, [OneWay]_selected, CalmInv, ~cancel, ~cancel'
    PROVE  FilesInv'
<1> SUFFICES ASSUME NEW r \in Root, NEW f \in Under[r] \ (Excluded \cup adrift'),
                    ~Missed(r)'
             PROVE  IF Idle' THEN EventInv(r, f)' ELSE FileInv(f)'
  BY DEF FilesInv
<1>1. /\ TypeOK /\ ThreadsInv /\ ThreadsInv'
      /\ OwnEvents /\ LateDrained /\ Stopping /\ SelectedOnly /\ NoneKept
      /\ FilesInv
      /\ Idle \/ Drained
      /\ FoundOf(worker, left, found, fs) /\ RootsOf(worker, selected, {})
      /\ f \in File \ Excluded
      /\ index[f] \in Nat /\ index'[f] \in Nat
  BY IndexerAssumption DEF JobsInv, TypeOK, CalmInv, IndexerAssumption
<1>2. CASE f \in adrift
  <2>1. worker'.pc = "rebuild" /\ ~Idle' /\ ui'.pc = "idle"
    BY <1>1, <1>2, AdriftStep DEF Idle
  <2>2. FileInv(f)'
    BY <2>1 DEF FileInv, ScanProgress, PathsProgress, PurgeProgress, Settled
  <2> QED
    BY <2>1, <2>2
<1>3. CASE Missed(r)
  <2>1. User /\ worker'.pc = "purge" /\ r \in worker'.todo
    BY <1>1, <1>3, MissedStep
  <2>2. ui'.pc = "idle" /\ ~Idle'
    BY <2>1, CalmCommand DEF Idle
  <2>3. FileInv(f)'
    BY <2>1, <2>2
    DEF FileInv, ScanProgress, PathsProgress, PurgeProgress, Settled, Covered
  <2> QED
    BY <2>2, <2>3
<1>4. CASE ~Missed(r) /\ f \notin adrift /\ ~Idle
  <2>1. FileInv(f)
    BY <1>1, <1>4 DEF FilesInv
  <2>2. FileInv(f)'
    BY <1>1, <1>4, <2>1, FileInJob
  <2>3. ASSUME Idle'
        PROVE  EventInv(r, f)'
    <3>1. ui'.pc = "idle" /\ worker'.pc = "none"
      BY <1>1, <2>3 DEF Idle, ThreadsInv
    <3>2. index'[f] = Wanted(f)'
      BY <2>2, <3>1 DEF FileInv, Settled
    <3>3. Drained'
      BY <1>1, <1>4, DrainedStep
    <3>4. Wanted(f)' \in {0, 1}
      BY DEF Wanted
    <3>5. Story(watcher'[r].queue, f, index'[f] + Handled(watcher'[r], f),
                Present(f)', Wanted(f)' = 1)
      BY <1>1, <3>2, <3>3, <3>4, DrainedTells DEF Drained
    <3>6. Sees(watcher[r], f)' = (Wanted(f)' = 1)
      BY <3>3 DEF Sees, Drained
    <3> QED
      BY <3>5, <3>6 DEF EventInv
  <2> QED
    BY <2>2, <2>3
<1>5. CASE ~Missed(r) /\ f \notin adrift /\ Idle /\ User
  <2>1. Drained /\ ~Idle' /\ completed
    BY <1>5, CalmCommand DEF Idle
  <2>2. index[f] = Wanted(f)
    <3>1. Wanted(f) \in {0, 1} /\ index[f] \in Nat
      BY <1>1 DEF Wanted
    <3>2. watcher[r].queue = <<>> /\ watcher[r].at.step = "idle"
      BY <2>1 DEF Drained
    <3>3. Story(watcher[r].queue, f, index[f] + Handled(watcher[r], f),
                Present(f), Wanted(f) = 1)
      BY <1>1, <1>5, <3>2 DEF FilesInv, EventInv, Sees
    <3> QED
      BY <3>1, <3>2, <3>3, DrainedTells
  <2>3. FileInv(f)
    BY <1>1, <1>5, <2>2
    DEF ThreadsInv, Idle, FileInv, ScanProgress, PathsProgress, PurgeProgress,
        Settled
  <2> QED
    BY <1>1, <1>5, <2>1, <2>3, FileCommanded
<1>6. CASE ~Missed(r) /\ f \notin adrift /\ Idle /\ ~User
  <2>1. EventInv(r, f)'
    BY <1>1, <1>6, FileWhenIdle DEF FilesInv
  <2>2. Idle'
    BY <1>1, <1>6, IdleQuiet, BystanderSteps DEF Idle, Next
  <2> QED
    BY <2>1, <2>2
<1> QED
  BY <1>2, <1>3, <1>4, <1>5, <1>6

LEMMA InitCalm ==
    SeparateRoots /\ {} \notin Selections /\ Calm /\ Init => CalmInv
<1> SUFFICES ASSUME SeparateRoots, {} \notin Selections, Calm, Init
             PROVE  CalmInv
  OBVIOUS
<1>1. TypeOK /\ Under \in [Root -> SUBSET File]
  BY IndexerAssumption, InitType DEF IndexerAssumption
<1>2. /\ OwnEvents /\ Drained /\ LateDrained /\ Stopping /\ SelectedOnly
      /\ NoneKept
      /\ FoundOf(worker, left, found, fs) /\ RootsOf(worker, selected, {})
      /\ ~Idle /\ ui.pc = "start"
  BY DEF Init, OwnEvents, EventsTouched, Queued, Drained, LateDrained, Stopping,
         SelectedOnly, NoneKept, FoundOf, RootsOf, Idle, NoWorker, NoWatcher
<1>3. ASSUME NEW f \in File
      PROVE  FileInv(f)
  <2>1. saved # NoIndex => saved[f] = Scanned(fs, Effective(selected))[f]
    BY DEF Init
  <2> QED
    BY <1>1, <1>2, <2>1, WantedIsScanned DEF FileInv
<1> QED
  BY <1>1, <1>2, <1>3 DEF CalmInv, FilesInv

LEMMA NextCalm ==
    SeparateRoots /\ {} \notin Selections /\ Calm /\ JobsInv /\ JobsInv'
    /\ CalmInv /\ [Next]_vars /\ [OneWay]_selected => CalmInv'
<1> SUFFICES ASSUME SeparateRoots, {} \notin Selections, Calm, JobsInv, JobsInv',
                    CalmInv, [Next]_vars, [OneWay]_selected
             PROVE  CalmInv'
  OBVIOUS
<1>1. /\ TypeOK /\ TypeOK' /\ ThreadsInv /\ ScansInv /\ WatchersInv
      /\ OwnEvents
      /\ FoundOf(worker, left, found, fs) /\ RootsOf(worker, selected, {})
  BY DEF JobsInv, CalmInv
<1>2. OwnEvents'
  <2>1. ASSUME NEW q \in Root
        PROVE  EventsTouched(watcher'[q], Under[q])
    <3>1. q \in Thread /\ q \notin Late /\ EventsTouched(watcher[q], Under[q])
      BY <1>1, IndexerAssumption DEF OwnEvents, IndexerAssumption
    <3> QED
      BY <1>1, <3>1, EventsStep
  <2> QED
    BY <2>1 DEF OwnEvents
<1>3. FoundOf(worker', left', found', fs')
  <2>1. FoundOf(worker', left', found', fs)
    BY <1>1, FoundStep
  <2>2. CASE fs' = fs
    BY <2>1, <2>2
  <2>3. CASE fs' # fs
    <3>1. FileSystem /\ Idle
      BY <2>3, CalmFiles
    <3>2. worker.pc = "none" /\ worker' = worker
      BY <1>1, <3>1, BystanderSteps DEF Idle, ThreadsInv
    <3>3. \A r \in Root : found'[r] = {}
      BY <2>1, <3>2 DEF FoundOf
    <3> QED
      BY <2>1, <3>3 DEF FoundOf
  <2> QED
    BY <2>2, <2>3
<1>4. RootsOf(worker', selected', {})
  <2>1. ~\E new \in Selections : ChangeSettings(new) /\ ~completed
    BY DEF ChangeSettings, MayCommand
  <2> QED
    BY <1>1, <2>1, RootsStep
<1>5. CASE cancel'
  BY <1>2, <1>3, <1>4, <1>5 DEF CalmInv
<1>6. CASE ~cancel'
  <2>1. /\ ~cancel
        /\ Idle \/ Drained
        /\ LateDrained /\ Stopping /\ SelectedOnly /\ NoneKept
    BY <1>1, <1>6, CancelStays DEF CalmInv
  <2>2. Idle' \/ Drained'
    BY <1>1, <1>6, <2>1, DrainedStep
  <2>3. LateDrained' /\ Stopping'
    BY <1>1, <2>1, LateStep, StoppingStep
  <2>4. SelectedOnly' /\ NoneKept'
    BY <1>1, <1>6, <2>1, SelectedStep, NoneKeptStep
  <2>5. FilesInv'
    BY <1>6, <2>1, FilesStep
  <2> QED
    BY <1>2, <1>3, <1>4, <2>2, <2>3, <2>4, <2>5 DEF CalmInv
<1> QED
  BY <1>5, <1>6

\* Where no change comes while a job runs or before the watchers do, and no
\* command before all events were applied, the index of the selected roots is
\* exact once they were: a watcher that looks at a file late, when it is gone or
\* back, adds no entry twice and leaves none behind, and a root that was
\* deselected, its volume lost or not, begins anew when it is selected again.
\* Assumed besides is that no dialog both adds and removes roots: StartIndexing
\* rebuilds then and does not stop the watchers of the roots that go, which add
\* what the next job adds again.
THEOREM SettledIsExact ==
    ASSUME SeparateRoots, {} \notin Selections
    PROVE  Spec /\ [][OneWay]_selected => []SettledIndexIsExact
<1>1. Init => JobsInv
  BY InitJobs
<1>2. JobsInv /\ [Next]_vars => JobsInv'
  BY NextJobs
<1>3. Init => (Calm => CalmInv)
  BY InitCalm
<1>4. JobsInv /\ JobsInv' /\ (Calm => CalmInv) /\ [Next]_vars /\ [OneWay]_selected
          => (Calm => CalmInv)'
  BY NextCalm
<1>5. JobsInv /\ (Calm => CalmInv) => SettledIndexIsExact
  <2> SUFFICES ASSUME JobsInv, CalmInv, Idle, Drained
               PROVE  Exact
    BY DEF SettledIndexIsExact
  <2>1. /\ TypeOK /\ ~cancel
        /\ Effective(selected) = selected /\ selected \in SUBSET Root
        /\ index \in [File -> Nat] /\ Under \in [Root -> SUBSET File]
    BY IndexerAssumption
    DEF JobsInv, ThreadsInv, Closing, Idle, TypeOK, Effective, IndexerAssumption
  <2>2. ASSUME NEW r \in selected, ~watcher[r].lost,
               NEW f \in Under[r] \ (Excluded \cup adrift)
        PROVE  index[f] = Scanned(fs, Effective(selected))[f]
    <3>1. Wanted(f) \in {0, 1} /\ f \in File
      BY <2>1 DEF Wanted
    <3>2. watcher[r].queue = <<>> /\ watcher[r].at.step = "idle"
      BY <2>1 DEF Drained
    <3>3. Story(watcher[r].queue, f, index[f] + Handled(watcher[r], f),
                Present(f), Wanted(f) = 1)
      BY <2>1, <2>2, <3>2 DEF CalmInv, FilesInv, Missed, EventInv, Sees
    <3>4. index[f] = Wanted(f)
      <4>1. Wanted(f) \in {0, 1} /\ index[f] \in Nat
        BY <2>1, <3>1
      <4> QED
        BY <3>2, <3>3, <4>1, DrainedTells, Zenon
    <3> QED
      BY <2>1, <3>1, <3>4, WantedIsScanned
  <2> QED
    BY <2>1, <2>2 DEF Exact, FilesUnder
<1> QED
  BY <1>1, <1>2, <1>3, <1>4, <1>5, PTL DEF Spec

----------------------------------------------------------------------------
(***************************************************************************)
(* Between jobs, a file is in memory as it was saved unless a watcher, or  *)
(* a thread that a Stop has given up on, may write to it.                  *)
(*                                                                         *)
(* The invariant says what every thread may write to: a watcher, to what   *)
(* is below its root, and a late thread, to what is below the roots for    *)
(* whose thread a Stop waited in vain.  Every job that wrote to the index  *)
(* ends with Save, unless the program does.                                *)
(***************************************************************************)

Served == FilesUnder({r \in Root : Watched(r)} \cup timedOut)

LateEvents == \A t \in Late : EventsTouched(watcher[t], FilesUnder(timedOut))

SavedInv ==
    \/ ui.pc = "start"
    \/ cancel
    \/ worker.pc \in Busy
    \/ \A f \in File \ Served : index[f] = saved[f]

UnwatchedInv ==
    /\ OwnEvents
    /\ LateEvents
    /\ cancel \/ Stopping
    /\ SavedInv

\* No root loses its watcher as long as none is told to stop.
LEMMA WatchedStays ==
    ASSUME TypeOK, ThreadsInv, [Next]_vars, \A r \in Root : ~watcher[r].stop,
           NEW q \in Root, Watched(q)
    PROVE  Watched(q)'
<1>1. /\ watcher \in [Thread -> WatcherState] /\ watcher[q] \in WatcherState
      /\ watcher[q].live > 0
  BY DEF TypeOK, Watched
<1>2. ASSUME watcher'[q].live \in {watcher[q].live, 1}
      PROVE  Watched(q)'
  BY <1>1, <1>2 DEF Watched
<1>3. CASE UNCHANGED watcher
  BY <1>2, <1>3
<1>4. CASE FileSystem
  <2>1. ASSUME NEW r \in Root, LoseVolume(r)
        PROVE  watcher'[q].live = watcher[q].live
    <3>1. \/ watcher'[q] = watcher[q]
          \/ watcher'[q] = [watcher[q] EXCEPT !.lost = TRUE, !.queue = <<>>]
      BY <1>1, <2>1 DEF LoseVolume
    <3> QED
      BY <1>1, <3>1 DEF WatcherState
  <2>2. q \in Thread
    OBVIOUS
  <2> QED
    BY <1>2, <1>4, <2>1, <2>2, ChangeKeeps
<1>5. ASSUME NEW t \in Thread, Watcher(t)
      PROVE  watcher'[q].live = watcher[q].live
  BY <1>5, OwnStep
<1>6. ASSUME NEW r \in Root, SignalStop(r)
      PROVE  watcher'[q].live = watcher[q].live
  <2>1. [watcher[q] EXCEPT !.stop = TRUE].live = watcher[q].live
    BY <1>1 DEF WatcherState
  <2> QED
    BY <1>6, <2>1, SignalStopFacts
<1>7. ASSUME NEW r \in Root, AddWatcher(r)
      PROVE  watcher'[q].live = watcher[q].live
  BY <1>1, <1>7, AddWatcherFacts
<1>8. ASSUME NEW r \in Root, StartWatcherUI(r)
      PROVE  watcher'[q].live = watcher[q].live
  BY <1>7, <1>8 DEF StartWatcherUI
<1>9. CASE StartWatcher
  <2>1. PICK r \in Root : r = worker.cur
    BY <1>9 DEF StartWatcher, ThreadsInv
  <2>2. AddWatcher(r)
    BY <1>9, <2>1 DEF StartWatcher
  <2> QED
    BY <1>2, <1>7, <2>2
<1>10. ASSUME NEW r \in Root
       PROVE  ~StopTimesOut(r)
  BY DEF StopTimesOut
<1> QED
  BY <1>2, <1>3, <1>4, <1>5, <1>6, <1>8, <1>9, <1>10, WatchersMoves

\* Outside of jobs that write to the index, only watchers do.
LEMMA UnservedStep ==
    ASSUME TypeOK, ThreadsInv, WatchersInv, OwnEvents, LateEvents, [Next]_vars,
           ui.pc # "start", worker.pc \notin Busy,
           NEW f \in File \ Served
    PROVE  index'[f] = index[f] /\ saved' = saved
<1>1. CASE FileSystem
  BY <1>1, FileSystemStep, BystanderSteps
<1>2. CASE User
  BY <1>2 DEF User, Rebuild, Destroy, ChangeSettings, store
<1>3. CASE UI
  BY <1>3 DEF UI, StartUp, store
<1>4. CASE Worker
  <2>1. \/ StartWatcher \/ AllStarted \/ Signal
        \/ \E r \in Root : CheckCancel(r)
    BY <1>4
    DEF Worker, Busy, BeginRebuild, JoinScans, SwapIndex, SaveRebuild,
        ApplyPath, PathApplied, SavePaths, StopLocks, StopUnlocks,
        SaveRemoval, ScanPath, PurgePath, StopWatcher
  <2> QED
    BY <2>1 DEF StartWatcher, AllStarted, Signal, CheckCancel, store
<1>5. ASSUME NEW r \in Root, Scanner(r) \/ StopTimesOut(r)
      PROVE  index' = index /\ saved' = saved
  BY <1>5 DEF Scanner, ScanFile, ScanCancelled, StopTimesOut, store
<1>6. ASSUME NEW t \in Thread, Watcher(t)
      PROVE  index'[f] = index[f] /\ saved' = saved
  <2>1. saved' = saved
    BY <1>6 DEF Watcher
  <2>2. CASE t \in Late
    <3>1. /\ EventsTouched(watcher[t], FilesUnder(timedOut))
          /\ f \in File \ FilesUnder(timedOut)
      BY <2>2 DEF LateEvents, Served, FilesUnder
    <3> QED
      BY <1>6, <2>1, <3>1, WatcherTouches
  <2>3. CASE t \in Root /\ Watched(t)
    <3>1. EventsTouched(watcher[t], Under[t]) /\ f \in File \ Under[t]
      BY <2>3 DEF OwnEvents, Served, FilesUnder
    <3> QED
      BY <1>6, <2>1, <3>1, WatcherTouches
  <2>4. CASE t \in Root /\ ~Watched(t)
    <3>1. watcher[t].live \in Nat
      BY WatcherFields DEF TypeOK
    <3>2. watcher[t] = NoWatcher
      BY <2>4, <3>1 DEF Watched, WatchersInv
    <3> QED
      BY <1>6, <3>2, OwnStep DEF NoWatcher
  <2> QED
    BY <2>2, <2>3, <2>4
<1>7. CASE Gone \/ UNCHANGED vars
  BY <1>7 DEF Gone, vars, store
<1> QED
  BY <1>1, <1>2, <1>3, <1>4, <1>5, <1>6, <1>7 DEF Next

\* A job that wrote to the index is left with Save, or for another one.
LEMMA SavedAtEnd ==
    ASSUME TypeOK, Worker, ~cancel, worker.pc \in Busy, worker'.pc \notin Busy
    PROVE  saved' = index'
<1> USE DEF Busy
<1>1. worker \in WorkerState
  BY DEF TypeOK
<1>2. ~BeginRebuild /\ ~JoinScans /\ ~SwapIndex
  BY <1>1 DEF BeginRebuild, JoinScans, SwapIndex, Goto, WorkerState
<1>3. ~ApplyPath /\ ~PathApplied
  BY <1>1 DEF ApplyPath, PathApplied, WorkerState
<1>4. ~StopLocks /\ ~StopUnlocks
  BY <1>1 DEF StopLocks, StopUnlocks, Goto, WorkerState
<1>5. ASSUME NEW r \in Root
      PROVE  ~ScanPath(r) /\ ~PurgePath(r) /\ ~StopWatcher(r)
  BY <1>1 DEF ScanPath, PurgePath, StopWatcher, WorkerState
<1>6. \/ SaveRebuild \/ SavePaths \/ SaveRemoval
  BY <1>2, <1>3, <1>4, <1>5
  DEF Worker, StartWatcher, AllStarted, Signal, CheckCancel
<1> QED
  BY <1>6 DEF SaveRebuild, SavePaths, SaveRemoval

LEMMA SavedStep ==
    ASSUME TypeOK, ThreadsInv, WatchersInv, UnwatchedInv, [Next]_vars
    PROVE  SavedInv'
<1> SUFFICES ASSUME ui'.pc # "start", ~cancel', worker'.pc \notin Busy,
                    NEW f \in File \ Served'
             PROVE  index'[f] = saved'[f]
  BY DEF SavedInv
<1>1. OwnEvents /\ LateEvents /\ Stopping /\ SavedInv /\ ~cancel
  BY CancelStays DEF UnwatchedInv
<1>2. CASE ui.pc = "start"
  <2>1. CASE StartUp
    <3>1. saved' = saved /\ ~\E pc \in Busy : StartJob(pc, {})
      BY <2>1 DEF StartUp, StartJob
    <3>2. "rebuild" \in Busy
      BY DEF Busy
    <3> QED
      BY <2>1, <3>1, <3>2, StartUpCases
  <2>2. CASE ~StartUp
    <3>1. ~UI /\ ~Worker
      BY <1>2, <2>2
      DEF UI, StartedUI, CancelLocks, CancelUnlocks, WaitForCompletion,
          Destroyed, StartWatcherUI, StopWatcherUI, ThreadsInv, Worker,
          BeginRebuild, JoinScans, SwapIndex, SaveRebuild, StartWatcher,
          AllStarted, ApplyPath, PathApplied, SavePaths, StopLocks,
          StopUnlocks, SaveRemoval, Signal, CheckCancel, ScanPath, PurgePath,
          StopWatcher
    <3>2. ~User
      BY <1>2 DEF User, Rebuild, Destroy, ChangeSettings, MayCommand
    <3> QED
      BY <1>2, <3>1, <3>2, BystanderSteps DEF Next
  <2> QED
    BY <2>1, <2>2
<1>3. CASE ui.pc # "start" /\ worker.pc \in Busy
  <2>1. Worker
    BY <1>3, WorkerMoves DEF Busy
  <2> QED
    BY <1>1, <1>3, <2>1, SavedAtEnd
<1>4. CASE ui.pc # "start" /\ worker.pc \notin Busy
  <2>1. \A r \in Root : ~watcher[r].stop
    BY <1>1, <1>4 DEF Stopping, Busy
  <2>2. f \in File \ Served
    <3>1. \A r \in Root : Watched(r) => Watched(r)'
      BY <2>1, WatchedStays
    <3>2. timedOut \subseteq timedOut'
      BY TimedOutGrows
    <3> QED
      BY <3>1, <3>2 DEF Served, FilesUnder
  <2>3. index[f] = saved[f]
    BY <1>1, <1>4, <2>2 DEF SavedInv
  <2> QED
    BY <1>1, <1>4, <2>2, <2>3, UnservedStep
<1> QED
  BY <1>2, <1>3, <1>4

LEMMA NextUnwatched ==
    JobsInv /\ UnwatchedInv /\ [Next]_vars => UnwatchedInv'
<1> SUFFICES ASSUME JobsInv, UnwatchedInv, [Next]_vars
             PROVE  UnwatchedInv'
  OBVIOUS
<1>1. TypeOK /\ ThreadsInv /\ WatchersInv
  BY DEF JobsInv
<1>2. OwnEvents'
  <2>1. ASSUME NEW q \in Root
        PROVE  EventsTouched(watcher'[q], Under[q])
    <3>1. q \in Thread /\ q \notin Late /\ EventsTouched(watcher[q], Under[q])
      BY IndexerAssumption DEF UnwatchedInv, OwnEvents, IndexerAssumption
    <3> QED
      BY <1>1, <3>1, EventsStep
  <2> QED
    BY <2>1 DEF OwnEvents
<1>3. LateEvents'
  <2> DEFINE files == FilesUnder(timedOut')
  <2>1. FilesUnder(timedOut) \subseteq files
    BY TimedOutGrows DEF FilesUnder
  <2>2. ASSUME NEW t \in Late
        PROVE  EventsTouched(watcher'[t], files)
    <3>1. EventsTouched(watcher[t], files)
      BY <2>1 DEF UnwatchedInv, LateEvents, EventsTouched
    <3>2. ASSUME NEW r \in Root, StopTimesOut(r)
          PROVE  EventsTouched(watcher[r], files)
      <4>1. Under[r] \subseteq files
        BY <3>2 DEF StopTimesOut, FilesUnder
      <4> QED
        BY <4>1 DEF UnwatchedInv, OwnEvents, EventsTouched
    <3> HIDE DEF files
    <3> QED
      BY <1>1, <3>1, <3>2, EventsStep
  <2> QED
    BY <2>2 DEF LateEvents
<1>4. (cancel \/ Stopping)'
  BY <1>1, CancelStays, StoppingStep DEF UnwatchedInv
<1>5. SavedInv'
  BY <1>1, SavedStep
<1> QED
  BY <1>2, <1>3, <1>4, <1>5 DEF UnwatchedInv

\* Whatever jobs and events there were, and whichever Stop ran out of time: a
\* file below no root that is watched, or was when a Stop gave up on its
\* thread, has as many entries in memory as in winindex.idx while no job runs.
\* RemovePathsThread saves after it has stopped the watchers of the roots that
\* go, so what they did to the index last is saved, too.
THEOREM UnwatchedAreSaved == Spec => []UnwatchedFilesAreSaved
<1>1. Init => UnwatchedInv
  BY DEF Init, UnwatchedInv, OwnEvents, LateEvents, EventsTouched, Queued,
         Stopping, SavedInv, NoWatcher
<1>2. JobsInv /\ UnwatchedInv /\ [Next]_vars => UnwatchedInv'
  BY NextUnwatched
<1>3. JobsInv /\ UnwatchedInv => UnwatchedFilesAreSaved
  BY DEF JobsInv, ThreadsInv, Closing, Busy, Idle, UnwatchedInv, SavedInv,
         Served, UnwatchedFilesAreSaved
<1> QED
  BY <1>1, <1>2, <1>3, JobsInvariant, PTL DEF Spec
=============================================================================
