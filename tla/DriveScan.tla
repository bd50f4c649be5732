----------------------------- MODULE DriveScan -----------------------------
(***************************************************************************)
(* The settings and the scan made with them.  The window's thread loads    *)
(* the settings, shows the dialogs, saves, and asks the indexer for a job; *)
(* the worker takes a copy of the settings and has Indexer::ScanDriveInto  *)
(* scan a root with the scanner that suits it, while other programs change *)
(* the volume.  The process can end at any point and be started again.     *)
(*                                                                         *)
(* A job's roots are scanned independently: one of them is followed here.  *)
(* What becomes of the files collected is Indexer's part.                  *)
(***************************************************************************)
EXTENDS Settings, FindFileScanner, MftScanner

CONSTANTS
    NTFS,            \* the volume's file system is
    MaxUses,         \* bound: starts of the program, uses of dialogs and menu
    MaxScanUses      \* bound: those before a scan

ASSUME ScanAssumption ==
    /\ NTFS \in BOOLEAN
    /\ {MaxUses, MaxScanUses} \subseteq Nat

VARIABLES
    ui,           \* where the window's thread is
    worker,       \* and the indexer's
    job,          \* the roots the worker was given: AllDrives, or added ones
    afterSave,    \* the job the window's thread asks for after Save
    uses          \* starts, and uses of the dialogs and the menu

vars == <<settings, volume, touched, scan, cancel, collected, findFile, mft,
          ui, worker, job, afterSave, uses>>

\* A job is the set of the roots to scan; that of StartIndexing finds them out.
AllDrives == {<<>>}
NoJob == {}

IsIndexing == worker # "none"

NoScan == [root |-> <<Drive>>, excludedPaths |-> <<>>, scanner |-> "findFile"]

Init ==
    /\ SettingsInit
    /\ parent = Layout
    /\ moves = 0
    /\ touched = {}
    /\ scan = NoScan
    /\ cancel = FALSE
    /\ collected = EmptyBag
    /\ dirQueue = <<>>
    /\ listing = NoListing
    /\ MftInit
    /\ ui = "off"
    /\ worker = "none"
    /\ job = NoJob
    /\ afterSave = NoJob
    /\ uses = 0

----------------------------------------------------------------------------
(* The window's thread. *)

NoAsk == UNCHANGED <<worker, job, cancel>>

\* The indexer is asked for a job, and does nothing if it is busy with one.
Ask(what) ==
    IF what = NoJob \/ IsIndexing \/ uses > MaxScanUses THEN NoAsk
    ELSE worker' = "asked" /\ job' = what /\ cancel' = FALSE

noScanStep == <<volume, touched, scan, collected, findFile, mft>>

\* OnCreate.  An index that can be loaded is not built anew, not even after the
\* set-up dialog.
Launch ==
    /\ ui = "off" /\ uses < MaxUses
    /\ uses' = uses + 1
    /\ Load
    /\ IF mem'["FirstRunComplete"]
       THEN ui' = "idle" /\ \E what \in {AllDrives, NoJob} : Ask(what)
       ELSE ui' = "firstRun" /\ NoAsk
    /\ UNCHANGED <<noScanStep, afterSave>>

FirstRunDialogOk ==
    /\ ui = "firstRun" /\ uses < MaxUses
    /\ FirstRunOk
    /\ ui' = "saving"
    /\ afterSave' \in {AllDrives, NoJob}
    /\ uses' = uses + 1
    /\ NoAsk /\ UNCHANGED noScanStep

FirstRunDialogCancel ==
    /\ ui = "firstRun"
    /\ ui' = "idle"
    /\ \E what \in {AllDrives, NoJob} : Ask(what)
    /\ UNCHANGED <<settings, noScanStep, afterSave, uses>>

\* Bound: not during a scan, which has its copy of the settings.
MayConfirm == ui = "idle" /\ worker = "none" /\ uses < MaxUses

\* ID_INDEX_SETTINGS: roots that were added are indexed after Save, all of
\* them if there are removed ones too.
SettingsDialogOk ==
    /\ MayConfirm
    /\ SettingsOk
    /\ LET new == Range(mem'["SelectedDrives"])
           old == Range(mem["SelectedDrives"])
       IN  afterSave' = CASE new \subseteq old -> NoJob
                          [] old \subseteq new -> new \ old
                          [] OTHER -> AllDrives
    /\ ui' = "saving"
    /\ uses' = uses + 1
    /\ NoAsk /\ UNCHANGED noScanStep

OptionToggled ==
    /\ MayConfirm
    /\ ToggleOption
    /\ ui' = "saving"
    /\ afterSave' = NoJob
    /\ uses' = uses + 1
    /\ NoAsk /\ UNCHANGED noScanStep

Save ==
    /\ ui = "saving"
    /\ SaveKey
    /\ IF unsaved' = <<>>
       THEN ui' = "idle" /\ Ask(afterSave) /\ afterSave' = NoJob
       ELSE UNCHANGED <<ui, afterSave>> /\ NoAsk
    /\ UNCHANGED <<noScanStep, uses>>

\* ID_INDEX_REBUILD
Rebuild ==
    /\ MayConfirm
    /\ Ask(AllDrives)
    /\ uses' = uses + 1
    /\ UNCHANGED <<settings, noScanStep, ui, afterSave>>

\* OnDestroy cancels the scan and waits for its end.
Close ==
    /\ ui = "idle"
    /\ ui' = "closing"
    /\ cancel' = TRUE
    /\ UNCHANGED <<settings, noScanStep, worker, job, afterSave, uses>>

\* The locals of the scan are destroyed.  Bound: when the next one starts the
\* volume is as it was.
EndScan ==
    /\ worker' = "none"
    /\ job' = NoJob
    /\ scan' = NoScan
    /\ touched' = {}
    /\ collected' = EmptyBag
    /\ dirQueue' = <<>> /\ listing' = NoListing
    /\ MftEnd
    /\ parent' = Layout /\ moves' = 0

\* The files are all that remains of the process.
Off ==
    /\ ui' = "off"
    /\ mem' = Default
    /\ unsaved' = <<>>
    /\ afterSave' = NoJob
    /\ cancel' = FALSE
    /\ EndScan
    /\ UNCHANGED <<ini, expected, uses>>

Closed == ui = "closing" /\ ~IsIndexing /\ Off

\* The process is killed, or the machine goes down.
Crash == ui # "off" /\ Off

----------------------------------------------------------------------------
(* The worker. *)

noUiStep == <<settings, ui, uses, afterSave>>

\* IndexingThread or IndexPathsThread takes its copy of the settings.
\* ScanDriveInto chooses the scanner: GetFilesystem fails for the path of a
\* folder, and the MFT can be read if the process is elevated.
StartScan ==
    /\ worker = "asked"
    /\ LET selected == mem["SelectedDrives"]
           roots == IF job # AllDrives THEN job
                    ELSE Range(IF selected = <<>> THEN FixedDrives ELSE selected)
       IN  \E root \in roots, scanner \in {"findFile", "mft"} :
            /\ scanner = "mft" => NTFS /\ root = <<Drive>>
            /\ scan' = [root |-> root, excludedPaths |-> mem["ExcludedPaths"],
                        scanner |-> scanner]
            /\ IF scanner = "mft" THEN MftStart /\ UNCHANGED findFile
               ELSE FindFileStart(root) /\ UNCHANGED mft
    /\ worker' = "scanning"
    /\ touched' = {}
    /\ collected' = EmptyBag
    /\ UNCHANGED <<noUiStep, volume, cancel, job>>

FindFile ==
    /\ worker = "scanning" /\ scan.scanner = "findFile"
    /\ IF FindFileEnded
       THEN worker' = "done" /\ UNCHANGED <<findFile, collected>>
       ELSE FindFileStep /\ UNCHANGED worker
    /\ UNCHANGED <<noUiStep, volume, touched, scan, cancel, mft, job>>

Mft ==
    /\ worker = "scanning" /\ scan.scanner = "mft"
    /\ IF MftEnded
       THEN worker' = "done" /\ UNCHANGED <<mft, collected>>
       ELSE MftStep /\ UNCHANGED worker
    /\ UNCHANGED <<noUiStep, volume, touched, scan, cancel, findFile, job>>

\* The files go to the index, and the job is over.
HandOver ==
    /\ worker = "done"
    /\ EndScan
    /\ UNCHANGED <<noUiStep, cancel>>

\* resolvePath meets a cycle.
MftOverflow ==
    /\ worker = "scanning" /\ scan.scanner = "mft"
    /\ StackOverflows
    /\ Off

----------------------------------------------------------------------------
(* Other programs. *)

\* Bound: while a scan is under way, the only time the volume is looked at.
OthersMove ==
    /\ worker = "scanning"
    /\ \E x \in Node : \E to \in MayMove[x] :
        Relocate(x, to) /\ DuringListing(x, to)
    /\ UNCHANGED <<noUiStep, scan, cancel, collected, dirQueue, mft, worker, job>>

UI == \/ Launch \/ FirstRunDialogOk \/ FirstRunDialogCancel
      \/ SettingsDialogOk \/ OptionToggled \/ Save \/ Rebuild \/ Close \/ Closed

Worker == StartScan \/ FindFile \/ Mft \/ HandOver \/ MftOverflow

Next == UI \/ Worker \/ Crash \/ OthersMove

Spec == Init /\ [][Next]_vars

\* The worker's thread keeps running.
FairSpec == Spec /\ WF_vars(Worker)

----------------------------------------------------------------------------
(* Properties. *)

TypeOK ==
    /\ DOMAIN mem = Key /\ DOMAIN ini \subseteq Key /\ DOMAIN expected = Key
    /\ \A k \in Key : expected[k] # {}
    /\ parent \in [Node -> Container \cup {Gone}]
    /\ touched \subseteq Node
    /\ \A e \in DOMAIN collected : e.file \in Files /\ Head(e.path) = Drive
    /\ listing.must \cup listing.may \subseteq Node
    /\ DOMAIN entries \subseteq Node /\ toEmit \subseteq Files
    /\ worker \in {"none", "asked", "scanning", "done"}
    /\ ui \in {"off", "firstRun", "saving", "idle", "closing"}
    /\ ui = "off" => worker = "none"

\* FindFileScanner reaches x: no folder on its path from the root of the scan
\* is refused, and neither it nor one of them is a reparse point.
Walkable(x) ==
    LET path == PathOf(x)
    IN  /\ x \notin Reparse
        /\ \A i \in Len(scan.root)..Len(path) - 1 : CanList(SubSeq(path, 1, i))

\* The scan should find x.
Due(x) ==
    /\ IsPrefix(scan.root, PathOf(x))
    /\ ~\E p \in Range(scan.excludedPaths) : IsPrefix(p, PathOf(x))
    /\ scan.scanner = "findFile" => Walkable(x)

\* Nothing kept the scan from looking at the whole volume.
Complete ==
    /\ worker = "done" /\ ~cancel
    /\ scan.scanner = "mft" => WholeTableRead

\* Whatever other programs move meanwhile, what they leave alone is collected
\* once, under its path, and nothing of it that is excluded.
\* IFileSystemScanner.h:31, 47 and FindFileScanner.cpp:41, MftScanner.cpp:48.
UntouchedFilesCollectedOnce ==
    Complete =>
        \A x \in Files \ touched :
            LET found == {e \in DOMAIN collected : e.file = x}
                due   == [file |-> x, path |-> PathOf(x)]
            IN  IF Due(x) THEN found = {due} /\ collected[due] = 1
                ELSE found = {}

\* What the user last confirmed is what the program has when it is started
\* again; after a crash during Save a key may still be as it was before.
\* Settings.cpp:30, 71.
SettingsSurvive ==
    ui # "off" =>
        \A k \in Key :
            (\A value \in expected[k] : ReadsBack(k, value)) => mem[k] \in expected[k]

\* A scan ends, if only with the process, however the volume changes.
\* FindFileScanner.cpp:48, MftScanner.cpp:78, 122.
ScanEnds == IsIndexing ~> ~IsIndexing
=============================================================================
