------------------------------ MODULE Settings ------------------------------
(***************************************************************************)
(* Settings (src/core/settings), the dialogs that change them, and the     *)
(* .ini file they are kept in, where Save writes one key after the other   *)
(* and the program may end between two of them.                            *)
(*                                                                         *)
(* A list of paths is stored as one string: the names of its paths, each   *)
(* path followed by a separator.  A string is a sequence of names and      *)
(* separators here, and one of these counts as one of its characters.      *)
(***************************************************************************)
EXTENDS Integers, SequencesExt

CONSTANTS
    Name,             \* of drives and folders
    Sep,              \* ';' or '|'
    BufferLimit,      \* the characters ReadString returns at most
    OptionKeys,       \* those of the search options, in the order of Save
    DefaultInterval,  \* kReindexDefaultHours
    Intervals,        \* intervals entered in the dialogs
    FixedDrives,      \* the roots of EnumerateLocalFixedDrives
    Folders,          \* folders picked in the dialogs
    DefaultExcludedPaths

ListKeys == {"SelectedDrives", "ExcludedPaths"}

\* The keys in the order in which Save writes them.
KeyOrder == <<"FirstRunComplete", "SelectedDrives", "ExcludedPaths",
              "ReindexIntervalHours">> \o OptionKeys

Key == Range(KeyOrder)

ASSUME SettingsAssumption ==
    /\ BufferLimit \in Nat
    /\ DefaultInterval \in Intervals
    /\ OptionKeys \in Seq(STRING)
    /\ Range(OptionKeys) \cap ListKeys = {}
    /\ FixedDrives \in Seq(Seq(Name))
    /\ Folders \subseteq Seq(Name)
    /\ DefaultExcludedPaths \in Seq(Seq(Name))

VARIABLES
    mem,          \* the members of Settings, by the key they are saved under
    ini,          \* the .ini file: the keys that are in it, and their values
    unsaved,      \* the keys that Save has yet to write
    expected      \* history: what the user can expect each key to hold

settings == <<mem, ini, unsaved, expected>>

Default == [k \in Key |->
    CASE k = "FirstRunComplete" -> FALSE
      [] k = "SelectedDrives" -> <<>>
      [] k = "ExcludedPaths" -> DefaultExcludedPaths
      [] k = "ReindexIntervalHours" -> DefaultInterval
      [] OTHER -> FALSE]

----------------------------------------------------------------------------
(* The file. *)

Joined(paths) ==
    LET string[n \in 0..Len(paths)] ==
            IF n = 0 THEN <<>> ELSE string[n - 1] \o Append(paths[n], Sep)
    IN  string[Len(paths)]

\* An empty token is left out.
Push(paths, token) == IF token = <<>> THEN paths ELSE Append(paths, token)

\* getline with a separator: the paths before a character and what there is of
\* the one it is in.
Split(string) ==
    LET read[n \in 0..Len(string)] ==
            IF n = 0 THEN [paths |-> <<>>, token |-> <<>>]
            ELSE LET before == read[n - 1]
                 IN  IF string[n] = Sep
                     THEN [paths |-> Push(before.paths, before.token), token |-> <<>>]
                     ELSE [before EXCEPT !.token = Append(@, string[n])]
        end == read[Len(string)]
    IN  Push(end.paths, end.token)

ReadString(string) == SubSeq(string, 1, Min({Len(string), BufferLimit}))

\* WritePrivateProfileStringW: the file with a new string for a key.
WriteString(k, string) ==
    [j \in DOMAIN ini \cup {k} |-> IF j = k THEN string ELSE ini[j]]

Written(k, value) == IF k \in ListKeys THEN Joined(value) ELSE value

\* What Load makes of the file for a key.
Loaded(k) ==
    IF k \notin DOMAIN ini \/ (k = "ExcludedPaths" /\ ini[k] = <<>>) THEN Default[k]
    ELSE IF k \in ListKeys THEN Split(ReadString(ini[k]))
    ELSE ini[k]

Load ==
    /\ mem' = [k \in Key |-> Loaded(k)]
    /\ UNCHANGED <<ini, unsaved, expected>>

\* Mutant: a list of exclusions that is in the file already is not written again.
SaveKeyButExclusions ==
    /\ unsaved # <<>>
    /\ LET k == Head(unsaved)
       IN  ini' = IF k = "ExcludedPaths" /\ k \in DOMAIN ini THEN ini
                  ELSE WriteString(k, Written(k, mem[k]))
    /\ unsaved' = Tail(unsaved)
    /\ expected' = IF unsaved' = <<>> THEN [k \in Key |-> {mem[k]}] ELSE expected
    /\ UNCHANGED mem

\* Save: the next key is written.
SaveKey ==
    /\ unsaved # <<>>
    /\ ini' = WriteString(Head(unsaved), Written(Head(unsaved), mem[Head(unsaved)]))
    /\ unsaved' = Tail(unsaved)
    /\ expected' = IF unsaved' = <<>> THEN [k \in Key |-> {mem[k]}] ELSE expected
    /\ UNCHANGED mem

----------------------------------------------------------------------------
(* The dialogs and the menu.  Each ends in a Save. *)

Confirm(values) ==
    /\ mem' = values
    /\ unsaved' = KeyOrder
    /\ expected' = [k \in Key |-> expected[k] \cup {values[k]}]
    /\ UNCHANGED ini

\* What is left of a list when some of its lines were removed.
Sublists(list) ==
    UNION {{[i \in 1..n |-> list[at[i]]] :
               at \in {f \in [1..n -> DOMAIN list] :
                          \A i, j \in 1..n : i < j => f[i] < f[j]}} :
           n \in 0..Len(list)}

\* And when one was added, perhaps.
Edited(list, added) ==
    Sublists(list) \cup {Append(kept, p) : kept \in Sublists(list), p \in added}

\* FirstRunDialog: drives are chosen from the fixed ones.
FirstRunOk ==
    \E drives \in Sublists(FixedDrives), interval \in Intervals,
       excluded \in Edited(mem["ExcludedPaths"], Folders) :
        Confirm([mem EXCEPT !["FirstRunComplete"] = TRUE,
                            !["SelectedDrives"] = drives,
                            !["ExcludedPaths"] = excluded,
                            !["ReindexIntervalHours"] = interval])

\* SettingsDialog: a location that is in its list is not added again.
SettingsOk ==
    LET drives == mem["SelectedDrives"]
        locations == (Range(FixedDrives) \cup Folders) \ Range(drives)
    IN  \E paths \in Edited(drives, locations), interval \in Intervals,
           excluded \in Edited(mem["ExcludedPaths"], Folders) :
            Confirm([mem EXCEPT !["SelectedDrives"] = paths,
                                !["ExcludedPaths"] = excluded,
                                !["ReindexIntervalHours"] = interval])

ToggleOption ==
    \E o \in Range(OptionKeys) : Confirm([mem EXCEPT ![o] = ~@])

SettingsInit ==
    /\ mem = Default
    /\ ini = <<>>
    /\ unsaved = <<>>
    /\ expected = [k \in Key |-> {Default[k]}]

----------------------------------------------------------------------------

\* The file holds for each key what the user confirmed last or, if the program
\* ended during Save, before; a key that was never written has its default
\* among these.  Settings.cpp:71: one key is written after the other, and a
\* crash may leave any number of them unwritten.
FileHoldsConfirmed ==
    \A k \in Key :
        IF k \in DOMAIN ini THEN \E value \in expected[k] : ini[k] = Written(k, value)
        ELSE Default[k] \in expected[k]

\* A value the file can hold: a list is as long as the buffer at most, its
\* paths have no separator in them, and that of exclusions is not empty.
ReadsBack(k, value) ==
    k \in ListKeys =>
        /\ Len(Joined(value)) <= BufferLimit
        /\ \A p \in Range(value) : p # <<>> /\ Sep \notin Range(p)
        /\ k = "ExcludedPaths" => value # <<>>
=============================================================================
