--------------------------- MODULE ChangeWatcher ---------------------------
(***************************************************************************)
(* ChangeWatcher (src/core/indexer): a thread that asks the kernel for the *)
(* changes below one root with overlapped ReadDirectoryChangesW calls, and *)
(* hands each of them to a callback, until Stop.                           *)
(*                                                                         *)
(* The kernel is modelled from how RunWatch uses it.  From the first call  *)
(* on it collects changes for the handle, also between two calls, in a     *)
(* buffer of the size passed.  If that runs over it forgets what it holds, *)
(* and what comes until the next call, which then completes with no bytes. *)
(*                                                                         *)
(* A change is known by its number.  What the callback does is modelled    *)
(* just enough to see whether it could keep up: it maintains a copy of the *)
(* set of names below the root.                                            *)
(***************************************************************************)
EXTENDS Integers, SequencesExt

CONSTANTS
    Name,         \* names of files below the root
    BufSize,      \* changes that fit into the 64 KB buffer
    MaxChanges    \* bound: changes

ASSUME WatcherAssumption == BufSize \in Nat \ {0} /\ MaxChanges \in Nat

VARIABLES
    names,        \* the names there are
    number,       \* the number of the last change
    missed,       \* history: the changes the kernel did not collect
    armed,        \* ReadDirectoryChangesW was called on the handle
    kbuf,         \* the changes the kernel has collected
    overflow,     \* it has forgotten some
    pending,      \* a call is in flight
    result,       \* what signalled ov.hEvent: "none", "data", "empty", "error"
    dir,          \* m_hDir: "invalid", "open", or "lost" with its volume
    pc,           \* where RunWatch is
    buf,          \* its buffer: what the last call with data left in it
    at,           \* the position of info in it
    delivered,    \* history: the numbers of the changes the callback was given
    copy,         \* the callback's copy of names
    stop,         \* m_stop
    hStop,        \* m_hStop is set
    owner         \* the thread that calls Stop

kernel == <<names, number, missed, armed, kbuf, overflow, pending, result, dir>>
thread == <<pc, buf, at, delivered, copy>>
control == <<stop, hStop, owner>>

vars == <<kernel, thread, control>>

\* The file system calls that cause it, and its FILE_ACTION_... in the buffer.
Action == {"ADDED", "REMOVED", "MODIFIED", "RENAMED_OLD_NAME",
           "RENAMED_NEW_NAME"}

Record == [n : Nat, action : Action, name : Name]

\* Start: the directory is opened, or is not, and the thread is created.
Init ==
    /\ names \in SUBSET Name
    /\ number = 0
    /\ missed = {}
    /\ armed = FALSE
    /\ kbuf = <<>>
    /\ overflow = FALSE
    /\ pending = FALSE
    /\ result = "none"
    /\ dir \in {"open", "invalid"}
    /\ pc = "begin"
    /\ buf = <<>>
    /\ at = 1
    /\ delivered = <<>>
    /\ copy = names
    /\ stop = FALSE
    /\ hStop = FALSE
    /\ owner = "running"

----------------------------------------------------------------------------
(* The kernel and other programs. *)

Numbers(records) == {records[i].n : i \in 1..Len(records)}

\* The k-th change from now on.
Change(k, action, x) == [n |-> number + k, action |-> action, name |-> x]

Happen(newNames, records) ==
    LET collects == armed /\ dir = "open" /\ ~overflow
        fits == Len(kbuf) + Len(records) <= BufSize
    IN  /\ number + Len(records) <= MaxChanges
        /\ names' = newNames
        /\ number' = number + Len(records)
        /\ kbuf' = IF ~collects THEN kbuf
                   ELSE IF fits THEN kbuf \o records ELSE <<>>
        /\ overflow' = (overflow \/ (collects /\ ~fits))
        /\ missed' = IF collects /\ fits THEN missed
                     ELSE missed \cup Numbers(records) \cup
                          (IF collects THEN Numbers(kbuf) ELSE {})
        /\ UNCHANGED <<armed, pending, result, dir>>

FileSystem ==
    /\ \E x \in Name :
          \/ x \notin names /\ Happen(names \cup {x}, <<Change(1, "ADDED", x)>>)
          \/ x \in names /\ Happen(names \ {x}, <<Change(1, "REMOVED", x)>>)
          \/ x \in names /\ Happen(names, <<Change(1, "MODIFIED", x)>>)
          \/ \E y \in Name \ names :
                /\ x \in names
                /\ Happen((names \ {x}) \cup {y},
                          <<Change(1, "RENAMED_OLD_NAME", x),
                            Change(2, "RENAMED_NEW_NAME", y)>>)
    /\ UNCHANGED <<thread, control>>

\* A call in flight completes with some of the changes, or with the overflow;
\* after the end of RunWatch into memory that is no longer its buffer.
Complete ==
    /\ pending
    /\ dir = "open"
    /\ pending' = FALSE
    /\ \/ /\ ~overflow
          /\ \E i \in 1..Len(kbuf) :
                /\ buf' = IF pc = "gone" THEN buf ELSE SubSeq(kbuf, 1, i)
                /\ kbuf' = SubSeq(kbuf, i + 1, Len(kbuf))
          /\ result' = "data"
          /\ UNCHANGED overflow
       \/ /\ overflow
          /\ overflow' = FALSE
          /\ result' = "empty"
          /\ UNCHANGED <<buf, kbuf>>
    /\ UNCHANGED <<names, number, missed, armed, dir, pc, at, delivered, copy,
                   control>>

\* The volume goes away: a call in flight fails, later ones do not start.
LoseVolume ==
    /\ dir = "open"
    /\ dir' = "lost"
    /\ pending' = FALSE
    /\ result' = IF pending THEN "error" ELSE result
    /\ missed' = missed \cup Numbers(kbuf)
    /\ kbuf' = <<>>
    /\ UNCHANGED <<names, number, armed, overflow, thread, control>>

----------------------------------------------------------------------------
(* WatchThread and RunWatch. *)

Begin ==
    /\ pc = "begin"
    /\ pc' = IF dir = "invalid" THEN "gone" ELSE "loop"
    /\ UNCHANGED <<kernel, buf, at, delivered, copy>>

\* The loop condition, ResetEvent and ReadDirectoryChangesW, whose result is
\* not looked at.
Ask ==
    /\ pc = "loop"
    /\ IF stop
       THEN pc' = "gone" /\ UNCHANGED kernel
       ELSE /\ pc' = "wait"
            /\ armed' = TRUE
            /\ pending' = (dir = "open")
            /\ result' = "none"
            /\ UNCHANGED <<names, number, missed, kbuf, overflow, dir>>
    /\ UNCHANGED <<buf, at, delivered, copy>>

\* Mutants: zero bytes are not checked for; the stop event is not waited for.
WakeAnyway ==
    /\ pc = "wait"
    /\ \/ result \in {"data", "empty"} /\ pc' = IF buf = <<>> THEN "loop" ELSE "batch"
       \/ result = "error" /\ pc' = "gone"
       \/ result = "none" /\ hStop /\ pc' = "gone"
    /\ at' = 1
    /\ UNCHANGED <<kernel, buf, delivered, copy>>

WakeForChange ==
    /\ pc = "wait"
    /\ \/ result = "data" /\ pc' = "batch"
       \/ result = "empty" /\ pc' = "loop"
       \/ result = "error" /\ pc' = "gone"
    /\ at' = 1
    /\ UNCHANGED <<kernel, buf, delivered, copy>>

\* Mutant: an overflow ends the loop.
WakeOrQuit ==
    /\ pc = "wait"
    /\ \/ result = "data" /\ pc' = "batch"
       \/ result \in {"empty", "error"} /\ pc' = "gone"
       \/ result = "none" /\ hStop /\ pc' = "gone"
    /\ at' = 1
    /\ UNCHANGED <<kernel, buf, delivered, copy>>

\* WaitForMultipleObjects reports ov.hEvent if both are set.  No bytes: some
\* changes were missed, and the loop goes on.
Wake ==
    /\ pc = "wait"
    /\ \/ result = "data" /\ pc' = "batch"
       \/ result = "empty" /\ pc' = "loop"
       \/ result = "error" /\ pc' = "gone"
       \/ result = "none" /\ hStop /\ pc' = "gone"
    /\ at' = 1
    /\ UNCHANGED <<kernel, buf, delivered, copy>>

\* Mutant: both names of a rename are modifications.
EventTypeNoRename(action) ==
    CASE action = "ADDED"   -> "Added"
      [] action = "REMOVED" -> "Removed"
      [] OTHER              -> "Modified"

\* A rename is reported as the removal of one name and the addition of another.
EventType(action) ==
    CASE action \in {"ADDED", "RENAMED_NEW_NAME"}   -> "Added"
      [] action \in {"REMOVED", "RENAMED_OLD_NAME"} -> "Removed"
      [] OTHER                                      -> "Modified"

\* Mutant: NextEntryOffset is not compared with 0.
DeliverPastEnd ==
    /\ pc = "batch"
    /\ delivered' = Append(delivered, buf[at].n)
    /\ at' = at + 1
    /\ UNCHANGED <<kernel, buf, copy, pc>>

\* The inner loop: one call of onChange, then the next record, if any.
Deliver ==
    /\ pc = "batch"
    /\ delivered' = Append(delivered, buf[at].n)
    /\ copy' = IF EventType(buf[at].action) = "Removed"
               THEN copy \ {buf[at].name} ELSE copy \cup {buf[at].name}
    /\ at' = at + 1
    /\ pc' = IF at = Len(buf) THEN "loop" ELSE "batch"
    /\ UNCHANGED <<kernel, buf>>

RunWatch == (Begin \/ Ask \/ Wake \/ Deliver) /\ UNCHANGED control

----------------------------------------------------------------------------
(* Stop. *)

StopRequest ==
    /\ owner = "running"
    /\ owner' = "setting"
    /\ stop' = TRUE
    /\ UNCHANGED <<kernel, thread, hStop>>

StopSignal ==
    /\ owner = "setting"
    /\ owner' = "joining"
    /\ hStop' = TRUE
    /\ UNCHANGED <<kernel, thread, stop>>

StopJoined ==
    /\ owner = "joining"
    /\ pc = "gone"
    /\ owner' = "stopped"
    /\ UNCHANGED <<kernel, thread, stop, hStop>>

\* The callback is kept waiting, by a long search for instance, for more than
\* five seconds: Stop closes the handles and returns.
StopTimesOut ==
    /\ owner = "joining"
    /\ pc = "batch"
    /\ owner' = "stopped"
    /\ UNCHANGED <<kernel, thread, stop, hStop>>

Stop == StopSignal \/ StopJoined

Next == FileSystem \/ Complete \/ LoseVolume \/ RunWatch \/ StopRequest \/ Stop
        \/ StopTimesOut
        \/ (owner = "stopped" /\ pc = "gone" /\ UNCHANGED vars)

\* The kernel completes calls and no callback runs for ever.
Spec == Init /\ [][Next]_vars
FairSpec == Spec /\ WF_vars(RunWatch) /\ WF_vars(Complete) /\ WF_vars(Stop)

----------------------------------------------------------------------------
TypeOK ==
    /\ names \subseteq Name
    /\ number \in 0..MaxChanges
    /\ missed \subseteq 1..number
    /\ armed \in BOOLEAN
    /\ kbuf \in Seq(Record) /\ Len(kbuf) <= BufSize
    /\ overflow \in BOOLEAN
    /\ pending \in BOOLEAN
    /\ result \in {"none", "data", "empty", "error"}
    /\ dir \in {"invalid", "open", "lost"}
    /\ pc \in {"begin", "loop", "wait", "batch", "gone"}
    /\ buf \in Seq(Record)
    /\ at \in Nat \ {0}
    /\ pc = "batch" => at <= Len(buf)
    /\ delivered \in Seq(1..number)
    /\ copy \subseteq Name
    /\ stop \in BOOLEAN
    /\ hStop \in BOOLEAN
    /\ owner \in {"running", "setting", "joining", "stopped"}

\* What the thread has still to hand over.
Undelivered ==
    LET taken == CASE pc = "batch"                    -> SubSeq(buf, at, Len(buf))
                   [] pc = "wait" /\ result = "data" -> buf
                   [] OTHER                           -> <<>>
        held == taken \o kbuf
    IN  [i \in 1..Len(held) |-> held[i].n]

\* The callback gets each change once and in the order in which it happened;
\* a change that it neither got nor is about to get was missed by the kernel.
\* In particular a call that completed with no bytes does not make the thread
\* walk through what an earlier one left in the buffer.
EveryChangeOnceInOrder ==
    LET all == delivered \o Undelivered
    IN  /\ \A i, j \in 1..Len(all) : i < j => all[i] < all[j]
        /\ pc # "gone" => (1..number) \ missed \subseteq ToSet(all)

\* As long as nothing was missed, a client that only follows the events has
\* the right names as soon as it was given all of them, renames included.
EventsSuffice ==
    pc # "gone" /\ missed = {} /\ Undelivered = <<>> => copy = names

\* Unless the directory is lost or the watcher stopped, a change that was
\* collected is handed over, however many overflows there are.
CollectedIsDelivered ==
    \A i \in 1..MaxChanges :
        i <= number /\ i \notin missed ~>
            i \in ToSet(delivered) \/ i \in missed \/ stop \/ dir # "open"

\* Stop returns even if the call in flight never completes.
StopReturns == stop ~> owner = "stopped"
=============================================================================
