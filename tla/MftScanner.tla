----------------------------- MODULE MftScanner -----------------------------
(***************************************************************************)
(* MftScanner::ScanVolume (src/core/indexer): one pass over the records of *)
(* the master file table, in the order of their numbers, that notes the    *)
(* parent each has when it is read, and a second one that resolves the     *)
(* path of each file from the parents noted.  Nothing makes these agree:   *)
(* the table changes while it is read.                                     *)
(***************************************************************************)
EXTENDS ScannedVolume, FiniteSetsExt

CONSTANT FrnOrders    \* the orders the records may have

ASSUME MftAssumption ==
    \A order \in FrnOrders : order \in Seq(Node) /\ Range(order) = Node

VARIABLES
    frnOrder,     \* the one they have
    pass,         \* which of the two is under way: "read" or "emit"
    med,          \* the position of med.StartFileReferenceNumber in frnOrder
    entries,      \* the parent noted for each record
    toEmit        \* the files the second loop has before it

mft == <<frnOrder, pass, med, entries, toEmit>>

NoEntries == <<>>

MftInit ==
    /\ frnOrder = <<>>
    /\ pass = "read"
    /\ med = 1
    /\ entries = NoEntries
    /\ toEmit = {}

MftEnd ==
    /\ frnOrder' = <<>>
    /\ pass' = "read"
    /\ med' = 1
    /\ entries' = NoEntries
    /\ toEmit' = {}

MftStart ==
    /\ frnOrder' \in FrnOrders
    /\ UNCHANGED <<pass, med, entries, toEmit>>

WholeTableRead == med > Len(frnOrder)

\* One record is read; that of something deleted is not there.
ReadRecord ==
    /\ pass = "read" /\ ~cancel /\ ~WholeTableRead
    /\ LET x == frnOrder[med]
       IN  entries' = IF parent[x] = Gone THEN entries
                      ELSE [n \in DOMAIN entries \cup {x} |->
                              IF n = x THEN parent[x] ELSE entries[n]]
    /\ med' = med + 1
    /\ UNCHANGED <<frnOrder, pass, toEmit, collected>>

\* Mutant: directories are emitted as well.
EndReadingAll ==
    /\ pass = "read"
    /\ pass' = "emit"
    /\ toEmit' = DOMAIN entries
    /\ UNCHANGED <<frnOrder, med, entries, collected>>

\* The last record is read, the token seen, or DeviceIoControl fails.
EndReading ==
    /\ pass = "read"
    /\ pass' = "emit"
    /\ toEmit' = DOMAIN entries \cap Files
    /\ UNCHANGED <<frnOrder, med, entries, collected>>

Records == Cardinality(Node)

\* The record frn, and those above it as far as parents were noted.
Line(frn) ==
    LET line[i \in 0..Records] ==
            IF i = 0 THEN frn
            ELSE IF line[i - 1] \in DOMAIN entries THEN entries[line[i - 1]]
            ELSE line[i - 1]
    IN  line

\* The parents noted form a cycle above frn: resolvePath would call itself
\* until the stack is full.
Endless(frn) == Line(frn)[Records] \in DOMAIN entries

\* resolvePath: a parent that was not read stands for the root.
ResolvePath(frn) ==
    LET line  == Line(frn)
        depth == CHOOSE d \in 0..Records :
                    /\ line[d] \notin DOMAIN entries
                    /\ \A i \in 0..d - 1 : line[i] \in DOMAIN entries
    IN  scan.root \o [i \in 1..depth |-> line[depth - i]]

\* The second loop: one more file.
Emit(x) ==
    /\ pass = "emit" /\ ~cancel /\ x \in toEmit
    /\ ~Endless(entries[x])
    /\ toEmit' = toEmit \ {x}
    /\ LET full == Append(ResolvePath(entries[x]), x)
       IN  IF IsExcluded(full, scan.excludedPaths) THEN UNCHANGED collected
           ELSE OnFile(x, full)
    /\ UNCHANGED <<frnOrder, pass, med, entries>>

StackOverflows ==
    pass = "emit" /\ ~cancel /\ \E x \in toEmit : Endless(entries[x])

MftEnded == pass = "emit" /\ (cancel \/ toEmit = {})

MftStep == ReadRecord \/ EndReading \/ \E x \in Node : Emit(x)
=============================================================================
