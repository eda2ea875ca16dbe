--------------------------- MODULE ManifestLedger ---------------------------
(***************************************************************************)
(* The append-only manifest ledger of one session                          *)
(* (crp/core/manifest_ledger.py): a JSON-lines file, the list of entries   *)
(* each process keeps of it in memory, and the chain of hashes.            *)
(*                                                                         *)
(* record() runs under a lock of its process: it loads the file when the   *)
(* process has no list yet, chains a new entry to the last one, appends it *)
(* to the list and then to the file.  Other processes (or a second ledger  *)
(* object) may use the same file.  The write may fail, wholly or in the    *)
(* middle of a line, and a process may die at any point.                   *)
(*                                                                         *)
(* An entry's hash is its number: hashes cover the time of recording and   *)
(* are taken to be unique.  Keys do not change and rows without a hash     *)
(* (CRP 2.2) do not occur.                                                 *)
(***************************************************************************)
EXTENDS Integers, Sequences

CONSTANTS
    Process,        \* the ledger objects that share the file
    MaxEntries,     \* bound: entries made
    LedgerFaults    \* what may go wrong: "write", "torn", "crash"

ASSUME LedgerAssumption ==
    /\ MaxEntries \in Nat
    /\ LedgerFaults \subseteq {"write", "torn", "crash"}

Number == 1 .. MaxEntries
Genesis == 0
Entry == [id : Number, prev : Number \cup {Genesis}]
NoEntry == [id |-> 0, prev |-> 0]

(* A line that cannot be read back: a write that broke off, together with  *)
(* whatever was appended to it.                                            *)
Torn == [id |-> 0, prev |-> -1]

VARIABLES
    file,       \* the lines of the session's file
    cache,      \* per process: its list of entries
    loaded,     \* the processes that have a list
    writing,    \* per process: the entry a thread in record() has yet to write
    made,       \* entries made so far
    returned,   \* entries whose record() returned (history)
    raised,     \* entries whose record() raised after chaining them (history)
    writers,    \* processes that ever wrote (history)
    toForward   \* per process: entries recorded, not yet handed to the sinks

ledgerVars == <<file, cache, loaded, writing, made, returned, raised, writers,
                toForward>>

Ids(s) == {s[i].id : i \in DOMAIN s}
IsTorn(f) == \E i \in DOMAIN f : f[i] = Torn

LedgerTypeOK ==
    /\ file \in Seq(Entry \cup {Torn})
    /\ cache \in [Process -> Seq(Entry)]
    /\ loaded \subseteq Process
    /\ writing \in [Process -> Entry \cup {NoEntry}]
    /\ made \in 0 .. MaxEntries
    /\ returned \subseteq 1 .. made
    /\ raised \subseteq 1 .. made
    /\ writers \subseteq Process
    /\ toForward \in [Process -> SUBSET returned]

LedgerInit ==
    /\ file = <<>>
    /\ cache = [p \in Process |-> <<>>]
    /\ loaded = {}
    /\ writing = [p \in Process |-> NoEntry]
    /\ made = 0
    /\ returned = {}
    /\ raised = {}
    /\ writers = {}
    /\ toForward = [p \in Process |-> {}]

-----------------------------------------------------------------------------
(* The process's lock is free. *)
Unlocked(p) == writing[p] = NoEntry

(* _load_entries(): a corrupt line or a second genesis entry raises. *)
Readable(f) ==
    /\ ~IsTorn(f)
    /\ \A i, j \in DOMAIN f : f[i].prev = Genesis /\ f[j].prev = Genesis => i = j

(* What the process chains to: its list, or the file if it has none. *)
Mut_Known(p) == cache[p]

Known(p) == IF p \in loaded THEN cache[p] ELSE file

LastId(s) == IF s = <<>> THEN Genesis ELSE s[Len(s)].id

(* record(), up to the write. *)
Chain(p) ==
    /\ Unlocked(p)
    /\ made < MaxEntries
    /\ p \in loaded \/ Readable(file)
    /\ made' = made + 1
    /\ LET entry == [id |-> made + 1, prev |-> LastId(Known(p))]
       IN  /\ cache' = [cache EXCEPT ![p] = Append(Known(p), entry)]
           /\ writing' = [writing EXCEPT ![p] = entry]
    /\ loaded' = loaded \cup {p}
    /\ UNCHANGED <<file, returned, raised, writers, toForward>>

(* A line appended to one that broke off becomes part of it. *)
Extended(f, line) ==
    IF f # <<>> /\ f[Len(f)] = Torn THEN f ELSE Append(f, line)

Write(p) ==
    /\ ~Unlocked(p)
    /\ file' = Extended(file, writing[p])
    /\ writing' = [writing EXCEPT ![p] = NoEntry]
    /\ returned' = returned \cup {writing[p].id}
    /\ toForward' = [toForward EXCEPT ![p] = @ \cup {writing[p].id}]
    /\ writers' = writers \cup {p}
    /\ UNCHANGED <<cache, loaded, made, raised>>

(* mkdir(), open() or write() raises: the caller gets the error, the entry *)
(* stays in the process's list.                                            *)
WriteFails(p) ==
    /\ ~Unlocked(p)
    /\ \/ "write" \in LedgerFaults /\ UNCHANGED file
       \/ "torn" \in LedgerFaults /\ file' = Extended(file, Torn)
    /\ writing' = [writing EXCEPT ![p] = NoEntry]
    /\ raised' = raised \cup {writing[p].id}
    /\ UNCHANGED <<cache, loaded, made, returned, writers, toForward>>

(* load(), history() and latest(): the list, read once. *)
Load(p) ==
    /\ Unlocked(p)
    /\ p \notin loaded
    /\ Readable(file)
    /\ cache' = [cache EXCEPT ![p] = file]
    /\ loaded' = loaded \cup {p}
    /\ UNCHANGED <<file, writing, made, returned, raised, writers, toForward>>

ClearCache(p) ==
    /\ Unlocked(p)
    /\ p \in loaded
    /\ cache' = [cache EXCEPT ![p] = <<>>]
    /\ loaded' = loaded \ {p}
    /\ UNCHANGED <<file, writing, made, returned, raised, writers, toForward>>

(* The process dies, perhaps in the middle of a line, and starts again. *)
Crash(p) ==
    /\ "crash" \in LedgerFaults
    /\ p \in loaded \/ toForward[p] # {}
    /\ \/ UNCHANGED file
       \/ /\ "torn" \in LedgerFaults /\ ~Unlocked(p)
          /\ file' = Extended(file, Torn)
    /\ cache' = [cache EXCEPT ![p] = <<>>]
    /\ loaded' = loaded \ {p}
    /\ writing' = [writing EXCEPT ![p] = NoEntry]
    /\ toForward' = [toForward EXCEPT ![p] = {}]
    /\ UNCHANGED <<made, returned, raised, writers>>

(* Outside the lock, the thread hands its entry to the sinks. *)
Forward(p, n) ==
    /\ n \in toForward[p]
    /\ toForward' = [toForward EXCEPT ![p] = @ \ {n}]
    /\ UNCHANGED <<file, cache, loaded, writing, made, returned, raised,
                   writers>>

LedgerStep(p) ==
    Chain(p) \/ Write(p) \/ WriteFails(p) \/ Load(p) \/ ClearCache(p)

LedgerNext ==
    \E p \in Process : \/ LedgerStep(p) \/ Crash(p)
                       \/ \E n \in toForward[p] : Forward(p, n)

LedgerSpec == LedgerInit /\ [][LedgerNext]_ledgerVars

-----------------------------------------------------------------------------
(* Properties. *)

(* verify_chain() compares every entry but the first with its predecessor, *)
(* in what load() returns: the process's own list, or else the file.       *)
Mut_Broken(s) == {i \in 2 .. Len(s) : s[i].prev = Genesis}

Broken(s) == {i \in 2 .. Len(s) : s[i].prev # s[i - 1].id}

Verifies(p) ==
    /\ Unlocked(p)
    /\ p \in loaded \/ Readable(file)
    /\ Broken(Known(p)) = {}

(* "a routine restart silently appends a second genesis entry and forks    *)
(* the chain" (manifest_ledger.py:263) is what must not happen: while only *)
(* one process writes and no write fails, the file is one unbroken chain   *)
(* from the genesis entry on, whatever restarts and cache clearing come    *)
(* between.                                                                *)
RestartsKeepChain ==
    (\E p \in Process : writers \subseteq {p}) /\ raised = {} /\ ~IsTorn(file) =>
        /\ Broken(file) = {}
        /\ file # <<>> => file[1].prev = Genesis

(* No two entries claim the same predecessor, none but the first misses it.*)
Unforked(f) ==
    \A i, j \in DOMAIN f :
        /\ f[i].prev = f[j].prev => i = j
        /\ i > 1 => f[i].prev \in Ids(f)

(* "An empty list means the ledger is intact" (verify_chain): when it finds*)
(* nothing wrong the file is not forked and lacks nothing, even when       *)
(* processes that knew nothing of each other wrote to it and writes failed,*)
(* except that a process with a list of its own does not see what is       *)
(* wrong with lines that came from others, or that broke off, since it     *)
(* read the file, nor that an entry of its own never got there.            *)
OnlyListsHideForks ==
    \A p \in Process : Verifies(p) /\ ~Unforked(file) =>
        /\ p \in loaded
        /\ \/ Ids(file) \ Ids(cache[p]) # {}
           \/ Ids(cache[p]) \cap raised # {}

(* What record() returned is in the file for good, unless a line broke off:*)
(* then it may have become part of that line, and the file is unreadable.  *)
ReturnedIsDurable == ~IsTorn(file) => returned \subseteq Ids(file)
=============================================================================
