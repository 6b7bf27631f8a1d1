--------------------------------- MODULE ScanJob --------------------------------
(* The memory scanner: one job, its worker thread, and the two threads that   *)
(* drive it.  A caller (the UI thread, or a script's) starts scans and sets   *)
(* their options; a script's is stopped by the UI thread meanwhile.  The      *)
(* target's memory changes, and goes away, at any time.                       *)
EXTENDS Values

CONSTANTS
    Regions,        \* the session's regions: [base, size, readable, writable]
    Memories,       \* what the target may hold to begin with
    ChunkSize,      \* bytes read at a time: a megabyte in the program
    Jobs,           \* what may be asked: [mode, value]
    Options,        \* the options the user may set: [max, writableOnly]
    MaxStarts,      \* scans started, at most
    MaxChanges      \* changes of the target, at most

Addresses == UNION {Regions[k].base .. Regions[k].base + Regions[k].size - 1 : k \in DOMAIN Regions}

Stride(snapshot, type) ==
    IF snapshot /\ ValueTypeSize(type) > 0 THEN ValueTypeSize(type) ELSE 1

(* Regions come in the order of their addresses, and a chunk is a whole       *)
(* number of values of any size.                                              *)
ScanAssumption ==
    /\ ChunkSize \in Nat \ {0}
    /\ Regions \in Seq([base : Nat, size : Nat, readable : BOOLEAN, writable : BOOLEAN])
    /\ \A k, l \in DOMAIN Regions : k < l => Regions[k].base + Regions[k].size <= Regions[l].base
    /\ Memories \subseteq [Addresses -> Byte]
    /\ Options \subseteq [max : Nat, writableOnly : BOOLEAN]
    /\ \A job \in Jobs :
          job.value.bytes \in Seq(Byte) /\ ChunkSize % Stride(TRUE, job.value.type) = 0

VARIABLES
    memory, mapped,             \* the target
    options,                    \* options_: [max, writableOnly]
    cancel, truncated, running, \* the job's atomics
    results, status,            \* guarded by its mutex
    worker,                     \* [pc, job, at, offset, i, buffer, previous, found]
    caller,                     \* the thread that starts: [pc, job, previous]
    stopper,                    \* the thread that stops the script: "idle", "join", "stopped"
    starts, changes,            \* bounds
    asked, touched              \* history: the options, and what changed since the scan began

inProcess == <<memory, mapped, changes>>
history == <<asked, touched>>
shared == <<options, cancel, truncated, running, results, status>>
scanVars == <<inProcess, history, shared, worker, caller, stopper, starts>>

NoJob == [mode |-> "unknown", value |-> [bytes |-> <<>>]]
Gone == [pc |-> "gone", job |-> NoJob, at |-> 1, offset |-> 0, i |-> 0,
         buffer |-> <<>>, previous |-> <<>>, found |-> <<>>]
Resting == [pc |-> "idle", job |-> NoJob, previous |-> <<>>]

ScanInit ==
    /\ memory \in Memories /\ mapped = Addresses
    /\ options \in Options
    /\ cancel = FALSE /\ truncated = FALSE /\ running = FALSE
    /\ results = <<>> /\ status = "none"
    /\ worker = Gone /\ caller = Resting /\ stopper = "idle"
    /\ starts = 0 /\ changes = 0
    /\ asked = options /\ touched = {}

(* The target writes, or unmaps.                                              *)
Disturb(a) ==
    /\ changes < MaxChanges /\ changes' = changes + 1
    /\ touched' = touched \cup {a}
    /\ \/ mapped' = mapped \ {a} /\ UNCHANGED memory
       \/ \E b \in Byte : memory' = [memory EXCEPT ![a] = b] /\ UNCHANGED mapped
    /\ UNCHANGED <<asked, shared, worker, caller, stopper, starts>>

(* readBytes: as far as the first byte that cannot be read, which is no       *)
(* error unless it is the first.                                              *)
Extent(map, a, n) ==
    CHOOSE k \in 0 .. n : /\ \A i \in 0 .. k - 1 : a + i \in map
                          /\ k < n => a + k \notin map
BytesAt(mem, a, n) == [i \in 1 .. n |-> mem[a + i - 1]]
ReadBytes(a, n) == BytesAt(memory, a, Extent(mapped, a, n))

--------------------------------------------------------------------------------
(* The threads that drive it.                                                 *)

(* Whatever it is for, a call begins with cancel(): the flag, then the join.  *)
BeginStart(job, previous) ==
    /\ caller.pc = "idle" /\ starts < MaxStarts /\ starts' = starts + 1
    /\ cancel' = TRUE
    /\ caller' = [pc |-> IF previous = <<>> THEN "first" ELSE "next", job |-> job,
                   previous |-> previous]
    /\ UNCHANGED <<inProcess, history, options, truncated, running, results, status, worker, stopper>>

FirstScan == \E job \in Jobs : BeginStart(job, <<>>)

(* The results are copied before the scan under way is cancelled; nothing is  *)
(* started on none.                                                           *)
NextScan == results # <<>> /\ \E job \in Jobs : BeginStart(job, results)

Start ==
    /\ caller.pc \in {"first", "next"} /\ worker.pc = "gone"
    /\ cancel' = FALSE /\ truncated' = FALSE /\ running' = TRUE
    /\ results' = <<>> /\ status' = "starting"
    /\ worker' = [Gone EXCEPT !.pc = caller.pc, !.job = caller.job, !.previous = caller.previous]
    /\ caller' = Resting
    /\ asked' = options /\ touched' = {}
    /\ UNCHANGED <<inProcess, options, stopper, starts>>

(* setOptions, and the Cancel button, are the same call with nothing or the   *)
(* options after it.                                                          *)
BeginCancel ==
    /\ caller.pc = "idle"
    /\ cancel' = TRUE /\ caller' = [Resting EXCEPT !.pc = "cancel"]
    /\ UNCHANGED <<inProcess, history, options, truncated, running, results, status, worker, stopper, starts>>

SetOptions ==
    /\ caller.pc = "cancel" /\ worker.pc = "gone"
    /\ caller' = Resting
    /\ options' \in Options
    /\ UNCHANGED <<inProcess, history, cancel, truncated, running, results, status, worker, stopper, starts>>

(* LuaConsole::cancel, from the UI thread, while the script may be anywhere.  *)
StopScript ==
    /\ stopper = "idle" /\ stopper' = "join" /\ cancel' = TRUE
    /\ UNCHANGED <<inProcess, history, options, truncated, running, results, status, worker, caller, starts>>

ScriptStopped ==
    /\ stopper = "join" /\ worker.pc = "gone"
    /\ stopper' = "stopped"
    /\ UNCHANGED <<inProcess, history, shared, worker, caller, starts>>

--------------------------------------------------------------------------------
(* The worker: a first scan.                                                  *)

value == worker.job.value
Width == Len(value.bytes)
Snapshot == ModeNeedsBaseline(worker.job.mode) \/ worker.job.mode = "unknown"

EligibleRegion(r, opts) == r.readable /\ r.size > 0 /\ (opts.writableOnly => r.writable)

RejectEmpty ==
    /\ worker.pc = "first" /\ Width = 0
    /\ status' = "nothing" /\ running' = FALSE
    /\ worker' = Gone
    /\ UNCHANGED <<inProcess, history, options, cancel, truncated, results, caller, stopper, starts>>

Region == Regions[worker.at]
InRegion == worker.at <= Len(Regions) /\ EligibleRegion(Region, options) /\ worker.offset < Region.size
LessOf(a, b) == IF a <= b THEN a ELSE b
ChunkSpan == LessOf(ChunkSize, Region.size - worker.offset)

(* Read past the chunk, for a value that straddles its end...                 *)
ExactRead == ChunkSpan                       \* mutant: chunk by chunk
ReadSize == LessOf(ChunkSpan + Width - 1, Region.size - worker.offset)

SkipRegion ==
    /\ worker.pc = "first" /\ Width > 0 /\ ~cancel
    /\ worker.at <= Len(Regions) /\ ~InRegion
    /\ worker' = [worker EXCEPT !.at = @ + 1, !.offset = 0]
    /\ UNCHANGED <<inProcess, history, shared, caller, stopper, starts>>

ReadChunk ==
    /\ worker.pc = "first" /\ Width > 0 /\ ~cancel /\ InRegion
    /\ LET bytes == ReadBytes(Region.base + worker.offset, ReadSize) IN
       worker' = IF Len(bytes) < Width
                 THEN [worker EXCEPT !.offset = @ + ChunkSize]
                 ELSE [worker EXCEPT !.pc = "chunk", !.buffer = bytes]
    /\ UNCHANGED <<inProcess, history, shared, caller, stopper, starts>>

(* ... but only what starts inside it is emitted.                             *)
Limit == LessOf(ChunkSpan, Len(worker.buffer) - Width + 1)
InPlace == SubSeq(worker.buffer, worker.i + 1, worker.i + Width)
Matches == Snapshot \/ FirstScanMatches(worker.job.mode, value, InPlace)
FoundHere == [address |-> Region.base + worker.offset + worker.i,
              previous |-> InPlace, current |-> InPlace, first |-> InPlace]

CompareOne ==
    /\ worker.pc = "chunk" /\ worker.i < Limit /\ ~cancel
    /\ worker' = [worker EXCEPT !.i = @ + Stride(Snapshot, value.type),
                                !.found = IF Matches THEN Append(@, FoundHere) ELSE @]
    /\ UNCHANGED <<inProcess, history, shared, caller, stopper, starts>>

FirstOf(s, n) == SubSeq(s, 1, LessOf(Len(s), n))
HitsLimit(n) == n >= options.max
EmitBatch ==
    /\ worker.pc = "chunk" /\ (cancel \/ worker.i >= Limit)
    /\ LET all == results \o worker.found IN
       /\ results' = FirstOf(all, options.max)
       /\ truncated' = (truncated \/ (worker.found # <<>> /\ HitsLimit(Len(all))))
    /\ worker' = [worker EXCEPT !.pc = IF truncated' THEN "end" ELSE "first",
                                !.offset = @ + ChunkSize, !.i = 0, !.buffer = <<>>, !.found = <<>>]
    /\ UNCHANGED <<inProcess, history, options, cancel, running, status, caller, stopper, starts>>

FinishFirst ==
    /\ \/ worker.pc = "end"
       \/ worker.pc = "first" /\ Width > 0 /\ (cancel \/ worker.at > Len(Regions))
    /\ status' = IF cancel THEN "cancelled" ELSE IF truncated THEN "limit" ELSE "complete"
    /\ worker' = [worker EXCEPT !.pc = "leave"]
    /\ UNCHANGED <<inProcess, history, options, cancel, truncated, running, results, caller, stopper, starts>>

Leave ==
    /\ worker.pc = "leave"
    /\ running' = FALSE
    /\ worker' = [worker EXCEPT !.pc = "gone"]
    /\ UNCHANGED <<inProcess, history, options, cancel, truncated, results, status, caller, stopper, starts>>

--------------------------------------------------------------------------------
(* The worker: a next scan.  What cannot be read is passed over before        *)
(* anything is compared or counted.                                           *)

Candidate == worker.previous[worker.at]
(* A mode with no value has no width for text or a pattern: the candidate's.  *)
WidthOf(c) == IF Width # 0 THEN Width ELSE Len(c.current)

WasRead(c) == WidthOf(c) > 0 /\ Len(ReadBytes(c.address, WidthOf(c))) = WidthOf(c)
Survives(c) ==
    /\ WasRead(c)
    /\ CompareValues(worker.job.mode, value, ReadBytes(c.address, WidthOf(c)), c.current, c.first)

Kept(c) == [address |-> c.address, previous |-> c.current,
            current |-> ReadBytes(c.address, WidthOf(c)), first |-> c.first]

FilterOne ==
    /\ worker.pc = "next" /\ worker.at <= Len(worker.previous) /\ ~cancel
    /\ LET found == IF Survives(Candidate) THEN Append(worker.found, Kept(Candidate)) ELSE worker.found
           full == WasRead(Candidate) /\ HitsLimit(Len(found)) IN
       worker' = [worker EXCEPT !.found = found, !.at = @ + 1, !.pc = IF full THEN "install" ELSE "next"]
    /\ UNCHANGED <<inProcess, history, shared, caller, stopper, starts>>

Outcome(c) == IF c THEN worker.previous ELSE worker.found

InstallResults ==
    /\ \/ worker.pc = "install"
       \/ worker.pc = "next" /\ (cancel \/ worker.at > Len(worker.previous))
    /\ results' = Outcome(cancel)
    /\ status' = IF cancel THEN "kept" ELSE "filtered"
    /\ worker' = [worker EXCEPT !.pc = "leave"]
    /\ UNCHANGED <<inProcess, history, options, cancel, truncated, running, caller, stopper, starts>>

--------------------------------------------------------------------------------
Worker ==
    \/ RejectEmpty \/ SkipRegion \/ ReadChunk \/ CompareOne \/ EmitBatch \/ FinishFirst
    \/ FilterOne \/ InstallResults \/ Leave
Caller == FirstScan \/ NextScan \/ Start \/ BeginCancel \/ SetOptions
Stopper == StopScript \/ ScriptStopped
ScanNext == Worker \/ Caller \/ Stopper \/ \E a \in Addresses : Disturb(a)

ScanSpec == ScanInit /\ [][ScanNext]_scanVars /\ WF_scanVars(Worker)

--------------------------------------------------------------------------------
(* Properties                                                                 *)

Settled == ~running /\ caller.pc = "idle"
WholeRegion(r) == \A a \in r.base .. r.base + r.size - 1 : a \in mapped \ touched

(* Every place of a region that a first scan should find, where the region    *)
(* did not change under it.                                                   *)
Expected(r) ==
    {a \in r.base .. r.base + r.size - Width :
        IF Snapshot THEN (a - r.base) % Stride(TRUE, value.type) = 0
        ELSE FirstScanMatches(worker.job.mode, value, BytesAt(memory, a, Width))}

(* A scan that says it is complete has found every place there was to find,   *)
(* across the chunks' edges too, once and in order; one that hit its limit    *)
(* says that it is truncated.                                                 *)
InOrder(s) == \A i, j \in DOMAIN s : i < j => s[i].address < s[j].address

FirstComplete ==
    Settled /\ status \in {"complete", "limit"} =>
        /\ InOrder(results)
        /\ Len(results) <= asked.max
        /\ \A k \in DOMAIN Regions :
              EligibleRegion(Regions[k], asked) /\ WholeRegion(Regions[k]) /\ ~truncated =>
                 Expected(Regions[k]) \subseteq {results[i].address : i \in DOMAIN results}

(* A next scan keeps, of the candidates it has been through and that did not  *)
(* change under it, exactly those the mode asks for, each with the value of   *)
(* the first scan; it has been through all of them unless it holds as many as *)
(* it may.  Stopped by the user it gives all of them back.                    *)
Fresh(c) == \A a \in c.address .. c.address + WidthOf(c) - 1 : a \in mapped \ touched
Holds(s, c) == \E i \in DOMAIN s : s[i].address = c.address /\ s[i].first = c.first

Examined(c) == \E k \in DOMAIN worker.previous : k < worker.at /\ worker.previous[k] = c

NextComplete ==
    /\ Settled /\ status = "kept" => results = worker.previous
    /\ Settled /\ status = "filtered" =>
          /\ \A c \in ToSet(worker.previous) :
                Examined(c) /\ Fresh(c) => (Survives(c) <=> Holds(results, c))
          /\ Len(results) < asked.max => \A c \in ToSet(worker.previous) : Examined(c)

(* A first scan reports what is in memory, all of it unless it says that it   *)
(* is truncated; a next scan all of it unless its results are as many as the  *)
(* limit allows, and one that is cancelled leaves them as they were           *)
(* (MemoryScanner.cpp).                                                       *)
ResultsHonest == FirstComplete /\ NextComplete

(* What MemoryScanner.h says of `truncated`, that it is set when the limit    *)
(* stopped the scan early, of a next scan too: one that ends and does not say *)
(* so has lost none of the candidates that it was to keep.  It is violated:   *)
(* scanNext breaks at the limit, sets no flag and calls itself complete.      *)
LimitAdmitted ==
    Settled /\ status = "filtered" /\ ~truncated =>
        \A c \in ToSet(worker.previous) : Fresh(c) /\ Survives(c) => Holds(results, c)
================================================================================
