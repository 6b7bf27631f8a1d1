------------------------------ MODULE MemoryProofs ------------------------------
(* Proofs about the memory of the target: writes that change the protection   *)
(* of their pages, for any pages, protections and failures; and the scanner,  *)
(* for any regions, memory, jobs, options and chunk size, however the target  *)
(* changes under a scan and whoever cancels it; and the dissector, for any    *)
(* layouts, instances and sizes of object.                                    *)
EXTENDS MemoryWrites, ScanJob, Structures, Lemmas

(* Writes: MemoryWrites                                                       *)

(* What is left of a sequence without its last element.                       *)
LEMMA Beginning ==
    ASSUME NEW S, NEW s, NEW n \in Nat, \A i \in 1..n : s[i] \in S
    PROVE  /\ SubSeq(s, 1, n) \in Seq(S) /\ Len(SubSeq(s, 1, n)) = n
           /\ \A i \in 1..n : SubSeq(s, 1, n)[i] = s[i]
OBVIOUS

LEMMA ButLast ==
    ASSUME NEW S, NEW s \in Seq(S), s # << >>
    PROVE  /\ SubSeq(s, 1, Len(s) - 1) \in Seq(S) /\ Len(SubSeq(s, 1, Len(s) - 1)) = Len(s) - 1
           /\ \A i \in 1..(Len(s) - 1) : SubSeq(s, 1, Len(s) - 1)[i] = s[i]
<1>1. Len(s) - 1 \in Nat /\ \A i \in 1..(Len(s) - 1) : s[i] \in S
  OBVIOUS
<1>2. ASSUME NEW n \in Nat, n = Len(s) - 1
      PROVE  /\ SubSeq(s, 1, n) \in Seq(S) /\ Len(SubSeq(s, 1, n)) = n
             /\ \A i \in 1..n : SubSeq(s, 1, n)[i] = s[i]
  BY <1>1, <1>2, Beginning
<1> QED
  BY <1>1, <1>2, Zenon

Saved == [page : Pages, old : Protections]

WriteTyped ==
    /\ protection \in [Pages -> Protections] /\ before \in [Pages -> Protections]
    /\ write = [pc |-> write.pc, first |-> write.first, last |-> write.last,
                at |-> write.at, saved |-> write.saved]
    /\ write.pc \in {"idle", "try", "protect", "write", "restore"}
    /\ write.saved \in Seq(Saved) /\ warned \subseteq Pages

(* The pages changed so far are saved once each with what they had when the   *)
(* write began, from the first one up; all others are as they were, but for   *)
(* those that could not be put back.                                          *)
Outside(p) == IF p \in warned THEN "rwx" ELSE before[p]
SavedInOrder ==
    /\ write.pc # "idle" => write.first \in Pages /\ write.last \in Pages
    /\ write.pc \in {"idle", "try"} => write.saved = << >>
    /\ write.pc \in {"try", "protect", "write"} => warned = {}
    /\ write.pc = "protect" => write.at = write.first + Len(write.saved)
         /\ write.at \in write.first..write.last
    /\ \A i \in 1..Len(write.saved) :
         /\ write.saved[i].page = write.first + i - 1
         /\ write.saved[i].old = before[write.saved[i].page]
         /\ protection[write.saved[i].page] = "rwx" /\ write.saved[i].page \notin warned
    /\ \A p \in Pages : (\A i \in 1..Len(write.saved) : write.saved[i].page # p)
         => protection[p] = Outside(p)

WriteInv == WriteTyped /\ SavedInOrder

LEMMA NothingSaved ==
    ASSUME WriteInv, write.saved = << >>
    PROVE  \A p \in Pages : protection[p] = Outside(p)
BY DEF WriteInv, SavedInOrder

LEMMA WriteInitially == WriteInit => WriteInv
BY DEF WriteInit, WriteInv, WriteTyped, SavedInOrder, Outside, Idle

LEMMA BeginKeeps ==
    ASSUME WriteAssumption, WriteInv, NEW first \in Pages, NEW last \in Pages,
           BeginWrite(first, last)
    PROVE  WriteInv'
<1>1. /\ write' = [pc |-> "try", first |-> first, last |-> last, at |-> 0, saved |-> << >>]
      /\ protection' = protection /\ before' = protection /\ warned' = {}
  BY DEF BeginWrite, Idle
<1> QED
  BY <1>1 DEF WriteInv, WriteTyped, SavedInOrder, Outside

(* Back to idle, with nothing saved and the pages as they are.                *)
LEMMA IdleKeeps ==
    ASSUME WriteInv, write.saved = << >>, write' = Idle, UNCHANGED <<protection, before, warned>>
    PROVE  WriteInv'
<1>1. \A p \in Pages : protection[p] = Outside(p)
  BY NothingSaved
<1>2. write' = [pc |-> "idle", first |-> 0, last |-> 0, at |-> 0, saved |-> << >>]
  BY DEF Idle
<1> QED
  BY <1>1, <1>2 DEF WriteInv, WriteTyped, SavedInOrder, Outside

LEMMA TryKeeps ==
    ASSUME WriteAssumption, WriteInv, TryWrite
    PROVE  WriteInv'
<1>1. write.pc = "try" /\ write.saved = << >> /\ UNCHANGED <<protection, before, warned>>
  BY DEF TryWrite, WriteInv, SavedInOrder
<1>2. CASE Reachable = Span
  BY <1>1, <1>2, IdleKeeps DEF TryWrite, Finish
<1>3. CASE Reachable # Span
  <2>1. write' = [pc |-> "protect", first |-> write.first, last |-> write.last,
                  at |-> write.first, saved |-> << >>]
    BY <1>1, <1>3 DEF TryWrite, WriteInv, WriteTyped
  <2>2. Span # {}
    BY <1>3 DEF Reachable
  <2>3. write.first \in Int /\ write.last \in Int
    BY <1>1 DEF WriteInv, SavedInOrder, WriteAssumption
  <2>4. write.first <= write.last
    BY <2>2, <2>3 DEF Span
  <2> QED
    BY <1>1, <2>1, <2>3, <2>4 DEF WriteInv, WriteTyped, SavedInOrder, Outside
<1> QED
  BY <1>2, <1>3

LEMMA ProtectKeeps ==
    ASSUME WriteAssumption, WriteInv, ProtectPage
    PROVE  WriteInv'
<1> DEFINE page == write.at
           entry == [page |-> page, old |-> protection[page]]
           n == Len(write.saved)
           longer == Append(write.saved, entry)
<1>1. /\ write.pc = "protect" /\ before' = before /\ warned' = warned /\ warned = {}
      /\ protection' = [protection EXCEPT ![page] = "rwx"]
      /\ write' = [pc |-> IF page = write.last THEN "write" ELSE "protect", first |-> write.first,
                   last |-> write.last, at |-> page + 1, saved |-> longer]
  BY DEF ProtectPage, OldProtection, WriteInv, WriteTyped, SavedInOrder
<1>2. /\ n \in Nat /\ write.first \in Int /\ write.last \in Int
      /\ write.first \in Pages /\ write.last \in Pages
      /\ page = write.first + n /\ page \in write.first..write.last
  BY <1>1 DEF WriteInv, WriteTyped, SavedInOrder, WriteAssumption
<1>3. page \in Pages
  BY <1>2 DEF WriteAssumption
<1>4. \A i \in 1..n : write.saved[i].page # page
  BY <1>2 DEF WriteInv, SavedInOrder
<1>5. protection[page] = before[page] /\ entry \in Saved
  BY <1>1, <1>3, <1>4 DEF WriteInv, WriteTyped, SavedInOrder, Saved, Outside
<1>6. /\ longer \in Seq(Saved) /\ Len(longer) = n + 1
      /\ longer[n + 1] = entry /\ \A i \in 1..n : longer[i] = write.saved[i]
  BY <1>2, <1>5 DEF WriteInv, WriteTyped
<1>7. WriteTyped'
  BY <1>1, <1>6 DEF WriteInv, WriteTyped, WriteAssumption
<1>8. \A i \in 1..Len(longer) : longer[i].page = write.first + i - 1
        /\ longer[i].old = before[longer[i].page]
        /\ protection'[longer[i].page] = "rwx" /\ longer[i].page \notin warned
  <2> SUFFICES ASSUME NEW i \in 1..(n + 1)
               PROVE  /\ longer[i].page = write.first + i - 1
                      /\ longer[i].old = before[longer[i].page]
                      /\ protection'[longer[i].page] = "rwx" /\ longer[i].page \notin warned
    BY <1>6
  <2>1. CASE i = n + 1
    BY <1>1, <1>2, <1>3, <1>5, <1>6, <2>1 DEF WriteInv, WriteTyped
  <2>2. CASE i \in 1..n
    <3>1. /\ longer[i] = write.saved[i] /\ write.saved[i].page = write.first + i - 1
          /\ write.saved[i].old = before[write.saved[i].page]
          /\ protection[write.saved[i].page] = "rwx"
      BY <1>6, <2>2 DEF WriteInv, SavedInOrder
    <3>2. write.saved[i] \in Saved
      BY <2>2 DEF WriteInv, WriteTyped
    <3> QED
      BY <1>1, <1>3, <3>1, <3>2 DEF WriteInv, WriteTyped, Saved
  <2> QED
    BY <1>2, <2>1, <2>2
<1>9. ASSUME NEW p \in Pages, \A i \in 1..Len(longer) : longer[i].page # p
      PROVE  protection'[p] = Outside(p)
  <2>1. p # page /\ \A i \in 1..n : write.saved[i].page # p
    BY <1>2, <1>6, <1>9
  <2> QED
    BY <1>1, <2>1 DEF WriteInv, WriteTyped, SavedInOrder
<1>10. page # write.last => page + 1 = write.first + Len(longer)
         /\ page + 1 \in write.first..write.last
  <2>1. ASSUME NEW k \in Nat, NEW a \in Int, NEW b \in Int, NEW at \in a..b, at = a + k, at # b
        PROVE  at + 1 = a + (k + 1) /\ at + 1 \in a..b
    BY <2>1
  <2> HIDE DEF n, longer, page
  <2> QED
    BY <1>2, <1>6, <2>1
<1>11. /\ write'.saved = longer /\ write'.first = write.first /\ write'.last = write.last
       /\ write'.pc \in {"write", "protect"} /\ write'.at = page + 1
       /\ write'.pc = "protect" => page # write.last
  BY <1>1
<1>12. SavedInOrder'
  BY <1>1, <1>2, <1>8, <1>9, <1>10, <1>11 DEF SavedInOrder, Outside
<1> QED
  BY <1>7, <1>12 DEF WriteInv

LEMMA LaterKeeps ==
    ASSUME WriteInv, write.pc \in {"protect", "write"}, write' = [write EXCEPT !.pc = "restore"],
           UNCHANGED <<protection, before, warned>>
    PROVE  WriteInv'
<1>1. write' = [pc |-> "restore", first |-> write.first, last |-> write.last, at |-> write.at,
        saved |-> write.saved]
  BY DEF WriteInv, WriteTyped
<1> QED
  BY <1>1 DEF WriteInv, WriteTyped, SavedInOrder, Outside

LEMMA RestoreKeeps ==
    ASSUME WriteAssumption, WriteInv, Restore
    PROVE  WriteInv'
<1>1. CASE write.saved = << >>
  BY <1>1, IdleKeeps DEF Restore
<1>2. CASE write.saved # << >>
  <2> DEFINE n == Len(write.saved)
             entry == write.saved[n]
             shorter == SubSeq(write.saved, 1, n - 1)
  <2>1. /\ write.pc = "restore" /\ before' = before
        /\ \/ protection' = [protection EXCEPT ![entry.page] = entry.old] /\ warned' = warned
           \/ warned' = warned \cup {entry.page} /\ protection' = protection
        /\ write' = [pc |-> "restore", first |-> write.first, last |-> write.last,
                     at |-> write.at, saved |-> shorter]
    BY <1>2 DEF Restore, RestorePage, WriteInv, WriteTyped
  <2>2. n \in Nat /\ n > 0 /\ entry \in Saved
    BY <1>2 DEF WriteInv, WriteTyped
  <2>3. /\ shorter \in Seq(Saved) /\ Len(shorter) = n - 1
        /\ \A i \in 1..(n - 1) : shorter[i] = write.saved[i]
    BY <1>2, ButLast DEF WriteInv, WriteTyped
  <2>4. /\ entry.page \in Pages /\ entry.old = before[entry.page] /\ entry.old \in Protections
        /\ protection[entry.page] = "rwx" /\ entry.page \notin warned
        /\ entry.page = write.first + n - 1 /\ write.first \in Int
    <3>1. entry.page \in Pages /\ entry.old \in Protections
      BY <2>2 DEF Saved
    <3>2. n \in 1..Len(write.saved)
      BY <2>2
    <3>3. /\ entry.page = write.first + n - 1 /\ entry.old = before[entry.page]
          /\ protection[entry.page] = "rwx" /\ entry.page \notin warned
      BY <3>2 DEF WriteInv, SavedInOrder
    <3>4. write.first \in Int
      BY <2>1 DEF WriteInv, SavedInOrder, WriteAssumption
    <3> QED BY <3>1, <3>3, <3>4
  <2>5. WriteTyped'
    BY <2>1, <2>3, <2>4 DEF WriteInv, WriteTyped
  <2>6. ASSUME NEW p \in Pages, \A i \in 1..Len(shorter) : shorter[i].page # p
        PROVE  protection'[p] = Outside(p)'
    <3>1. CASE p = entry.page
      BY <2>1, <2>4, <3>1 DEF WriteInv, WriteTyped, Outside
    <3>2. CASE p # entry.page
      <4>1. \A i \in 1..n : write.saved[i].page # p
        BY <2>2, <2>3, <2>6, <3>2
      <4> QED
        BY <2>1, <3>2, <4>1 DEF WriteInv, WriteTyped, SavedInOrder, Outside
    <3> QED
      BY <3>1, <3>2
  <2>7. ASSUME NEW i \in 1..Len(shorter)
        PROVE  /\ shorter[i].page = write.first + i - 1
               /\ shorter[i].old = before[shorter[i].page]
               /\ protection'[shorter[i].page] = "rwx" /\ shorter[i].page \notin warned'
    <3>1. i \in 1..n /\ i # n /\ shorter[i] = write.saved[i] /\ write.saved[i] \in Saved
      BY <2>2, <2>3 DEF WriteInv, WriteTyped
    <3>2. /\ write.saved[i].page = write.first + i - 1
          /\ write.saved[i].old = before[write.saved[i].page]
          /\ protection[write.saved[i].page] = "rwx" /\ write.saved[i].page \notin warned
      BY <3>1 DEF WriteInv, SavedInOrder
    <3>3. write.saved[i].page # entry.page
      BY <2>2, <2>4, <3>1, <3>2
    <3> QED
      BY <2>1, <2>4, <3>1, <3>2, <3>3 DEF WriteInv, WriteTyped, Saved
  <2>8. SavedInOrder'
    BY <2>1, <2>2, <2>3, <2>6, <2>7 DEF WriteInv, SavedInOrder
  <2> QED
    BY <2>5, <2>8 DEF WriteInv
<1> QED
  BY <1>1, <1>2

LEMMA WriteStep ==
    ASSUME WriteAssumption
    PROVE  WriteInv /\ [WriteNext]_memoryVars => WriteInv'
<1> SUFFICES ASSUME WriteInv, [WriteNext]_memoryVars PROVE WriteInv'
  OBVIOUS
<1>1. CASE ProtectFails \/ WritePages
  BY <1>1, LaterKeeps DEF ProtectFails, WritePages
<1>2. CASE UNCHANGED memoryVars
  BY <1>2 DEF memoryVars, WriteInv, WriteTyped, SavedInOrder, Outside
<1> QED
  BY <1>1, <1>2, BeginKeeps, TryKeeps, ProtectKeeps, RestoreKeeps DEF WriteNext

(* Whatever fails on the way, a write over any number of pages, each with a   *)
(* protection of its own, leaves each of them with that, or writable and      *)
(* warned of where the call that restores it fails (Win32Platform.cpp).       *)
THEOREM WritesRestoreProtections ==
    ASSUME WriteAssumption
    PROVE  WriteSpec => []ProtectionsRestored
<1>1. WriteInv => ProtectionsRestored
  BY NothingSaved DEF WriteInv, SavedInOrder, ProtectionsRestored, Outside
<1> QED
  BY <1>1, WriteInitially, WriteStep, PTL DEF WriteSpec

--------------------------------------------------------------------------------
(* Scans: ScanJob                                                             *)

(* What the variables are.                                                    *)
MemoryStates == [Addresses -> Byte]
Mappings == SUBSET Addresses
FoundTypes == [address : Nat, previous : Seq(Byte), current : Seq(Byte), first : Seq(Byte)]
WorkerTypes == [pc : {"gone", "first", "chunk", "end", "next", "install", "leave"},
    job : Jobs \cup {NoJob},
                at : Nat \ {0}, offset : Nat, i : Nat, buffer : Seq(Byte),
                previous : Seq(FoundTypes), found : Seq(FoundTypes)]
CallerTypes == [pc : {"idle", "first", "next", "cancel"}, job : Jobs \cup {NoJob},
    previous : Seq(FoundTypes)]

ScanTyped ==
    /\ memory \in MemoryStates /\ mapped \in Mappings /\ touched \in SUBSET Addresses
    /\ options \in Options /\ asked \in Options
    /\ cancel \in BOOLEAN /\ truncated \in BOOLEAN /\ running \in BOOLEAN
    /\ results \in Seq(FoundTypes)
    /\ status \in {"none", "starting", "nothing", "cancelled", "limit", "complete", "kept",
         "filtered"}
    /\ worker \in WorkerTypes /\ caller \in CallerTypes


(* A worker works on what was asked, under the options it was asked with.     *)
AtWork ==
    /\ running = (worker.pc # "gone")
    /\ worker.pc # "gone" => asked = options /\ worker.job \in Jobs
    /\ worker.pc \in {"first", "chunk", "end", "next", "install"} => status = "starting"
    /\ caller.pc \in {"first", "next"} => caller.job \in Jobs

(* No list has an address twice.                                              *)
Distinct(s) == \A i, j \in DOMAIN s : s[i].address = s[j].address => i = j
AllDistinct == Distinct(results) /\ Distinct(worker.previous) /\ Distinct(caller.previous)

(* A first scan has behind it the regions before the one it is in, and what   *)
(* is below some offset of that.                                              *)
Scanning == worker.pc \in {"first", "chunk", "end"}
InsideRegion(a, k) == Regions[k].base <= a /\ a < Regions[k].base + Regions[k].size
Passed(k, a) == k < worker.at \/ (k = worker.at /\ a < Regions[k].base + worker.offset)
Behind(a) == \E k \in DOMAIN Regions : InsideRegion(a, k) /\ Passed(k, a)
AddressesOf(s) == {s[i].address : i \in DOMAIN s}

(* What is found is behind the scan, in order and no more than was asked for; *)
(* the batch of a chunk is from that chunk.                                   *)
OnlyBehind ==
    Scanning =>
      /\ \A a \in AddressesOf(results) : Behind(a)
      /\ InOrder(results) /\ Len(results) <= options.max
      /\ InOrder(worker.found)
      /\ \A a \in AddressesOf(worker.found) :
            /\ Region.base + worker.offset <= a /\ a < Region.base + worker.offset + worker.i
            /\ a < Region.base + worker.offset + ChunkSize
            /\ InsideRegion(a, worker.at)

(* Within a chunk: the buffer is what was in memory, as far as it could be    *)
(* read.                                                                      *)
InChunk ==
    /\ worker.pc = "chunk" =>
         /\ InRegion /\ Width > 0 /\ Width <= Len(worker.buffer) /\ Len(worker.buffer) <= ReadSize
         /\ \A j \in 1 .. Len(worker.buffer) :
              LET a == Region.base + worker.offset + j - 1 IN
              a \notin touched => worker.buffer[j] = memory[a]
         /\ Len(worker.buffer) < ReadSize
              => Region.base + worker.offset + Len(worker.buffer) \notin mapped
    /\ worker.pc # "chunk" /\ Scanning => worker.i = 0 /\ worker.found = <<>>
    /\ Scanning => /\ worker.offset % Stride(Snapshot, value.type) = 0
                   /\ worker.i % Stride(Snapshot, value.type) = 0
    /\ worker.pc = "end" => truncated

(* Whatever is expected behind it has been found, in the chunk's batch if it  *)
(* is of this chunk.                                                          *)
AllFound ==
    Scanning /\ ~cancel /\ ~truncated =>
      \A k \in DOMAIN Regions :
        EligibleRegion(Regions[k], options) /\ WholeRegion(Regions[k]) =>
          \A a \in Expected(Regions[k]) :
            /\ Passed(k, a) => a \in AddressesOf(results)
            /\ worker.pc = "chunk" /\ k = worker.at /\ Region.base + worker.offset <= a
                 /\ a < Region.base + worker.offset + worker.i => a \in AddressesOf(worker.found)

(* A next scan has looked at the candidates before one.                       *)
Filtering == worker.pc \in {"next", "install"}
Filtered ==
    Filtering =>
      /\ worker.at <= Len(worker.previous) + 1
      /\ Distinct(worker.found)
      /\ \A i \in DOMAIN worker.found : \E j \in DOMAIN worker.previous :
            j < worker.at /\ worker.found[i].address = worker.previous[j].address
      /\ \A c \in ToSet(worker.previous) :
            Examined(c) /\ Fresh(c) => (Survives(c) <=> Holds(worker.found, c))
      /\ worker.pc = "install" => Len(worker.found) >= options.max

(* When it is done, the results stand for as long as the worker does not go   *)
(* again.                                                                     *)
FirstDone ==
    status \in {"complete", "limit"} =>
        /\ InOrder(results) /\ Len(results) <= asked.max
        /\ \A k \in DOMAIN Regions :
              EligibleRegion(Regions[k], asked) /\ WholeRegion(Regions[k]) /\ ~truncated =>
                 Expected(Regions[k]) \subseteq AddressesOf(results)
NextDone ==
    /\ status = "kept" => results = worker.previous
    /\ status = "filtered" =>
          /\ \A c \in ToSet(worker.previous) :
                Examined(c) /\ Fresh(c) => (Survives(c) <=> Holds(results, c))
          /\ Len(results) < asked.max => \A c \in ToSet(worker.previous) : Examined(c)

ScanInv ==
    /\ ScanTyped /\ AtWork /\ AllDistinct
    /\ OnlyBehind /\ InChunk /\ AllFound /\ Filtered /\ FirstDone /\ NextDone

--------------------------------------------------------------------------------
(* Numbers, and what is read                                                  *)

(* What is a whole number of strides.                                         *)
LEMMA StrideFacts == ASSUME NEW snapshot, NEW type PROVE Stride(snapshot, type) \in {1, 2, 4, 8}
<1>1. ValueTypeSize(type) \in {0, 1, 2, 4, 8}
  BY DEF ValueTypeSize
<1> QED BY <1>1 DEF Stride

LEMMA Multiples ==
  ASSUME NEW s \in {1, 2, 4, 8}, NEW x \in Nat, NEW y \in Nat, x % s = 0
  PROVE  /\ (x + s) % s = 0
         /\ y % s = 0 => (x + y) % s = 0
         /\ y % s = 0 /\ x <= y /\ y < x + s => y = x
<1>1. CASE s = 1
  BY <1>1
<1>2. CASE s = 2
  BY <1>2
<1>3. CASE s = 4
  BY <1>3
<1>4. CASE s = 8
  BY <1>4
<1> QED BY <1>1, <1>2, <1>3, <1>4

(* A read is of memory, and ends early only where something is not mapped.    *)
Throughout(map, a, n) == \A i \in 0 .. n - 1 : a + i \in map

LEMMA ExtentFacts ==
  ASSUME NEW map, NEW a \in Nat, NEW n \in Nat
  PROVE  LET len == Extent(map, a, n) IN
         /\ len \in 0 .. n
         /\ Throughout(map, a, len)
         /\ len < n => a + len \notin map
<1> DEFINE T == {k \in 0 .. n : k < n => a + k \notin map}
<1>1. T \in SUBSET Nat /\ n \in T
  OBVIOUS
<1>2. PICK k \in T : \A i \in T : k <= i
  <2> HIDE DEF T
  <2> QED BY <1>1, LeastNumber
<1>3. \A i \in 0 .. k - 1 : i \notin T
  <2>1. k \in Nat
    BY <1>1
  <2> HIDE DEF T
  <2> QED BY <1>2, <2>1
<1>4. \A i \in 0 .. k - 1 : a + i \in map
  BY <1>3
<1> QED BY <1>4 DEF Extent, Throughout

LEMMA BytesTyped ==
  ASSUME NEW mem \in MemoryStates, NEW a \in Nat, NEW n \in Nat,
         Throughout(Addresses, a, n)
  PROVE  /\ BytesAt(mem, a, n) \in Seq(Byte) /\ Len(BytesAt(mem, a, n)) = n
         /\ \A j \in 1 .. n : BytesAt(mem, a, n)[j] = mem[a + j - 1]
<1>1. ASSUME NEW i \in 1 .. n PROVE mem[a + i - 1] \in Byte
  <2>1. i - 1 \in 0 .. n - 1 /\ a + i - 1 = a + (i - 1)
    OBVIOUS
  <2> QED BY <2>1 DEF Throughout, MemoryStates
<1>2. BytesAt(mem, a, n) \in [1 .. n -> Byte]
  BY <1>1 DEF BytesAt
<1> QED BY <1>2 DEF BytesAt

LEMMA ReadFacts ==
  ASSUME NEW mem \in MemoryStates, NEW map \in Mappings,
         NEW a \in Nat, NEW n \in Nat,
         NEW b, b = BytesAt(mem, a, Extent(map, a, n))
  PROVE  /\ b \in Seq(Byte) /\ Len(b) <= n
         /\ \A j \in 1 .. Len(b) : b[j] = mem[a + j - 1]
         /\ Len(b) < n => a + Len(b) \notin map
         /\ Throughout(map, a, n) => b = BytesAt(mem, a, n)
<1>1. PICK len : len = Extent(map, a, n)
  OBVIOUS
<1>2. /\ len \in 0 .. n
      /\ Throughout(map, a, len)
      /\ len < n => a + len \notin map
  BY <1>1, ExtentFacts
<1>3. /\ b \in Seq(Byte) /\ Len(b) = len
      /\ \A j \in 1 .. len : b[j] = mem[a + j - 1]
  <2>1. Throughout(Addresses, a, len)
    BY <1>2 DEF Throughout, Mappings
  <2>2. len \in Nat
    BY <1>2
  <2> QED BY <1>1, <2>1, <2>2, BytesTyped
<1>4. Throughout(map, a, n) => len = n
  BY <1>2 DEF Throughout
<1> QED BY <1>1, <1>2, <1>3, <1>4

LEMMA Reading ==
  ASSUME ScanTyped, NEW a \in Nat, NEW n \in Nat, NEW b, b = ReadBytes(a, n)
  PROVE  /\ b \in Seq(Byte) /\ Len(b) <= n
         /\ \A j \in 1 .. Len(b) : b[j] = memory[a + j - 1]
         /\ Len(b) < n => a + Len(b) \notin mapped
<1>1. memory \in MemoryStates /\ mapped \in Mappings
  BY DEF ScanTyped, WorkerTypes, CallerTypes
<1> QED BY <1>1, ReadFacts DEF ReadBytes

--------------------------------------------------------------------------------
(* What does not change under the scan                                        *)

(* A step of anything but the worker's start: memory changes at most where it *)
(* is said to.                                                                *)
Calm ==
    /\ touched \subseteq touched' /\ mapped' \subseteq mapped
    /\ \A a \in Addresses : a \notin touched' => memory'[a] = memory[a]
    /\ worker'.job = worker.job

LEMMA WidthTyped ==
  ASSUME ScanAssumption, ScanTyped
  PROVE  Width \in Nat /\ \A c \in FoundTypes : WidthOf(c) \in Nat /\ c.address \in Nat
<1>1. worker.job.value.bytes \in Seq(Byte)
  <2>1. worker.job \in Jobs \cup {NoJob}
    BY DEF ScanTyped, WorkerTypes, CallerTypes
  <2>2. ASSUME worker.job \in Jobs PROVE worker.job.value.bytes \in Seq(Byte)
    BY <2>2 DEF ScanAssumption
  <2>3. NoJob.value.bytes \in Seq(Byte)
    <3>1. NoJob.value.bytes = <<>>
      BY DEF NoJob
    <3> QED BY <3>1
  <2> QED BY <2>1, <2>2, <2>3
<1> QED BY <1>1 DEF Width, value, WidthOf, FoundTypes

LEMMA WidthSame ==
  ASSUME worker'.job = worker.job
  PROVE  /\ Width' = Width /\ value' = value /\ Snapshot' = Snapshot
         /\ \A c : WidthOf(c)' = WidthOf(c)
BY DEF Width, value, Snapshot, WidthOf

LEMMA RegionsTyped ==
  ASSUME ScanAssumption, NEW k \in DOMAIN Regions
  PROVE  Regions[k] \in [base : Nat, size : Nat, readable : BOOLEAN, writable : BOOLEAN]
<1> DEFINE RegionTypes == [base : Nat, size : Nat, readable : BOOLEAN, writable : BOOLEAN]
<1>1. Regions \in Seq(RegionTypes)
  BY DEF ScanAssumption
<1>2. Regions[k] \in RegionTypes
  <2> HIDE DEF RegionTypes
  <2> QED BY <1>1
<1> QED BY <1>2

LEMMA CalmRegions ==
  ASSUME ScanAssumption, ScanTyped, Calm, NEW k \in DOMAIN Regions, NEW r, r = Regions[k],
           WholeRegion(r)'
  PROVE  WholeRegion(r) /\ Expected(r)' = Expected(r)
<1>1. r.base \in Nat /\ r.size \in Nat
  BY RegionsTyped
<1>2. WholeRegion(r)
  BY DEF WholeRegion, Calm
<1>3. \A a \in r.base .. r.base + r.size - 1 : memory'[a] = memory[a]
  BY DEF WholeRegion, Calm, ScanTyped, WorkerTypes, CallerTypes, Mappings
<1>4. ASSUME NEW a \in r.base .. r.base + r.size - Width
      PROVE BytesAt(memory', a, Width') = BytesAt(memory, a, Width)
  <2>1. \A i \in 1 .. Width : memory'[a + i - 1] = memory[a + i - 1]
    BY <1>1, <1>3, WidthTyped
  <2> QED BY <2>1, WidthSame DEF BytesAt, Calm
<1>5. Expected(r)' = Expected(r)
  <2> DEFINE fits(a, b) == IF Snapshot THEN (a - r.base) % Stride(TRUE, value.type) = 0
                           ELSE FirstScanMatches(worker.job.mode, value, b)
             all == r.base .. r.base + r.size - Width
  <2>1. Expected(r) = {a \in all : fits(a, BytesAt(memory, a, Width))}
    BY DEF Expected
  <2>2. Expected(r)' = {a \in all : fits(a, BytesAt(memory', a, Width'))}
    BY WidthSame DEF Expected, Calm
  <2> HIDE DEF fits
  <2> QED BY <1>4, <2>1, <2>2
<1> QED BY <1>2, <1>5

LEMMA CalmCandidates ==
  ASSUME ScanAssumption, ScanTyped, Calm, memory' \in MemoryStates, NEW c \in FoundTypes, Fresh(c)'
  PROVE  Fresh(c) /\ (Survives(c)' <=> Survives(c))
<1>1. c.address \in Nat /\ WidthOf(c) \in Nat /\ WidthOf(c)' = WidthOf(c)
  BY WidthTyped, WidthSame DEF Calm
<1>2. Fresh(c)
  BY <1>1 DEF Fresh, Calm
<1>3. PICK w \in Nat : w = WidthOf(c)
  BY <1>1
<1>4. /\ Throughout(mapped', c.address, w) /\ Throughout(mapped, c.address, w)
      /\ \A i \in 0 .. w - 1 : memory'[c.address + i] = memory[c.address + i]
  <2> SUFFICES ASSUME NEW i \in 0 .. w - 1
               PROVE  LET a == c.address + i IN a \in mapped' /\ a \in mapped
                        /\ memory'[a] = memory[a]
    BY DEF Throughout
  <2>1. c.address + i \in c.address .. c.address + w - 1
    BY <1>1
  <2>2. c.address + i \in mapped' /\ c.address + i \notin touched'
    BY <2>1, <1>1, <1>3 DEF Fresh
  <2> QED BY <2>2 DEF Calm, ScanTyped, WorkerTypes, CallerTypes, Mappings
<1>5. BytesAt(memory, c.address, w)' = BytesAt(memory, c.address, w)
  <2>1. \A i \in 1 .. w : i - 1 \in 0 .. w - 1 /\ c.address + i - 1 = c.address + (i - 1)
    BY <1>1
  <2> QED BY <1>4, <2>1 DEF BytesAt
<1>6. ReadBytes(c.address, w) = BytesAt(memory, c.address, w)
  BY <1>1, <1>4, ReadFacts DEF ReadBytes, ScanTyped, WorkerTypes, CallerTypes
<1>7. ReadBytes(c.address, w)' = BytesAt(memory, c.address, w)'
  <2>1. mapped' \in Mappings
    BY DEF Calm, ScanTyped, WorkerTypes, CallerTypes, Mappings
  <2> QED BY <1>1, <1>4, <2>1, ReadFacts DEF ReadBytes
<1>8. ReadBytes(c.address, WidthOf(c))' = ReadBytes(c.address, WidthOf(c))
  BY <1>1, <1>3, <1>5, <1>6, <1>7
<1>9. Survives(c)' <=> Survives(c)
  BY <1>8, <1>1, WidthSame DEF Survives, WasRead, Calm
<1> QED BY <1>2, <1>9

LEMMA ListTypes ==
  ASSUME ScanTyped
  PROVE  /\ \A c \in ToSet(worker.previous) : c \in FoundTypes
         /\ worker.previous \in Seq(FoundTypes) /\ worker.found \in Seq(FoundTypes)
              /\ results \in Seq(FoundTypes)
<1>1. worker.previous \in Seq(FoundTypes) /\ worker.found \in Seq(FoundTypes)
        /\ results \in Seq(FoundTypes)
  BY DEF ScanTyped, WorkerTypes, CallerTypes
<1>2. \A c \in ToSet(worker.previous) : c \in FoundTypes
  BY <1>1 DEF ToSet
<1> QED BY <1>1, <1>2

LEMMA DoneKept ==
  ASSUME ScanAssumption, ScanTyped, ScanTyped', FirstDone, NextDone, Calm,
         UNCHANGED <<status, results, asked, truncated>>, worker'.previous = worker.previous,
         worker'.at = worker.at
  PROVE  FirstDone' /\ NextDone'
<1>1. FirstDone'
  <2> SUFFICES ASSUME status' \in {"complete", "limit"}
               PROVE  /\ InOrder(results') /\ Len(results') <= asked'.max
                      /\ \A k \in DOMAIN Regions :
                           EligibleRegion(Regions[k], asked') /\ WholeRegion(Regions[k])'
                               /\ ~truncated' =>
                              Expected(Regions[k])' \subseteq AddressesOf(results')
    BY DEF FirstDone, InOrder, AddressesOf, EligibleRegion
  <2>1. InOrder(results) /\ Len(results) <= asked.max
    BY DEF FirstDone
  <2>2. ASSUME NEW k \in DOMAIN Regions, EligibleRegion(Regions[k], asked'),
                 WholeRegion(Regions[k])', ~truncated'
        PROVE  Expected(Regions[k])' \subseteq AddressesOf(results')
    <3>1. WholeRegion(Regions[k]) /\ Expected(Regions[k])' = Expected(Regions[k])
      BY <2>2, CalmRegions
    <3> QED BY <3>1, <2>2 DEF FirstDone
  <2> QED BY <2>1, <2>2
<1>2. NextDone'
  <2>1. status' = "kept" => results' = worker'.previous
    BY DEF NextDone
  <2>2. ASSUME status' = "filtered", NEW c \in ToSet(worker'.previous), Examined(c)', Fresh(c)'
        PROVE  Survives(c)' <=> Holds(results', c)
    <3>1. c \in FoundTypes /\ memory' \in MemoryStates
      BY ListTypes DEF ScanTyped, WorkerTypes, CallerTypes
    <3>2. Fresh(c) /\ (Survives(c)' <=> Survives(c))
      BY <2>2, <3>1, CalmCandidates
    <3> QED BY <2>2, <3>2 DEF NextDone, Examined
  <2>3. ASSUME status' = "filtered", Len(results') < asked'.max, NEW c \in ToSet(worker'.previous)
        PROVE  Examined(c)'
    BY <2>3 DEF NextDone, Examined
  <2> QED BY <2>1, <2>2, <2>3 DEF NextDone, Holds
<1> QED BY <1>1, <1>2

--------------------------------------------------------------------------------
(* The steps of the callers, and of the target                                *)

LEMMA InAddresses ==
  ASSUME ScanAssumption, NEW k \in DOMAIN Regions, NEW a \in Nat, InsideRegion(a, k)
  PROVE  a \in Addresses
<1>1. a \in Regions[k].base .. Regions[k].base + Regions[k].size - 1
  BY RegionsTyped DEF InsideRegion
<1> QED BY <1>1 DEF Addresses

LEMMA ReadSizes ==
  ASSUME ScanAssumption, ScanTyped, Region.size \in Nat, worker.offset \in Nat
  PROVE  /\ ChunkSize \in Nat /\ ChunkSize > 0
         /\ ChunkSpan \in Int /\ ChunkSpan <= ChunkSize /\ ChunkSpan <= Region.size - worker.offset
         /\ ChunkSpan = ChunkSize \/ ChunkSpan = Region.size - worker.offset
         /\ ReadSize \in Int /\ ReadSize <= Region.size - worker.offset
         /\ ReadSize = ChunkSpan + Width - 1 \/ ReadSize = Region.size - worker.offset
<1>1. ChunkSize \in Nat \ {0}
  BY DEF ScanAssumption
<1>2. Width \in Nat
  BY WidthTyped
<1> QED BY <1>1, <1>2 DEF ChunkSpan, ReadSize, LessOf

(* What is in the buffer is of the region.                                    *)
LEMMA BufferPlaces ==
  ASSUME ScanAssumption, ScanTyped, InChunk, worker.pc = "chunk", NEW j \in 1 .. Len(worker.buffer)
  PROVE  /\ worker.at \in DOMAIN Regions
         /\ Region.base + worker.offset + j - 1 \in Nat
         /\ InsideRegion(Region.base + worker.offset + j - 1, worker.at)
         /\ Region.base + worker.offset + j - 1 \in Addresses
<1>1. worker.at \in Nat \ {0} /\ worker.offset \in Nat /\ Len(worker.buffer) \in Nat
  BY DEF ScanTyped, WorkerTypes, CallerTypes
<1>2. worker.at \in DOMAIN Regions
  BY <1>1 DEF InChunk, InRegion, ScanAssumption
<1>3. Region.base \in Nat /\ Region.size \in Nat
  BY <1>2, RegionsTyped DEF Region
<1>4. Len(worker.buffer) <= Region.size - worker.offset
  <2>1. Len(worker.buffer) <= ReadSize
    BY DEF InChunk
  <2> QED BY <1>1, <1>3, <2>1, ReadSizes
<1>5. PICK base \in Nat, size \in Nat, offset \in Nat, len \in Nat :
        base = Region.base /\ size = Region.size /\ offset = worker.offset
            /\ len = Len(worker.buffer)
  BY <1>1, <1>3
<1>a. j \in Nat /\ 1 <= j /\ j <= len /\ len <= size - offset
  BY <1>1, <1>4, <1>5
<1>6. base + offset + j - 1 \in Nat /\ base <= base + offset + j - 1
        /\ base + offset + j - 1 < base + size
  <2> HIDE <1>1, <1>4, <1>5
  <2> QED BY <1>a
<1>7. /\ Region.base + worker.offset + j - 1 \in Nat
      /\ InsideRegion(Region.base + worker.offset + j - 1, worker.at)
  BY <1>5, <1>6 DEF InsideRegion, Region
<1> QED BY <1>2, <1>7, InAddresses

LEMMA Bystander ==
  ASSUME ScanAssumption, ScanInv, ScanTyped', Calm,
         UNCHANGED <<worker, results, truncated, running, status, asked>>,
         cancel => cancel', worker.pc # "gone" => options' = options,
         Distinct(caller.previous)', caller'.pc \in {"first", "next"} => caller'.job \in Jobs
  PROVE  ScanInv'
<1> USE DEF ScanInv
<1>1. AtWork'
  BY DEF AtWork
<1>2. AllDistinct'
  BY DEF AllDistinct
<1>3. OnlyBehind'
  BY DEF OnlyBehind, Behind, Passed, Scanning, Region, InsideRegion, InOrder, AddressesOf
<1>4. InChunk'
  <2> USE DEF InRegion, Region, Width, value, Snapshot, ReadSize, ChunkSpan, LessOf, Scanning
  <2>1. ASSUME worker.pc = "chunk"
        PROVE  /\ InRegion' /\ Width' > 0 /\ Width' <= Len(worker'.buffer)
               /\ Len(worker'.buffer) <= ReadSize'
    BY <2>1 DEF InChunk
  <2>2. ASSUME worker.pc = "chunk", NEW j \in 1 .. Len(worker.buffer),
               NEW a, a = Region.base + worker.offset + j - 1, a \notin touched'
        PROVE  worker'.buffer[j] = memory'[a]
    <3>1. a \in Addresses /\ a \notin touched
      BY <2>2, BufferPlaces DEF Calm
    <3>2. worker.buffer[j] = memory[a]
      BY <2>2, <3>1 DEF InChunk
    <3> QED BY <2>2, <3>1, <3>2 DEF Calm
  <2>3. ASSUME worker.pc = "chunk", Len(worker.buffer) < ReadSize
        PROVE  Region.base + worker.offset + Len(worker.buffer) \notin mapped'
    BY <2>3 DEF InChunk, Calm
  <2> QED BY <2>1, <2>2, <2>3 DEF InChunk
<1>5. AllFound'
  <2> SUFFICES ASSUME Scanning, ~cancel', ~truncated', NEW k \in DOMAIN Regions,
                      EligibleRegion(Regions[k], options'), WholeRegion(Regions[k])',
                      NEW a \in Expected(Regions[k])'
               PROVE  /\ Passed(k, a) => a \in AddressesOf(results)
                      /\ worker.pc = "chunk" /\ k = worker.at /\ Region.base + worker.offset <= a
                           /\ a < Region.base + worker.offset + worker.i
                                => a \in AddressesOf(worker.found)
    BY DEF AllFound, Passed, AddressesOf, Region, Scanning, EligibleRegion
  <2>1. WholeRegion(Regions[k]) /\ a \in Expected(Regions[k])
    BY CalmRegions
  <2>2. options' = options
    BY DEF Scanning
  <2> QED BY <2>1, <2>2 DEF AllFound
<1>6. Filtered'
  <2> SUFFICES ASSUME Filtering, NEW c \in ToSet(worker.previous), Examined(c), Fresh(c)'
               PROVE  Survives(c)' <=> Holds(worker.found, c)
    BY DEF Filtered, Filtering, Examined, Distinct, Holds
  <2>1. c \in FoundTypes /\ memory' \in MemoryStates
    BY ListTypes DEF ScanTyped, WorkerTypes, CallerTypes
  <2>2. Fresh(c) /\ (Survives(c)' <=> Survives(c))
    BY <2>1, CalmCandidates
  <2> QED BY <2>2 DEF Filtered
<1>7. FirstDone' /\ NextDone'
  BY DoneKept
<1> QED BY <1>1, <1>2, <1>3, <1>4, <1>5, <1>6, <1>7

LEMMA AtRest == Gone \in WorkerTypes /\ Resting \in CallerTypes /\ <<>> \in Seq(FoundTypes)
<1>1. <<>> \in Seq(FoundTypes) /\ <<>> \in Seq(Byte)
  OBVIOUS
<1>2. Resting \in CallerTypes
  BY <1>1 DEF Resting, CallerTypes
<1>3. Gone \in WorkerTypes
  BY <1>1 DEF Gone, WorkerTypes
<1> QED BY <1>1, <1>2, <1>3

LEMMA CallersKeep ==
  ASSUME ScanAssumption, ScanInv,
         FirstScan \/ NextScan \/ BeginCancel \/ SetOptions \/ Stopper \/ \E a \in Addresses : Disturb(a)
  PROVE  ScanInv'
<1>t. ScanTyped /\ AtWork /\ AllDistinct
  BY DEF ScanInv
<1> USE DEF scanVars, inProcess, history, shared
<1>1. ASSUME NEW job \in Jobs, NEW previous \in Seq(FoundTypes), Distinct(previous),
               BeginStart(job, previous)
      PROVE  ScanInv'
  <2>1. ScanTyped'
    BY <1>t, <1>1 DEF ScanTyped, WorkerTypes, CallerTypes, BeginStart
  <2>2. Distinct(caller.previous)' /\ caller'.job \in Jobs
    BY <1>1 DEF BeginStart, Distinct
  <2>3. Calm
    BY <1>1 DEF BeginStart, Calm
  <2> QED BY <1>1, <2>1, <2>2, <2>3, Bystander DEF BeginStart
<1>2. CASE FirstScan
  <2>1. PICK job \in Jobs : BeginStart(job, <<>>)
    BY <1>2 DEF FirstScan
  <2>2. <<>> \in Seq(FoundTypes) /\ Distinct(<<>>)
    BY DEF Distinct
  <2> QED BY <1>1, <2>1, <2>2
<1>3. CASE NextScan
  <2>1. PICK job \in Jobs : BeginStart(job, results)
    BY <1>3 DEF NextScan
  <2>2. PICK s : s = results
    OBVIOUS
  <2>3. s \in Seq(FoundTypes) /\ Distinct(s)
    BY <1>t, <2>2 DEF ScanTyped, WorkerTypes, CallerTypes, AllDistinct
  <2>4. BeginStart(job, s)
    BY <2>1, <2>2
  <2> QED BY <1>1, <2>3, <2>4
<1>4. CASE BeginCancel
  <2>1. Calm
    BY <1>4 DEF BeginCancel, Calm
  <2>2. ScanTyped'
    BY <1>t, <1>4, AtRest DEF ScanTyped, CallerTypes, BeginCancel
  <2>3. Distinct(caller.previous)' /\ caller'.pc = "cancel"
    BY <1>4 DEF BeginCancel, Resting, Distinct
  <2> QED BY <1>4, <2>1, <2>2, <2>3, Bystander DEF BeginCancel
<1>5. CASE SetOptions
  <2>1. Calm
    BY <1>5 DEF SetOptions, Calm
  <2>2. ScanTyped'
    BY <1>t, <1>5, AtRest DEF ScanTyped, CallerTypes, SetOptions
  <2>3. Distinct(caller.previous)' /\ caller'.pc = "idle"
    BY <1>5 DEF SetOptions, Resting, Distinct
  <2> QED BY <1>5, <2>1, <2>2, <2>3, Bystander DEF SetOptions
<1>6. CASE Stopper
  <2>1. Calm
    BY <1>6 DEF Stopper, StopScript, ScriptStopped, Calm
  <2>2. ScanTyped'
    BY <1>t, <1>6 DEF ScanTyped, WorkerTypes, CallerTypes, Stopper, StopScript, ScriptStopped
  <2>3. Distinct(caller.previous)'
    BY <1>t, <1>6 DEF Stopper, StopScript, ScriptStopped, Distinct, AllDistinct
  <2> QED BY <1>t, <1>6, <2>1, <2>2, <2>3, Bystander DEF Stopper, StopScript, ScriptStopped, AtWork
<1>7. ASSUME NEW a \in Addresses, Disturb(a) PROVE ScanInv'
  <2>1. Calm
    BY <1>t, <1>7 DEF Disturb, Calm, ScanTyped, WorkerTypes, CallerTypes, Mappings, MemoryStates
  <2>2. memory' \in MemoryStates /\ mapped' \in Mappings /\ touched' \in SUBSET Addresses
    BY <1>t, <1>7 DEF ScanTyped, WorkerTypes, CallerTypes, Disturb, Mappings, MemoryStates
  <2>3. ScanTyped'
    BY <1>t, <1>7, <2>2 DEF ScanTyped, WorkerTypes, CallerTypes, Disturb
  <2>4. Distinct(caller.previous)'
    BY <1>t, <1>7 DEF Disturb, Distinct, AllDistinct
  <2> QED BY <1>t, <1>7, <2>1, <2>3, <2>4, Bystander DEF Disturb, AtWork
<1> QED BY <1>2, <1>3, <1>4, <1>5, <1>6, <1>7

LEMMA StartKeeps == ASSUME ScanAssumption, ScanInv, Start PROVE ScanInv'
<1> USE DEF Start, inProcess
<1>t. ScanTyped /\ AtWork /\ AllDistinct
  BY DEF ScanInv
<1>1. ScanTyped'
  <2>1. worker' \in WorkerTypes
    BY <1>t, AtRest DEF ScanTyped, WorkerTypes, CallerTypes
  <2>2. caller' \in CallerTypes /\ results' \in Seq(FoundTypes)
    BY AtRest
  <2> QED BY <1>t, <2>1, <2>2 DEF ScanTyped
<1> USE DEF Gone, Resting
<1>2. AtWork'
  BY <1>t DEF AtWork, ScanTyped, WorkerTypes, CallerTypes
<1>3. AllDistinct'
  BY <1>t DEF AllDistinct, Distinct, ScanTyped, WorkerTypes, CallerTypes
<1>4. OnlyBehind'
  <2>1. Len(results') <= options'.max
    BY <1>t DEF ScanTyped, WorkerTypes, CallerTypes, ScanAssumption
  <2>2. results' = <<>> /\ worker'.found = <<>>
    BY <1>t DEF ScanTyped, WorkerTypes
  <2>3. AddressesOf(results') = {} /\ AddressesOf(worker'.found) = {}
    BY <2>2 DEF AddressesOf
  <2>4. InOrder(results') /\ InOrder(worker'.found)
    BY <2>2 DEF InOrder
  <2>5. \A a : a \notin AddressesOf(results') /\ a \notin AddressesOf(worker'.found)
    BY <2>3
  <2> QED BY <2>1, <2>4, <2>5 DEF OnlyBehind
<1>5. InChunk'
  <2>1. 0 % Stride(Snapshot', value'.type) = 0
    BY StrideFacts
  <2> QED BY <1>t, <2>1 DEF InChunk, Scanning, ScanTyped, WorkerTypes, CallerTypes, Snapshot, value
<1>6. AllFound'
  <2> SUFFICES ASSUME Scanning', NEW k \in DOMAIN Regions, WholeRegion(Regions[k])',
                        NEW a \in Expected(Regions[k])'
               PROVE  ~Passed(k, a)' /\ worker'.pc # "chunk"
    BY DEF AllFound
  <2>1. a \in Nat /\ Regions[k].base <= a /\ k \in Nat \ {0}
    <3>1. Regions[k].base \in Nat /\ Regions[k].size \in Nat
      BY RegionsTyped
    <3>2. Width' \in Nat
      <4>1. worker'.job = caller.job /\ caller.job \in Jobs
        BY <1>t DEF ScanTyped, WorkerTypes, CallerTypes, AtWork
      <4> QED BY <4>1 DEF Width, value, ScanAssumption
    <3> QED BY <3>1, <3>2 DEF Expected, ScanAssumption
  <2>2. worker'.at = 1 /\ worker'.offset = 0 /\ worker'.pc # "chunk"
    BY <1>t DEF ScanTyped, WorkerTypes, CallerTypes
  <2>3. Regions[k].base \in Nat
    BY RegionsTyped
  <2> QED BY <2>1, <2>2, <2>3 DEF Passed
<1>7. Filtered'
  <2>1. worker'.at = 1 /\ worker'.found = <<>> /\ worker'.pc # "install"
          /\ worker'.previous \in Seq(FoundTypes)
    BY <1>t DEF ScanTyped, WorkerTypes, CallerTypes
  <2>2. \A c : ~Examined(c)'
    BY <2>1 DEF Examined
  <2> QED BY <2>1, <2>2 DEF Filtered, Distinct
<1>8. FirstDone' /\ NextDone'
  BY DEF FirstDone, NextDone
<1> QED BY <1>1, <1>2, <1>3, <1>4, <1>5, <1>6, <1>7, <1>8 DEF ScanInv

LEMMA ScanStarts == ASSUME ScanAssumption, ScanInit PROVE ScanInv
<1> USE DEF ScanInit, Gone, Resting
<1>1. ScanTyped
  <2>1. memory \in MemoryStates /\ mapped \in Mappings /\ touched \in SUBSET Addresses
    BY DEF ScanAssumption, MemoryStates, Mappings
  <2>2. worker \in WorkerTypes /\ caller \in CallerTypes /\ results \in Seq(FoundTypes)
    BY AtRest
  <2> HIDE DEF Gone, Resting
  <2> QED BY <2>1, <2>2 DEF ScanTyped
<1>2. AtWork
  BY DEF AtWork
<1>3. AllDistinct
  BY DEF AllDistinct, Distinct
<1>4. OnlyBehind /\ AllFound /\ Filtered /\ FirstDone /\ NextDone
  BY DEF OnlyBehind, AllFound, Filtered, Filtering, Scanning, FirstDone, NextDone
<1>5. InChunk
  BY DEF InChunk, Scanning
<1> QED BY <1>1, <1>2, <1>3, <1>4, <1>5 DEF ScanInv

--------------------------------------------------------------------------------
(* The end of a scan                                                          *)

LEMMA RejectEmptyKeeps == ASSUME ScanAssumption, ScanInv, RejectEmpty PROVE ScanInv'
<1> USE DEF RejectEmpty, inProcess, history
<1>t. ScanTyped /\ AtWork /\ AllDistinct
  BY DEF ScanInv
<1>1. ScanTyped'
  BY <1>t, AtRest DEF ScanTyped
<1> USE DEF Gone
<1>2. AtWork' /\ AllDistinct'
  <2>1. AtWork'
    BY <1>t DEF AtWork, ScanTyped, WorkerTypes
  <2>2. AllDistinct'
    BY <1>t DEF AllDistinct, Distinct, ScanTyped, WorkerTypes
  <2> QED BY <2>1, <2>2
<1>3. OnlyBehind' /\ AllFound' /\ Filtered' /\ FirstDone' /\ NextDone'
  BY DEF OnlyBehind, AllFound, Filtered, Filtering, Scanning, FirstDone, NextDone
<1>4. InChunk'
  BY DEF InChunk, Scanning
<1> QED BY <1>1, <1>2, <1>3, <1>4 DEF ScanInv

LEMMA LeaveKeeps == ASSUME ScanAssumption, ScanInv, Leave PROVE ScanInv'
<1> USE DEF Leave, inProcess, history
<1>t. ScanTyped /\ AtWork /\ AllDistinct /\ FirstDone /\ NextDone
  BY DEF ScanInv
<1>1. ScanTyped' /\ worker'.pc = "gone" /\ worker'.job = worker.job
        /\ worker'.previous = worker.previous
  BY <1>t DEF ScanTyped, WorkerTypes
<1>2. AtWork' /\ AllDistinct'
  <2>1. AtWork'
    BY <1>t, <1>1 DEF AtWork, ScanTyped, WorkerTypes
  <2>2. AllDistinct'
    BY <1>t, <1>1 DEF AllDistinct, Distinct, ScanTyped, WorkerTypes
  <2> QED BY <2>1, <2>2
<1>3. OnlyBehind' /\ AllFound' /\ Filtered'
  BY <1>1 DEF OnlyBehind, AllFound, Filtered, Filtering, Scanning
<1>4. InChunk'
  BY <1>1 DEF InChunk, Scanning
<1>5. Calm
  BY <1>1 DEF Calm
<1>6. FirstDone' /\ NextDone'
  BY <1>t, <1>1, <1>5, DoneKept
<1> QED BY <1>1, <1>2, <1>3, <1>4, <1>6 DEF ScanInv

LEMMA OrderedDistinct == ASSUME NEW s \in Seq(FoundTypes), InOrder(s) PROVE Distinct(s)
<1> SUFFICES ASSUME NEW i \in DOMAIN s, NEW j \in DOMAIN s, s[i].address = s[j].address, i < j
             PROVE FALSE
  BY DEF Distinct
<1>1. s[i] \in FoundTypes
  OBVIOUS
<1>2. s[i].address \in Nat
  BY <1>1 DEF FoundTypes
<1> QED BY <1>2 DEF InOrder

LEMMA FinishFirstKeeps == ASSUME ScanAssumption, ScanInv, FinishFirst PROVE ScanInv'
<1> USE DEF FinishFirst, inProcess, history
<1>t. ScanTyped /\ AtWork /\ AllDistinct /\ OnlyBehind /\ InChunk /\ AllFound
  BY DEF ScanInv
<1>s. Scanning
  BY DEF Scanning
<1>1. /\ ScanTyped' /\ worker'.pc = "leave" /\ worker'.job = worker.job
      /\ worker'.previous = worker.previous
  BY <1>t DEF ScanTyped, WorkerTypes
<1>2. AtWork' /\ AllDistinct'
  <2>1. AtWork'
    BY <1>t, <1>1 DEF AtWork, ScanTyped, WorkerTypes
  <2>2. AllDistinct'
    BY <1>t, <1>1 DEF AllDistinct, Distinct, ScanTyped, WorkerTypes
  <2> QED BY <2>1, <2>2
<1>3. OnlyBehind' /\ AllFound' /\ Filtered'
  BY <1>1 DEF OnlyBehind, AllFound, Filtered, Filtering, Scanning
<1>4. InChunk'
  BY <1>1 DEF InChunk, Scanning
<1>5. Calm
  BY <1>1 DEF Calm
<1>6. asked = options
  BY <1>t DEF AtWork
<1>7. FirstDone'
  <2> SUFFICES ASSUME status' \in {"complete", "limit"}
               PROVE  /\ InOrder(results) /\ Len(results) <= asked.max
                      /\ \A k \in DOMAIN Regions :
                           EligibleRegion(Regions[k], asked) /\ WholeRegion(Regions[k])'
                               /\ ~truncated =>
                              Expected(Regions[k])' \subseteq AddressesOf(results)
    BY DEF FirstDone, InOrder, AddressesOf, EligibleRegion
  <2>1. InOrder(results) /\ Len(results) <= asked.max
    BY <1>t, <1>s, <1>6 DEF OnlyBehind
  <2>2. ASSUME NEW k \in DOMAIN Regions, EligibleRegion(Regions[k], asked),
                 WholeRegion(Regions[k])', ~truncated
        PROVE  Expected(Regions[k])' \subseteq AddressesOf(results)
    <3>1. WholeRegion(Regions[k]) /\ Expected(Regions[k])' = Expected(Regions[k])
      BY <1>t, <1>5, <2>2, CalmRegions
    <3>2. ~cancel
      OBVIOUS
    <3>3. worker.at > Len(Regions)
      BY <1>t, <2>2, <3>2 DEF InChunk
    <3>4. ASSUME NEW a PROVE Passed(k, a)
      BY <1>t, <3>3 DEF Passed, ScanTyped, WorkerTypes, ScanAssumption
    <3> QED BY <1>t, <1>s, <1>6, <2>2, <3>1, <3>2, <3>4 DEF AllFound
  <2> QED BY <2>1, <2>2
<1>8. NextDone'
  BY DEF NextDone
<1> QED BY <1>1, <1>2, <1>3, <1>4, <1>7, <1>8 DEF ScanInv

LEMMA InstallKeeps == ASSUME ScanAssumption, ScanInv, InstallResults PROVE ScanInv'
<1> USE DEF InstallResults, inProcess, history
<1>t. ScanTyped /\ AtWork /\ AllDistinct /\ Filtered
  BY DEF ScanInv
<1>s. Filtering
  BY DEF Filtering
<1>1. /\ ScanTyped' /\ worker'.pc = "leave" /\ worker'.job = worker.job
      /\ worker'.previous = worker.previous
  BY <1>t DEF ScanTyped, WorkerTypes, Outcome
<1>2. AtWork'
  BY <1>t, <1>1 DEF AtWork, ScanTyped, WorkerTypes
<1>3. AllDistinct'
  BY <1>t, <1>s, <1>1 DEF AllDistinct, Distinct, Filtered, Outcome
<1>4. OnlyBehind' /\ AllFound' /\ Filtered'
  BY <1>1 DEF OnlyBehind, AllFound, Filtered, Filtering, Scanning
<1>5. InChunk'
  BY <1>1 DEF InChunk, Scanning
<1>6. FirstDone'
  BY DEF FirstDone
<1>7. NextDone'
  <2>1. status' = "kept" => results' = worker'.previous
    BY <1>1 DEF Outcome
  <2>2. ASSUME status' = "filtered", NEW c \in ToSet(worker'.previous), Examined(c)', Fresh(c)'
        PROVE  Survives(c)' <=> Holds(results', c)
    <3>1. c \in ToSet(worker.previous) /\ c \in FoundTypes /\ memory' \in MemoryStates
      BY <1>t, <1>1, <2>2, ListTypes DEF ScanTyped
    <3>2. Calm
      BY <1>1 DEF Calm
    <3>3. Fresh(c) /\ (Survives(c)' <=> Survives(c))
      BY <1>t, <2>2, <3>1, <3>2, CalmCandidates
    <3>4. results' = worker.found
      BY <1>t, <2>2 DEF Outcome
    <3>5. Examined(c)
      BY <1>1, <2>2 DEF Examined
    <3> QED BY <1>t, <1>s, <3>1, <3>3, <3>4, <3>5 DEF Filtered
  <2>3. ASSUME status' = "filtered", Len(results') < asked'.max, NEW c \in ToSet(worker'.previous)
        PROVE  Examined(c)'
    <3>1. ~cancel /\ results' = worker.found /\ asked = options /\ c \in ToSet(worker.previous)
      BY <1>t, <1>1, <2>3 DEF Outcome, AtWork
    <3>2. worker.pc # "install"
      <4>1. Len(worker.found) \in Nat /\ options.max \in Nat
        BY <1>t DEF ScanTyped, WorkerTypes, ScanAssumption
      <4> QED BY <1>t, <1>s, <2>3, <3>1, <4>1 DEF Filtered
    <3>3. worker.at > Len(worker.previous) /\ worker.previous \in Seq(FoundTypes)
            /\ worker.at \in Nat
      BY <1>t, <3>1, <3>2 DEF ScanTyped, WorkerTypes
    <3>4. Examined(c)
      BY <3>1, <3>3 DEF Examined, ToSet
    <3> QED BY <3>4, <1>1 DEF Examined
  <2> QED BY <2>1, <2>2, <2>3 DEF NextDone, Holds
<1> QED BY <1>1, <1>2, <1>3, <1>4, <1>5, <1>6, <1>7 DEF ScanInv

--------------------------------------------------------------------------------
(* A candidate of a next scan                                                 *)

LEMMA FilterOneKeeps == ASSUME ScanAssumption, ScanInv, FilterOne PROVE ScanInv'
<1> USE DEF inProcess, history, shared
<1>t. ScanTyped /\ AtWork /\ AllDistinct /\ Filtered
  BY DEF ScanInv
<1>u. UNCHANGED <<memory, mapped, touched, asked, options, cancel, truncated, running, results,
        status, caller>>
  BY DEF FilterOne
<1>s. /\ Filtering /\ worker.pc = "next"
      /\ worker.at \in DOMAIN worker.previous /\ worker.at \in Nat \ {0}
           /\ worker.at <= Len(worker.previous)
  BY <1>t DEF FilterOne, Filtering, ScanTyped, WorkerTypes
<1>c. PICK c \in FoundTypes : c = Candidate
  BY <1>t, <1>s, ListTypes DEF Candidate
<1>d. PICK found : found = IF Survives(c) THEN Append(worker.found, Kept(c)) ELSE worker.found
  OBVIOUS
<1>e. /\ worker' = [worker EXCEPT !.found = found, !.at = @ + 1,
                                  !.pc = IF WasRead(c) /\ HitsLimit(Len(found)) THEN "install"
                                      ELSE "next"]
  BY <1>c, <1>d DEF FilterOne
<1>k. Kept(c) \in FoundTypes /\ Kept(c).address = c.address /\ Kept(c).first = c.first
  <2>1. c.address \in Nat /\ WidthOf(c) \in Nat /\ c.current \in Seq(Byte) /\ c.first \in Seq(Byte)
    BY <1>t, WidthTyped DEF FoundTypes
  <2>2. ReadBytes(c.address, WidthOf(c)) \in Seq(Byte)
    BY <1>t, <2>1, Reading
  <2> QED BY <2>1, <2>2 DEF Kept, FoundTypes
<1>f. found \in Seq(FoundTypes)
  BY <1>t, <1>d, <1>k DEF ScanTyped, WorkerTypes
<1>1. /\ ScanTyped' /\ worker'.pc \in {"next", "install"} /\ worker'.job = worker.job
      /\ worker'.previous = worker.previous /\ worker'.found = found /\ worker'.at = worker.at + 1
      /\ worker'.pc = "install" => Len(found) >= options.max
  <2>1. worker \in WorkerTypes
    BY <1>t DEF ScanTyped
  <2>2. /\ worker'.job = worker.job /\ worker'.previous = worker.previous /\ worker'.found = found
        /\ worker'.at = worker.at + 1
        /\ worker'.pc = IF WasRead(c) /\ HitsLimit(Len(found)) THEN "install" ELSE "next"
    BY <1>e, <2>1 DEF WorkerTypes
  <2>3. worker' \in WorkerTypes
    <3>1. PICK pc \in {"next", "install"} : pc = IF WasRead(c) /\ HitsLimit(Len(found))
            THEN "install" ELSE "next"
      OBVIOUS
    <3>2. worker' = [worker EXCEPT !.found = found, !.at = @ + 1, !.pc = pc]
      BY <1>e, <3>1
    <3>3. worker.at + 1 \in Nat \ {0}
      BY <1>s
    <3> QED BY <1>f, <2>1, <3>2, <3>3 DEF WorkerTypes
  <2>4. ScanTyped'
    BY <1>t, <1>u, <2>3 DEF ScanTyped
  <2> QED BY <2>2, <2>4 DEF HitsLimit
<1>2. AtWork' /\ AllDistinct'
  <2>1. AtWork'
    BY <1>t, <1>s, <1>u, <1>1 DEF AtWork
  <2>2. AllDistinct'
    BY <1>t, <1>u, <1>1 DEF AllDistinct, Distinct
  <2> QED BY <2>1, <2>2
<1>3. OnlyBehind' /\ AllFound' /\ InChunk'
  BY <1>1 DEF OnlyBehind, AllFound, InChunk, Scanning
<1>4. FirstDone' /\ NextDone'
  BY <1>t, <1>s, <1>u DEF FirstDone, NextDone, AtWork
<1>5. Calm
  BY <1>u, <1>1 DEF Calm
<1>6. \A i \in DOMAIN worker.found : worker.found[i].address # c.address
  BY <1>t, <1>s, <1>c DEF Filtered, Candidate, AllDistinct, Distinct
<1>7. Filtered'
  <2>1. worker'.at <= Len(worker'.previous) + 1
    <3>1. Len(worker.previous) \in Nat
      BY <1>t, ListTypes
    <3> QED BY <1>s, <1>1, <3>1
  <2>2. Distinct(found)
    <3>1. CASE Survives(c)
      BY <1>t, <1>s, <1>d, <1>k, <1>6, <3>1 DEF Distinct, Filtered, ScanTyped, WorkerTypes
    <3>2. CASE ~Survives(c)
      BY <1>t, <1>s, <1>d, <3>2 DEF Filtered
    <3> QED BY <3>1, <3>2
  <2>3. ASSUME NEW i \in DOMAIN found
        PROVE  \E j \in DOMAIN worker.previous : j < worker.at + 1
                 /\ found[i].address = worker.previous[j].address
    <3>1. CASE i \in DOMAIN worker.found /\ found[i] = worker.found[i]
      BY <1>t, <1>s, <3>1 DEF Filtered
    <3>2. CASE found[i] = Kept(c)
      <4>1. found[i].address = worker.previous[worker.at].address /\ worker.at < worker.at + 1
        BY <1>s, <1>c, <1>k, <3>2 DEF Candidate
      <4> QED BY <1>s, <4>1
    <3>3. (i \in DOMAIN worker.found /\ found[i] = worker.found[i]) \/ found[i] = Kept(c)
      BY <1>t, <1>d, <1>k DEF ScanTyped, WorkerTypes
    <3> QED BY <3>1, <3>2, <3>3
  <2>4. ASSUME NEW d \in ToSet(worker.previous), Examined(d)', Fresh(d)'
        PROVE  Survives(d)' <=> Holds(found, d)
    <3>1. d \in FoundTypes /\ memory' \in MemoryStates
      BY <1>t, <1>1, ListTypes DEF ScanTyped
    <3>2. Fresh(d) /\ (Survives(d)' <=> Survives(d))
      BY <1>t, <1>5, <2>4, <3>1, CalmCandidates
    <3>3. CASE d = c
      <4>1. CASE Survives(c)
        <5>1. Len(found) \in DOMAIN found /\ found[Len(found)] = Kept(c)
          BY <1>t, <1>d, <1>k, <4>1 DEF ScanTyped, WorkerTypes
        <5>2. Holds(found, c)
          BY <5>1, <1>k DEF Holds
        <5> QED BY <3>2, <3>3, <4>1, <5>2
      <4>2. CASE ~Survives(c)
        BY <1>d, <1>6, <3>2, <3>3, <4>2 DEF Holds
      <4> QED BY <4>1, <4>2
    <3>4. CASE d # c
      <4>1. Examined(d) /\ d.address # c.address
        <5>1. PICK j \in DOMAIN worker.previous : j < worker.at + 1 /\ worker.previous[j] = d
          BY <1>1, <2>4 DEF Examined
        <5>2. j \in Nat /\ j # worker.at
          BY <1>t, <1>c, <3>4, <5>1, ListTypes DEF Candidate
        <5>3. j < worker.at
          BY <1>s, <5>1, <5>2
        <5> QED BY <1>t, <1>s, <1>c, <5>1, <5>2, <5>3 DEF Examined, Candidate, AllDistinct, Distinct
      <4>2. Survives(d) <=> Holds(worker.found, d)
        BY <1>t, <1>s, <2>4, <3>2, <4>1 DEF Filtered
      <4>3. Holds(found, d) <=> Holds(worker.found, d)
        <5>1. CASE Survives(c)
          <6>1. /\ DOMAIN found = 1 .. Len(worker.found) + 1
                     /\ DOMAIN worker.found = 1 .. Len(worker.found)
                /\ Len(worker.found) \in Nat
                /\ \A i \in 1 .. Len(worker.found) : found[i] = worker.found[i]
                /\ found[Len(worker.found) + 1] = Kept(c)
            BY <1>t, <1>d, <1>k, <5>1 DEF ScanTyped, WorkerTypes
          <6> QED BY <6>1, <1>k, <4>1 DEF Holds
        <5>2. CASE ~Survives(c)
          BY <1>d, <5>2
        <5> QED BY <5>1, <5>2
      <4> QED BY <3>2, <4>2, <4>3
    <3> QED BY <3>3, <3>4
  <2> QED BY <1>1, <1>u, <2>1, <2>2, <2>3, <2>4 DEF Filtered, Holds
<1> QED BY <1>1, <1>2, <1>3, <1>4, <1>7 DEF ScanInv

--------------------------------------------------------------------------------
(* The regions of a first scan                                                *)

LEMMA ScanningFacts ==
  ASSUME ScanAssumption, ScanTyped, AtWork, Scanning
  PROVE  /\ worker \in WorkerTypes /\ worker.at \in Nat \ {0} /\ worker.offset \in Nat
              /\ worker.i \in Nat
         /\ worker.job \in Jobs /\ Width \in Nat /\ asked = options /\ status = "starting"
              /\ running
         /\ options.max \in Nat
         /\ Stride(Snapshot, value.type) \in {1, 2, 4, 8}
         /\ ChunkSize \in Nat \ {0} /\ ChunkSize % Stride(Snapshot, value.type) = 0
<1>1. /\ worker \in WorkerTypes /\ worker.at \in Nat \ {0} /\ worker.offset \in Nat
           /\ worker.i \in Nat
      /\ options \in Options
  BY DEF ScanTyped, WorkerTypes
<1>2. worker.job \in Jobs /\ asked = options /\ status = "starting" /\ running
  BY DEF AtWork, Scanning
<1>3. options.max \in Nat
  BY <1>1 DEF ScanAssumption
<1>4. ChunkSize \in Nat \ {0} /\ ChunkSize % Stride(TRUE, value.type) = 0
  BY <1>2 DEF ScanAssumption, value
<1>5. ChunkSize % Stride(Snapshot, value.type) = 0
  <2>1. CASE Snapshot
    BY <1>4, <2>1 DEF Stride
  <2>2. CASE ~Snapshot
    BY <1>4, <2>2 DEF Stride
  <2> QED BY <2>1, <2>2
<1> QED BY <1>1, <1>2, <1>3, <1>4, <1>5, StrideFacts, WidthTyped

LEMMA ExpectedFacts ==
  ASSUME ScanAssumption, ScanTyped, NEW k \in DOMAIN Regions, NEW a \in Expected(Regions[k])
  PROVE  /\ k \in Nat \ {0} /\ a \in Nat /\ Regions[k].base \in Nat /\ Regions[k].size \in Nat
              /\ Width \in Nat
         /\ Regions[k].base <= a /\ a + Width <= Regions[k].base + Regions[k].size
<1>1. Regions[k].base \in Nat /\ Regions[k].size \in Nat /\ k \in Nat \ {0}
  <2>1. k \in Nat \ {0}
    BY DEF ScanAssumption
  <2> QED BY <2>1, RegionsTyped
<1> QED BY <1>1, WidthTyped DEF Expected

LEMMA SkipRegionKeeps == ASSUME ScanAssumption, ScanInv, SkipRegion PROVE ScanInv'
<1> USE DEF inProcess, history, shared
<1>t. ScanTyped /\ AtWork /\ AllDistinct /\ OnlyBehind /\ InChunk /\ AllFound
  BY DEF ScanInv
<1>u. UNCHANGED <<memory, mapped, touched, asked, options, cancel, truncated, running, results,
        status, caller>>
  BY DEF SkipRegion
<1>s. Scanning /\ worker.pc = "first"
  BY DEF SkipRegion, Scanning
<1>f. /\ worker \in WorkerTypes /\ worker.at \in Nat \ {0} /\ worker.offset \in Nat
      /\ status = "starting" /\ worker.i = 0 /\ worker.found = <<>>
  BY <1>t, <1>s, ScanningFacts DEF InChunk
<1>1. /\ ScanTyped' /\ worker'.pc = "first" /\ worker'.job = worker.job
           /\ worker'.previous = worker.previous
      /\ worker'.at = worker.at + 1 /\ worker'.offset = 0 /\ worker'.i = 0 /\ worker'.found = <<>>
  <2>1. worker' = [worker EXCEPT !.at = @ + 1, !.offset = 0] /\ worker.at + 1 \in Nat \ {0}
    BY <1>f DEF SkipRegion
  <2>2. worker' \in WorkerTypes
    BY <1>f, <2>1 DEF WorkerTypes
  <2>3. ScanTyped'
    BY <1>t, <1>u, <2>2 DEF ScanTyped
  <2> QED BY <1>f, <1>s, <2>1, <2>3 DEF WorkerTypes
<1>c. Calm
  BY <1>u, <1>1 DEF Calm
<1>2. AtWork' /\ AllDistinct'
  <2>1. AtWork'
    BY <1>t, <1>s, <1>u, <1>1 DEF AtWork
  <2>2. AllDistinct'
    BY <1>t, <1>u, <1>1 DEF AllDistinct, Distinct
  <2> QED BY <2>1, <2>2
<1>3. OnlyBehind'
  <2>1. ASSUME NEW a, Behind(a) PROVE Behind(a)'
    <3>1. PICK k \in DOMAIN Regions : InsideRegion(a, k) /\ Passed(k, a)
      BY <2>1 DEF Behind
    <3>2. k \in Nat
      BY DEF ScanAssumption
    <3>3. k < worker'.at
      BY <1>f, <1>1, <3>1, <3>2 DEF Passed
    <3> QED BY <3>1, <3>3 DEF Behind, Passed, InsideRegion
  <2>2. \A a \in AddressesOf(results) : Behind(a)'
    BY <1>t, <1>s, <2>1 DEF OnlyBehind
  <2> QED BY <1>t, <1>s, <1>u, <1>1, <2>2 DEF OnlyBehind, InOrder, AddressesOf
<1>4. InChunk'
  <2>1. 0 % Stride(Snapshot', value'.type) = 0
    BY StrideFacts
  <2> QED BY <1>1, <2>1 DEF InChunk, Snapshot, value
<1>5. AllFound'
  <2> SUFFICES ASSUME ~cancel, ~truncated, NEW k \in DOMAIN Regions,
                      EligibleRegion(Regions[k], options), WholeRegion(Regions[k])',
                      NEW a \in Expected(Regions[k])', Passed(k, a)'
               PROVE  a \in AddressesOf(results)
    BY <1>u, <1>1 DEF AllFound, AddressesOf, EligibleRegion
  <2>1. WholeRegion(Regions[k]) /\ a \in Expected(Regions[k])
    BY <1>t, <1>c, CalmRegions
  <2>2. /\ k \in Nat \ {0} /\ a \in Nat /\ Regions[k].base \in Nat /\ Regions[k].size \in Nat
        /\ Regions[k].base <= a /\ a < Regions[k].base + Regions[k].size
    <3>1. Width > 0
      BY DEF SkipRegion
    <3> QED BY <1>t, <2>1, <3>1, ExpectedFacts
  <2>3. k < worker.at + 1
    BY <1>1, <2>2 DEF Passed
  <2>4. Passed(k, a)
    <3>1. CASE k = worker.at
      <4>1. worker.offset >= Regions[k].size
        BY <1>f, <2>2, <3>1 DEF SkipRegion, InRegion, Region
      <4> QED BY <1>f, <2>2, <3>1, <4>1 DEF Passed
    <3>2. CASE k # worker.at
      BY <1>f, <2>2, <2>3, <3>2 DEF Passed
    <3> QED BY <3>1, <3>2
  <2> QED BY <1>t, <1>s, <2>1, <2>4 DEF AllFound
<1>6. Filtered' /\ FirstDone' /\ NextDone'
  BY <1>f, <1>u, <1>1 DEF Filtered, Filtering, FirstDone, NextDone
<1> QED BY <1>1, <1>2, <1>3, <1>4, <1>5, <1>6 DEF ScanInv

(* Where a scan is inside a region, it is one of them.                        *)
LEMMA InRegionFacts ==
  ASSUME ScanAssumption, ScanTyped, AtWork, Scanning, InRegion
  PROVE  /\ worker.at \in DOMAIN Regions /\ Region = Regions[worker.at]
         /\ Region.base \in Nat /\ Region.size \in Nat
         /\ EligibleRegion(Region, options) /\ worker.offset < Region.size
         /\ ChunkSpan \in Nat /\ ChunkSpan > 0 /\ ChunkSpan <= ChunkSize
         /\ ChunkSpan = ChunkSize \/ ChunkSpan = Region.size - worker.offset
         /\ ReadSize \in Int /\ ReadSize <= Region.size - worker.offset
         /\ ReadSize = ChunkSpan + Width - 1 \/ ReadSize = Region.size - worker.offset
<1>1. worker.at \in Nat \ {0} /\ worker.offset \in Nat
  BY ScanningFacts
<1>2. worker.at \in DOMAIN Regions
  BY <1>1 DEF InRegion, ScanAssumption
<1>3. Region = Regions[worker.at] /\ Region.base \in Nat /\ Region.size \in Nat
  BY <1>2, RegionsTyped DEF Region
<1>4. EligibleRegion(Region, options) /\ worker.offset < Region.size
  BY DEF InRegion
<1>5. ReadSize \in Int /\ ChunkSpan \in Int
  BY <1>1, <1>3, ReadSizes
<1> QED BY <1>1, <1>2, <1>3, <1>4, <1>5, ReadSizes

(* A value expected at a place of the region it is in would have been read    *)
(* with its chunk.                                                            *)
LEMMA ShortRead ==
  ASSUME ScanAssumption, ScanTyped, AtWork, Scanning, InRegion, Width > 0,
         NEW n \in Nat, n < ReadSize, Region.base + worker.offset + n \notin mapped
  PROVE  ~WholeRegion(Region)
<1>1. Region.base \in Nat /\ Region.size \in Nat /\ ReadSize \in Int
        /\ ReadSize <= Region.size - worker.offset
      /\ worker.offset \in Nat
  BY InRegionFacts, ScanningFacts
<1>2. Region.base + worker.offset + n \in Region.base .. Region.base + Region.size - 1
  BY <1>1
<1> QED BY <1>2 DEF WholeRegion

LEMMA ListAddresses ==
  ASSUME ScanTyped
  PROVE  /\ \A a \in AddressesOf(results) : a \in Nat
         /\ \A a \in AddressesOf(worker.found) : a \in Nat
<1>1. ASSUME NEW s \in Seq(FoundTypes), NEW a \in AddressesOf(s) PROVE a \in Nat
  <2>1. PICK i \in DOMAIN s : a = s[i].address
    BY DEF AddressesOf
  <2>2. s[i] \in FoundTypes
    OBVIOUS
  <2> QED BY <2>1, <2>2 DEF FoundTypes
<1> QED BY <1>1, ListTypes

LEMMA BehindGrows ==
  ASSUME ScanAssumption, NEW a \in Nat, Behind(a), worker.offset \in Nat,
         worker'.at = worker.at, worker'.offset \in Nat, worker.offset <= worker'.offset
  PROVE  Behind(a)'
<1>1. PICK k \in DOMAIN Regions : InsideRegion(a, k) /\ Passed(k, a)
  BY DEF Behind
<1>2. Regions[k].base \in Nat
  BY RegionsTyped
<1>3. Passed(k, a)'
  BY <1>1, <1>2 DEF Passed
<1> QED BY <1>1, <1>3 DEF Behind, InsideRegion

LEMMA ReadChunkKeeps == ASSUME ScanAssumption, ScanInv, ReadChunk PROVE ScanInv'
<1> USE DEF inProcess, history, shared
<1>t. ScanTyped /\ AtWork /\ AllDistinct /\ OnlyBehind /\ InChunk /\ AllFound
  BY DEF ScanInv
<1>u. UNCHANGED <<memory, mapped, touched, asked, options, cancel, truncated, running, results,
        status, caller>>
  BY DEF ReadChunk
<1>s. Scanning /\ worker.pc = "first" /\ InRegion /\ Width > 0
  BY DEF ReadChunk, Scanning
<1>f. /\ worker \in WorkerTypes /\ worker.at \in Nat \ {0} /\ worker.offset \in Nat /\ Width \in Nat
      /\ status = "starting" /\ worker.i = 0 /\ worker.found = <<>>
      /\ ChunkSize \in Nat \ {0} /\ ChunkSize % Stride(Snapshot, value.type) = 0
      /\ Stride(Snapshot, value.type) \in {1, 2, 4, 8}
      /\ worker.offset % Stride(Snapshot, value.type) = 0
  BY <1>t, <1>s, ScanningFacts DEF InChunk
<1>r. /\ worker.at \in DOMAIN Regions /\ Region = Regions[worker.at]
      /\ Region.base \in Nat /\ Region.size \in Nat
      /\ EligibleRegion(Region, options) /\ worker.offset < Region.size
      /\ ChunkSpan \in Nat /\ ChunkSpan > 0 /\ ChunkSpan <= ChunkSize
      /\ ReadSize \in Int /\ ReadSize <= Region.size - worker.offset
      /\ ReadSize = ChunkSpan + Width - 1 \/ ReadSize = Region.size - worker.offset
  BY <1>t, <1>s, InRegionFacts
<1>b. PICK bytes : bytes = ReadBytes(Region.base + worker.offset, ReadSize)
  OBVIOUS
<1>p. ReadSize \in Nat /\ Region.base + worker.offset \in Nat
  BY <1>f, <1>r, <1>s
<1>d. /\ bytes \in Seq(Byte) /\ Len(bytes) \in Nat /\ Len(bytes) <= ReadSize
      /\ \A j \in 1 .. Len(bytes) : bytes[j] = memory[Region.base + worker.offset + j - 1]
      /\ Len(bytes) < ReadSize => Region.base + worker.offset + Len(bytes) \notin mapped
  <2>1. PICK a \in Nat, n \in Nat : a = Region.base + worker.offset /\ n = ReadSize
    BY <1>p
  <2>2. /\ bytes \in Seq(Byte) /\ Len(bytes) <= n
        /\ \A j \in 1 .. Len(bytes) : bytes[j] = memory[a + j - 1]
        /\ Len(bytes) < n => a + Len(bytes) \notin mapped
    <3>1. bytes = ReadBytes(a, n)
      BY <1>b, <2>1
    <3> QED BY <1>t, <3>1, Reading
  <2> QED BY <2>1, <2>2
<1>1. CASE Len(bytes) < Width
  <2>1. /\ ScanTyped' /\ worker'.pc = "first" /\ worker'.job = worker.job
             /\ worker'.previous = worker.previous
        /\ worker'.at = worker.at /\ worker'.offset = worker.offset + ChunkSize
        /\ worker'.i = 0 /\ worker'.found = <<>>
    <3>1. worker' = [worker EXCEPT !.offset = @ + ChunkSize] /\ worker.offset + ChunkSize \in Nat
      BY <1>1, <1>b, <1>f DEF ReadChunk
    <3>2. worker' \in WorkerTypes
      BY <1>f, <3>1 DEF WorkerTypes
    <3>3. ScanTyped'
      BY <1>t, <1>u, <3>2 DEF ScanTyped
    <3> QED BY <1>f, <1>s, <3>1, <3>3 DEF WorkerTypes
  <2>c. Calm
    BY <1>u, <2>1 DEF Calm
  <2>2. AtWork'
    BY <1>t, <1>s, <1>u, <2>1 DEF AtWork
  <2>3. AllDistinct'
    BY <1>t, <1>u, <2>1 DEF AllDistinct, Distinct
  <2>4. OnlyBehind'
    <3>1. \A a \in AddressesOf(results) : Behind(a)'
      BY <1>t, <1>s, <1>f, <2>1, BehindGrows, ListAddresses DEF OnlyBehind
    <3> QED BY <1>t, <1>s, <1>u, <2>1, <3>1 DEF OnlyBehind, InOrder, AddressesOf
  <2>5. InChunk'
    <3>1. (worker.offset + ChunkSize) % Stride(Snapshot, value.type) = 0
      BY <1>f, Multiples
    <3>2. 0 % Stride(Snapshot, value.type) = 0
      BY <1>f
    <3> QED BY <2>1, <3>1, <3>2 DEF InChunk, Snapshot, value
  <2>6. AllFound'
    <3> SUFFICES ASSUME ~cancel, ~truncated, NEW k \in DOMAIN Regions,
                        EligibleRegion(Regions[k], options), WholeRegion(Regions[k])',
                        NEW a \in Expected(Regions[k])', Passed(k, a)'
                 PROVE  a \in AddressesOf(results)
      BY <1>u, <2>1 DEF AllFound, AddressesOf, EligibleRegion
    <3>1. WholeRegion(Regions[k]) /\ a \in Expected(Regions[k])
      BY <1>t, <2>c, CalmRegions
    <3>2. /\ k \in Nat \ {0} /\ a \in Nat /\ Regions[k].base \in Nat /\ Regions[k].size \in Nat
          /\ Regions[k].base <= a /\ a + Width <= Regions[k].base + Regions[k].size
      BY <1>t, <3>1, ExpectedFacts
    <3>3. Passed(k, a)
      <4>1. CASE k < worker.at
        BY <4>1 DEF Passed
      <4>2. CASE k = worker.at /\ a < Regions[k].base + worker.offset
        BY <4>2 DEF Passed
      <4>3. CASE k = worker.at /\ Regions[k].base + worker.offset <= a
        <5>1. Len(bytes) < ReadSize
          BY <1>1, <1>f, <1>r, <1>s, <1>d, <3>2, <4>3
        <5>2. ~WholeRegion(Region)
          BY <1>t, <1>s, <1>d, <5>1, ShortRead
        <5> QED BY <1>r, <3>1, <4>3, <5>2
      <4> QED BY <1>f, <2>1, <3>2, <4>1, <4>2, <4>3 DEF Passed
    <3> QED BY <1>t, <1>s, <3>1, <3>3 DEF AllFound
  <2>7. Filtered' /\ FirstDone' /\ NextDone'
    BY <1>f, <1>u, <2>1 DEF Filtered, Filtering, FirstDone, NextDone
  <2> QED BY <2>1, <2>2, <2>3, <2>4, <2>5, <2>6, <2>7 DEF ScanInv
<1>2. CASE ~(Len(bytes) < Width)
  <2>1. /\ ScanTyped' /\ worker'.pc = "chunk" /\ worker'.job = worker.job
             /\ worker'.previous = worker.previous
        /\ worker'.at = worker.at /\ worker'.offset = worker.offset /\ worker'.buffer = bytes
        /\ worker'.i = 0 /\ worker'.found = <<>>
    <3>1. worker' = [worker EXCEPT !.pc = "chunk", !.buffer = bytes]
      BY <1>2, <1>b DEF ReadChunk
    <3>2. worker' \in WorkerTypes
      BY <1>f, <1>d, <3>1 DEF WorkerTypes
    <3>3. ScanTyped'
      BY <1>t, <1>u, <3>2 DEF ScanTyped
    <3> QED BY <1>f, <1>s, <3>1, <3>3 DEF WorkerTypes
  <2>c. Calm
    BY <1>u, <2>1 DEF Calm
  <2>2. AtWork'
    BY <1>t, <1>s, <1>u, <2>1 DEF AtWork
  <2>3. AllDistinct'
    BY <1>t, <1>u, <2>1 DEF AllDistinct, Distinct
  <2>4. OnlyBehind'
    <3>1. \A a \in AddressesOf(results) : Behind(a)'
      BY <1>t, <1>s, <1>f, <2>1, BehindGrows, ListAddresses DEF OnlyBehind
    <3> QED BY <1>t, <1>s, <1>u, <2>1, <3>1 DEF OnlyBehind, InOrder, AddressesOf
  <2>5. InChunk'
    <3>0. UNCHANGED <<Region, InRegion, Width, ReadSize, ChunkSpan, Snapshot, value>>
      BY <1>u, <2>1 DEF Region, InRegion, Width, ReadSize, ChunkSpan, Snapshot, value
    <3>1. 0 % Stride(Snapshot, value.type) = 0
      BY <1>f
    <3>2. InRegion' /\ Width' > 0 /\ Width' <= Len(bytes) /\ Len(bytes) <= ReadSize'
      BY <1>s, <1>f, <1>d, <1>2, <3>0
    <3> QED BY <1>u, <1>f, <1>d, <2>1, <3>0, <3>1, <3>2 DEF InChunk
  <2>6. AllFound'
    <3> SUFFICES ASSUME ~cancel, ~truncated, NEW k \in DOMAIN Regions,
                        EligibleRegion(Regions[k], options), WholeRegion(Regions[k])',
                        NEW a \in Expected(Regions[k])'
                 PROVE  /\ Passed(k, a)' => a \in AddressesOf(results)
                        /\ ~(Regions[worker.at].base + worker.offset <= a
                             /\ a < Regions[worker.at].base + worker.offset + 0)
      BY <1>u, <2>1 DEF AllFound, AddressesOf, EligibleRegion, Region
    <3>1. WholeRegion(Regions[k]) /\ a \in Expected(Regions[k])
      BY <1>t, <2>c, CalmRegions
    <3>2. a \in Nat
      BY <1>t, <3>1, ExpectedFacts
    <3>3. Passed(k, a)' => Passed(k, a)
      BY <2>1 DEF Passed
    <3> QED BY <1>t, <1>s, <1>f, <1>r, <3>1, <3>2, <3>3 DEF AllFound
  <2>7. Filtered' /\ FirstDone' /\ NextDone'
    BY <1>f, <1>u, <2>1 DEF Filtered, Filtering, FirstDone, NextDone
  <2> QED BY <2>1, <2>2, <2>3, <2>4, <2>5, <2>6, <2>7 DEF ScanInv
<1> QED BY <1>1, <1>2

--------------------------------------------------------------------------------
(* A place of a chunk, and the chunk's batch                                  *)

LEMMA AppendInOrder ==
  ASSUME NEW s \in Seq(FoundTypes), NEW x \in FoundTypes, InOrder(s),
         \A a \in AddressesOf(s) : a < x.address
  PROVE  InOrder(Append(s, x)) /\ AddressesOf(Append(s, x)) = AddressesOf(s) \cup {x.address}
<1>1. /\ DOMAIN s = 1 .. Len(s) /\ DOMAIN Append(s, x) = 1 .. Len(s) + 1 /\ Len(s) \in Nat
      /\ \A i \in 1 .. Len(s) : Append(s, x)[i] = s[i]
      /\ Append(s, x)[Len(s) + 1] = x
  OBVIOUS
<1>2. PICK t : t = Append(s, x)
  OBVIOUS
<1>3. InOrder(t)
  <2> SUFFICES ASSUME NEW i \in 1 .. Len(s) + 1, NEW j \in 1 .. Len(s) + 1, i < j
               PROVE  t[i].address < t[j].address
    BY <1>1, <1>2 DEF InOrder
  <2>1. i \in 1 .. Len(s) /\ t[i] = s[i]
    BY <1>1, <1>2
  <2>2. CASE j \in 1 .. Len(s)
    BY <1>1, <1>2, <2>1, <2>2 DEF InOrder
  <2>3. CASE j = Len(s) + 1
    <3>1. s[i].address \in AddressesOf(s)
      BY <1>1, <2>1 DEF AddressesOf
    <3> QED BY <1>1, <1>2, <2>1, <2>3, <3>1
  <2> QED BY <1>1, <2>2, <2>3
<1>4. AddressesOf(t) = AddressesOf(s) \cup {x.address}
  <2>1. ASSUME NEW a \in AddressesOf(t) PROVE a \in AddressesOf(s) \cup {x.address}
    <3>1. PICK i \in 1 .. Len(s) + 1 : a = t[i].address
      BY <1>1, <1>2, <2>1 DEF AddressesOf
    <3> QED BY <1>1, <1>2, <3>1 DEF AddressesOf
  <2>2. ASSUME NEW a \in AddressesOf(s) PROVE a \in AddressesOf(t)
    <3>1. PICK i \in 1 .. Len(s) : a = s[i].address
      BY <1>1, <2>2 DEF AddressesOf
    <3>2. i \in DOMAIN t /\ a = t[i].address
      BY <1>1, <1>2, <3>1
    <3> QED BY <3>2 DEF AddressesOf
  <2>3. x.address \in AddressesOf(t)
    <3>1. Len(s) + 1 \in DOMAIN t /\ t[Len(s) + 1] = x
      BY <1>1, <1>2
    <3> QED BY <3>1 DEF AddressesOf
  <2> QED BY <2>1, <2>2, <2>3
<1> QED BY <1>2, <1>3, <1>4

LEMMA SliceFacts ==
  ASSUME NEW b \in Seq(Byte), NEW i \in Nat, NEW w \in Nat, i + w <= Len(b)
  PROVE  /\ SubSeq(b, i + 1, i + w) \in Seq(Byte) /\ Len(SubSeq(b, i + 1, i + w)) = w
         /\ \A j \in 1 .. w : SubSeq(b, i + 1, i + w)[j] = b[i + j]
<1>1. \A j \in 1 .. w : i + j \in 1 .. Len(b) /\ (i + 1) + j - 1 = i + j
  OBVIOUS
<1>2. SubSeq(b, i + 1, i + w) = [j \in 1 .. w |-> b[i + j]]
  BY <1>1
<1>3. PICK t : t = SubSeq(b, i + 1, i + w)
  OBVIOUS
<1>4. t = [j \in 1 .. w |-> b[i + j]]
  BY <1>2, <1>3
<1>5. \A j \in 1 .. w : b[i + j] \in Byte
  BY <1>1
<1>6. t \in [1 .. w -> Byte]
  BY <1>4, <1>5
<1>7. t \in Seq(Byte) /\ Len(t) = w
  BY <1>6
<1> QED BY <1>3, <1>4, <1>7

LEMMA CompareOneKeeps == ASSUME ScanAssumption, ScanInv, CompareOne PROVE ScanInv'
<1> USE DEF inProcess, history, shared
<1>t. ScanTyped /\ AtWork /\ AllDistinct /\ OnlyBehind /\ InChunk /\ AllFound
  BY DEF ScanInv
<1>u. UNCHANGED <<memory, mapped, touched, asked, options, cancel, truncated, running, results,
        status, caller>>
  BY DEF CompareOne
<1>s. Scanning /\ worker.pc = "chunk" /\ InRegion /\ Width > 0 /\ worker.i < Limit
  BY <1>t DEF CompareOne, Scanning, InChunk
<1>f. /\ worker \in WorkerTypes /\ worker.at \in Nat \ {0} /\ worker.offset \in Nat /\ Width \in Nat
      /\ status = "starting" /\ worker.i \in Nat
      /\ ChunkSize \in Nat \ {0}
      /\ Stride(Snapshot, value.type) \in {1, 2, 4, 8}
      /\ worker.offset % Stride(Snapshot, value.type) = 0
      /\ worker.i % Stride(Snapshot, value.type) = 0
  BY <1>t, <1>s, ScanningFacts DEF InChunk
<1>r. /\ worker.at \in DOMAIN Regions /\ Region = Regions[worker.at]
      /\ Region.base \in Nat /\ Region.size \in Nat
      /\ worker.offset < Region.size
      /\ ChunkSpan \in Nat /\ ChunkSpan <= ChunkSize
      /\ ReadSize \in Int /\ ReadSize <= Region.size - worker.offset
  BY <1>t, <1>s, InRegionFacts
<1>b. /\ worker.buffer \in Seq(Byte) /\ Len(worker.buffer) \in Nat
      /\ Width <= Len(worker.buffer) /\ Len(worker.buffer) <= ReadSize
  BY <1>t, <1>s, <1>f DEF InChunk, WorkerTypes
<1>l. worker.i < ChunkSpan /\ worker.i + Width <= Len(worker.buffer)
  BY <1>s, <1>f, <1>r, <1>b DEF Limit, LessOf
<1>h. PICK here \in Nat : here = Region.base + worker.offset + worker.i
  BY <1>f, <1>r
<1>p. /\ InPlace \in Seq(Byte) /\ Len(InPlace) = Width
      /\ \A j \in 1 .. Width : InPlace[j] = worker.buffer[worker.i + j]
  <2>1. PICK b \in Seq(Byte), i \in Nat, w \in Nat : b = worker.buffer /\ i = worker.i /\ w = Width
    BY <1>f, <1>b
  <2>2. InPlace = SubSeq(b, i + 1, i + w) /\ i + w <= Len(b)
    BY <1>l, <2>1 DEF InPlace
  <2> QED BY <2>1, <2>2, SliceFacts
<1>x. PICK x \in FoundTypes : x = FoundHere /\ x.address = here
  <2>1. FoundHere.address = here
    BY <1>h DEF FoundHere
  <2>2. FoundHere \in FoundTypes
    BY <1>h, <1>p DEF FoundHere, FoundTypes
  <2> QED BY <2>1, <2>2
<1>g. PICK found : found = IF Matches THEN Append(worker.found, x) ELSE worker.found
  OBVIOUS
<1>k. found \in Seq(FoundTypes) /\ worker.found \in Seq(FoundTypes)
  BY <1>f, <1>g, <1>x DEF WorkerTypes
<1>m. PICK s \in {1, 2, 4, 8} : s = Stride(Snapshot, value.type)
  BY <1>f
<1>n. /\ Region.base + worker.offset <= here /\ here < Region.base + worker.offset + (worker.i + s)
      /\ here < Region.base + worker.offset + ChunkSize
      /\ Region.base <= here /\ here < Region.base + Region.size
      /\ \A j \in 1 .. Width : here + j - 1 \in Region.base .. Region.base + Region.size - 1
  <2>1. PICK base \in Nat, offset \in Nat, i \in Nat, size \in Nat, len \in Nat, span \in Nat,
          w \in Nat :
            /\ base = Region.base /\ offset = worker.offset /\ i = worker.i /\ size = Region.size
            /\ len = Len(worker.buffer) /\ span = ChunkSpan /\ w = Width
    BY <1>f, <1>r, <1>b
  <2>2. s \in Nat /\ s >= 1
    BY <1>m
  <2>3. len <= size - offset
    BY <1>r, <1>b, <2>1
  <2>4. here = base + offset + i /\ i < span /\ i + w <= len /\ w > 0 /\ span <= ChunkSize
          /\ ChunkSize \in Nat
    BY <1>s, <1>f, <1>r, <1>h, <1>l, <2>1
  <2>5. /\ base + offset <= here /\ here < base + offset + (i + s)
             /\ here < base + offset + ChunkSize
        /\ base <= here /\ here < base + size
        /\ \A j \in 1 .. w : here + j - 1 \in base .. base + size - 1
    BY <2>2, <2>3, <2>4
  <2> QED BY <2>1, <2>5
<1>1. /\ ScanTyped' /\ worker'.pc = "chunk" /\ worker'.job = worker.job
           /\ worker'.previous = worker.previous
      /\ worker'.at = worker.at /\ worker'.offset = worker.offset /\ worker'.buffer = worker.buffer
      /\ worker'.i = worker.i + s /\ worker'.found = found
  <2>1. worker' = [worker EXCEPT !.i = @ + s, !.found = found]
    BY <1>g, <1>m, <1>x DEF CompareOne
  <2>2. worker.i + s \in Nat
    BY <1>f, <1>m
  <2>3. worker' \in WorkerTypes
    BY <1>f, <1>k, <2>1, <2>2 DEF WorkerTypes
  <2>4. ScanTyped'
    BY <1>t, <1>u, <2>3 DEF ScanTyped
  <2> QED BY <1>f, <1>s, <2>1, <2>4 DEF WorkerTypes
<1>c. Calm
  BY <1>u, <1>1 DEF Calm
<1>2. AtWork'
  BY <1>t, <1>s, <1>u, <1>1 DEF AtWork
<1>3. AllDistinct'
  BY <1>t, <1>u, <1>1 DEF AllDistinct, Distinct
<1>a. /\ InOrder(found)
      /\ AddressesOf(found) = IF Matches THEN AddressesOf(worker.found) \cup {here}
           ELSE AddressesOf(worker.found)
  <2>1. \A a \in AddressesOf(worker.found) : a < here
    BY <1>t, <1>s, <1>h DEF OnlyBehind
  <2>2. InOrder(worker.found)
    BY <1>t, <1>s DEF OnlyBehind
  <2> QED BY <1>g, <1>k, <1>x, <2>1, <2>2, AppendInOrder
<1>4. OnlyBehind'
  <2>1. \A a \in AddressesOf(results) : Behind(a)'
    BY <1>t, <1>s, <1>f, <1>1, BehindGrows, ListAddresses DEF OnlyBehind
  <2>2. ASSUME NEW a \in AddressesOf(found)
        PROVE  /\ Region.base + worker.offset <= a
                    /\ a < Region.base + worker.offset + (worker.i + s)
               /\ a < Region.base + worker.offset + ChunkSize
               /\ InsideRegion(a, worker.at)
    <3>1. CASE a \in AddressesOf(worker.found)
      <4>1. /\ a \in Nat /\ Region.base + worker.offset <= a
                 /\ a < Region.base + worker.offset + worker.i
            /\ a < Region.base + worker.offset + ChunkSize /\ InsideRegion(a, worker.at)
        BY <1>t, <1>s, <3>1, ListAddresses DEF OnlyBehind
      <4> QED BY <1>f, <1>r, <1>m, <4>1
    <3>2. CASE a = here
      <4>1. /\ Region.base + worker.offset <= a /\ a < Region.base + worker.offset + (worker.i + s)
            /\ a < Region.base + worker.offset + ChunkSize
        BY <1>n, <3>2
      <4>2. a < Region.base + Region.size /\ Region.base <= a
        BY <1>n, <3>2
      <4> QED BY <1>r, <4>1, <4>2 DEF InsideRegion
    <3> QED BY <1>a, <3>1, <3>2
  <2>3. Region' = Region
    BY <1>1 DEF Region
  <2>4. \A a \in AddressesOf(worker'.found) :
            /\ Region'.base + worker'.offset <= a /\ a < Region'.base + worker'.offset + worker'.i
            /\ a < Region'.base + worker'.offset + ChunkSize
            /\ InsideRegion(a, worker'.at)
    BY <1>1, <2>2, <2>3
  <2>5. InOrder(results') /\ Len(results') <= options'.max /\ InOrder(worker'.found)
    BY <1>t, <1>s, <1>u, <1>1, <1>a DEF OnlyBehind
  <2> QED BY <1>u, <2>1, <2>4, <2>5 DEF OnlyBehind
<1>5. InChunk'
  <2>1. UNCHANGED <<Region, InRegion, Width, ReadSize, ChunkSpan, Snapshot, value>>
    BY <1>u, <1>1 DEF Region, InRegion, Width, ReadSize, ChunkSpan, Snapshot, value
  <2>2. (worker.i + s) % Stride(Snapshot, value.type) = 0
    BY <1>f, <1>m, Multiples
  <2> QED BY <1>t, <1>s, <1>u, <1>1, <2>1, <2>2 DEF InChunk
<1>6. AllFound'
  <2> SUFFICES ASSUME ~cancel, ~truncated, NEW k \in DOMAIN Regions,
                      EligibleRegion(Regions[k], options), WholeRegion(Regions[k])',
                      NEW a \in Expected(Regions[k])'
               PROVE  /\ Passed(k, a)' => a \in AddressesOf(results)
                      /\ k = worker.at /\ Region.base + worker.offset <= a
                           /\ a < Region.base + worker.offset + (worker.i + s)
                                => a \in AddressesOf(found)
    BY <1>u, <1>1 DEF AllFound, AddressesOf, EligibleRegion, Region
  <2>1. WholeRegion(Regions[k]) /\ a \in Expected(Regions[k])
    BY <1>t, <1>c, CalmRegions
  <2>2. /\ k \in Nat \ {0} /\ a \in Nat /\ Regions[k].base \in Nat /\ Regions[k].size \in Nat
        /\ Regions[k].base <= a /\ a + Width <= Regions[k].base + Regions[k].size
    BY <1>t, <2>1, ExpectedFacts
  <2>3. Passed(k, a)' => a \in AddressesOf(results)
    <3>1. Passed(k, a)' => Passed(k, a)
      BY <1>1 DEF Passed
    <3> QED BY <1>t, <1>s, <2>1, <3>1 DEF AllFound
  <2>4. ASSUME k = worker.at, Region.base + worker.offset <= a, a < here
        PROVE  a \in AddressesOf(found)
    <3>1. a \in AddressesOf(worker.found)
      BY <1>t, <1>s, <1>h, <2>1, <2>4 DEF AllFound
    <3> QED BY <1>a, <3>1
  <2>5. ASSUME k = worker.at, here <= a, a < here + s PROVE a = here /\ Matches
    <3>1. a = here
      <4>1. CASE Snapshot
        <5>1. (a - Region.base) % s = 0
          BY <1>m, <1>r, <2>1, <2>5, <4>1 DEF Expected
        <5>2. PICK y \in Nat : y = a - Region.base
          BY <1>r, <2>2, <2>5
        <5>3. PICK z \in Nat : z = worker.offset + worker.i
          BY <1>f
        <5>4. z % s = 0
          BY <1>f, <1>m, <5>3, Multiples
        <5>5. z <= y /\ y < z + s
          BY <1>r, <1>m, <1>h, <1>f, <2>2, <2>5, <5>2, <5>3
        <5>6. y = z
          BY <5>1, <5>2, <5>4, <5>5, Multiples
        <5> QED BY <1>r, <1>f, <1>h, <2>2, <5>2, <5>3, <5>6
      <4>2. CASE ~Snapshot
        <5>1. s = 1
          BY <1>m, <4>2 DEF Stride
        <5> QED BY <2>2, <2>5, <5>1
      <4> QED BY <4>1, <4>2
    <3>2. BytesAt(memory, here, Width) = InPlace
      <4>1. ASSUME NEW j \in 1 .. Width PROVE InPlace[j] = memory[here + j - 1]
        <5>1. worker.i + j \in 1 .. Len(worker.buffer)
          BY <1>f, <1>b, <1>l
        <5>2. Region.base + worker.offset + (worker.i + j) - 1 = here + j - 1
          BY <1>f, <1>r, <1>h
        <5>3. here + j - 1 \notin touched
          <6>1. here + j - 1 \in Region.base .. Region.base + Region.size - 1
            BY <1>n
          <6> QED BY <1>r, <2>1, <2>5, <6>1 DEF WholeRegion
        <5>4. worker.buffer[worker.i + j] = memory[here + j - 1]
          BY <1>t, <1>s, <5>1, <5>2, <5>3 DEF InChunk
        <5> QED BY <1>p, <5>4
      <4> QED BY <1>f, <1>p, <4>1 DEF BytesAt
    <3>3. Matches
      BY <1>r, <2>1, <2>5, <3>1, <3>2 DEF Expected, Matches
    <3> QED BY <3>1, <3>3
  <2>6. ASSUME k = worker.at, Region.base + worker.offset <= a,
                 a < Region.base + worker.offset + (worker.i + s)
        PROVE  a \in AddressesOf(found)
    <3>1. a < here \/ (here <= a /\ a < here + s)
      BY <1>f, <1>r, <1>h, <1>m, <2>2, <2>6
    <3>2. CASE a < here
      BY <2>4, <2>6, <3>2
    <3>3. CASE here <= a /\ a < here + s
      BY <1>a, <2>5, <2>6, <3>3
    <3> QED BY <3>1, <3>2, <3>3
  <2> QED BY <2>3, <2>6
<1>7. Filtered' /\ FirstDone' /\ NextDone'
  BY <1>f, <1>u, <1>1 DEF Filtered, Filtering, FirstDone, NextDone
<1> QED BY <1>1, <1>2, <1>3, <1>4, <1>5, <1>6, <1>7 DEF ScanInv

LEMMA ConcatInOrder ==
  ASSUME NEW s \in Seq(FoundTypes), NEW t \in Seq(FoundTypes), InOrder(s), InOrder(t),
         \A a \in AddressesOf(s), b \in AddressesOf(t) : a < b
  PROVE  /\ InOrder(s \o t) /\ s \o t \in Seq(FoundTypes) /\ Len(s \o t) = Len(s) + Len(t)
         /\ AddressesOf(s \o t) = AddressesOf(s) \cup AddressesOf(t)
<1>1. /\ DOMAIN s = 1 .. Len(s) /\ DOMAIN t = 1 .. Len(t) /\ Len(s) \in Nat /\ Len(t) \in Nat
      /\ s \o t \in Seq(FoundTypes) /\ Len(s \o t) = Len(s) + Len(t)
      /\ \A i \in 1 .. Len(s) : (s \o t)[i] = s[i]
      /\ \A i \in 1 .. Len(t) : (s \o t)[Len(s) + i] = t[i]
  OBVIOUS
<1>2. PICK m \in Nat, n \in Nat, u \in Seq(FoundTypes) : m = Len(s) /\ n = Len(t) /\ u = s \o t
  BY <1>1
<1>3. /\ DOMAIN u = 1 .. m + n
      /\ \A i \in 1 .. m : u[i] = s[i]
      /\ \A i \in 1 .. n : u[m + i] = t[i]
  BY <1>1, <1>2
<1>4. \A j \in 1 .. m + n : j \in 1 .. m \/ (j - m \in 1 .. n /\ u[j] = t[j - m])
  <2> SUFFICES ASSUME NEW j \in 1 .. m + n, j \notin 1 .. m
               PROVE j - m \in 1 .. n /\ u[j] = t[j - m]
    OBVIOUS
  <2>1. j - m \in 1 .. n /\ m + (j - m) = j
    BY <1>2
  <2> QED BY <1>3, <2>1
<1>5. InOrder(u)
  <2> SUFFICES ASSUME NEW i \in 1 .. m + n, NEW j \in 1 .. m + n, i < j
               PROVE  u[i].address < u[j].address
    BY <1>3 DEF InOrder
  <2>1. CASE i \in 1 .. m /\ j \in 1 .. m
    BY <1>1, <1>2, <1>3, <2>1 DEF InOrder
  <2>2. CASE i \in 1 .. m /\ j \notin 1 .. m
    <3>1. s[i].address \in AddressesOf(s)
      BY <1>1, <1>2, <2>2 DEF AddressesOf
    <3>2. t[j - m].address \in AddressesOf(t)
      BY <1>1, <1>2, <1>4, <2>2 DEF AddressesOf
    <3> QED BY <1>3, <1>4, <2>2, <3>1, <3>2
  <2>3. CASE i \notin 1 .. m /\ j \notin 1 .. m
    <3>1. i - m < j - m
      BY <1>2
    <3>2. PICK p \in DOMAIN t, q \in DOMAIN t : p = i - m /\ q = j - m
      BY <1>1, <1>2, <1>4, <2>3
    <3>3. t[p].address < t[q].address
      BY <3>1, <3>2 DEF InOrder
    <3> QED BY <1>4, <2>3, <3>2, <3>3
  <2>4. i \in 1 .. m \/ j \notin 1 .. m
    BY <1>2
  <2> QED BY <2>1, <2>2, <2>3, <2>4, Zenon
<1>6. AddressesOf(u) = AddressesOf(s) \cup AddressesOf(t)
  <2>1. ASSUME NEW a \in AddressesOf(u) PROVE a \in AddressesOf(s) \cup AddressesOf(t)
    <3>1. PICK j \in 1 .. m + n : a = u[j].address
      BY <1>3, <2>1 DEF AddressesOf
    <3> QED BY <1>1, <1>2, <1>3, <1>4, <3>1 DEF AddressesOf
  <2>2. ASSUME NEW a \in AddressesOf(s) PROVE a \in AddressesOf(u)
    <3>1. PICK i \in 1 .. m : a = s[i].address
      BY <1>1, <1>2, <2>2 DEF AddressesOf
    <3>2. i \in DOMAIN u /\ a = u[i].address
      BY <1>2, <1>3, <3>1
    <3> QED BY <3>2 DEF AddressesOf
  <2>3. ASSUME NEW a \in AddressesOf(t) PROVE a \in AddressesOf(u)
    <3>1. PICK i \in 1 .. n : a = t[i].address
      BY <1>1, <1>2, <2>3 DEF AddressesOf
    <3>2. m + i \in DOMAIN u /\ a = u[m + i].address
      BY <1>2, <1>3, <3>1
    <3> QED BY <3>2 DEF AddressesOf
  <2> QED BY <2>1, <2>2, <2>3
<1> QED BY <1>1, <1>2, <1>5, <1>6

LEMMA PrefixInOrder ==
  ASSUME NEW s \in Seq(FoundTypes), InOrder(s), NEW n \in Nat,
         NEW t, t = FirstOf(s, n)
  PROVE  /\ InOrder(t) /\ t \in Seq(FoundTypes) /\ Len(t) <= n
         /\ AddressesOf(t) \subseteq AddressesOf(s)
         /\ Len(s) <= n => t = s
<1>1. PICK m \in Nat : m = LessOf(Len(s), n) /\ m <= Len(s) /\ m <= n
  BY DEF LessOf
<1>2. /\ t \in Seq(FoundTypes) /\ Len(t) = m /\ DOMAIN t = 1 .. m
      /\ \A i \in 1 .. m : t[i] = s[i]
  BY <1>1 DEF FirstOf
<1>3. DOMAIN s = 1 .. Len(s) /\ Len(s) \in Nat /\ \A i \in 1 .. m : i \in DOMAIN s
  BY <1>1
<1>4. InOrder(t)
  BY <1>2, <1>3 DEF InOrder
<1>5. AddressesOf(t) \subseteq AddressesOf(s)
  BY <1>2, <1>3 DEF AddressesOf
<1>6. ASSUME Len(s) <= n PROVE t = s
  <2>1. m = Len(s)
    BY <1>1, <1>3, <1>6 DEF LessOf
  <2> QED BY <1>2, <1>3, <2>1
<1> QED BY <1>1, <1>2, <1>4, <1>5, <1>6

LEMMA EmitBatchKeeps == ASSUME ScanAssumption, ScanInv, EmitBatch PROVE ScanInv'
<1> USE DEF inProcess, history
<1>t. ScanTyped /\ AtWork /\ AllDistinct /\ OnlyBehind /\ InChunk /\ AllFound
  BY DEF ScanInv
<1>u. UNCHANGED <<memory, mapped, touched, asked, options, cancel, running, status, caller>>
  BY DEF EmitBatch
<1>s. Scanning /\ worker.pc = "chunk" /\ InRegion /\ Width > 0
  BY <1>t DEF EmitBatch, Scanning, InChunk
<1>f. /\ worker \in WorkerTypes /\ worker.at \in Nat \ {0} /\ worker.offset \in Nat /\ Width \in Nat
      /\ status = "starting" /\ worker.i \in Nat /\ options.max \in Nat
      /\ ChunkSize \in Nat \ {0} /\ ChunkSize % Stride(Snapshot, value.type) = 0
      /\ Stride(Snapshot, value.type) \in {1, 2, 4, 8}
      /\ worker.offset % Stride(Snapshot, value.type) = 0
  BY <1>t, <1>s, ScanningFacts DEF InChunk
<1>r. /\ worker.at \in DOMAIN Regions /\ Region = Regions[worker.at]
      /\ Region.base \in Nat /\ Region.size \in Nat
      /\ worker.offset < Region.size
      /\ ChunkSpan \in Nat /\ ChunkSpan <= ChunkSize
      /\ ChunkSpan = ChunkSize \/ ChunkSpan = Region.size - worker.offset
      /\ ReadSize \in Int /\ ReadSize <= Region.size - worker.offset
      /\ ReadSize = ChunkSpan + Width - 1 \/ ReadSize = Region.size - worker.offset
  BY <1>t, <1>s, InRegionFacts
<1>b. /\ worker.buffer \in Seq(Byte) /\ Len(worker.buffer) \in Nat
      /\ Width <= Len(worker.buffer) /\ Len(worker.buffer) <= ReadSize
      /\ Len(worker.buffer) < ReadSize
           => Region.base + worker.offset + Len(worker.buffer) \notin mapped
  BY <1>t, <1>s, <1>f DEF InChunk, WorkerTypes
<1>l. results \in Seq(FoundTypes) /\ worker.found \in Seq(FoundTypes)
  BY <1>t, ListTypes
<1>a. PICK all \in Seq(FoundTypes) :
          /\ all = results \o worker.found
          /\ InOrder(all) /\ AddressesOf(all) = AddressesOf(results) \cup AddressesOf(worker.found)
          /\ Len(all) = Len(results) + Len(worker.found)
  <2>1. ASSUME NEW a \in AddressesOf(results), NEW b \in AddressesOf(worker.found) PROVE a < b
    <3>1. a \in Nat /\ b \in Nat /\ Region.base + worker.offset <= b
      BY <1>t, <1>s, <2>1, ListAddresses DEF OnlyBehind
    <3>2. PICK k \in DOMAIN Regions : InsideRegion(a, k) /\ Passed(k, a)
      BY <1>t, <1>s, <2>1 DEF OnlyBehind, Behind
    <3>3. Regions[k].base \in Nat /\ Regions[k].size \in Nat
      BY RegionsTyped
    <3>4. CASE k < worker.at
      <4>1. Regions[k].base + Regions[k].size <= Region.base
        BY <1>r, <3>4 DEF ScanAssumption
      <4>2. a < Regions[k].base + Regions[k].size
        BY <3>2 DEF InsideRegion
      <4> QED BY <1>f, <1>r, <3>1, <3>3, <4>1, <4>2
    <3>5. CASE k = worker.at /\ a < Regions[k].base + worker.offset
      BY <1>f, <1>r, <3>1, <3>5
    <3> QED BY <3>2, <3>4, <3>5 DEF Passed
  <2>2. InOrder(results) /\ InOrder(worker.found)
    BY <1>t, <1>s DEF OnlyBehind
  <2> QED BY <1>l, <2>1, <2>2, ConcatInOrder
<1>e. /\ results' = FirstOf(all, options.max)
      /\ truncated' = (truncated \/ (worker.found # <<>> /\ HitsLimit(Len(all))))
  BY <1>a DEF EmitBatch
<1>o. /\ InOrder(results') /\ results' \in Seq(FoundTypes) /\ Len(results') <= options.max
      /\ AddressesOf(results') \subseteq AddressesOf(all)
      /\ Len(all) <= options.max => results' = all
  <2>1. PICK t : t = FirstOf(all, options.max)
    OBVIOUS
  <2>2. /\ InOrder(t) /\ t \in Seq(FoundTypes) /\ Len(t) <= options.max
        /\ AddressesOf(t) \subseteq AddressesOf(all)
        /\ Len(all) <= options.max => t = all
    <3>1. PICK max \in Nat : max = options.max
      BY <1>f
    <3>2. t = FirstOf(all, max)
      BY <2>1, <3>1
    <3> QED BY <1>a, <3>1, <3>2, PrefixInOrder
  <2>3. results' = t
    BY <1>e, <2>1
  <2> QED BY <2>2, <2>3 DEF InOrder, AddressesOf
<1>1. /\ ScanTyped' /\ worker'.pc \in {"first", "end"} /\ worker'.job = worker.job
           /\ worker'.previous = worker.previous
      /\ worker'.at = worker.at /\ worker'.offset = worker.offset + ChunkSize
      /\ worker'.i = 0 /\ worker'.found = <<>>
      /\ worker'.pc = "end" => truncated'
  <2>1. PICK pc \in {"first", "end"} : pc = IF truncated' THEN "end" ELSE "first"
    OBVIOUS
  <2>2. worker' = [worker EXCEPT !.pc = pc, !.offset = @ + ChunkSize, !.i = 0, !.buffer = <<>>,
          !.found = <<>>]
        /\ worker.offset + ChunkSize \in Nat
    BY <1>f, <2>1 DEF EmitBatch
  <2>3. <<>> \in Seq(FoundTypes) /\ <<>> \in Seq(Byte)
    OBVIOUS
  <2>4. worker' \in WorkerTypes
    BY <1>f, <2>2, <2>3 DEF WorkerTypes
  <2>5. truncated' \in BOOLEAN
    BY <1>e
  <2>6. ScanTyped'
    BY <1>t, <1>u, <1>o, <2>4, <2>5 DEF ScanTyped
  <2> QED BY <1>f, <1>s, <2>1, <2>2, <2>6 DEF WorkerTypes
<1>c. Calm
  BY <1>u, <1>1 DEF Calm
<1>2. AtWork'
  BY <1>t, <1>s, <1>u, <1>1 DEF AtWork
<1>3. AllDistinct'
  <2>1. Distinct(results')
    BY <1>o, OrderedDistinct
  <2> QED BY <1>t, <1>u, <1>1, <2>1 DEF AllDistinct, Distinct
<1>4. OnlyBehind'
  <2>1. ASSUME NEW a \in AddressesOf(results) PROVE Behind(a)'
    BY <1>t, <1>s, <1>f, <1>1, <2>1, BehindGrows, ListAddresses DEF OnlyBehind
  <2>2. ASSUME NEW a \in AddressesOf(worker.found) PROVE Behind(a)'
    <3>1. /\ a \in Nat /\ a < Region.base + worker.offset + ChunkSize /\ InsideRegion(a, worker.at)
      BY <1>t, <1>s, <2>2, ListAddresses DEF OnlyBehind
    <3>3. PICK k \in DOMAIN Regions : k = worker.at
      BY <1>r
    <3>4. InsideRegion(a, k) /\ Passed(k, a)'
      BY <1>f, <1>r, <1>1, <3>1, <3>3 DEF Passed
    <3> QED BY <3>4 DEF Behind, InsideRegion
  <2>3. \A a \in AddressesOf(results') : Behind(a)'
    BY <1>a, <1>o, <2>1, <2>2
  <2>4. AddressesOf(worker'.found) = {} /\ InOrder(worker'.found)
    BY <1>1 DEF AddressesOf, InOrder
  <2>5. \A a : a \notin AddressesOf(worker'.found)
    BY <2>4
  <2> QED BY <1>o, <1>u, <2>3, <2>4, <2>5 DEF OnlyBehind
<1>5. InChunk'
  <2>1. (worker.offset + ChunkSize) % Stride(Snapshot, value.type) = 0
    BY <1>f, Multiples
  <2>2. 0 % Stride(Snapshot, value.type) = 0
    BY <1>f
  <2> QED BY <1>1, <2>1, <2>2 DEF InChunk, Snapshot, value
<1>6. AllFound'
  <2> SUFFICES ASSUME ~cancel, ~truncated', NEW k \in DOMAIN Regions,
                      EligibleRegion(Regions[k], options), WholeRegion(Regions[k])',
                      NEW a \in Expected(Regions[k])', Passed(k, a)'
               PROVE  a \in AddressesOf(results')
    BY <1>u, <1>1 DEF AllFound, AddressesOf, EligibleRegion
  <2>1. WholeRegion(Regions[k]) /\ a \in Expected(Regions[k])
    BY <1>t, <1>c, CalmRegions
  <2>2. /\ k \in Nat \ {0} /\ a \in Nat /\ Regions[k].base \in Nat /\ Regions[k].size \in Nat
        /\ Regions[k].base <= a /\ a + Width <= Regions[k].base + Regions[k].size
    BY <1>t, <2>1, ExpectedFacts
  <2>3. ~truncated /\ AddressesOf(results') = AddressesOf(results) \cup AddressesOf(worker.found)
    <3>1. ~truncated /\ (worker.found = <<>> \/ ~(Len(all) >= options.max))
      BY <1>e DEF HitsLimit
    <3>2. Len(results) <= options.max /\ Len(results) \in Nat /\ Len(all) \in Nat
      BY <1>t, <1>s, <1>l, <1>a DEF OnlyBehind
    <3>3. CASE worker.found = <<>>
      <4>1. Len(all) <= options.max
        BY <1>a, <1>f, <3>2, <3>3
      <4> QED BY <1>a, <1>o, <3>1, <4>1
    <3>4. CASE ~(Len(all) >= options.max)
      <4>1. Len(all) <= options.max
        BY <1>f, <3>2, <3>4
      <4> QED BY <1>a, <1>o, <3>1, <4>1
    <3> QED BY <3>1, <3>3, <3>4
  <2>4. CASE k < worker.at \/ (k = worker.at /\ a < Regions[k].base + worker.offset)
    <3>1. a \in AddressesOf(results)
      BY <1>t, <1>s, <2>1, <2>3, <2>4 DEF AllFound, Passed
    <3> QED BY <2>3, <3>1
  <2>5. CASE k = worker.at /\ Regions[k].base + worker.offset <= a
          /\ a < Regions[k].base + worker.offset + ChunkSize
    <3>1. worker.i >= Limit
      BY <1>f, <1>r, <1>b DEF EmitBatch, Limit, LessOf
    <3>2. Len(worker.buffer) = ReadSize
      <4>1. ~(Len(worker.buffer) < ReadSize)
        BY <1>t, <1>s, <1>r, <1>b, <2>1, <2>5, ShortRead
      <4> QED BY <1>r, <1>b, <4>1
    <3>3. a < Region.base + worker.offset + Limit
      <4>1. PICK base \in Nat, offset \in Nat, size \in Nat, len \in Nat, span \in Nat, w \in Nat :
                /\ base = Region.base /\ offset = worker.offset /\ size = Region.size
                /\ len = Len(worker.buffer) /\ span = ChunkSpan /\ w = Width
        BY <1>f, <1>r, <1>b
      <4>2. /\ a + w <= base + size /\ base + offset <= a /\ a < base + offset + ChunkSize
            /\ span = ChunkSize \/ span = size - offset
            /\ len = span + w - 1 \/ len = size - offset
            /\ w > 0
        BY <1>s, <1>r, <2>2, <2>5, <3>2, <4>1
      <4>3. a < base + offset + span
        BY <1>f, <2>2, <4>2
      <4>4. a < base + offset + (len - w + 1)
        BY <1>f, <2>2, <4>2, <4>3
      <4>5. Limit = span \/ Limit = len - w + 1
        BY <4>1 DEF Limit, LessOf
      <4> QED BY <4>1, <4>3, <4>4, <4>5
    <3>4. Limit \in Int
      BY <1>f, <1>r, <1>b DEF Limit, LessOf
    <3>5. a < Region.base + worker.offset + worker.i
      <4>1. PICK start \in Nat, limit \in Int, i \in Nat :
                start = Region.base + worker.offset /\ limit = Limit /\ i = worker.i
        BY <1>f, <1>r, <3>4
      <4>2. a < start + limit /\ i >= limit
        BY <3>1, <3>3, <4>1
      <4>3. a < start + i
        BY <2>2, <4>2
      <4> QED BY <4>1, <4>3
    <3>6. a \in AddressesOf(worker.found)
      BY <1>t, <1>s, <1>r, <2>1, <2>3, <2>5, <3>5 DEF AllFound
    <3> QED BY <2>3, <3>6
  <2> QED BY <1>f, <1>1, <2>2, <2>4, <2>5 DEF Passed
<1>7. Filtered' /\ FirstDone' /\ NextDone'
  BY <1>f, <1>u, <1>1 DEF Filtered, Filtering, FirstDone, NextDone
<1> QED BY <1>1, <1>2, <1>3, <1>4, <1>5, <1>6, <1>7 DEF ScanInv

--------------------------------------------------------------------------------
(* Every step                                                                 *)

LEMMA ScanKept == ASSUME ScanAssumption, ScanInv, [ScanNext]_scanVars PROVE ScanInv'
<1>1. CASE UNCHANGED scanVars
  <2>1. ScanTyped /\ ScanTyped' /\ AllDistinct /\ AtWork
    BY <1>1 DEF ScanInv, ScanTyped, scanVars, inProcess, history, shared
  <2>2. Calm
    BY <1>1 DEF Calm, scanVars, inProcess, history, shared
  <2>3. Distinct(caller.previous)'
    BY <1>1, <2>1 DEF AllDistinct, Distinct, scanVars
  <2> QED BY <1>1, <2>1, <2>2, <2>3, Bystander DEF AtWork, scanVars, inProcess, history, shared
<1>2. CASE ScanNext
  BY <1>2, CallersKeep, StartKeeps, RejectEmptyKeeps, SkipRegionKeeps, ReadChunkKeeps,
     CompareOneKeeps,
     EmitBatchKeeps, FinishFirstKeeps, FilterOneKeeps, InstallKeeps, LeaveKeeps
     DEF ScanNext, Worker, Caller
<1> QED BY <1>1, <1>2

LEMMA ScanSettled == ASSUME ScanInv PROVE ResultsHonest
BY DEF ScanInv, FirstDone, NextDone, ResultsHonest, FirstComplete, NextComplete, AddressesOf

(* A first scan reports what is in memory, all of it unless it says that it   *)
(* is truncated; a rescan keeps exactly the survivors of the candidates it    *)
(* has been through, which are all of them if it ends below its limit; at the *)
(* limit it drops the others and does not say so.  What is cancelled leaves   *)
(* the results as they were (MemoryScanner.cpp).                              *)
THEOREM ResultsAlwaysHonest == ASSUME ScanAssumption PROVE ScanSpec => []ResultsHonest
<1>1. ScanInit => ScanInv
  BY ScanStarts
<1>2. ScanInv /\ [ScanNext]_scanVars => ScanInv'
  BY ScanKept
<1>3. ScanInv => ResultsHonest
  BY ScanSettled
<1> QED BY <1>1, <1>2, <1>3, PTL DEF ScanSpec

--------------------------------------------------------------------------------
(* Layouts: Structures                                                        *)

(* A guess.  What guess() takes at a slot, given what it takes from the next. *)
TakesWide(windows, size, at) ==
    Aligned(at) /\ at + 2 <= size /\ WideType(windows, at) # "none"
Taken(windows, size, rest, at) ==
    IF at = size THEN {}
    ELSE IF TakesWide(windows, size, at)
    THEN {Field(at, 2, WideType(windows, at))} \cup rest[at + 2]
    ELSE {Field(at, 1, NarrowType(windows, at))} \cup rest[at + 1]

(* The definition of the guess from the end of the object backwards is one:   *)
(* were there none from some slot on, there would be a last such slot.        *)
LEMMA GuessDefined ==
  ASSUME NEW windows, NEW size \in Nat
  PROVE  \E g : g = [at \in 0 .. size |-> Taken(windows, size, g, at)]
<1> DEFINE Defined(n) == \E g : g = [at \in size - n .. size |-> Taken(windows, size, g, at)]
           T == {n \in 0 .. size : ~Defined(n)}
<1>1. Defined(0)
  <2> DEFINE g == [at \in size .. size |-> {}]
  <2>1. g = [at \in size - 0 .. size |-> Taken(windows, size, g, at)]
    BY DEF Taken
  <2> QED BY <2>1
<1>2. ASSUME NEW n \in 0 .. size, n > 0, Defined(n - 1) PROVE Defined(n)
  <2>1. PICK g : g = [at \in size - (n - 1) .. size |-> Taken(windows, size, g, at)]
    BY <1>2
  <2> DEFINE here == size - n
             h == [at \in here .. size |-> IF at = here THEN Taken(windows, size, g, here) ELSE g[at]]
  <2>2. \A at \in here + 1 .. size : h[at] = g[at]
    OBVIOUS
  <2>3. ASSUME NEW at \in here .. size PROVE Taken(windows, size, h, at) = Taken(windows, size, g, at)
    <3>1. at # size => at + 1 \in here + 1 .. size
      OBVIOUS
    <3>2. TakesWide(windows, size, at) => at + 2 \in here + 1 .. size
      BY DEF TakesWide
    <3> HIDE DEF h, here
    <3> QED BY <2>2, <3>1, <3>2 DEF Taken
  <2>4. ASSUME NEW at \in here .. size PROVE h[at] = Taken(windows, size, h, at)
    <3>1. CASE at = here
      BY <2>3, <3>1
    <3>2. CASE at # here
      <4>1. at \in size - (n - 1) .. size /\ at \in here + 1 .. size
        BY <3>2
      <4>2. g[at] = Taken(windows, size, g, at)
        BY <2>1, <4>1
      <4> QED BY <2>2, <2>3, <4>1, <4>2
    <3> QED BY <3>1, <3>2
  <2>5. h = [at \in here .. size |-> Taken(windows, size, h, at)]
    BY <2>4
  <2> QED BY <2>5
<1> HIDE DEF Defined
<1>3. T = {}
  <2> SUFFICES ASSUME T # {} PROVE FALSE
    OBVIOUS
  <2>1. PICK n \in T : \A k \in T : n <= k
    <3>1. T \in SUBSET Nat
      OBVIOUS
    <3> HIDE DEF T
    <3> QED BY <3>1, LeastNumber
  <2>2. n \in 0 .. size /\ n > 0
    <3>1. n \in 0 .. size /\ ~Defined(n)
      BY <2>1
    <3>2. n # 0
      BY <1>1, <3>1
    <3> QED BY <3>1, <3>2
  <2>3. n - 1 \in 0 .. size /\ n - 1 \notin T
    BY <2>1, <2>2
  <2> QED BY <1>2, <2>1, <2>2, <2>3
<1>4. Defined(size)
  <2>1. size \in 0 .. size
    OBVIOUS
  <2> QED BY <1>3, <2>1
<1> QED
  <2>1. size - size = 0
    OBVIOUS
  <2> QED BY <1>4, <2>1 DEF Defined

LEMMA GuessUnfolds ==
  ASSUME NEW windows, NEW size \in Nat
  PROVE  \E g : /\ g = [at \in 0 .. size |-> Taken(windows, size, g, at)]
                /\ Guess(windows, size) = g[0]
<1> DEFINE Is(g) == g = [at \in 0 .. size |-> Taken(windows, size, g, at)]
           from == CHOOSE g : Is(g)
<1>1. Is(from)
  BY GuessDefined
<1>2. Guess(windows, size) = from[0]
  BY DEF Guess, Taken, TakesWide
<1> QED BY <1>1, <1>2

(* From a slot on: each of the rest has one field, wide fields are aligned    *)
(* and a field called a pointer holds one in every instance.                  *)
Tiles(windows, size, at, fields) ==
    /\ \A f \in fields :
         /\ f.offset \in Nat /\ f.width \in {1, 2}
         /\ at <= f.offset /\ End(f) <= size
         /\ f.width = 2 => f.offset % 2 = 0
         /\ f.type \in {"u64", "u32"} => \A w \in Slice(windows, f.offset, f.width) :
                                            AllZero(w) \/ w \in Mapped
    /\ \A p \in at .. size - 1 : \E f \in fields :
         /\ f.offset <= p /\ p < End(f)
         /\ \A g \in fields : g.offset <= p /\ p < End(g) => g = f

LEMMA PointersHold ==
  ASSUME NEW samples, PointerLike(samples)
  PROVE  \A w \in samples : AllZero(w) \/ w \in Mapped
BY DEF PointerLike, EverySampleOrZero, PointsSomewhere

(* One more field in front of those that tile the rest.                       *)
LEMMA OneMoreTile ==
  ASSUME NEW windows, NEW size \in Nat, NEW at \in 0 .. size, NEW width \in {1, 2}, at + width <= size,
         NEW rest, Tiles(windows, size, at + width, rest), NEW type,
         width = 2 => at % 2 = 0,
         type \in {"u64", "u32"} => \A w \in Slice(windows, at, width) : AllZero(w) \/ w \in Mapped
  PROVE  Tiles(windows, size, at, {Field(at, width, type)} \cup rest)
<1> DEFINE f == Field(at, width, type)
<1>1. f.offset = at /\ f.width = width /\ f.type = type /\ End(f) = at + width
  BY DEF Field, End
<1> HIDE DEF f
<1>2. \A g \in rest : g.offset \in Nat /\ g.width \in {1, 2} /\ End(g) \in Nat /\ at + width <= g.offset
  BY DEF Tiles, End
<1>3. ASSUME NEW g \in {f} \cup rest
      PROVE  /\ g.offset \in Nat /\ g.width \in {1, 2}
             /\ at <= g.offset /\ End(g) <= size
             /\ g.width = 2 => g.offset % 2 = 0
             /\ g.type \in {"u64", "u32"} => \A w \in Slice(windows, g.offset, g.width) :
                                                AllZero(w) \/ w \in Mapped
  <2>1. CASE g = f
    BY <1>1, <2>1
  <2>2. CASE g \in rest
    BY <1>2, <2>2 DEF Tiles
  <2> QED BY <2>1, <2>2
<1>4. ASSUME NEW p \in at .. size - 1
      PROVE  \E g \in {f} \cup rest :
               /\ g.offset <= p /\ p < End(g)
               /\ \A h \in {f} \cup rest : h.offset <= p /\ p < End(h) => h = g
  <2>1. CASE p < at + width
    <3>1. \A h \in rest : ~(h.offset <= p)
      BY <1>2, <2>1
    <3>2. f.offset <= p /\ p < End(f)
      BY <1>1, <2>1
    <3> QED BY <3>1, <3>2
  <2>2. CASE p >= at + width
    <3>1. p \in at + width .. size - 1
      BY <2>2
    <3>2. PICK g \in rest : /\ g.offset <= p /\ p < End(g)
                            /\ \A h \in rest : h.offset <= p /\ p < End(h) => h = g
      BY <3>1 DEF Tiles
    <3>3. ~(p < End(f))
      BY <1>1, <2>2
    <3> QED BY <3>2, <3>3
  <2> QED BY <2>1, <2>2
<1> QED BY <1>3, <1>4 DEF Tiles, f

LEMMA TakenTiles ==
  ASSUME NEW windows, NEW size \in Nat, NEW g, NEW at \in 0 .. size,
         \A k \in at + 1 .. size : Tiles(windows, size, k, g[k])
  PROVE  Tiles(windows, size, at, Taken(windows, size, g, at))
<1>1. CASE at = size
  BY <1>1 DEF Taken, Tiles
<1>2. CASE at # size /\ TakesWide(windows, size, at)
  <2> DEFINE type == WideType(windows, at)
  <2>1. at % 2 = 0 /\ at + 2 <= size /\ type # "none"
    BY <1>2 DEF TakesWide, Aligned
  <2>2. type \in {"u64", "u32"} => \A w \in Slice(windows, at, 2) : AllZero(w) \/ w \in Mapped
    BY PointersHold DEF WideType
  <2>3. at + 2 \in at + 1 .. size
    BY <2>1
  <2>4. Taken(windows, size, g, at) = {Field(at, 2, type)} \cup g[at + 2]
    BY <1>2 DEF Taken
  <2> HIDE DEF type
  <2>5. Tiles(windows, size, at + 2, g[at + 2])
    BY <2>3
  <2>6. Tiles(windows, size, at, {Field(at, 2, type)} \cup g[at + 2])
    BY <2>1, <2>2, <2>5, OneMoreTile
  <2> QED BY <2>4, <2>6
<1>3. CASE at # size /\ ~TakesWide(windows, size, at)
  <2> DEFINE type == NarrowType(windows, at)
  <2>1. type \in {"u64", "u32"} => \A w \in Slice(windows, at, 1) : AllZero(w) \/ w \in Mapped
    BY PointersHold DEF NarrowType
  <2>2. at + 1 \in at + 1 .. size /\ at + 1 <= size
    BY <1>3
  <2>3. Taken(windows, size, g, at) = {Field(at, 1, type)} \cup g[at + 1]
    BY <1>3 DEF Taken
  <2> HIDE DEF type
  <2>4. Tiles(windows, size, at + 1, g[at + 1])
    BY <2>2
  <2>5. Tiles(windows, size, at, {Field(at, 1, type)} \cup g[at + 1])
    <3>1. ASSUME NEW width \in {1, 2}, width = 1
          PROVE  Tiles(windows, size, at, {Field(at, width, type)} \cup g[at + width])
      <4>1. at + width <= size /\ (width = 2 => at % 2 = 0)
        BY <2>2, <3>1
      <4>2. Tiles(windows, size, at + width, g[at + width])
        BY <2>4, <3>1
      <4>3. type \in {"u64", "u32"} => \A w \in Slice(windows, at, width) : AllZero(w) \/ w \in Mapped
        BY <2>1, <3>1
      <4> QED BY <4>1, <4>2, <4>3, OneMoreTile
    <3> QED BY <3>1
  <2> QED BY <2>3, <2>5
<1> QED BY <1>1, <1>2, <1>3

LEMMA GuessFromStart ==
  ASSUME NEW windows, NEW size \in Nat
  PROVE  Tiles(windows, size, 0, Guess(windows, size))
<1>1. PICK g : /\ g = [at \in 0 .. size |-> Taken(windows, size, g, at)]
               /\ Guess(windows, size) = g[0]
  BY GuessUnfolds
<1> DEFINE Good(n) == Tiles(windows, size, size - n, g[size - n])
           T == {n \in 0 .. size : ~Good(n)}
<1>2. ASSUME NEW n \in 0 .. size, \A k \in 0 .. n - 1 : Good(k) PROVE Good(n)
  <2> DEFINE at == size - n
  <2>1. at \in 0 .. size
    OBVIOUS
  <2>2. ASSUME NEW k \in at + 1 .. size PROVE Tiles(windows, size, k, g[k])
    <3>1. size - k \in 0 .. n - 1 /\ size - (size - k) = k
      OBVIOUS
    <3> QED BY <1>2, <3>1
  <2>3. g[at] = Taken(windows, size, g, at)
    BY <1>1, <2>1
  <2> HIDE DEF at
  <2>4. Tiles(windows, size, at, g[at])
    BY <2>1, <2>2, <2>3, TakenTiles
  <2> QED BY <2>4 DEF at
<1> HIDE DEF Good
<1>3. T = {}
  <2> SUFFICES ASSUME T # {} PROVE FALSE
    OBVIOUS
  <2>1. PICK n \in T : \A k \in T : n <= k
    <3>1. T \in SUBSET Nat
      OBVIOUS
    <3> HIDE DEF T
    <3> QED BY <3>1, LeastNumber
  <2>2. n \in 0 .. size /\ ~Good(n)
    BY <2>1
  <2>3. \A k \in 0 .. n - 1 : k \in 0 .. size /\ ~(n <= k)
    BY <2>2
  <2>4. \A k \in 0 .. n - 1 : Good(k)
    BY <2>1, <2>3
  <2> QED BY <1>2, <2>2, <2>4
<1> QED
  <2>1. size \in 0 .. size /\ size - size = 0
    OBVIOUS
  <2>2. Good(size)
    BY <1>3, <2>1
  <2> QED BY <1>1, <2>1, <2>2 DEF Good

LEMMA GuessTilesAll ==
  ASSUME NEW windows, NEW size \in Nat
  PROVE  GuessTiles(windows, size)
<1>1. Tiles(windows, size, 0, Guess(windows, size))
  BY GuessFromStart
<1> DEFINE fields == Guess(windows, size)
<1>2. ASSUME NEW p \in 0 .. size - 1
      PROVE  Cardinality({f \in fields : f.offset <= p /\ p < End(f)}) = 1
  <2>1. PICK f \in fields : /\ f.offset <= p /\ p < End(f)
                            /\ \A h \in fields : h.offset <= p /\ p < End(h) => h = f
    BY <1>1 DEF Tiles
  <2> HIDE DEF fields
  <2>2. {h \in fields : h.offset <= p /\ p < End(h)} = {f}
    BY <2>1
  <2> QED BY <2>2, FS_Singleton
<1> QED BY <1>1, <1>2 DEF Tiles, GuessTiles

(* Fields: every one that is in a layout has a place and a width, and no two  *)
(* of a layout overlap.                                                       *)
IsField(f) == f.offset \in Int /\ f.width \in Nat \ {0}
Apart(fields) ==
    /\ \A f \in fields : IsField(f)
    /\ \A f, g \in fields : f # g => ~Overlap(f, g)
LayoutsInv ==
    /\ nextStructure \in Nat
    /\ structures = [i \in DOMAIN structures |-> structures[i]]
    /\ \A id \in DOMAIN structures : Apart(structures[id])

(* The new field replaces the one that starts where it does.                  *)
LEMMA SetFieldApart ==
  ASSUME NEW fields, Apart(fields), NEW f, IsField(f),
         \A g \in fields : g.offset # f.offset => ~Overlap(f, g)
  PROVE  Apart({g \in fields : g.offset # f.offset} \cup {f})
<1> DEFINE new == {g \in fields : g.offset # f.offset} \cup {f}
<1>1. \A g \in new : IsField(g)
  BY DEF Apart
<1>2. ASSUME NEW g \in new, NEW h \in new, g # h PROVE ~Overlap(g, h)
  <2>1. CASE g = f
    BY <1>2, <2>1
  <2>2. CASE h = f
    <3>1. ~Overlap(f, g)
      BY <1>2, <2>2
    <3> QED BY <2>2, <3>1 DEF Overlap
  <2>3. CASE g # f /\ h # f
    BY <1>2, <2>3 DEF Apart
  <2> QED BY <2>1, <2>2, <2>3
<1> QED BY <1>1, <1>2 DEF Apart

LEMMA OneLayoutChanges ==
  ASSUME LayoutsInv, NEW id \in DOMAIN structures, NEW fields, Apart(fields),
         structures' = [structures EXCEPT ![id] = fields], UNCHANGED nextStructure
  PROVE  LayoutsInv'
BY DEF LayoutsInv

LEMMA ListsTyped ==
  ASSUME StructuresAssumption, NEW fields \in LoadedLists \cup Guesses
  PROVE  \A f \in fields : f.offset \in Int /\ f.width \in Nat
<1>1. CASE fields \in LoadedLists
  <2>1. PICK a \in Starts, b \in Starts : fields = {Field(a, 1, "i32"), Field(b, 2, "u64")}
    BY <1>1 DEF LoadedLists
  <2> QED BY <2>1 DEF Field, StructuresAssumption
<1>2. CASE fields \in Guesses
  <2>1. PICK windows : fields = Guess(windows, ObjectSize)
    BY <1>2 DEF Guesses
  <2>2. Tiles(windows, ObjectSize, 0, fields)
    BY <2>1, GuessFromStart DEF StructuresAssumption
  <2> QED BY <2>2 DEF Tiles
<1> QED BY <1>1, <1>2

LEMMA LayoutsKept ==
  ASSUME StructuresAssumption, LayoutsInv, [LayoutsNext]_layouts
  PROVE  LayoutsInv'
<1>1. CASE UNCHANGED layouts
  BY <1>1 DEF LayoutsInv, layouts
<1>2. CASE AddStructure
  <2>1. Apart({})
    BY DEF Apart
  <2> QED BY <1>2, <2>1 DEF AddStructure, LayoutsInv
<1>3. CASE ForgetLayouts
  BY <1>3 DEF ForgetLayouts, LayoutsInv
<1>4. ASSUME NEW id \in DOMAIN structures, RemoveStructure(id) PROVE LayoutsInv'
  BY <1>4 DEF RemoveStructure, LayoutsInv
<1>5. ASSUME NEW id \in DOMAIN structures, NEW offset \in Starts, RemoveField(id, offset)
      PROVE  LayoutsInv'
  <2> DEFINE left == {g \in structures[id] : g.offset # offset}
  <2>1. Apart(left)
    BY DEF LayoutsInv, Apart
  <2>2. structures' = [structures EXCEPT ![id] = left] /\ UNCHANGED nextStructure
    BY <1>5 DEF RemoveField
  <2> QED BY <2>1, <2>2, OneLayoutChanges
<1>6. ASSUME NEW id \in DOMAIN structures, NEW offset \in Starts, NEW width \in Widths,
             SetField(id, Field(offset, width, "i32"))
      PROVE  LayoutsInv'
  <2> DEFINE f == Field(offset, width, "i32")
  <2>1. f.offset = offset /\ f.width = width
    BY DEF Field
  <2>2. IsField(f)
    BY <1>6, <2>1 DEF SetField, StructuresAssumption, IsField
  <2>3. \A g \in structures[id] : g.offset # f.offset => ~Overlap(f, g)
    BY <1>6 DEF SetField
  <2> DEFINE new == {g \in structures[id] : g.offset # f.offset} \cup {f}
  <2>4. structures' = [structures EXCEPT ![id] = new] /\ UNCHANGED nextStructure
    BY <1>6 DEF SetField
  <2>5. Apart(structures[id])
    BY DEF LayoutsInv
  <2> HIDE DEF f
  <2>6. Apart(new)
    BY <2>2, <2>3, <2>5, SetFieldApart
  <2> HIDE DEF new
  <2> QED BY <2>4, <2>6, OneLayoutChanges
<1>7. ASSUME NEW id \in DOMAIN structures, NEW fields \in LoadedLists \cup Guesses,
             SetFields(id, fields)
      PROVE  LayoutsInv'
  <2>1. \A f \in fields : f.offset \in Int /\ f.width \in Nat
    BY <1>7, ListsTyped
  <2>2. Apart(fields)
    BY <1>7, <2>1 DEF SetFields, Apart, IsField
  <2>3. structures' = [structures EXCEPT ![id] = fields] /\ UNCHANGED nextStructure
    BY <1>7 DEF SetFields
  <2> QED BY <2>2, <2>3, OneLayoutChanges
<1> QED BY <1>1, <1>2, <1>3, <1>4, <1>5, <1>6, <1>7 DEF LayoutsNext

LEMMA ApartDisjoint == LayoutsInv => FieldsDisjoint
<1> SUFFICES ASSUME LayoutsInv, NEW id \in DOMAIN structures, NEW f \in structures[id],
                    NEW g \in structures[id], f # g, NEW at \in f.offset .. (End(f) - 1)
             PROVE  ~(g.offset <= at /\ at < End(g))
  BY DEF FieldsDisjoint
<1>1. IsField(f) /\ IsField(g) /\ ~Overlap(f, g)
  BY DEF LayoutsInv, Apart
<1>2. f.offset \in Int /\ f.width \in Nat /\ g.offset \in Int /\ g.width \in Nat
  BY <1>1 DEF IsField
<1> QED BY <1>1, <1>2 DEF Overlap, End

LEMMA Cut ==
  ASSUME NEW S, NEW s \in Seq(S), NEW o \in Nat, NEW w \in Nat, o + w <= Len(s)
  PROVE  /\ SubSeq(s, o + 1, o + w) \in Seq(S) /\ Len(SubSeq(s, o + 1, o + w)) = w
         /\ \A k \in 1 .. w : SubSeq(s, o + 1, o + w)[k] = s[o + k]
OBVIOUS

LEMMA SameSequence ==
  ASSUME NEW S, NEW s \in Seq(S), NEW t \in Seq(S), Len(s) = Len(t), \A k \in 1 .. Len(s) : s[k] = t[k]
  PROVE  s = t
OBVIOUS

(* A row.  The cells are cut from the instances that could be read.           *)
LEMMA RowsCompareAll ==
  ASSUME NEW S, NEW n \in Nat, NEW windows \in [1 .. n -> Seq(S)],
         NEW field, field.offset \in Nat, field.width \in Nat,
         \A i \in 1 .. n : windows[i] # Unread => End(field) <= Len(windows[i])
  PROVE  RowsCompare(windows, field)
<1> DEFINE cells == [i \in DOMAIN windows |-> Cell(windows[i], field)]
           read == {i \in DOMAIN cells : cells[i] # Unread}
           live == {i \in 1 .. n : windows[i] # Unread}
           o == field.offset
           w == field.width
<1>0. DOMAIN windows = 1 .. n /\ DOMAIN cells = 1 .. n /\ End(field) = o + w
  BY DEF End
<1>1. ASSUME NEW i \in live
      PROVE  /\ cells[i] \in Seq(S) /\ Len(cells[i]) = w
             /\ \A k \in 1 .. w : cells[i][k] = windows[i][o + k]
  <2>1. cells[i] = SubSeq(windows[i], o + 1, o + w)
    BY <1>0 DEF Cell
  <2>2. windows[i] \in Seq(S) /\ o + w <= Len(windows[i])
    BY <1>0
  <2>3. o \in Nat /\ w \in Nat
    OBVIOUS
  <2> HIDE DEF cells, o, w
  <2> QED BY <2>1, <2>2, <2>3, Cut
<1>2. ASSUME NEW i \in 1 .. n, i \notin live PROVE cells[i] = Unread
  <2>1. windows[i] = Unread
    BY <1>2
  <2> QED BY <1>0, <2>1 DEF Cell
<1>3. ASSUME NEW i \in live, NEW j \in live
      PROVE  cells[i] = cells[j] <=> \A at \in o .. o + w - 1 : windows[i][at + 1] = windows[j][at + 1]
  <2>1. ASSUME cells[i] = cells[j], NEW at \in o .. o + w - 1
        PROVE  windows[i][at + 1] = windows[j][at + 1]
    <3>1. at - o + 1 \in 1 .. w /\ o + (at - o + 1) = at + 1
      OBVIOUS
    <3> QED BY <1>1, <2>1, <3>1
  <2>2. ASSUME \A at \in o .. o + w - 1 : windows[i][at + 1] = windows[j][at + 1]
        PROVE  cells[i] = cells[j]
    <3>1. ASSUME NEW k \in 1 .. w PROVE cells[i][k] = cells[j][k]
      <4>1. o + k - 1 \in o .. o + w - 1 /\ (o + k - 1) + 1 = o + k
        OBVIOUS
      <4> QED BY <1>1, <2>2, <4>1
    <3>2. cells[i] \in Seq(S) /\ cells[j] \in Seq(S) /\ Len(cells[i]) = w /\ Len(cells[j]) = w
      BY <1>1
    <3> HIDE DEF cells, w
    <3> QED BY <3>1, <3>2, SameSequence
  <2> QED BY <2>1, <2>2
<1>4. Row(windows, field).identical = Identical(cells)
  BY DEF Row
<1>5. CASE w = 0
  <2>1. \A i \in live : cells[i] = Unread
    BY <1>1, <1>5 DEF Unread
  <2>2. read = {}
    BY <1>0, <1>2, <2>1
  <2>3. Identical(cells)
    BY <2>2 DEF Identical
  <2>4. o .. o + w - 1 = {}
    BY <1>5
  <2>5. Row(windows, field).identical
    BY <1>4, <2>3
  <2> HIDE DEF cells, read
  <2> QED BY <1>0, <2>4, <2>5 DEF RowsCompare
<1>6. CASE w > 0
  <2>1. \A i \in live : cells[i] # Unread
    BY <1>1, <1>6 DEF Unread
  <2>2. read = live
    BY <1>0, <1>2, <2>1
  <2>3. Identical(cells) <=> \A i, j \in live : cells[i] = cells[j]
    <3>1. CASE live = {}
      BY <2>2, <3>1 DEF Identical
    <3>2. CASE live # {}
      <4> DEFINE first == CHOOSE i \in read : \A j \in read : i <= j
      <4>1. \E i \in live : \A j \in live : i <= j
        <5>1. live \in SUBSET Nat
          OBVIOUS
        <5> HIDE DEF live
        <5> QED BY <3>2, <5>1, LeastNumber
      <4>2. first \in live
        BY <2>2, <4>1
      <4>3. Identical(cells) <=> \A i \in live : cells[i] = cells[first]
        BY <2>2 DEF Identical
      <4> QED BY <4>2, <4>3
    <3> QED BY <3>1, <3>2
  <2> QED BY <1>0, <1>3, <1>4, <2>3 DEF RowsCompare
<1> QED BY <1>5, <1>6

(* Layouts, guesses and rows: of any objects and any size of them.            *)
LEMMA GuessesTileAll == ASSUME StructuresAssumption PROVE GuessesTile
BY GuessTilesAll DEF GuessesTile, StructuresAssumption

LEMMA RowsTellAll == ASSUME StructuresAssumption PROVE RowsTellApart
<1> SUFFICES ASSUME NEW windows \in Objects, NEW at \in 0..ObjectSize, NEW width \in 0..(ObjectSize - at)
             PROVE  RowsCompare(windows, Field(at, width, "i32"))
  BY DEF RowsTellApart
<1> DEFINE field == Field(at, width, "i32")
<1>1. ObjectSize \in Nat
  BY DEF StructuresAssumption
<1>2. field.offset = at /\ field.width = width /\ End(field) = at + width
  BY DEF Field, End
<1>3. at \in Nat /\ width \in Nat /\ at + width <= ObjectSize
  BY <1>1
<1>4. windows \in Seq([1..ObjectSize -> Words] \cup {<< >>})
  BY DEF StructuresAssumption
<1>5. PICK n \in Nat : n = Len(windows) /\ DOMAIN windows = 1 .. n
  BY <1>4
<1>6. \A i \in 1 .. n : windows[i] \in [1..ObjectSize -> Words] \/ windows[i] = Unread
  BY <1>4, <1>5 DEF Unread
<1>7. ASSUME NEW i \in 1 .. n
      PROVE  windows[i] \in Seq(Words) /\ (windows[i] # Unread => at + width <= Len(windows[i]))
  <2>1. CASE windows[i] \in [1..ObjectSize -> Words]
    BY <1>1, <1>3, <2>1
  <2>2. CASE windows[i] = Unread
    BY <2>2 DEF Unread
  <2> QED BY <1>6, <2>1, <2>2
<1>8. windows \in [1 .. n -> Seq(Words)]
  <2>1. windows = [i \in 1 .. n |-> windows[i]]
    BY <1>4, <1>5
  <2> QED BY <1>7, <2>1
<1> HIDE DEF field
<1>9. RowsCompare(windows, field)
  BY <1>2, <1>3, <1>7, <1>8, RowsCompareAll
<1> QED BY <1>9 DEF field

(* Whatever the user adds, widens, replaces, removes, loads or has guessed,   *)
(* no two fields share a byte; every guess covers the object; and every row   *)
(* tells whether the live instances agree (Dissector.cpp).                    *)
THEOREM DissectorAlwaysSound ==
  ASSUME StructuresAssumption
  PROVE  LayoutsSpec => []DissectorSound
<1>1. LayoutsInit => LayoutsInv
  BY DEF LayoutsInit, LayoutsInv
<1>2. LayoutsInv /\ [LayoutsNext]_layouts => LayoutsInv'
  BY LayoutsKept
<1>3. LayoutsInv => DissectorSound
  BY ApartDisjoint, GuessesTileAll, RowsTellAll DEF DissectorSound
<1> QED BY <1>1, <1>2, <1>3, PTL DEF LayoutsSpec
================================================================================
