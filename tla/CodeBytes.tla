-------------------------------- MODULE CodeBytes --------------------------------
(* Three searches over the bytes of code: a pattern in chunks, the end of the *)
(* last instruction a patch touches, and the instruction before an address.   *)
(* A decoder is a table: at each position the length of the instruction that  *)
(* begins there, 0 where none does.  Positions count from 1.                  *)
EXTENDS Integers, SequencesExt, Positions

CONSTANTS
    PatternChunk,   \* the chunk a pattern is searched in
    MaxListed,      \* how many instructions a patch is padded over: 32 in the program
    MaxLookback     \* how far before an address decoding may start

(* findPattern.  What can be read ends at the end of bytes, and a read of     *)
(* fewer bytes than the pattern is passed over.                               *)
AtMost(a, b) == IF a < b THEN a ELSE b
PatternRead(span, needle, left) == AtMost(span + needle - 1, left)

AnyByte == -1
MatchAt(bytes, at, pattern) ==
    \A i \in DOMAIN pattern : pattern[i] = AnyByte \/ pattern[i] = bytes[at + i]

(* offset is the start of a chunk in the size bytes asked for.                *)
ChunkMatches(bytes, size, offset, pattern) ==
    LET needle == Len(pattern)
        span == AtMost(PatternChunk, size - offset)
        read == AtMost(PatternRead(span, needle, size - offset), Len(bytes) - offset)
    IN IF read < needle THEN {}
       ELSE {at \in offset .. offset + AtMost(span, read - needle + 1) - 1 : MatchAt(bytes, at, pattern)}

FindPattern(bytes, size, pattern, maxResults) ==
    LET offset(chunk) == (chunk - 1) * PatternChunk
        found[n \in 0 .. size] ==         \* in the first n chunks
          IF n = 0 THEN <<>>
          ELSE IF offset(n) + Len(pattern) > size THEN found[n - 1]
          ELSE found[n - 1] \o Ascending(ChunkMatches(bytes, size, offset(n), pattern))
    IN IF pattern = << >> THEN << >> ELSE SubSeq(found[size], 1, AtMost(Len(found[size]), maxResults))

--------------------------------------------------------------------------------
(* decodeBuffer: what does not decode within the window is one byte of data   *)

Decodes(lengths, at, end) == lengths[at] # 0 /\ at + lengths[at] <= end
StepWidth(lengths, at, end) == IF Decodes(lengths, at, end) THEN lengths[at] ELSE 1

(* The starts of a listing from at to end, with end itself last.              *)
Listing(lengths, from, end) ==
    LET start[i \in 0..(end - from)] ==
          IF i = 0 THEN from
          ELSE LET before == start[i - 1] IN
               IF before >= end THEN before ELSE before + StepWidth(lengths, before, end)
    IN [i \in 1..(end - from + 1) |-> start[i - 1]]

(* padToInstructionBoundary: one byte too early, and the last is cut in half. *)
CutShort(covered, size) == covered + 1 >= size      \* mutant: off by one
Covers(covered, size) == covered >= size

(* Where the first MaxListed instructions of a listing begin, and the last of *)
(* them ends.                                                                 *)
WithinListing(starts) == {at \in starts : Cardinality({b \in starts : b < at}) <= MaxListed}

(* How long a patch of size bytes at from becomes; end is the end of what can *)
(* be read.                                                                   *)
PaddedLength(lengths, from, end, size) ==
    LET listed == WithinListing(Range(Listing(lengths, from, end)))
        enough == {at \in listed : Covers(at - from, size)}
        covered == IF enough = {} THEN Max(listed) - from ELSE Min(enough) - from
    IN IF size = 0 THEN 0 ELSE IF covered > size THEN covered ELSE size

--------------------------------------------------------------------------------
(* precedingInstruction: of the instructions that end at the address, the one *)
(* most starting points agree on, and of those the longest.                   *)

(* Every instruction on the way decodes.                                      *)
InPhase(lengths, from, address) ==
    \A at \in Range(Listing(lengths, from, address)) : at < address => Decodes(lengths, at, address)

Landing(lengths, from, address) ==
    Max({at \in Range(Listing(lengths, from, address)) : at < address})

Votes(lengths, first, address) ==
    LET starts == {from \in first..(address - 1) : InPhase(lengths, from, address)}
    IN [at \in {Landing(lengths, from, address) : from \in starts} |->
          Cardinality({from \in starts : Landing(lengths, from, address) = at})]

(* 0 when nothing ends there.  first is where the readable window begins.     *)
PrecedingInstruction(lengths, first, address) ==
    LET votes == Votes(lengths, Max({first, address - MaxLookback}), address)
        most == {at \in DOMAIN votes : \A b \in DOMAIN votes : votes[b] <= votes[at]}
    IN IF most = {} THEN 0 ELSE Min(most)

--------------------------------------------------------------------------------
(* Properties, for one input each                                             *)

(* Every place of the pattern is found, once and in order, wherever the       *)
(* chunks end and the readable memory does (MemoryScanner.cpp, findPattern).  *)
PatternFound(bytes, size, pattern, maxResults) ==
    LET places == {at \in 0..(size - Len(pattern)) :
                     at + Len(pattern) <= Len(bytes) /\ MatchAt(bytes, at, pattern)}
        found == FindPattern(bytes, size, pattern, maxResults)
    IN /\ Len(found) = AtMost(maxResults, Cardinality(places))
       /\ \A i \in DOMAIN found : /\ found[i] \in places
                                  /\ Cardinality({p \in places : p < found[i]}) = i - 1

Boundaries(lengths, from, end) ==
    {at \in from..end : \E s \in SUBSET (from..end) :
       /\ {from, at} \subseteq s
       /\ \A x \in s : x < at => /\ x + StepWidth(lengths, x, end) \in s
                                 /\ \A y \in s : ~(x < y /\ y < x + StepWidth(lengths, x, end))}

(* The instructions a patch touches, at least in part.                        *)
TouchedBy(lengths, from, end, size) == {at \in Boundaries(lengths, from, end) : at - from < size}

(* A padded patch ends between two instructions, covers at least its own      *)
(* bytes, and takes no instruction it does not touch; one that goes past what *)
(* can be read, or touches more instructions than MaxListed, is left alone    *)
(* (Disassembler.cpp, padToInstructionBoundary).                              *)
PadWhole(lengths, from, end, size) ==
    LET padded == PaddedLength(lengths, from, end, size)
        boundaries == Boundaries(lengths, from, end)
        seen == from + size <= end /\ Cardinality(TouchedBy(lengths, from, end, size)) <= MaxListed
    IN /\ padded >= size
       /\ seen /\ size > 0 =>
            /\ from + padded \in boundaries
            /\ \A at \in boundaries : at - from >= size => at - from >= padded
       /\ ~seen => padded = size

(* The instruction taken for the one before an address is one, ends right     *)
(* there and begins within reach; and there is one if from anywhere within    *)
(* reach the code decodes up to the address (Disassembler.cpp,                *)
(* precedingInstruction).                                                     *)
PrecedingReal(lengths, first, address) ==
    LET taken == PrecedingInstruction(lengths, first, address)
        reach == Max({first, address - MaxLookback}) .. address - 1 IN
    /\ taken = 0 <=> \A from \in reach : ~InPhase(lengths, from, address)
    /\ taken # 0 => taken \in reach /\ lengths[taken] # 0 /\ taken + lengths[taken] = address
================================================================================
