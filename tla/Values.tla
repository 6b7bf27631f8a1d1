--------------------------------- MODULE Values ---------------------------------
(* What a value of the target is: its type, its bytes, how the scanner        *)
(* compares it and how text becomes one.  Pure functions of domain/Domain.cpp *)
(* and engine_scan/MemoryScanner.cpp.  Text is a sequence of tokens and a     *)
(* byte a pair of digits, of a base small enough to enumerate.                *)
EXTENDS Integers, SequencesExt, Positions

CONSTANT Digit      \* the base of a digit: 16 in the program
ValuesAssumption == Digit \in Nat \ {0, 1}

Base == Digit * Digit
Byte == 0 .. Base - 1

--------------------------------------------------------------------------------
(* Types and modes                                                            *)

Signed == {"i8", "i16", "i32", "i64"}
Unsigned == {"u8", "u16", "u32", "u64"}
Whole == Signed \cup Unsigned
Strings == {"str", "wstr"}
Types == Whole \cup {"f32", "f64", "bytes"} \cup Strings

ValueTypeSize(type) ==
    CASE type \in {"i8", "u8"} -> 1
      [] type \in {"i16", "u16"} -> 2
      [] type \in {"i32", "u32", "f32"} -> 4
      [] type \in {"i64", "u64", "f64"} -> 8
      [] OTHER -> 0

(* With a value typed in / against the value of an earlier scan.              *)
Absolute == {"exact", "between", "bigger", "smaller"}
Relative == {"changed", "unchanged", "increased", "decreased", "increasedBy", "decreasedBy", "same"}
Modes == Absolute \cup Relative \cup {"unknown"}

ModeUsesValue(mode) == mode \in Absolute \cup {"increasedBy", "decreasedBy"}
ModeNeedsBaseline(mode) == mode \in Relative
ModeSupportsType(mode, type) ==
    type \in {"bytes"} \cup Strings => mode \in {"exact", "changed", "unchanged", "same"}

--------------------------------------------------------------------------------
(* Bytes and numbers, little endian.                                          *)

Number(bytes) ==
    LET last[n \in 0 .. Len(bytes)] ==     \* of the last n of them
            IF n = 0 THEN 0 ELSE bytes[Len(bytes) - n + 1] + Base * last[n - 1]
    IN  last[Len(bytes)]

(* How many numbers so many bytes can tell apart.                             *)
Capacity(width) == LET capacity[k \in 0 .. width] == IF k = 0 THEN 1 ELSE Base * capacity[k - 1] IN capacity[width]

Unpack(type, bytes) ==
    LET n == Number(SubSeq(bytes, 1, ValueTypeSize(type)))
        capacity == Capacity(ValueTypeSize(type)) IN
    IF type \notin Whole \/ Len(bytes) < ValueTypeSize(type) THEN 0
    ELSE IF type \in Signed /\ 2 * n >= capacity THEN n - capacity ELSE n

(* static_cast to the type and memcpy: what does not fit is cut off.          *)
Pack(type, n) ==
    LET rest[k \in 0 .. ValueTypeSize(type)] == IF k = 0 THEN n ELSE rest[k - 1] \div Base IN
    [i \in 1 .. ValueTypeSize(type) |-> rest[i - 1] % Base]

Wrap(type, n) == Unpack(type, Pack(type, n))

--------------------------------------------------------------------------------
(* Comparing.  A floating point number compares as a whole one does but for a *)
(* tolerance, and is left out.                                                *)

RelativeCompare(mode, type, current, previous, delta) ==
    LET c == Unpack(type, current)
        p == Unpack(type, previous)
        d == Unpack(type, delta) IN
    /\ type \in Whole
    /\ CASE mode = "increased" -> c > p
         [] mode = "decreased" -> c < p
         [] mode = "increasedBy" -> c = Wrap(type, p + d)
         [] mode = "decreasedBy" -> c = Wrap(type, p - d)

Ordered(a, b) == IF a <= b THEN <<a, b>> ELSE <<b, a>>

AbsoluteCompare(mode, type, candidate, low, high) ==
    LET c == Unpack(type, candidate)
        a == Unpack(type, low)
        bounds == Ordered(a, Unpack(type, high)) IN
    /\ type \in Whole /\ Len(candidate) >= ValueTypeSize(type)
    /\ CASE mode = "bigger" -> c > a
         [] mode = "smaller" -> c < a
         [] mode = "between" -> bounds[1] <= c /\ c <= bounds[2]

(* Letters are the bytes of a few code points: the upper case of one is       *)
(* Digit below its lower case.                                                *)
Upper == {b \in Byte : b \div Digit = 0}
FoldAscii(b) == IF b \in Upper THEN b + Digit ELSE b

StringMatches(type, candidate, expected, ignoreCase) ==
    \A i \in DOMAIN expected :
        IF ~ignoreCase \/ (type = "wstr" /\ i % 2 = 0)
        THEN candidate[i] = expected[i]
        ELSE FoldAscii(candidate[i]) = FoldAscii(expected[i])

(* A mask that is not of the pattern's length is not one.                     *)
MatchesExact(value, candidate) ==
    IF value.type \in Strings
    THEN StringMatches(value.type, candidate, value.bytes, value.ignoreCase)
    ELSE \A i \in DOMAIN value.bytes :
            \/ Len(value.mask) = Len(value.bytes) /\ ~value.mask[i]
            \/ candidate[i] = value.bytes[i]

CompareValues(mode, value, current, previous, first) ==
    CASE mode = "exact" -> /\ Len(current) >= Len(value.bytes) /\ value.bytes # <<>>
                           /\ MatchesExact(value, current)
      [] mode \in {"between", "bigger", "smaller"} ->
             AbsoluteCompare(mode, value.type, current, value.bytes, value.bytes2)
      [] mode = "changed" -> current # previous
      [] mode = "unchanged" -> current = previous
      [] mode = "same" -> current = first
      [] mode \in {"increased", "decreased", "increasedBy", "decreasedBy"} ->
             RelativeCompare(mode, value.type, current, previous, value.bytes)
      [] OTHER -> TRUE

FirstScanMatches(mode, value, candidate) ==
    IF mode = "exact" THEN MatchesExact(value, candidate)
    ELSE AbsoluteCompare(mode, value.type, candidate, value.bytes, value.bytes2)

--------------------------------------------------------------------------------
(* Text: a digit, or one of the tokens below.                                 *)

Space == Digit
Wild == Digit + 1         \* a question mark
Other == Digit + 2        \* any other character
Prefix == Digit + 3       \* 0x
IsDigit(t) == t < Digit

BytesToHex(bytes) ==
    [k \in 1 .. 3 * Len(bytes) - 1 |->
        LET byte == bytes[(k + 2) \div 3] IN
        CASE k % 3 = 1 -> byte \div Digit
          [] k % 3 = 2 -> byte % Digit
          [] OTHER -> Space]

(* Everything that is no digit is dropped (0x too: its zero is a digit, its   *)
(* letter is not).                                                            *)
Spelled(text) == [i \in DOMAIN text |-> IF text[i] = Prefix THEN 0 ELSE text[i]]
DigitsOf(text) == Picked(Spelled(text), {i \in DOMAIN text : IsDigit(Spelled(text)[i])})

Pairs(digits) ==
    [i \in 1 .. Len(digits) \div 2 |-> digits[2 * i - 1] * Digit + digits[2 * i]]
PadOdd(digits) == IF Len(digits) % 2 = 0 THEN digits ELSE <<0>> \o digits
ParseHexBytes(text) == Pairs(PadOdd(DigitsOf(text)))

Unspaced(text) == Picked(text, {i \in DOMAIN text : text[i] # Space})

(* Where the bytes of a pattern begin: two digits are one, and so are two     *)
(* question marks, or one that stands alone.                                  *)
Lone(compact, k) == compact[k] = Wild /\ (k = Len(compact) \/ compact[k + 1] # Wild)
ByteStarts(compact) ==
    LET at[n \in 0 .. Len(compact)] ==
          IF n = 0 THEN 1
          ELSE IF at[n - 1] > Len(compact) THEN at[n - 1]
          ELSE at[n - 1] + (IF Lone(compact, at[n - 1]) THEN 1 ELSE 2)
    IN {at[n] : n \in 0 .. Len(compact)} \cap DOMAIN compact

NoPattern == [bytes |-> <<>>, mask |-> <<>>]

(* A half wildcard or an odd digit refuses the pattern.                       *)
ParseHexPattern(text) ==
    LET compact == Unspaced(text)
        starts == ByteStarts(compact)
        half(k) == IsDigit(compact[k]) /\ (k = Len(compact) \/ ~IsDigit(compact[k + 1]))
        byte == [k \in DOMAIN compact |-> IF k \in starts /\ IsDigit(compact[k])
                                          THEN compact[k] * Digit + compact[k + 1] ELSE 0]
        fixed == [k \in DOMAIN compact |-> IsDigit(compact[k])] IN
    IF (\E k \in DOMAIN compact : ~IsDigit(compact[k]) /\ compact[k] # Wild) \/ (\E k \in starts : half(k))
    THEN NoPattern
    ELSE [bytes |-> Picked(byte, starts), mask |-> Picked(fixed, starts)]

(* Hexadecimal with or without its prefix, whatever the digits look like, of  *)
(* a pointer's width at most.  -1: not an address.                            *)
ParseAddress(text, width) ==
    LET compact == Unspaced(text)
        value == IF compact # <<>> /\ compact[1] = Prefix THEN Tail(compact) ELSE compact IN
    IF value = <<>> \/ (\E i \in DOMAIN value : ~IsDigit(value[i])) \/ Len(value) > 2 * width
    THEN -1
    ELSE Number(Reverse(Pairs(PadOdd(value))))
================================================================================
