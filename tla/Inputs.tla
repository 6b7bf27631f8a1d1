---------------------------------- MODULE Inputs ---------------------------------
(* The pure functions against what they are for: a state is one input.        *)
EXTENDS Values, CodeBytes

CONSTANTS
    ComparedTypes,              \* types whose values are compared
    MaxText, PointerBytes,      \* length of a text; width of an address
    Sizes, MaxRead, MaxNeedle,  \* what a pattern is searched in, what of it can be read, the pattern
    Limits,                     \* on the results
    MaxCode, MaxLength          \* bytes of code, of an instruction

ASSUME InputsAssumption ==
    /\ ValuesAssumption /\ ComparedTypes \subseteq Whole
    /\ MaxText \in Nat /\ PointerBytes \in Nat
    /\ PatternChunk \in Nat \ {0} /\ Sizes \subseteq Nat /\ MaxRead \in Nat /\ MaxNeedle \in Nat /\ Limits \subseteq Nat
    /\ MaxListed \in Nat /\ MaxLookback \in Nat \ {0} /\ MaxCode \in Nat /\ MaxLength \in Nat

VARIABLE input

NoInput == [kind |-> "none"]

UpTo(most, set) == UNION {[1 .. n -> set] : n \in 0 .. most}
ValueOf(type) == [1 .. ValueTypeSize(type) -> Byte]

ComparedInputs == UNION {[kind : {"values"}, type : {t}, a : ValueOf(t), b : ValueOf(t), d : ValueOf(t)] : t \in ComparedTypes}
TextInputs == [kind : {"text"}, text : UpTo(MaxText, 0 .. Prefix)]
PatternInputs == [kind : {"pattern"}, bytes : UpTo(MaxRead, {0, 1}), size : Sizes,
                  pattern : UpTo(MaxNeedle, {AnyByte, 0, 1}), most : Limits]
CodeInputs == [kind : {"code"}, lengths : [1 .. MaxCode -> 0 .. MaxLength]]

InputsInit == input \in ComparedInputs \cup TextInputs \cup PatternInputs \cup CodeInputs
InputsSpec == InputsInit /\ [][UNCHANGED input]_input

--------------------------------------------------------------------------------
(* Properties                                                                 *)

Compares(mode, current, previous) == RelativeCompare(mode, input.type, current, previous, input.d)
Bounded(mode, low, high) == AbsoluteCompare(mode, input.type, input.a, low, high)

(* What one comparison says the others agree with, where the arithmetic wraps *)
(* too: a rise is a fall seen backwards, bounds may be given in either order  *)
(* (MemoryScanner.cpp, relativeCompare and absoluteCompare).                  *)
ComparesAgree ==
    /\ Compares("increased", input.a, input.b) <=> Compares("decreased", input.b, input.a)
    /\ Compares("increasedBy", input.a, input.b) <=> Compares("decreasedBy", input.b, input.a)
    /\ (Compares("increased", input.a, input.b) \/ Compares("decreased", input.a, input.b)) <=> input.a # input.b
    /\ Bounded("between", input.b, input.d) <=> Bounded("between", input.d, input.b)
    /\ Bounded("between", input.b, input.d) <=>
         ~(\/ Bounded("smaller", input.b, << >>) /\ Bounded("smaller", input.d, << >>)
           \/ Bounded("bigger", input.b, << >>) /\ Bounded("bigger", input.d, << >>))

(* Bytes written as hexadecimal read as what was written, by the parser of    *)
(* bytes and by that of patterns (Domain.cpp, bytesToHex and the parsers).    *)
ReadsAsWritten(bytes) ==
    ParseHexBytes(BytesToHex(bytes)) = bytes /\ ParseHexPattern(BytesToHex(bytes)).bytes = bytes

(* And what all the parsers take they read as the same (Domain.cpp,           *)
(* parseHexBytes, parseHexPattern and parseAddress).                          *)
ParsersAgree(text) ==
    /\ ParseAddress(text, PointerBytes) # -1 =>
         ParseAddress(text, PointerBytes) = Number(Reverse(ParseHexBytes(text)))
    /\ ParseHexPattern(text).bytes # << >> /\ (\A i \in DOMAIN text : text[i] # Wild) =>
         ParseHexPattern(text).bytes = ParseHexBytes(text)

(* Comparisons and parsers agree with each other; every match of a pattern is *)
(* found once, a patch over no more instructions than are listed is padded to *)
(* a whole one, and the instruction before an address is a real one.          *)
AlgorithmsSound ==
    /\ input.kind = "values" => ComparesAgree /\ ReadsAsWritten(input.a \o input.b)
    /\ input.kind = "text" => ParsersAgree(input.text)
    /\ input.kind = "pattern" /\ input.pattern # << >> =>
         PatternFound(input.bytes, input.size, input.pattern, input.most)
    /\ input.kind = "code" =>
         /\ \A end \in 1 .. MaxCode + 1, size \in 0 .. MaxCode : PadWhole(input.lengths, 1, end, size)
         /\ \A first \in 1 .. MaxCode : \A address \in first + 1 .. MaxCode + 1 :
               PrecedingReal(input.lengths, first, address)

(* What Disassembler.h says of padToInstructionBoundary, that the patch it    *)
(* returns covers whole instructions, for any code that can be read.  It is   *)
(* violated by a patch over more instructions than are listed, which comes    *)
(* back as it was.                                                            *)
CoversWhole ==
    input.kind = "code" => \A size \in 1 .. MaxCode :
        1 + PaddedLength(input.lengths, 1, MaxCode + 1, size) \in Boundaries(input.lengths, 1, MaxCode + 1)
================================================================================
