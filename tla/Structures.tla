------------------------------- MODULE Structures --------------------------------
(* The dissector: layouts of named fields, which the user edits, a project    *)
(* replaces and a guess fills in from what the instances hold, and the rows   *)
(* laid over several instances at once.  Memory is counted in words of four   *)
(* bytes; what a word or a pair of words looks like is a matter of sets.      *)
EXTENDS Integers, Sequences, FiniteSets

CONSTANTS
    Words,          \* what a word can hold
    ZeroWord,
    Floats,         \* words that read as a plausible float
    Doubles,        \* pairs that read as a plausible double
    Mapped,         \* words or pairs that are addresses in a readable region
    PointerWords,   \* words in a pointer of the target: 1 or 2
    Ids,            \* identifiers, at most
    Starts, Widths, \* where a field may start, and in how many words
    Objects,        \* what the instances may hold, each a sequence of them
    ObjectSize      \* in words

StructuresAssumption ==
    /\ ZeroWord \in Words /\ PointerWords \in {1, 2}
    /\ Floats \subseteq Words \ {ZeroWord}
    /\ Doubles \subseteq (Words \X Words) \ {<<ZeroWord, ZeroWord>>}
    /\ Ids \subseteq Nat /\ Starts \subseteq Int /\ Widths \subseteq Nat
    /\ ObjectSize \in Nat \ {0}
    /\ Objects \subseteq Seq([1..ObjectSize -> Words] \cup {<< >>})

--------------------------------------------------------------------------------
(* Classification                                                             *)

AllZero(sample) == \A i \in DOMAIN sample : sample[i] = ZeroWord

(* Null in some instances is a pointer still, null in all of them is not.     *)
EverySampleOrZero(samples, fitting) ==
    /\ \A s \in samples : AllZero(s) \/ s \in fitting
    /\ \E s \in samples : ~AllZero(s)

LooksLikeFloat == {<<word>> : word \in Floats}
LooksLikeDouble == Doubles
PointsSomewhere == Mapped
PointerLike(samples) ==
    /\ \A s \in samples : Len(s) = PointerWords
    /\ EverySampleOrZero(samples, PointsSomewhere)

Classify(samples) ==
    LET width == IF samples = {} THEN 0 ELSE Len(CHOOSE s \in samples : TRUE) IN
    CASE samples = {} \/ (\E s \in samples : Len(s) # width) -> "bytes"
      [] samples # {} /\ (\A s \in samples : Len(s) = width) /\ PointerLike(samples) ->
           IF PointerWords = 2 THEN "u64" ELSE "u32"
      [] OTHER -> CASE width = 2 -> (IF EverySampleOrZero(samples, LooksLikeDouble) THEN "double" ELSE "i64")
                    [] width = 1 -> (IF EverySampleOrZero(samples, LooksLikeFloat) THEN "float" ELSE "i32")
                    [] OTHER -> "bytes"

--------------------------------------------------------------------------------
(* What an instance holds, or nothing if it could not be read whole.          *)
Unread == << >>
Live(windows) == {windows[i] : i \in DOMAIN windows} \ {Unread}

(* guess: one field per slot, a wide one only where a wide value can be       *)

Slice(windows, at, width) == {[i \in 1..width |-> w[at + i]] : w \in windows}
Field(offset, width, type) == [offset |-> offset, width |-> width, type |-> type]

AnyOffset(at) == TRUE               \* mutant: looked for at every slot
Aligned(at) == at % 2 = 0

WideType(windows, at) ==
    LET samples == Slice(windows, at, 2) IN
    IF PointerWords = 2 /\ PointerLike(samples) THEN "u64"
    ELSE IF EverySampleOrZero(samples, LooksLikeDouble) THEN "double" ELSE "none"

NarrowType(windows, at) ==
    LET samples == Slice(windows, at, 1) IN
    IF PointerWords = 1 /\ PointerLike(samples) THEN "u32"
    ELSE IF EverySampleOrZero(samples, LooksLikeFloat) THEN "float" ELSE "i32"

Guess(windows, size) ==
    LET from[at \in 0..size] ==
          IF at = size THEN {}
          ELSE IF Aligned(at) /\ at + 2 <= size /\ WideType(windows, at) # "none"
               THEN {Field(at, 2, WideType(windows, at))} \cup from[at + 2]
               ELSE {Field(at, 1, NarrowType(windows, at))} \cup from[at + 1]
    IN from[0]

--------------------------------------------------------------------------------
(* read: the fields laid over each instance that could be read whole          *)

Cell(window, field) == IF window = Unread THEN Unread ELSE SubSeq(window, field.offset + 1, field.offset + field.width)

CompareAll(cells) == \A i, j \in DOMAIN cells : cells[i] = cells[j]     \* mutant: a dead instance differs
(* Compared with the first cell that was read.                                *)
Identical(cells) ==
    LET read == {i \in DOMAIN cells : cells[i] # Unread}
        first == CHOOSE i \in read : \A j \in read : i <= j
    IN \A i \in read : cells[i] = cells[first]

Row(windows, field) ==
    LET cells == [i \in DOMAIN windows |-> Cell(windows[i], field)]
    IN [field |-> field, cells |-> cells, identical |-> Identical(cells)]

--------------------------------------------------------------------------------
(* The list of layouts                                                        *)

VARIABLES structures, nextStructure
layouts == <<structures, nextStructure>>

End(f) == f.offset + f.width
OverlapAtStart(f, g) == f.offset >= g.offset /\ f.offset < End(g)   \* mutant: one side only
Overlap(f, g) == f.offset < End(g) /\ g.offset < End(f)

LayoutsInit == structures = [i \in {} |-> {}] /\ nextStructure = 1

AddStructure ==
    /\ nextStructure \in Ids
    /\ structures' = [i \in DOMAIN structures \cup {nextStructure} |-> IF i = nextStructure THEN {} ELSE structures[i]]
    /\ nextStructure' = nextStructure + 1

RemoveStructure(id) ==
    /\ structures' = [i \in DOMAIN structures \ {id} |-> structures[i]]
    /\ UNCHANGED nextStructure

ForgetLayouts == DOMAIN structures # {} /\ structures' = [i \in {} |-> {}] /\ UNCHANGED nextStructure

(* setField adds a field or replaces the one that starts there.               *)
SetField(id, f) ==
    /\ f.width > 0
    /\ \A g \in structures[id] : g.offset # f.offset => ~Overlap(f, g)
    /\ structures' = [structures EXCEPT ![id] = {g \in @ : g.offset # f.offset} \cup {f}]
    /\ UNCHANGED nextStructure

RemoveField(id, offset) ==
    /\ \E f \in structures[id] : f.offset = offset
    /\ structures' = [structures EXCEPT ![id] = {g \in @ : g.offset # offset}]
    /\ UNCHANGED nextStructure

(* setFields takes a whole list: from a project, or from a guess at what the  *)
(* instances that could be read have at the time.                             *)
SetFields(id, fields) ==
    /\ \A f \in fields : f.width > 0
    /\ \A f, g \in fields : f # g => ~Overlap(f, g)
    /\ structures' = [structures EXCEPT ![id] = fields]
    /\ UNCHANGED nextStructure

LoadedLists == {{Field(a, 1, "i32"), Field(b, 2, "u64")} : a, b \in Starts}
Guesses == {Guess(Live(windows), ObjectSize) : windows \in {w \in Objects : Live(w) # {}}}

LayoutsNext ==
    \/ AddStructure \/ ForgetLayouts
    \/ \E id \in DOMAIN structures :
         \/ RemoveStructure(id)
         \/ \E offset \in Starts :
              \/ RemoveField(id, offset)
              \/ \E width \in Widths : SetField(id, Field(offset, width, "i32"))
         \/ \E fields \in LoadedLists \cup Guesses : SetFields(id, fields)

LayoutsSpec == LayoutsInit /\ [][LayoutsNext]_layouts

--------------------------------------------------------------------------------
(* Properties                                                                 *)

(* No byte of an object belongs to two fields, whatever order fields are      *)
(* added, widened, replaced, removed, loaded and guessed in.                  *)
FieldsDisjoint ==
    \A id \in DOMAIN structures : \A f, g \in structures[id] :
      f # g => \A at \in f.offset .. (End(f) - 1) : ~(g.offset <= at /\ at < End(g))

(* A guess covers the object without a gap, gives each word to one field, and *)
(* a wide field starts where a compiler would put one.  A pointer is null or  *)
(* leads somewhere in every instance.                                         *)
GuessTiles(windows, size) ==
    LET fields == Guess(windows, size) IN
    /\ \A at \in 0..(size - 1) : Cardinality({f \in fields : f.offset <= at /\ at < End(f)}) = 1
    /\ \A f \in fields : /\ End(f) <= size /\ (f.width = 2 => f.offset % 2 = 0)
                         /\ f.type \in {"u64", "u32"} => \A w \in Slice(windows, f.offset, f.width) :
                                                            AllZero(w) \/ w \in Mapped
GuessesTile ==
    \A windows \in Objects : Live(windows) # {} => GuessTiles(Live(windows), ObjectSize)

(* A field is called identical exactly when the instances that could be read  *)
(* agree on it: one that has gone away does not make the others differ.       *)
RowsCompare(windows, field) ==
    Row(windows, field).identical <=>
      \A i, j \in DOMAIN windows : windows[i] # Unread /\ windows[j] # Unread =>
        \A at \in field.offset .. (End(field) - 1) : windows[i][at + 1] = windows[j][at + 1]
RowsTellApart ==
    \A windows \in Objects, at \in 0..ObjectSize : \A width \in 0..(ObjectSize - at) :
      RowsCompare(windows, Field(at, width, "i32"))

(* No two fields overlap, whatever is done to the layouts; a guess covers the *)
(* object with fields that fit it; and a row tells whether the instances      *)
(* agree (Dissector.cpp, Structure.h:37-40).                                  *)
DissectorSound == FieldsDisjoint /\ GuessesTile /\ RowsTellApart
================================================================================
