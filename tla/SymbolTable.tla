------------------------------- MODULE SymbolTable -------------------------------
(* Names for addresses, in both directions: symbols the user defines, the     *)
(* modules of the target, their exports with forwarders, and plain addresses, *)
(* any of them followed by offsets.  Two modules never differ only in case or *)
(* a ".dll" here, and a name's spelling is one word.                          *)
EXTENDS Integers, Sequences, FiniteSets

CONSTANTS
    Top,            \* the last address
    Size,           \* of a module
    Layouts,        \* where the modules of a process can be
    ModuleNames,
    Dashed,         \* modules whose name has a '-', read as an offset
    ExportsOf,      \* <<module, export>> -> [offset, forward]
    MaxForwarderDepth,
    Names, FixedAt, Offsets,
    MaxTargets

ASSUME SymbolAssumption ==
    /\ Top \in Nat /\ Size \in Nat
    /\ Dashed \subseteq ModuleNames /\ MaxForwarderDepth \in Nat \ {0}
    /\ \A l \in Layouts : DOMAIN l \subseteq ModuleNames /\ \A m \in DOMAIN l : l[m] \in Nat \ {0}
    /\ \A x \in DOMAIN ExportsOf : x = <<x[1], x[2]>>

VARIABLES
    modules,        \* the session's module table: module -> base
    haveTarget,
    generation,
    symbols         \* name -> [address, expression]

symbolVars == <<modules, haveTarget, generation, symbols>>

NoAddress == -1       \* no address
NoEntries == [x \in {} |-> NoAddress]
Wrapped(a) == a % (Top + 1)

(* What can be typed: a leading word and the offsets behind it.               *)
Word(w) == [word |-> w, export |-> "", number |-> NoAddress]
Dotted(m, e) == [word |-> m, export |-> e, number |-> NoAddress]
PlainAddress(a) == [word |-> "", export |-> "", number |-> a]
Plus(offset) == [subtract |-> FALSE, offset |-> offset]
Minus(offset) == [subtract |-> TRUE, offset |-> offset]
NotHex == Minus(NoAddress)
Text(head, terms) == [head |-> head, terms |-> terms]

--------------------------------------------------------------------------------
(* Exports: a forwarder names the module and the export to ask next           *)

ModuleBase(m) == IF m \in DOMAIN modules THEN modules[m] ELSE NoAddress

StringItself(entry) == TRUE             \* mutant: the forwarder's text is taken for code
IsCode(entry) == entry.forward = << >>
Ordinal == <<"#">>

ResolveExport(m, e) ==
    LET asked[depth \in 0..MaxForwarderDepth] ==
          IF depth = 0 THEN <<m, e>>
          ELSE LET before == asked[depth - 1] IN
               IF before \in DOMAIN ExportsOf /\ ModuleBase(before[1]) # NoAddress /\ ~IsCode(ExportsOf[before])
               THEN ExportsOf[before].forward ELSE before
        last == asked[MaxForwarderDepth - 1]
    IN IF last \in DOMAIN ExportsOf /\ ModuleBase(last[1]) # NoAddress /\ IsCode(ExportsOf[last])
       THEN Wrapped(modules[last[1]] + ExportsOf[last].offset) ELSE NoAddress

--------------------------------------------------------------------------------
(* From a text to an address                                                  *)

(* A symbol of the user's, a module, an export of one, a plain address.       *)
ResolveTerm(term) ==
    IF term.word \in DOMAIN symbols /\ term.export = "" THEN symbols[term.word].address
    ELSE IF ~haveTarget THEN term.number
    ELSE IF term.export = "" /\ ModuleBase(term.word) # NoAddress THEN ModuleBase(term.word)
    ELSE IF term.export # "" /\ ModuleBase(term.word) # NoAddress
         THEN ResolveExport(term.word, term.export)
    ELSE term.number

Resolve(text) ==
    LET sum[i \in 0..Len(text.terms)] ==
          IF i = 0 THEN ResolveTerm(text.head)
          ELSE IF sum[i - 1] = NoAddress \/ text.terms[i].offset = NoAddress THEN NoAddress
          ELSE Wrapped(IF text.terms[i].subtract THEN sum[i - 1] - text.terms[i].offset
                                              ELSE sum[i - 1] + text.terms[i].offset)
    IN sum[Len(text.terms)]

--------------------------------------------------------------------------------
(* And back                                                                   *)

Inside(m, a) == modules[m] <= a /\ a < modules[m] + Size
ModulesAt(a) == IF ~haveTarget \/ a = 0 THEN {} ELSE {m \in DOMAIN modules : Inside(m, a)}

(* The name of a module with a '-' reads as another word and an offset.       *)
NameOf(m) == IF m \in Dashed THEN Text(Word("api"), <<NotHex>>) ELSE Text(Word(m), << >>)

(* A symbol that names the address exactly, the module it is in, or nothing.  *)
Describe(a) ==
    LET named == {n \in DOMAIN symbols : symbols[n].address = a} IN
    IF named # {} THEN {Text(Word(n), << >>) : n \in named}
    ELSE {LET name == NameOf(m) IN
          IF a = modules[m] THEN name
          ELSE Text(name.head, Append(name.terms, Plus(a - modules[m]))) : m \in ModulesAt(a)}

--------------------------------------------------------------------------------
(* The table                                                                  *)

SymbolInit ==
    /\ modules = NoEntries /\ haveTarget = FALSE /\ generation = 1
    /\ symbols = NoEntries

MayMove == generation < MaxTargets

(* Attach, and refresh, to a process with its modules somewhere.              *)
MoveTo(layout) ==
    /\ MayMove /\ modules' = layout /\ haveTarget' = TRUE /\ generation' = generation + 1
    /\ UNCHANGED symbols

LeaveTarget ==
    /\ MayMove /\ modules' = NoEntries /\ haveTarget' = FALSE /\ generation' = generation + 1
    /\ UNCHANGED symbols

Put(name, symbol) ==
    symbols' = [n \in DOMAIN symbols \cup {name} |-> IF n = name THEN symbol ELSE symbols[n]]

(* A name stands for the address its expression had when it was defined.      *)
Define(name, text) ==
    /\ Resolve(text) # NoAddress
    /\ Put(name, [address |-> Resolve(text), expression |-> text])
    /\ UNCHANGED <<modules, haveTarget, generation>>

NoExpression == Text(Word(""), << >>)
DefineFixed(name, a) ==
    /\ Put(name, [address |-> a, expression |-> NoExpression])
    /\ UNCHANGED <<modules, haveTarget, generation>>

Undefine(name) ==
    /\ name \in DOMAIN symbols
    /\ symbols' = [n \in DOMAIN symbols \ {name} |-> symbols[n]]
    /\ UNCHANGED <<modules, haveTarget, generation>>

ClearSymbols ==
    /\ symbols # NoEntries /\ symbols' = NoEntries
    /\ UNCHANGED <<modules, haveTarget, generation>>

Typed == {Text(Word(w), <<Plus(o)>>) : w \in Names, o \in Offsets}

SymbolNext ==
    \/ \E layout \in Layouts : MoveTo(layout)
    \/ LeaveTarget \/ ClearSymbols
    \/ \E name \in Names : \/ \E text \in Typed : Define(name, text)
                           \/ \E a \in FixedAt : DefineFixed(name, a)
                           \/ Undefine(name)

SymbolSpec == SymbolInit /\ [][SymbolNext]_symbolVars

--------------------------------------------------------------------------------
(* Properties                                                                 *)

(* The exports an export's forwarders lead to, itself included: those in every *)
(* set of exports that has it and no forwarder out of it.                     *)
Closed(exports) == \A y \in exports : ExportsOf[y].forward \in DOMAIN ExportsOf => ExportsOf[y].forward \in exports
LeadsTo(x) == {y \in DOMAIN ExportsOf : \A s \in SUBSET DOMAIN ExportsOf : x \in s /\ Closed(s) => y \in s}

(* The name describe() gives an address leads back to it, wherever the        *)
(* modules are, unless a symbol of the user's has a module's name or the      *)
(* module's own name reads as an offset; and an export is the address of      *)
(* code of a loaded module that its forwarders lead to, a loop of them none.  *)
LookupsAgree ==
    /\ \A a \in 0..Top : \A text \in Describe(a) :
         (DOMAIN symbols \cap ModuleNames = {} /\ ModulesAt(a) \cap Dashed = {}) => Resolve(text) = a
    /\ haveTarget => \A x \in DOMAIN ExportsOf :
         ResolveExport(x[1], x[2]) # NoAddress =>
           \E y \in LeadsTo(x) :
             /\ y[1] \in DOMAIN modules /\ ExportsOf[y].forward = << >>
             /\ ResolveExport(x[1], x[2]) = Wrapped(modules[y[1]] + ExportsOf[y].offset)
================================================================================
