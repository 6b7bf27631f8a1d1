--------------------------------- MODULE MCParts ---------------------------------
(* Small instances of the parts that answer to one caller at a time, in one   *)
(* run: a behaviour is of one part, picked at the start.                       *)
EXTENDS TargetSession, Attachments, AutoAssembler, MemoryWrites, ShownEntries, AccessWatch, Wire, ScanJob, Structures,
        PointerScan, SymbolTable, Calls, Inputs

(* A scan over two regions, of which one is not writable and one is of two    *)
(* chunks; a value, an array, numbers two bytes wide and a baseline of bytes. *)
ScanRegions == << [base |-> 0, size |-> 3, readable |-> TRUE, writable |-> TRUE],
                  [base |-> 4, size |-> 2, readable |-> TRUE, writable |-> FALSE] >>
ScanMemories == {[a \in {0, 1, 2, 4, 5} |-> IF a \in {1, 2, 5} THEN 1 ELSE 0]}
ScanOptions == {[max |-> 9, writableOnly |-> FALSE], [max |-> 1, writableOnly |-> TRUE]}
ScanValue(type, bytes) == [type |-> type, bytes |-> bytes, bytes2 |-> bytes, mask |-> <<>>, ignoreCase |-> FALSE]
ScanJobs == {[mode |-> "exact", value |-> ScanValue("u8", <<1>>)],
             [mode |-> "exact", value |-> ScanValue("bytes", <<0, 1>>)],
             [mode |-> "increased", value |-> ScanValue("u16", <<0, 0>>)],
             [mode |-> "changed", value |-> ScanValue("bytes", <<>>)]}

(* Two modules of one cell each in front of a heap of three, in chunks of two *)
(* cells; the first of the heap may not be there to be read.                  *)
PointerRegions == << [base |-> 1, size |-> 2, readable |-> TRUE], [base |-> 3, size |-> 3, readable |-> TRUE] >>
PointerModules == << [name |-> "game", base |-> 1, size |-> 1], [name |-> "lib", base |-> 2, size |-> 1] >>
PointerMemories == {[a \in 1..5 |-> IF a = 5 THEN 0 ELSE m[a]] : m \in [1..4 -> {0, 3, 4}]}
                   \cup {[a \in {1, 2, 4} |-> m[a]] : m \in [{1, 2, 4} -> {0, 4}]}

(* Two processes: a module that moves between them, one whose name has a '-', *)
(* a forwarder, a loop of two and one to an ordinal.                          *)
ModuleLayouts == {[m \in {"game", "core"} |-> IF m = "game" THEN 2 ELSE 4],
                  [m \in {"game", "api-ms"} |-> IF m = "game" THEN 4 ELSE 2]}
Export(offset, forward) == [offset |-> offset, forward |-> forward]
Exported ==
    [x \in {"game", "core"} \X {"run", "tick", "loop"} |->
        CASE x[2] = "run" -> Export(1, << >>)
          [] x = <<"game", "tick">> -> Export(0, <<"core", "run">>)
          [] x = <<"core", "tick">> -> Export(0, <<"#", "1">>)
          [] x = <<"game", "loop">> -> Export(0, <<"core", "loop">>)
          [] OTHER -> Export(0, <<"game", "loop">>)]

(* Scripts that may hook the same cell, one or two, in either order, one of   *)
(* them before its cave is written.                                           *)
ScriptText(blocks, restores, broken) ==
    [blocks |-> blocks, restores |-> restores, deallocs |-> TRUE, broken |-> broken]
ScriptTexts == {ScriptText(<<"cave", "c1">>, TRUE, "none"), ScriptText(<<"c2", "cave", "c1">>, FALSE, "none"),
                ScriptText(<<"cave", "c2">>, TRUE, "disable"), ScriptText(<<"cave", "c1">>, TRUE, "enable")}

(* Objects of three words, in two instances or in three: 0, a float's, the    *)
(* two halves of a pointer, of which either alone is a number.                *)
FloatPairs == {<<0, 1>>}
PointerPairs == {<<2, 3>>}
FieldStarts == -1..2
ObjectsOf(words) == [1..3 -> words] \cup {Unread}
LaidOver == {<<a, b>> : a, b \in ObjectsOf(0..3)} \cup {<<a, b, c>> : a, b, c \in ObjectsOf({0, 1})}

(* Requests: every body of two entries, and heads, lengths and tokens on      *)
(* either side of what is accepted.                                           *)
WireMethods == {"missing", "initialize", "ping", "tools/call", "notifications/initialized", "other"}
WireEntry(object, id, method) == [object |-> object, id |-> id, method |-> method]
WireEntries == {WireEntry(FALSE, FALSE, "missing")} \cup [object : {TRUE}, id : BOOLEAN, method : WireMethods]
Good == [head |-> 2, line |-> TRUE, fields |-> TRUE, length |-> 2, chunked |-> FALSE, token |-> 1,
         method |-> "POST", full |-> 2, body |-> NotJson, cut |-> NotJson]
WireBodies == {NotJson, IllFormed, [kind |-> "batch", entries |-> <<>>]}
              \cup {[kind |-> "single", entries |-> <<e>>] : e \in WireEntries}
              \cup {[kind |-> "batch", entries |-> <<e, f>>] : e, f \in WireEntries}
ToolCall == [kind |-> "single", entries |-> <<WireEntry(TRUE, TRUE, "tools/call")>>]
WireRequests ==
    {[Good EXCEPT !.body = b] : b \in WireBodies}
    \cup {[Good EXCEPT !.head = h, !.token = t, !.method = m, !.body = ToolCall] :
            h \in {1, 3, 4, 5}, t \in {1, 2}, m \in {"POST", "GET"}}
    \cup {[Good EXCEPT !.line = l, !.fields = f, !.length = n, !.chunked = c, !.cut = b] :
            l, f, c \in BOOLEAN, n \in 0..4, b \in {NotJson, IllFormed}}

VARIABLE part       \* what this behaviour is of

--------------------------------------------------------------------------------
OwnParts == <<sessionVars, attachments, assemblerVars, memoryVars, vars, shown, watchVars, wireVars, scanVars, layouts,
              chainVars, symbolVars, callsVars>>

PartsInit ==
    /\ part \in {"session", "attachments", "scripts", "writes", "list", "watch", "wire", "scan", "layouts",
                "pointers", "symbols", "calls", "inputs"}
    /\ SessionInit /\ AttachmentsInit /\ AssemblerInit /\ ShownInit /\ WatchInit /\ WireInit
    /\ LayoutsInit /\ SymbolInit
    /\ WriteInit /\ (part # "writes" => protection = [p \in Pages |-> "rw"])   \* any one start
    /\ ScanInit /\ (part # "scan" => options = [max |-> 9, writableOnly |-> FALSE])
    /\ ChainInit /\ (part # "pointers" => heap = [a \in 1..5 |-> 0])
    /\ CallsInit /\ (part # "calls" => CallThreads = {"ui", "server"})
    /\ IF part = "inputs" THEN InputsInit ELSE input = NoInput

PartsNext ==
    /\ UNCHANGED <<part, input>>
    /\ \/ part = "session" /\ SessionNext
          /\ UNCHANGED <<attachments, assemblerVars, memoryVars, vars,
                         shown, watchVars, wireVars, scanVars, layouts, chainVars, symbolVars, callsVars>>
       \/ part = "attachments" /\ AttachmentsNext
          /\ UNCHANGED <<sessionVars, assemblerVars, memoryVars, vars,
                         shown, watchVars, wireVars, scanVars, layouts, chainVars, symbolVars, callsVars>>
       \/ part = "scripts" /\ AssemblerNext
          /\ UNCHANGED <<sessionVars, attachments, memoryVars, vars,
                         shown, watchVars, wireVars, scanVars, layouts, chainVars, symbolVars, callsVars>>
       \/ part = "writes" /\ WriteNext
          /\ UNCHANGED <<sessionVars, attachments, assemblerVars, vars,
                         shown, watchVars, wireVars, scanVars, layouts, chainVars, symbolVars, callsVars>>
       \/ part = "list" /\ ShownNext
          /\ UNCHANGED <<sessionVars, attachments, assemblerVars, memoryVars,
                         watchVars, wireVars, scanVars, layouts, chainVars, symbolVars, callsVars>>
       \/ part = "watch" /\ WatchNext
          /\ UNCHANGED <<sessionVars, attachments, assemblerVars, memoryVars, vars,
                         shown, wireVars, scanVars, layouts, chainVars, symbolVars, callsVars>>
       \/ part = "wire" /\ WireNext
          /\ UNCHANGED <<sessionVars, attachments, assemblerVars, memoryVars, vars,
                         shown, watchVars, scanVars, layouts, chainVars, symbolVars, callsVars>>
       \/ part = "scan" /\ ScanNext
          /\ UNCHANGED <<sessionVars, attachments, assemblerVars, memoryVars, vars,
                         shown, watchVars, wireVars, layouts, chainVars, symbolVars, callsVars>>
       \/ part = "layouts" /\ LayoutsNext
           /\ UNCHANGED <<sessionVars, attachments, assemblerVars, memoryVars, vars,
                          shown, watchVars, wireVars, scanVars, chainVars, symbolVars, callsVars>>
       \/ part = "pointers" /\ ChainNext
          /\ UNCHANGED <<sessionVars, attachments, assemblerVars, memoryVars, vars,
                         shown, watchVars, wireVars, scanVars, layouts, symbolVars, callsVars>>
       \/ part = "symbols" /\ SymbolNext
          /\ UNCHANGED <<sessionVars, attachments, assemblerVars, memoryVars, vars,
                         shown, watchVars, wireVars, scanVars, layouts, chainVars, callsVars>>
       \/ part = "calls" /\ CallsNext
          /\ UNCHANGED <<sessionVars, attachments, assemblerVars, memoryVars, vars,
                         shown, watchVars, wireVars, scanVars, layouts, chainVars, symbolVars>>

Vars == <<part, input, OwnParts>>
PartsSpec == PartsInit /\ [][PartsNext]_Vars

ASSUME PartsAssumption ==
    /\ SessionAssumption /\ AttachmentsAssumption /\ AutoAssemblerAssumption
    /\ WriteAssumption /\ AddressAssumption /\ WatchAssumption /\ WireAssumption
    /\ ValuesAssumption /\ ScanAssumption
    /\ CallsAssumption /\ StructuresAssumption
================================================================================
