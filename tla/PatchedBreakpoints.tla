-------------------------- MODULE PatchedBreakpoints --------------------------
(* The other writer of code bytes beside the patch registry: a software       *)
(* breakpoint saves the byte it finds and puts an int3 there, and gives the   *)
(* saved byte back.  Neither knows of the other.  The pump at rest is enough  *)
(* here: no thread of the target comes by.                                    *)
EXTENDS PatchRegistry

VARIABLE saved      \* originalByte of the breakpoint at a cell, or NoBreakpoint

Int3 == MaxId + 1
NoBreakpoint == MaxId + 2

(* DebugEventPump::addBreakpoint refuses only a byte that is int3 already.    *)
AddBreakpoint(x) ==
    /\ saved[x] = NoBreakpoint /\ mem[x] # Int3
    /\ saved' = [saved EXCEPT ![x] = mem[x]]
    /\ mem' = [mem EXCEPT ![x] = Int3]
    /\ UNCHANGED <<patches, reserved, nextId, call>>

(* DebugEventPump::removeBreakpoint                                           *)
RemoveBreakpoint(x) ==
    /\ saved[x] # NoBreakpoint
    /\ saved' = [saved EXCEPT ![x] = NoBreakpoint]
    /\ mem' = [mem EXCEPT ![x] = saved[x]]
    /\ UNCHANGED <<patches, reserved, nextId, call>>

InitBoth == Init /\ saved = [x \in Cells |-> NoBreakpoint]

(* All of them are calls of the one UI thread, so none starts within another. *)
NextBoth ==
    \/ Next /\ UNCHANGED saved
    \/ /\ \A c \in Callers : call[c] = Idle
       /\ \E x \in Cells : AddBreakpoint(x) \/ RemoveBreakpoint(x)

SpecBoth == InitBoth /\ [][NextBoth]_<<vars, saved>>

(* A recorded original is code, never a breakpoint's int3: disabling the      *)
(* patch would put back a trap nobody answers for.                            *)
OriginalsGenuine ==
    \A p \in patches : \A x \in p.at : p.original[x] # Int3
================================================================================
