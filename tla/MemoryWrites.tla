------------------------------- MODULE MemoryWrites ------------------------------
(* Win32Platform::writeMemory.  A write is tried as it is; one that fails or  *)
(* is cut short is tried again with its pages made writable, one page at a    *)
(* time, and their protections are put back in reverse.  Every platform call  *)
(* may fail, the ones that put a protection back too, of which only the log   *)
(* is told, or a page go away.                                                *)
EXTENDS Integers, Sequences, FiniteSets

CONSTANTS Pages, Protections, Writable
WriteAssumption ==
    /\ Pages \subseteq Int /\ \A p, q \in Pages : p..q \subseteq Pages
    /\ Writable \subseteq Protections /\ "rwx" \in Writable

VARIABLES
    protection,     \* page -> its protection
    before,         \* what it was when the write under way began
    write,          \* [pc, first, last, at, saved]
    written,        \* pages the write under way has reached
    outcome,        \* of the last write
    warned          \* pages whose protection it could not put back, as the log says

memoryVars == <<protection, before, write, written, outcome, warned>>

Idle == [pc |-> "idle", first |-> 0, last |-> 0, at |-> 0, saved |-> << >>]

WriteInit ==
    /\ protection \in [Pages -> Protections] /\ before = protection
    /\ write = Idle /\ written = {} /\ outcome = "none" /\ warned = {}

Span == write.first..write.last
(* The write stops at the first page that cannot be written.                  *)
Reachable == {p \in Span : \A q \in write.first..p : protection[q] \in Writable}

BeginWrite(first, last) ==
    /\ write.pc = "idle" /\ first <= last
    /\ write' = [Idle EXCEPT !.pc = "try", !.first = first, !.last = last]
    /\ written' = {} /\ before' = protection /\ outcome' = "none" /\ warned' = {}
    /\ UNCHANGED protection

Finish(result) == write' = Idle /\ outcome' = result

(* As it is: whole, or escalate.                                              *)
TryWrite ==
    /\ write.pc = "try" /\ written' = Reachable
    /\ IF Reachable = Span THEN Finish("written")
       ELSE write' = [write EXCEPT !.pc = "protect", !.at = write.first] /\ UNCHANGED outcome
    /\ UNCHANGED <<protection, before, warned>>

FirstOfAll(page) == IF write.saved = << >> THEN protection[page]       \* mutant: the range's first
                    ELSE write.saved[1].old
OldProtection(page) == protection[page]

ProtectPage ==
    /\ write.pc = "protect"
    /\ LET page == write.at IN
       /\ write' = [write EXCEPT !.saved = Append(@, [page |-> page, old |-> OldProtection(page)]),
                                 !.pc = IF page = write.last THEN "write" ELSE "protect",
                                 !.at = page + 1]
       /\ protection' = [protection EXCEPT ![page] = "rwx"]
    /\ UNCHANGED <<before, written, outcome, warned>>

ProtectFails ==
    /\ write.pc = "protect" /\ write' = [write EXCEPT !.pc = "restore"] /\ outcome' = "failed"
    /\ UNCHANGED <<protection, before, written, warned>>

WritePages ==
    /\ write.pc = "write"
    /\ \E reached \in (write.first - 1)..write.last :
         /\ written' = written \cup write.first..reached
         /\ outcome' = IF reached = write.last THEN "written" ELSE "failed"
    /\ write' = [write EXCEPT !.pc = "restore"]
    /\ UNCHANGED <<protection, before, warned>>

(* The last page first; every one of them, whatever became of the write and   *)
(* of the pages after it.  The result of the write does not tell.             *)
RestorePage(page) ==
    \/ protection' = [protection EXCEPT ![page.page] = page.old] /\ UNCHANGED warned
    \/ warned' = warned \cup {page.page} /\ UNCHANGED protection

Restore ==
    /\ write.pc = "restore"
    /\ IF write.saved = << >> THEN write' = Idle /\ UNCHANGED <<protection, warned>>
       ELSE /\ RestorePage(write.saved[Len(write.saved)])
            /\ write' = [write EXCEPT !.saved = SubSeq(@, 1, Len(@) - 1)]
    /\ UNCHANGED <<before, written, outcome>>

WriteNext ==
    \/ \E first, last \in Pages : BeginWrite(first, last)
    \/ TryWrite \/ ProtectPage \/ ProtectFails \/ WritePages \/ Restore

WriteSpec == WriteInit /\ [][WriteNext]_memoryVars

(* Whatever fails on the way, a write over pages of different protections     *)
(* leaves each with the one it had, or, where the call that puts it back      *)
(* fails, writable as the write made it and warned of; no page is left with   *)
(* another's (Win32Platform.cpp, writeMemory).                                *)
ProtectionsRestored ==
    write.pc = "idle" =>
        \A page \in Pages : protection[page] = IF page \in warned THEN "rwx" ELSE before[page]
================================================================================
