------------------------------ MODULE ShownEntries -------------------------------
(* The window's copy of the address list.  The frame compares revisions and   *)
(* copies the list when they differ, rather than on each frame; the list goes *)
(* its own way between the two reads.                                         *)
EXTENDS AddressEntries

VARIABLE shown      \* [pc, revision, entries]

ShownInit == Init /\ shown = [pc |-> "idle", revision |-> -1, entries |-> [i \in {} |-> NoEntry]]

SeeRevision ==
    /\ shown.pc = "idle" /\ shown.revision # revision
    /\ shown' = [shown EXCEPT !.pc = "seen", !.revision = revision]
    /\ UNCHANGED vars

CopyEntries ==
    /\ shown.pc = "seen"
    /\ shown' = [shown EXCEPT !.pc = "idle", !.entries = entries]
    /\ UNCHANGED vars

ShownNext == (EntriesNext /\ UNCHANGED shown) \/ SeeRevision \/ CopyEntries

ShownSpec == ShownInit /\ [][ShownNext]_<<vars, shown>>

--------------------------------------------------------------------------------
(* When the revision the window copied at is still the list's, the rows it    *)
(* shows are the list, whoever wrote between the two reads (UiApp.cpp:588).   *)
ShownIsCurrent == shown.pc = "idle" /\ shown.revision = revision => shown.entries = entries
================================================================================
