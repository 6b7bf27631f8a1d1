----------------------------- MODULE PatchRegistry -----------------------------
(* engine_patch::PatchRegistry.  Its list is guarded by a mutex that is never *)
(* held across an access to the target, so a call is several steps and calls  *)
(* of different threads interleave between them.                              *)
EXTENDS Naturals, FiniteSets

CONSTANTS
    Cells,          \* the target's code, as the cells patches cover
    Ranges,         \* the ranges patched: sets of cells
    Callers,        \* threads calling apply
    Togglers,       \* those that enable, disable, remove and forget as well
    MaxId,          \* bound on nextId_
    Faulty          \* whether an access to the target may fail

ASSUME PatchRegistryAssumption ==
    /\ Ranges \subseteq (SUBSET Cells) \ {{}}
    /\ Togglers \subseteq Callers
    /\ MaxId \in Nat /\ Faulty \in BOOLEAN

VARIABLES
    mem,            \* what is at each cell: 0 for the program, or the patch whose bytes are there
    patches,        \* patches_
    reserved,       \* reserved_: ranges of applies in progress
    nextId,
    call            \* where each thread is in the call it makes

vars == <<mem, patches, reserved, nextId, call>>

Ids == 1 .. MaxId

Patch(id, at, original, enabled) ==
    [id |-> id, at |-> at, original |-> original, enabled |-> enabled]

Idle == [pc |-> "idle"]
(* apply: the range is reserved, and read, and written.                       *)
Reserved(res) == [pc |-> "reserved", res |-> res]
Captured(res, original) == [pc |-> "captured", res |-> res, original |-> original]
Written(res, original) == [pc |-> "written", res |-> res, original |-> original]
(* setEnabled: looked up, and written.  "then" is what follows: nothing, the  *)
(* erase of remove, or the other patches of restoreAll.                       *)
LookedUp(patch, then) == [pc |-> "lookedUp", patch |-> patch, then |-> then]
Toggled(patch, then) == [pc |-> "toggled", patch |-> patch, then |-> then]
Erasing(id) == [pc |-> "erasing", id |-> id]
Restoring(ids) == [pc |-> "restoring", ids |-> ids]

Return == [kind |-> "return"]
ThenErase == [kind |-> "erase"]
ThenRestore(ids) == [kind |-> "restore", ids |-> ids]

Goto(c, next) == call' = [call EXCEPT ![c] = next]
OverlapsRecord(range) ==    \* mutant: reservations are not counted
    \E p \in patches : p.at \cap range # {}
(* overlapsLocked                                                             *)
Overlaps(range) == \E p \in patches \cup reserved : p.at \cap range # {}

Init ==
    /\ mem = [c \in Cells |-> 0]
    /\ patches = {} /\ reserved = {}
    /\ nextId = 1
    /\ call = [c \in Callers |-> Idle]

--------------------------------------------------------------------------------
(* apply                                                                      *)

Reserve(c, range) ==
    /\ call[c] = Idle /\ nextId <= MaxId
    /\ ~Overlaps(range)
    /\ reserved' = reserved \cup {[id |-> nextId, at |-> range]}
    /\ nextId' = nextId + 1
    /\ Goto(c, Reserved([id |-> nextId, at |-> range]))
    /\ UNCHANGED <<mem, patches>>

(* Every failure releases the reservation on its way out.                     *)
AbandonApply(c) ==
    /\ Faulty
    /\ call[c].pc \in {"reserved", "captured"}
    /\ reserved' = reserved \ {call[c].res}
    /\ Goto(c, Idle)
    /\ UNCHANGED <<mem, patches, nextId>>

ReadShort(range) ==    \* mutant: a short read is taken for the original
    [x \in {y \in range : \A z \in range : y <= z} |-> mem[x]]
ReadBytes(range) == [x \in range |-> mem[x]]

(* A read that comes up short is a failure like any other.                    *)
ReadOriginal(c) ==
    /\ call[c].pc = "reserved"
    /\ Goto(c, Captured(call[c].res, ReadBytes(call[c].res.at)))
    /\ UNCHANGED <<mem, patches, reserved, nextId>>

WritePatch(c) ==
    /\ call[c].pc = "captured"
    /\ mem' = [x \in Cells |-> IF x \in call[c].res.at THEN call[c].res.id ELSE mem[x]]
    /\ Goto(c, Written(call[c].res, call[c].original))
    /\ UNCHANGED <<patches, reserved, nextId>>

RecordDisabled(res, original) ==    \* mutant: recorded as not applied
    patches' = patches \cup {Patch(res.id, res.at, original, FALSE)}
Record(res, original) ==
    patches' = patches \cup {Patch(res.id, res.at, original, TRUE)}

RecordPatch(c) ==
    /\ call[c].pc = "written"
    /\ reserved' = reserved \ {call[c].res}
    /\ Record(call[c].res, call[c].original)
    /\ Goto(c, Idle)
    /\ UNCHANGED <<mem, nextId>>

--------------------------------------------------------------------------------
(* setEnabled, and remove and restoreAll on top of it                         *)

(* What a call does once setEnabled has succeeded or found nothing to do.     *)
After(c, id, then) ==
    CASE then.kind = "return" -> Goto(c, Idle)
      [] then.kind = "erase" -> Goto(c, Erasing(id))
      [] then.kind = "restore" -> Goto(c, Restoring(then.ids))

(* remove keeps a patch it could not restore; restoreAll goes on.             *)
AfterFailure(c, then) ==
    Goto(c, IF then.kind = "restore" THEN Restoring(then.ids) ELSE Idle)

LookUp(c, p, on, then) ==
    IF p.enabled = on THEN After(c, p.id, then) ELSE Goto(c, LookedUp(p, then))

SetEnabled(c, p, on) ==
    /\ call[c] = Idle /\ c \in Togglers
    /\ LookUp(c, p, on, Return)
    /\ UNCHANGED <<mem, patches, reserved, nextId>>

RemovePatch(c, p) ==
    /\ call[c] = Idle /\ c \in Togglers
    /\ LookUp(c, p, FALSE, ThenErase)
    /\ UNCHANGED <<mem, patches, reserved, nextId>>

RestoreAll(c) ==
    /\ call[c] = Idle /\ c \in Togglers
    /\ Goto(c, Restoring({p.id : p \in {q \in patches : q.enabled}}))
    /\ UNCHANGED <<mem, patches, reserved, nextId>>

RestoreNext(c) ==
    /\ call[c].pc = "restoring"
    /\ IF call[c].ids = {} THEN Goto(c, Idle)
       ELSE LET id == CHOOSE i \in call[c].ids : \A j \in call[c].ids : i <= j
                then == ThenRestore(call[c].ids \ {id})
                found == {p \in patches : p.id = id}
            IN IF found = {} THEN AfterFailure(c, then)
                             ELSE LookUp(c, CHOOSE p \in found : TRUE, FALSE, then)
    /\ UNCHANGED <<mem, patches, reserved, nextId>>

FirstByteWritten(p) ==    \* mutant: only one byte is put back
    [x \in Cells |-> IF x = (CHOOSE y \in p.at : TRUE) THEN p.original[x] ELSE mem[x]]
BytesWritten(p) ==
    [x \in Cells |-> IF x \notin p.at THEN mem[x] ELSE IF p.enabled THEN p.original[x] ELSE p.id]

WriteToggle(c) ==
    /\ call[c].pc = "lookedUp"
    /\ mem' = BytesWritten(call[c].patch)
    /\ Goto(c, Toggled(call[c].patch, call[c].then))
    /\ UNCHANGED <<patches, reserved, nextId>>

AbandonToggle(c) ==
    /\ Faulty /\ call[c].pc = "lookedUp"
    /\ AfterFailure(c, call[c].then)
    /\ UNCHANGED <<mem, patches, reserved, nextId>>

UpdateNothing(p, on) == UNCHANGED patches   \* mutant: the record keeps its state
Update(p, on) ==
    patches' = {IF q.id = p.id THEN [q EXCEPT !.enabled = on] ELSE q : q \in patches}

RecordToggle(c) ==
    /\ call[c].pc = "toggled"
    /\ Update(call[c].patch, ~call[c].patch.enabled)
    /\ After(c, call[c].patch.id, call[c].then)
    /\ UNCHANGED <<mem, reserved, nextId>>

ErasePatch(c) ==
    /\ call[c].pc = "erasing"
    /\ patches' = {p \in patches : p.id # call[c].id}
    /\ Goto(c, Idle)
    /\ UNCHANGED <<mem, reserved, nextId>>

(* forgetAll: the records go, the target keeps whatever is applied.           *)
ForgetAll(c) ==
    /\ call[c] = Idle /\ c \in Togglers
    /\ patches' = {}
    /\ UNCHANGED <<mem, reserved, nextId, call>>

ApplyStep(c) ==
    \/ \E range \in Ranges : Reserve(c, range)
    \/ ReadOriginal(c) \/ WritePatch(c) \/ RecordPatch(c) \/ AbandonApply(c)

ToggleStep(c) ==
    \/ \E p \in patches : RemovePatch(c, p) \/ \E on \in BOOLEAN : SetEnabled(c, p, on)
    \/ RestoreAll(c) \/ RestoreNext(c) \/ WriteToggle(c) \/ AbandonToggle(c)
    \/ RecordToggle(c) \/ ErasePatch(c) \/ ForgetAll(c)

Next == \E c \in Callers : ApplyStep(c) \/ ToggleStep(c)

Spec == Init /\ [][Next]_vars

--------------------------------------------------------------------------------
(* The types of the variables.                                                *)
TypeOK ==
    /\ mem \in [Cells -> {0} \cup Ids]
    /\ \A p \in patches : /\ p.id \in Ids /\ p.at \in Ranges /\ p.enabled \in BOOLEAN
                          /\ p.original \in [p.at -> {0} \cup Ids]
    /\ reserved \subseteq [id : Ids, at : Ranges]
    /\ nextId \in 1 .. MaxId + 1
    /\ \A c \in Callers : call[c].pc \in {"idle", "reserved", "captured", "written", "lookedUp",
                                          "toggled", "erasing", "restoring"}

(* No two patches, recorded or being applied, share a byte or an id: one      *)
(* would have taken the other's bytes for the original.                       *)
NoOverlap ==
    \A p, q \in patches \cup reserved : p # q => p.id # q.id /\ p.at \cap q.at = {}

(* A patch no call is busy with is in the target exactly when it is enabled;  *)
(* disabled, the bytes captured when it was first applied are back.           *)
Busy == {call[c].patch.id : c \in {d \in Callers : call[d].pc \in {"lookedUp", "toggled"}}}
TargetMatchesList ==
    \A p \in patches : p.id \notin Busy =>
        \A x \in p.at : mem[x] = IF p.enabled THEN p.id ELSE p.original[x]

(* The registry implements PatchList: an apply and a toggle take place when   *)
(* the target is written, the list follows.                                   *)
BytesOut == {call[c] : c \in {d \in Callers : call[d].pc = "written"}}
Now(p) == IF \E c \in Callers : call[c].pc = "toggled" /\ call[c].patch.id = p.id
          THEN ~p.enabled ELSE p.enabled
Originals == {[at |-> p.at, original |-> p.original] : p \in patches}
             \cup {[at |-> w.res.at, original |-> w.original] : w \in BytesOut}

Program == [x \in Cells |-> IF \E o \in Originals : x \in o.at
                            THEN (CHOOSE o \in Originals : x \in o.at).original[x] ELSE mem[x]]
Listed(p) == [id |-> p.id, at |-> p.at, enabled |-> Now(p)]
Applied(w) == [id |-> w.res.id, at |-> w.res.at, enabled |-> TRUE]
Records == {Listed(p) : p \in patches} \cup {Applied(w) : w \in BytesOut}

Abstract == INSTANCE PatchList WITH program <- Program, records <- Records

ImplementsPatchList == Abstract!Spec
(* The target is the list's code at every moment of that.                     *)
TargetIsCode == mem = Abstract!Code
================================================================================
