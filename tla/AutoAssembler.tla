----------------------------- MODULE AutoAssembler -----------------------------
(* engine_aa::AutoAssembler on top of the patch list.  All of it is called by *)
(* the UI thread, so calls do not interleave, but every access to the target  *)
(* is a step of its own: it may fail, and the target's threads run on in      *)
(* between, through whatever is in its code at that moment.                   *)
EXTENDS Naturals, FiniteSets, SequencesExt

CONSTANTS
    Scripts,
    Cells,          \* places in the target's code
    Texts,          \* what a script's text may say, see TextType
    Blocks,         \* allocations the target has room for
    PatchIds,       \* ids, one of which is free when a patch is applied
    Faults,         \* accesses that may fail: "write", "free"
    Own, UserBytes, \* what a cell may hold other than a jump to a block
    Nil

(* [ENABLE] allocates a cave and, once it has checked (assert, aobscanmodule) *)
(* that the hooks hold what they should, writes its blocks in the order the   *)
(* text has them: the cave, once, and a jump to it at each hook.  Nothing     *)
(* says that the cave comes first.  [DISABLE] writes the hooks' bytes itself  *)
(* if "restores", and gives the cave back if "deallocs".  A "broken" section  *)
(* does not compile, for a reason that comes after what it allocates.         *)
CaveOnce(blocks) ==
    \E i \in DOMAIN blocks : \A j \in DOMAIN blocks : blocks[j] = "cave" <=> j = i
TextType == {t \in [blocks : Seq(Cells \cup {"cave"}), restores : BOOLEAN, deallocs : BOOLEAN,
                    broken : {"none", "enable", "disable"}] : CaveOnce(t.blocks)}
Hooks(t) == ToSet(t.blocks) \ {"cave"}
CaveFirst(t) == Head(t.blocks) = "cave"

AutoAssemblerAssumption ==
    /\ Texts \subseteq TextType
    /\ Faults \subseteq {"write", "free"}
    /\ Own \notin Blocks /\ UserBytes \notin Blocks
    /\ "cave" \notin Cells

VARIABLES
    code,           \* what is at each cell of the target: the block it jumps to
    live, filled,   \* the blocks allocated, and those whose code is written
    patches,        \* the patch list
    text,           \* scripts_: each script's text, Nil if not in the list
    enabled,        \* the scripts that are on
    state,          \* state_: what the last run of a script left to undo
    run             \* the call in progress

process == <<code, live, filled>>
lists == <<patches, text, enabled, state>>
assemblerVars == <<process, lists, run>>

NothingDone == [patchIds |-> <<>>, block |-> Nil]
NoCall == [pc |-> "idle"]
Enabling(s, block, todo) == [pc |-> "enabling", script |-> s, block |-> block, todo |-> todo]
RollingBack(s, block) == [pc |-> "rollingBack", script |-> s, block |-> block]
(* "rest" are the scripts disableAll has still to disable, "then" what the    *)
(* caller does afterwards: "keep", "erase" (remove) or "forget" (a project    *)
(* closed).                                                                   *)
Disabling(s, ok, rest, then) ==
    [pc |-> "disabling", script |-> s, ok |-> ok, rest |-> rest, then |-> then]

Outcomes(access) == IF access \in Faults THEN BOOLEAN ELSE {TRUE}
Listed(s) == text[s] # Nil

AssemblerInit ==
    /\ code = [c \in Cells |-> Own] /\ live = {} /\ filled = {}
    /\ patches = {}
    /\ text = [s \in Scripts |-> Nil] /\ enabled = {}
    /\ state = [s \in Scripts |-> NothingDone]
    /\ run = NoCall

--------------------------------------------------------------------------------
(* The patch list, as PatchList promises it to its one caller.                *)

FreshId == {i \in PatchIds : /\ \A p \in patches : p.id # i
                             /\ \A s \in Scripts : i \notin ToSet(state[s].patchIds)}

CanPatchAnywhere(c) == FreshId # {}    \* mutant: the overlap is not refused
CanPatch(c) == FreshId # {} /\ \A p \in patches : p.at # c

Patch(c, bytes, id) ==
    /\ patches' = patches \cup {[id |-> id, at |-> c, bytes |-> bytes, original |-> code[c],
                                 on |-> TRUE]}
    /\ code' = [code EXCEPT ![c] = bytes]

(* PatchRegistry::remove: a record that cannot be restored is kept, and one   *)
(* already off costs no write.                                                *)
Unpatch(id, ok) ==
    LET found == {p \in patches : p.id = id} IN
    IF found = {} THEN ~ok /\ UNCHANGED <<patches, code>>
    ELSE LET p == CHOOSE p \in found : TRUE IN
         \E restored \in IF p.on THEN Outcomes("write") ELSE {TRUE} :
            /\ ok = restored
            /\ patches' = IF restored THEN patches \ {p} ELSE patches
            /\ code' = IF restored /\ p.on THEN [code EXCEPT ![p.at] = p.original] ELSE code

(* The Patches panel, and patches the user makes elsewhere.                   *)
UserPatch(c) ==
    /\ run = NoCall /\ CanPatch(c)
    /\ Patch(c, UserBytes, CHOOSE i \in FreshId : TRUE)
    /\ UNCHANGED <<live, filled, text, enabled, state, run>>

UserToggle(p) ==
    /\ run = NoCall
    /\ patches' = (patches \ {p}) \cup {[p EXCEPT !.on = ~p.on]}
    /\ code' = [code EXCEPT ![p.at] = IF p.on THEN p.original ELSE p.bytes]
    /\ UNCHANGED <<live, filled, text, enabled, state, run>>

UserRemove(p) ==
    /\ run = NoCall
    /\ \E ok \in BOOLEAN : Unpatch(p.id, ok)
    /\ UNCHANGED <<live, filled, text, enabled, state, run>>

--------------------------------------------------------------------------------
(* The list of scripts.                                                       *)

AddScript(s, t) ==
    /\ run = NoCall /\ ~Listed(s)
    /\ text' = [text EXCEPT ![s] = t]
    /\ UNCHANGED <<process, patches, enabled, state, run>>

MayEditAlways(s) == Listed(s)    \* mutant: edited while it is on
MayEdit(s) == Listed(s) /\ s \notin enabled

UpdateScript(s, t) ==
    /\ run = NoCall /\ MayEdit(s)
    /\ text' = [text EXCEPT ![s] = t]
    /\ UNCHANGED <<process, patches, enabled, state, run>>

--------------------------------------------------------------------------------
(* setEnabled(id, true)                                                       *)

AsExpected(s) == \A c \in Hooks(text[s]) : code[c] = Own

(* compile, [ENABLE]: a check or an allocation that fails leaves all as it was. *)
(* A broken line comes after the allocation, which nobody then answers for.    *)
StartEnable(s) ==
    /\ run = NoCall /\ Listed(s) /\ s \notin enabled
    /\ AsExpected(s)
    /\ \E block \in Blocks \ live :
          /\ live' = live \cup {block}
          /\ run' = IF text[s].broken = "enable" THEN NoCall
                    ELSE Enabling(s, block, text[s].blocks)
    /\ UNCHANGED <<code, filled, patches, text, enabled, state>>

FillCave ==
    /\ run.pc = "enabling" /\ run.todo # <<>> /\ Head(run.todo) = "cave"
    /\ \E written \in Outcomes("write") :
          IF written THEN /\ filled' = filled \cup {run.block}
                          /\ run' = [run EXCEPT !.todo = Tail(@)]
                     ELSE run' = RollingBack(run.script, run.block) /\ UNCHANGED filled
    /\ UNCHANGED <<code, live, lists>>

(* The patch is refused where the list has one already.                       *)
PlaceHook ==
    /\ run.pc = "enabling" /\ run.todo # <<>> /\ Head(run.todo) # "cave"
    /\ LET hook == Head(run.todo) IN
       \/ /\ CanPatch(hook)
          /\ LET id == CHOOSE i \in FreshId : TRUE IN
             /\ Patch(hook, run.block, id)
             /\ state' = [state EXCEPT ![run.script].patchIds = Append(@, id)]
          /\ run' = [run EXCEPT !.todo = Tail(@)]
       \/ /\ ~CanPatch(hook) \/ "write" \in Faults
          /\ run' = RollingBack(run.script, run.block)
          /\ UNCHANGED <<code, patches, state>>
    /\ UNCHANGED <<live, filled, text, enabled>>

FinishEnable ==
    /\ run.pc = "enabling" /\ run.todo = <<>>
    /\ enabled' = enabled \cup {run.script}
    /\ state' = [state EXCEPT ![run.script].block = run.block]
    /\ run' = NoCall
    /\ UNCHANGED <<process, patches, text>>

Free(block) ==
    \E freed \in Outcomes("free") :
        IF freed THEN live' = live \ {block} /\ filled' = filled \ {block}
                 ELSE UNCHANGED <<live, filled>>

(* rollback: the patches in reverse, then what was allocated.                 *)
RollBackPatch ==
    /\ run.pc = "rollingBack"
    /\ LET ids == state[run.script].patchIds IN
       /\ ids # <<>>
       /\ \E ok \in BOOLEAN : Unpatch(Last(ids), ok)
       /\ state' = [state EXCEPT ![run.script].patchIds = Front(ids)]
    /\ UNCHANGED <<live, filled, text, enabled, run>>

FinishRollBack ==
    /\ run.pc = "rollingBack" /\ state[run.script].patchIds = <<>>
    /\ Free(run.block)
    /\ run' = NoCall
    /\ UNCHANGED <<code, lists>>

--------------------------------------------------------------------------------
(* setEnabled(id, false), and remove and disableAll on top of it              *)

StartDisable(s) ==
    /\ run = NoCall /\ s \in enabled
    /\ run' = Disabling(s, TRUE, {}, "keep")
    /\ UNCHANGED <<process, lists>>

DisableAll ==
    /\ run = NoCall /\ enabled # {}
    /\ \E s \in enabled : run' = Disabling(s, TRUE, enabled \ {s}, "keep")
    /\ UNCHANGED <<process, lists>>

(* Another project is opened: disableAll, and whatever it says, forgetAll.    *)
CloseProject ==
    /\ run = NoCall
    /\ IF enabled = {}
       THEN /\ text' = [s \in Scripts |-> Nil] /\ state' = [s \in Scripts |-> NothingDone]
            /\ UNCHANGED run
       ELSE /\ \E s \in enabled : run' = Disabling(s, TRUE, enabled \ {s}, "forget")
            /\ UNCHANGED <<text, state>>
    /\ UNCHANGED <<process, patches, enabled>>

NeverUndoFirst(s) == FALSE    \* mutant: removed as it is
MustUndoFirst(s) == s \in enabled

RemoveScript(s) ==
    /\ run = NoCall /\ Listed(s)
    /\ IF MustUndoFirst(s)
       THEN run' = Disabling(s, TRUE, {}, "erase") /\ UNCHANGED <<text, state>>
       ELSE /\ text' = [text EXCEPT ![s] = Nil]
            /\ state' = [state EXCEPT ![s] = NothingDone]
            /\ UNCHANGED run
    /\ UNCHANGED <<process, patches, enabled>>

(* The registry first, and in reverse: the jump into a cave has to be gone    *)
(* before the cave is freed.                                                  *)
NotAskedFor(s) == TRUE    \* mutant: the section does not wait for the patches
AllPatchesGone(s) == state[s].patchIds = <<>>

RemoveHook ==
    /\ run.pc = "disabling"
    /\ LET ids == state[run.script].patchIds IN
       /\ ids # <<>>
       /\ \E ok \in BOOLEAN : /\ Unpatch(Last(ids), ok)
                              /\ run' = [run EXCEPT !.ok = @ /\ ok]
       /\ state' = [state EXCEPT ![run.script].patchIds = Front(ids)]
    /\ UNCHANGED <<live, filled, text, enabled>>

(* The scripts no longer in the list once this one is off.                    *)
ForgottenScripts(s, ok) ==
    CASE run.rest = {} /\ run.then = "forget" -> Scripts
      [] run.then = "erase" /\ ok -> {s}
      [] OTHER -> {}

(* Then the [DISABLE] section, if it compiles: the author's bytes, and the    *)
(* deallocs.  Whatever happened, the script ends up off with nothing to undo. *)
Compiles(s) == text[s].broken # "disable"
Restores(s) == Compiles(s) /\ text[s].restores
Deallocs(s) == Compiles(s) /\ text[s].deallocs

SectionRan(s, written, freed) ==
    LET gone == IF Deallocs(s) /\ freed THEN {state[s].block} ELSE {}
        forgotten == ForgottenScripts(s, run.ok /\ Compiles(s) /\ written /\ freed)
    IN
    /\ code' = [c \in Cells |-> IF Restores(s) /\ written /\ c \in Hooks(text[s])
                               THEN Own ELSE code[c]]
    /\ live' = live \ gone /\ filled' = filled \ gone
    /\ text' = [u \in Scripts |-> IF u \in forgotten THEN Nil ELSE text[u]]
    /\ state' = [u \in Scripts |-> IF u \in forgotten \cup {s} THEN NothingDone ELSE state[u]]
    /\ enabled' = enabled \ {s}
    /\ IF run.rest = {} THEN run' = NoCall
       ELSE \E u \in run.rest : run' = Disabling(u, TRUE, run.rest \ {u}, run.then)

RunDisableSection ==
    /\ run.pc = "disabling" /\ AllPatchesGone(run.script)
    /\ \E written \in IF Restores(run.script) THEN Outcomes("write") ELSE {TRUE},
          freed \in IF Deallocs(run.script) THEN Outcomes("free") ELSE {TRUE} :
          SectionRan(run.script, written, freed)
    /\ UNCHANGED patches

--------------------------------------------------------------------------------
AssemblerNext ==
    \/ \E c \in Cells : UserPatch(c)
    \/ \E p \in patches : UserToggle(p) \/ UserRemove(p)
    \/ \E s \in Scripts : \/ StartEnable(s) \/ StartDisable(s) \/ RemoveScript(s)
                          \/ \E t \in Texts : AddScript(s, t) \/ UpdateScript(s, t)
    \/ FillCave \/ PlaceHook \/ FinishEnable \/ RollBackPatch \/ FinishRollBack
    \/ RemoveHook \/ RunDisableSection
    \/ DisableAll \/ CloseProject

AssemblerSpec == AssemblerInit /\ [][AssemblerNext]_assemblerVars

--------------------------------------------------------------------------------
(* The types of the variables; only a script of the list is on.               *)
Bytes == Blocks \cup {Own, UserBytes}
TypeOK ==
    /\ code \in [Cells -> Bytes]
    /\ live \subseteq Blocks /\ filled \subseteq live
    /\ patches \subseteq [id : PatchIds, at : Cells, bytes : Bytes, original : Bytes, on : BOOLEAN]
    /\ text \in [Scripts -> Texts \cup {Nil}]
    /\ enabled \subseteq {s \in Scripts : Listed(s)}
    /\ \A s \in Scripts : /\ ToSet(state[s].patchIds) \subseteq PatchIds
                          /\ state[s].block \in Blocks \cup {Nil}
    /\ run.pc \in {"idle", "enabling", "rollingBack", "disabling"}

(* Code of the target that jumps into a cave finds a cave there, allocated    *)
(* and not yet freed, at every moment a thread of the target may come by, and *)
(* finds it written, unless the script is just being turned on and its text   *)
(* has a hook come before the cave: then a thread may find nothing in it yet. *)
StillToCome(block) ==
    /\ run.pc \in {"enabling", "rollingBack"}
    /\ run.block = block /\ ~CaveFirst(text[run.script])
JumpLandsInCave ==
    \A c \in Cells : code[c] \in Blocks =>
        /\ code[c] \in live
        /\ code[c] \in filled \/ StillToCome(code[c])

(* A patch a script made is remembered by a script that is on, or by the call *)
(* under way: none is left for which there is no way to turn it off.          *)
Answers(s) == s \in enabled \/ (run # NoCall /\ run.script = s)
PatchesOwned ==
    \A p \in patches : p.bytes \in Blocks =>
        \E s \in Scripts : Answers(s) /\ p.id \in ToSet(state[s].patchIds)

(* A script that is on is wholly on, by the text it has now: it has undo      *)
(* records for every hook the text names, and its cave.                       *)
EnabledComplete ==
    \A s \in enabled :
        run = NoCall => /\ Len(state[s].patchIds) = Len(text[s].blocks) - 1
                      /\ state[s].block \in filled

(* No patch has another script's jump for its original: turning it off never  *)
(* brings back a jump into a cave that may be gone.                           *)
NoJumpInOriginals == \A p \in patches : p.original \notin Blocks

(* A jump into a cave finds it, but for the text that writes its hook first,  *)
(* a script that is on is wholly on, its patches have an owner and none can   *)
(* bring back another's jump (AutoAssembler.cpp).                             *)
ScriptsWhole == TypeOK /\ JumpLandsInCave /\ PatchesOwned /\ EnabledComplete /\ NoJumpInOriginals
================================================================================
