-------------------------- MODULE AutoAssemblerProofs --------------------------
(* Proofs about AutoAssembler, in two layers.                                 *)
(*   CodeInv and CallInv    the code and the patch list; the list of scripts  *)
(*                          and the call in progress: whatever accesses fail  *)
(*   CavesInv               whose the caves and the jumps into them are, when *)
(*                          no write fails                                    *)
(* The second needs its assumption: PatchRegistry::remove keeps a record it   *)
(* could not restore, and the script forgets its id and frees the cave.       *)
EXTENDS AutoAssembler, SequenceTheorems, TLAPS

(* The patch list, with ids and places of their own.  A jump in the code is   *)
(* a patch that is on, and no patch has one underneath.                       *)
PatchType == [id : PatchIds, at : Cells, bytes : Bytes, original : Bytes, on : BOOLEAN]
Distinct == \A p, q \in patches : p.id = q.id \/ p.at = q.at => p = q
JumpsArePatches ==
    \A c \in Cells : code[c] \in Blocks =>
        \E p \in patches : p.at = c /\ p.on /\ p.bytes = code[c]
CodeInv ==
    /\ code \in [Cells -> Bytes]
    /\ patches \subseteq PatchType
    /\ Distinct
    /\ JumpsArePatches
    /\ NoJumpInOriginals

(* The list of scripts, and the call that is under way: what it enables is in *)
(* the list with a block allocated, and what it disables is on, as are those  *)
(* it has still to disable - all that are on, when a project is closed.       *)
CallType ==
    [pc : {"idle"}] \cup
    [pc : {"enabling"}, script : Scripts, block : Blocks, todo : Seq(Cells \cup {"cave"})] \cup
    [pc : {"rollingBack"}, script : Scripts, block : Blocks] \cup
    [pc : {"disabling"}, script : Scripts, ok : BOOLEAN, rest : SUBSET Scripts,
     then : {"keep", "erase", "forget"}]
Building == run.pc \in {"enabling", "rollingBack"}
StateType == [patchIds : Seq(PatchIds), block : Blocks \cup {Nil}]
CallInv ==
    /\ live \subseteq Blocks /\ filled \subseteq live
    /\ text \in [Scripts -> Texts \cup {Nil}]
    /\ enabled \subseteq Scripts /\ \A s \in enabled : Listed(s)
    /\ state \in [Scripts -> StateType]
    /\ run \in CallType
    /\ Building => Listed(run.script) /\ run.block \in live
    /\ run.pc = "disabling" =>
          /\ run.script \in enabled /\ run.rest \subseteq enabled \ {run.script}
          /\ run.then = "forget" => run.rest = enabled \ {run.script}
          /\ run.then = "erase" => run.rest = {}

(* The cave a script has, or that the call under way is making for it.        *)
CaveOf(s) == IF s \in enabled THEN state[s].block ELSE run.block
Caller(s) == run.pc # "idle" /\ run.script = s
JumpsAnswered ==
    \A p \in patches : p.bytes \in Blocks =>
        \E s \in Scripts : /\ s \in enabled \/ Caller(s)
                           /\ p.id \in ToSet(state[s].patchIds)
                           /\ CaveOf(s) = p.bytes
CavesTheirOwn ==
    /\ \A s \in enabled : state[s].block \in filled
    /\ \A s, t \in enabled : state[s].block = state[t].block => s = t
    /\ Building => /\ run.script \notin enabled
                   /\ \A s \in enabled : state[s].block # run.block
                   /\ state[run.script].patchIds # <<>> =>
                         run.block \in filled \/ ~CaveFirst(text[run.script])
(* Of the blocks to write, the cave is still among them or is written; the    *)
(* rest are hooks, placed or to come.                                         *)
NoCave(blocks) == \A i \in DOMAIN blocks : blocks[i] # "cave"
CaveToCome(t, ids, todo) ==
    /\ CaveOnce(todo) /\ Len(ids) + Len(todo) = Len(t.blocks)
    /\ CaveFirst(t) => todo = t.blocks /\ ids = <<>>
HooksToCome(t, ids, todo) == NoCave(todo) /\ Len(ids) + Len(todo) = Len(t.blocks) - 1
Progress ==
    run.pc = "enabling" =>
        \/ CaveToCome(text[run.script], state[run.script].patchIds, run.todo)
        \/ /\ run.block \in filled
           /\ HooksToCome(text[run.script], state[run.script].patchIds, run.todo)
IdsWhole ==
    /\ \A s \in Scripts : s \in enabled \/ Caller(s) \/ state[s].patchIds = <<>>
    /\ \A s \in enabled : Caller(s) \/ Len(state[s].patchIds) = Len(text[s].blocks) - 1
CavesInv == JumpsAnswered /\ CavesTheirOwn /\ Progress /\ IdsWhole
WholeInv == CodeInv /\ CallInv /\ CavesInv

--------------------------------------------------------------------------------
(* Sequences of ids: one put on, and the last one taken off.                  *)
LEMMA IdsPutOn ==
    ASSUME NEW S, NEW q \in Seq(S), NEW x \in S
    PROVE  /\ Append(q, x) \in Seq(S) /\ Len(Append(q, x)) = Len(q) + 1
           /\ ToSet(Append(q, x)) = ToSet(q) \cup {x}
<1>1. Append(q, x) \in Seq(S) /\ Len(Append(q, x)) = Len(q) + 1 OBVIOUS
<1>2. ASSUME NEW y \in ToSet(Append(q, x)) PROVE y \in ToSet(q) \cup {x}
    <2>1. PICK i \in 1..Len(q) + 1 : y = Append(q, x)[i] BY <1>1, <1>2 DEF ToSet
    <2>2. CASE i = Len(q) + 1 BY <2>1, <2>2
    <2>3. CASE i \in 1..Len(q) BY <2>1, <2>3 DEF ToSet
    <2>4. QED BY <2>1, <2>2, <2>3
<1>3. ASSUME NEW y \in ToSet(q) \cup {x} PROVE y \in ToSet(Append(q, x))
    <2>1. CASE y = x
        <3>1. x = Append(q, x)[Len(q) + 1] /\ Len(q) + 1 \in 1..Len(Append(q, x)) OBVIOUS
        <3>2. QED BY <2>1, <3>1 DEF ToSet
    <2>2. CASE y \in ToSet(q)
        <3>1. PICK i \in 1..Len(q) : y = q[i] BY <2>2 DEF ToSet
        <3>2. y = Append(q, x)[i] /\ i \in 1..Len(Append(q, x)) BY <3>1
        <3>3. QED BY <3>2 DEF ToSet
    <2>3. QED BY <1>3, <2>1, <2>2
<1>4. QED BY <1>1, <1>2, <1>3

LEMMA IdsTakenOff ==
    ASSUME NEW S, NEW q \in Seq(S), q # <<>>
    PROVE  /\ Front(q) \in Seq(S) /\ Last(q) \in S
           /\ \A x \in ToSet(q) : x = Last(q) \/ x \in ToSet(Front(q))
<1>1. Len(q) \in Nat /\ Len(q) >= 1 OBVIOUS
<1>2. \A i \in 1..Len(q) - 1 : Front(q)[i] = q[i]
    BY <1>1 DEF Front
<1>3. Front(q) \in Seq(S) /\ Len(Front(q)) = Len(q) - 1
    <2>1. PICK n : n = Len(q) - 1 OBVIOUS
    <2>2. n \in Int /\ n >= 0 BY <1>1, <2>1
    <2>3. \A i \in 1..n : q[i] \in S BY <1>1, <2>1
    <2>4. PICK r : r = SubSeq(q, 1, n) OBVIOUS
    <2>5. r \in Seq(S) /\ Len(r) = IF 1 <= n THEN n - 1 + 1 ELSE 0
        BY <2>2, <2>3, <2>4, SubSeqProperties
    <2>6. Len(r) = n BY <2>2, <2>5
    <2>7. Front(q) = r BY <2>1, <2>4, Zenon DEF Front
    <2>8. QED BY <2>1, <2>5, <2>6, <2>7
<1>4. Last(q) \in S BY <1>1 DEF Last
<1>5. ASSUME NEW x \in ToSet(q) PROVE x = Last(q) \/ x \in ToSet(Front(q))
    <2>1. PICK i \in 1..Len(q) : x = q[i] BY <1>5 DEF ToSet
    <2>2. CASE i = Len(q) BY <2>1, <2>2 DEF Last
    <2>3. CASE i \in 1..Len(q) - 1
        <3>1. x = Front(q)[i] BY <2>1, <2>3, <1>2
        <3>2. QED BY <3>1, <2>3, <1>3 DEF ToSet
    <2>4. QED BY <1>1, <2>1, <2>2, <2>3
<1>6. QED BY <1>3, <1>4, <1>5

LEMMA NoIds == ToSet(<<>>) = {}
BY DEF ToSet

--------------------------------------------------------------------------------
(* The code and the patch list.                                               *)

LEMMA FreshTyped ==
    ASSUME NEW c, CanPatch(c)
    PROVE  LET id == CHOOSE i \in FreshId : TRUE
           IN  id \in PatchIds /\ \A p \in patches : p.id # id
BY DEF CanPatch, FreshId

LEMMA PatchKeeps ==
    ASSUME AutoAssemblerAssumption, CodeInv, NEW c \in Cells, NEW bytes \in Bytes,
           NEW id \in PatchIds, \A p \in patches : p.id # id, \A p \in patches : p.at # c,
           Patch(c, bytes, id)
    PROVE  CodeInv'
<1>1. PICK new : new = [id |-> id, at |-> c, bytes |-> bytes, original |-> code[c], on |-> TRUE]
    OBVIOUS
<1>2. patches' = patches \cup {new} /\ code' = [code EXCEPT ![c] = bytes]
    BY <1>1 DEF Patch
<1>3. code[c] \in Bytes /\ code[c] \notin Blocks
    BY DEF CodeInv, JumpsArePatches
<1>4. /\ new \in PatchType /\ new.id = id /\ new.at = c /\ new.bytes = bytes
      /\ new.on /\ new.original \notin Blocks
    BY <1>1, <1>3 DEF PatchType
<1>5. code' \in [Cells -> Bytes] BY <1>2 DEF CodeInv
<1>6. patches' \subseteq PatchType BY <1>2, <1>4 DEF CodeInv
<1>7. Distinct' BY <1>2, <1>4 DEF CodeInv, Distinct
<1>8. JumpsArePatches'
    <2>1. SUFFICES ASSUME NEW d \in Cells, code'[d] \in Blocks
                   PROVE  \E p \in patches' : p.at = d /\ p.on /\ p.bytes = code'[d]
        BY DEF JumpsArePatches
    <2>2. CASE d = c BY <2>2, <1>2, <1>4 DEF CodeInv
    <2>3. CASE d # c BY <2>1, <2>3, <1>2 DEF CodeInv, JumpsArePatches
    <2>4. QED BY <2>2, <2>3
<1>9. NoJumpInOriginals' BY <1>2, <1>4 DEF CodeInv, NoJumpInOriginals
<1>10. QED BY <1>5, <1>6, <1>7, <1>8, <1>9 DEF CodeInv, Bytes, PatchType

(* A patch turned off gives its place back; only patches of that id go, and   *)
(* where no write fails all of them do.                                       *)
LEMMA UnpatchKeeps ==
    ASSUME AutoAssemblerAssumption, CodeInv, NEW id, NEW ok, Unpatch(id, ok)
    PROVE  /\ CodeInv' /\ patches' \subseteq patches
           /\ \A p \in patches : p \in patches' \/ p.id = id
           /\ "write" \notin Faults => \A p \in patches' : p.id # id
<1> DEFINE found == {p \in patches : p.id = id}
<1>1. CASE found = {}
    <2>1. patches' = patches /\ code' = code BY <1>1 DEF Unpatch
    <2>2. CodeInv' BY <2>1 DEF CodeInv, Distinct, JumpsArePatches, NoJumpInOriginals
    <2>3. QED BY <1>1, <2>1, <2>2
<1>2. CASE found # {}
    <2>1. PICK p : p = CHOOSE q \in found : TRUE OBVIOUS
    <2>2. p \in patches /\ p.id = id BY <1>2, <2>1
    <2>3. PICK restored \in IF p.on THEN Outcomes("write") ELSE {TRUE} :
              /\ ok = restored
              /\ patches' = IF restored THEN patches \ {p} ELSE patches
              /\ code' = IF restored /\ p.on THEN [code EXCEPT ![p.at] = p.original] ELSE code
        BY <1>2, <2>1 DEF Unpatch
    <2>4. restored \in BOOLEAN /\ ("write" \notin Faults => restored) BY <2>3 DEF Outcomes
    <2>5. CASE ~restored
        <3>1. patches' = patches /\ code' = code BY <2>3, <2>5
        <3>2. CodeInv' BY <3>1 DEF CodeInv, Distinct, JumpsArePatches, NoJumpInOriginals
        <3>3. QED BY <3>1, <3>2, <2>3, <2>4, <2>5
    <2>6. CASE restored
        <3>1. patches' = patches \ {p} BY <2>3, <2>6
        <3>2. p \in PatchType BY <2>2 DEF CodeInv
        <3>3. p.at \in Cells /\ p.original \in Bytes /\ p.on \in BOOLEAN BY <3>2 DEF PatchType
        <3>4. p.original \notin Blocks BY <2>2 DEF CodeInv, NoJumpInOriginals
        <3>5. code' \in [Cells -> Bytes] BY <2>3, <2>6, <3>3 DEF CodeInv
        <3>6. \A q \in patches \ {p} : q.id # id /\ q.at # p.at BY <2>2 DEF CodeInv, Distinct
        <3>7. JumpsArePatches'
            <4>1. SUFFICES ASSUME NEW d \in Cells, code'[d] \in Blocks
                           PROVE  \E q \in patches' : q.at = d /\ q.on /\ q.bytes = code'[d]
                BY DEF JumpsArePatches
            <4>2. code'[d] = code[d] /\ (d = p.at => ~p.on)
                BY <2>3, <2>6, <3>3, <3>4, <4>1 DEF CodeInv
            <4>3. PICK q \in patches : q.at = d /\ q.on /\ q.bytes = code[d]
                BY <4>1, <4>2 DEF CodeInv, JumpsArePatches
            <4>4. q # p BY <4>2, <4>3
            <4>5. QED BY <3>1, <4>2, <4>3, <4>4
        <3>8. Distinct' /\ NoJumpInOriginals' /\ patches' \subseteq PatchType
            BY <3>1 DEF CodeInv, Distinct, NoJumpInOriginals
        <3>9. CodeInv' BY <3>5, <3>7, <3>8 DEF CodeInv, Bytes, PatchType
        <3>10. QED BY <3>1, <3>6, <3>9, <2>2, <2>3, <2>4, <2>6
    <2>7. QED BY <2>4, <2>5, <2>6
<1>3. QED BY <1>1, <1>2

LEMMA ToggleKeeps ==
    ASSUME AutoAssemblerAssumption, CodeInv, NEW p \in patches, UserToggle(p)
    PROVE  CodeInv'
<1>1. PICK new : new = [p EXCEPT !.on = ~p.on] OBVIOUS
<1>2. /\ patches' = (patches \ {p}) \cup {new}
      /\ code' = [code EXCEPT ![p.at] = IF p.on THEN p.original ELSE p.bytes]
    BY <1>1 DEF UserToggle
<1>3. p \in PatchType BY DEF CodeInv
<1>4. /\ p.at \in Cells /\ p.original \in Bytes /\ p.bytes \in Bytes /\ p.on \in BOOLEAN
      /\ p.original \notin Blocks
    BY <1>3 DEF PatchType, CodeInv, NoJumpInOriginals
<1>5. /\ new \in PatchType /\ new.id = p.id /\ new.at = p.at /\ new.bytes = p.bytes
      /\ new.original = p.original /\ new.on = ~p.on
    BY <1>1, <1>3 DEF PatchType
<1>6. code' \in [Cells -> Bytes] BY <1>2, <1>4 DEF CodeInv
<1>7. patches' \subseteq PatchType BY <1>2, <1>5 DEF CodeInv
<1>8. \A q \in patches \ {p} : q.id # p.id /\ q.at # p.at BY DEF CodeInv, Distinct
<1>9. Distinct' BY <1>2, <1>5, <1>8 DEF CodeInv, Distinct
<1>10. NoJumpInOriginals' BY <1>2, <1>4, <1>5 DEF CodeInv, NoJumpInOriginals
<1>11. JumpsArePatches'
    <2>1. SUFFICES ASSUME NEW d \in Cells, code'[d] \in Blocks
                   PROVE  \E q \in patches' : q.at = d /\ q.on /\ q.bytes = code'[d]
        BY DEF JumpsArePatches
    <2>2. CASE d = p.at
        <3>1. ~p.on /\ code'[d] = p.bytes BY <1>2, <1>4, <2>1, <2>2 DEF CodeInv
        <3>2. QED BY <1>2, <1>5, <2>2, <3>1
    <2>3. CASE d # p.at
        <3>1. code'[d] = code[d] BY <1>2, <1>4, <2>3 DEF CodeInv
        <3>2. PICK q \in patches : q.at = d /\ q.on /\ q.bytes = code[d]
            BY <2>1, <3>1 DEF CodeInv, JumpsArePatches
        <3>3. q \in patches' BY <1>2, <2>3, <3>2
        <3>4. QED BY <3>1, <3>2, <3>3
    <2>4. QED BY <2>2, <2>3
<1>12. QED BY <1>6, <1>7, <1>9, <1>10, <1>11 DEF CodeInv, Bytes, PatchType

(* The author's own bytes are no jump.                                        *)
LEMMA RestoreKeeps ==
    ASSUME AutoAssemblerAssumption, CodeInv, NEW D, patches' = patches,
           code' = [c \in Cells |-> IF c \in D THEN Own ELSE code[c]]
    PROVE  CodeInv'
<1>1. code' \in [Cells -> Bytes] BY DEF CodeInv, Bytes
<1>2. JumpsArePatches'
    BY DEF CodeInv, JumpsArePatches, AutoAssemblerAssumption
<1>3. QED BY <1>1, <1>2 DEF CodeInv, Distinct, NoJumpInOriginals

--------------------------------------------------------------------------------
(* The call in progress: what each kind of it carries.                        *)
LEMMA CallKinds ==
    ASSUME CallInv
    PROVE  /\ run = NoCall <=> run.pc = "idle"
           /\ run.pc \in {"idle", "enabling", "rollingBack", "disabling"}
           /\ run.pc = "enabling" =>
                 /\ run.script \in Scripts /\ run.block \in Blocks
                 /\ run.todo \in Seq(Cells \cup {"cave"})
                 /\ run = Enabling(run.script, run.block, run.todo)
           /\ run.pc = "rollingBack" => /\ run.script \in Scripts /\ run.block \in Blocks
                                        /\ run = RollingBack(run.script, run.block)
           /\ run.pc = "disabling" =>
                 /\ run.script \in Scripts /\ run.ok \in BOOLEAN /\ run.rest \subseteq Scripts
                 /\ run.then \in {"keep", "erase", "forget"}
<1> DEFINE E == [pc : {"enabling"}, script : Scripts, block : Blocks, todo : Seq(Cells \cup {"cave"})]
           R == [pc : {"rollingBack"}, script : Scripts, block : Blocks]
           D == [pc : {"disabling"}, script : Scripts, ok : BOOLEAN, rest : SUBSET Scripts,
                 then : {"keep", "erase", "forget"}]
<1>1. CASE run \in [pc : {"idle"}] BY <1>1 DEF NoCall
<1>2. CASE run \in E BY <1>2 DEF NoCall, Enabling
<1>3. CASE run \in R BY <1>3 DEF NoCall, RollingBack
<1>4. CASE run \in D BY <1>4 DEF NoCall
<1>5. QED BY <1>1, <1>2, <1>3, <1>4 DEF CallInv, CallType

(* The undo record of one script changed: its ids, or its cave.               *)
LEMMA IdsWith ==
    ASSUME NEW st \in [Scripts -> StateType], NEW s \in Scripts, NEW ids \in Seq(PatchIds),
           NEW new, new = [st EXCEPT ![s].patchIds = ids]
    PROVE  /\ new \in [Scripts -> StateType] /\ new[s].patchIds = ids
           /\ \A u \in Scripts : new[u].block = st[u].block
           /\ \A u \in Scripts : u # s => new[u] = st[u]
<1>1. PICK r : r = [st[s] EXCEPT !.patchIds = ids] OBVIOUS
<1>2. r \in StateType /\ r.patchIds = ids /\ r.block = st[s].block BY <1>1 DEF StateType
<1>3. new = [st EXCEPT ![s] = r] BY <1>1
<1>4. QED BY <1>2, <1>3

LEMMA CaveWith ==
    ASSUME NEW st \in [Scripts -> StateType], NEW s \in Scripts, NEW b \in Blocks,
           NEW new, new = [st EXCEPT ![s].block = b]
    PROVE  /\ new \in [Scripts -> StateType] /\ new[s].block = b
           /\ \A u \in Scripts : new[u].patchIds = st[u].patchIds
           /\ \A u \in Scripts : u # s => new[u] = st[u]
<1>1. PICK r : r = [st[s] EXCEPT !.block = b] OBVIOUS
<1>2. r \in StateType /\ r.patchIds = st[s].patchIds /\ r.block = b BY <1>1 DEF StateType
<1>3. new = [st EXCEPT ![s] = r] BY <1>1
<1>4. QED BY <1>2, <1>3

(* What a script in the list says.                                            *)
LEMMA ListedTexts ==
    ASSUME AutoAssemblerAssumption, CallInv, NEW s \in Scripts, Listed(s)
    PROVE  /\ text[s] \in TextType
           /\ text[s].blocks \in Seq(Cells \cup {"cave"}) /\ CaveOnce(text[s].blocks)
           /\ text[s].restores \in BOOLEAN /\ text[s].deallocs \in BOOLEAN
BY DEF AutoAssemblerAssumption, CallInv, Listed, TextType

LEMMA StatesTyped ==
    /\ NothingDone.patchIds = <<>> /\ NothingDone.block = Nil /\ NothingDone \in StateType
    /\ \A s \in Scripts : state \in [Scripts -> StateType] =>
          state[s].patchIds \in Seq(PatchIds) /\ state[s].block \in Blocks \cup {Nil}
BY DEF NothingDone, StateType

LEMMA InitWhole == ASSUME AutoAssemblerAssumption, AssemblerInit PROVE WholeInv
<1> USE DEF AssemblerInit
<1>1. run.pc = "idle" /\ run \in CallType BY DEF NoCall, CallType
<1>2. \A s \in Scripts : state[s].patchIds = <<>> /\ state[s] \in StateType BY StatesTyped
<1>3. CodeInv
    BY DEF CodeInv, Bytes, Distinct, JumpsArePatches, NoJumpInOriginals, AutoAssemblerAssumption
<1>4. CallInv
    <2>1. \A s \in Scripts : text[s] = Nil BY DEF AssemblerInit
    <2>2. QED BY <1>1, <1>2 DEF CallInv, Building
<1>5. CavesInv
    BY <1>1, <1>2 DEF CavesInv, JumpsAnswered, CavesTheirOwn, Progress, IdsWhole, Building
<1>6. QED BY <1>3, <1>4, <1>5 DEF WholeInv

--------------------------------------------------------------------------------
(* The code and the patch list, step by step.                                 *)

LEMMA CodeStands == ASSUME CodeInv, UNCHANGED <<code, patches>> PROVE CodeInv'
BY DEF CodeInv, Bytes, PatchType, Distinct, JumpsArePatches, NoJumpInOriginals

(* The hook that is next, when its patch is made.                             *)
LEMMA NextHook ==
    ASSUME AutoAssemblerAssumption, CallInv, run.pc = "enabling", run.todo # <<>>
    PROVE  /\ Head(run.todo) \in Cells \cup {"cave"}
           /\ Tail(run.todo) \in Seq(Cells \cup {"cave"})
           /\ run' = [run EXCEPT !.todo = Tail(@)] =>
                 run' = Enabling(run.script, run.block, Tail(run.todo))
<1>1. run.todo \in Seq(Cells \cup {"cave"}) /\ run = Enabling(run.script, run.block, run.todo)
    BY CallKinds
<1>2. Head(run.todo) \in Cells \cup {"cave"} /\ Tail(run.todo) \in Seq(Cells \cup {"cave"})
    BY <1>1, HeadTailProperties
<1>3. QED BY <1>1, <1>2 DEF Enabling

(* The blocks after the next: without the cave, if that was next.             *)
LEMMA TodoNext ==
    ASSUME NEW S, NEW q \in Seq(S), q # <<>>
    PROVE  /\ Len(Tail(q)) = Len(q) - 1
           /\ CaveOnce(q) /\ Head(q) = "cave" => NoCave(Tail(q))
           /\ CaveOnce(q) /\ Head(q) # "cave" => CaveOnce(Tail(q))
           /\ NoCave(q) => NoCave(Tail(q)) /\ Head(q) # "cave"
<1>1. PICK r : r = Tail(q) OBVIOUS
<1>2. PICK n \in Nat : n = Len(q) OBVIOUS
<1>3. /\ n >= 1 /\ DOMAIN q = 1..n /\ DOMAIN r = 1..(n - 1) /\ Len(r) = n - 1
      /\ Head(q) = q[1] /\ \A i \in 1..(n - 1) : r[i] = q[i + 1]
    BY <1>1, <1>2
<1>4. \A i \in 1..(n - 1) : i + 1 \in 1..n /\ i + 1 # 1 BY <1>3
<1>5. \A i \in 1..n : i = 1 \/ (i - 1 \in 1..(n - 1) /\ (i - 1) + 1 = i) BY <1>3
<1>6. 1 \in 1..n BY <1>3
<1>7. ASSUME CaveOnce(q), q[1] = "cave" PROVE NoCave(r)
    BY <1>3, <1>4, <1>6, <1>7 DEF CaveOnce, NoCave
<1>8. ASSUME CaveOnce(q), q[1] # "cave" PROVE CaveOnce(r)
    <2>1. PICK i \in DOMAIN q : \A j \in DOMAIN q : q[j] = "cave" <=> j = i BY <1>8 DEF CaveOnce
    <2>2. /\ i \in 1..n /\ i # 1
          /\ \A j \in 1..n : q[j] = "cave" <=> j = i
        BY <1>3, <1>6, <1>8, <2>1
    <2>3. i - 1 \in DOMAIN r BY <1>3, <1>5, <2>2
    <2>4. ASSUME NEW j \in DOMAIN r PROVE r[j] = "cave" <=> j = i - 1
        <3>1. j \in 1..(n - 1) /\ r[j] = q[j + 1] /\ j + 1 \in 1..n BY <1>3, <1>4
        <3>2. r[j] = "cave" <=> j + 1 = i BY <2>2, <3>1
        <3>3. j + 1 = i <=> j = i - 1 BY <2>2, <3>1
        <3>4. QED BY <3>2, <3>3
    <2>5. QED BY <2>3, <2>4 DEF CaveOnce
<1>9. ASSUME NoCave(q) PROVE NoCave(r) /\ q[1] # "cave"
    BY <1>3, <1>4, <1>6, <1>9 DEF NoCave
<1>10. QED BY <1>1, <1>2, <1>3, <1>7, <1>8, <1>9

(* What placing a hook does: a patch and its id, or a rollback.               *)
LEMMA HookPlaced ==
    ASSUME AutoAssemblerAssumption, CallInv, CodeInv, PlaceHook
    PROVE  /\ run.pc = "enabling" /\ run.todo # <<>> /\ Head(run.todo) \in Cells
           /\ UNCHANGED <<live, filled, text, enabled>>
           /\ \/ /\ \E id \in PatchIds :
                       /\ \A p \in patches : p.id # id
                       /\ \A p \in patches : p.at # Head(run.todo)
                       /\ Patch(Head(run.todo), run.block, id)
                       /\ state' = [state EXCEPT ![run.script].patchIds = Append(@, id)]
                 /\ run' = Enabling(run.script, run.block, Tail(run.todo))
              \/ /\ run' = RollingBack(run.script, run.block)
                 /\ UNCHANGED <<code, patches, state>>
<1>1. /\ run.pc = "enabling" /\ run.todo # <<>> /\ Head(run.todo) # "cave"
      /\ UNCHANGED <<live, filled, text, enabled>>
    BY DEF PlaceHook
<1>2. Head(run.todo) \in Cells BY <1>1, NextHook
<1>3. PICK hook : hook = Head(run.todo) OBVIOUS
<1>4. CASE /\ CanPatch(hook)
           /\ LET id == CHOOSE i \in FreshId : TRUE IN
              /\ Patch(hook, run.block, id)
              /\ state' = [state EXCEPT ![run.script].patchIds = Append(@, id)]
           /\ run' = [run EXCEPT !.todo = Tail(@)]
    <2>1. PICK id : id = CHOOSE i \in FreshId : TRUE OBVIOUS
    <2>2. id \in PatchIds /\ \A p \in patches : p.id # id BY <1>4, <2>1, FreshTyped
    <2>3. \A p \in patches : p.at # hook BY <1>4 DEF CanPatch
    <2>4. /\ Patch(hook, run.block, id)
          /\ state' = [state EXCEPT ![run.script].patchIds = Append(@, id)]
        BY <1>4, <2>1
    <2>5. run' = Enabling(run.script, run.block, Tail(run.todo)) BY <1>1, <1>4, NextHook
    <2>6. QED BY <1>1, <1>2, <1>3, <2>2, <2>3, <2>4, <2>5
<1>5. CASE /\ run' = RollingBack(run.script, run.block)
           /\ UNCHANGED <<code, patches, state>>
    BY <1>1, <1>2, <1>5
<1>6. QED BY <1>3, <1>4, <1>5 DEF PlaceHook

LEMMA CodeStep ==
    ASSUME AutoAssemblerAssumption, CodeInv, CallInv, [AssemblerNext]_assemblerVars
    PROVE  CodeInv'
<1>1. CASE UNCHANGED assemblerVars BY <1>1, CodeStands DEF assemblerVars, process, lists
<1>2. ASSUME NEW c \in Cells, UserPatch(c) PROVE CodeInv'
    <2>1. PICK id : id = CHOOSE i \in FreshId : TRUE OBVIOUS
    <2>2. CanPatch(c) /\ Patch(c, UserBytes, id) BY <1>2, <2>1 DEF UserPatch
    <2>3. id \in PatchIds /\ \A p \in patches : p.id # id BY <2>1, <2>2, FreshTyped
    <2>4. UserBytes \in Bytes /\ \A p \in patches : p.at # c BY <2>2 DEF Bytes, CanPatch
    <2>5. QED BY <2>2, <2>3, <2>4, PatchKeeps
<1>3. ASSUME NEW p \in patches, UserToggle(p) PROVE CodeInv' BY <1>3, ToggleKeeps
<1>4. ASSUME NEW p \in patches, UserRemove(p) PROVE CodeInv'
    BY <1>4, UnpatchKeeps DEF UserRemove
<1>5. ASSUME NEW s \in Scripts,
             \/ StartEnable(s) \/ StartDisable(s) \/ RemoveScript(s)
             \/ \E t \in Texts : AddScript(s, t) \/ UpdateScript(s, t)
      PROVE  CodeInv'
    BY <1>5, CodeStands
       DEF StartEnable, StartDisable, RemoveScript, AddScript, UpdateScript, process, lists
<1>6. CASE FillCave \/ FinishEnable \/ FinishRollBack \/ DisableAll \/ CloseProject
    BY <1>6, CodeStands
       DEF FillCave, FinishEnable, FinishRollBack, DisableAll, CloseProject, process, lists
<1>7. CASE PlaceHook
    <2>1. run.block \in Bytes BY <1>7, HookPlaced, CallKinds DEF Bytes
    <2>2. CASE \E id \in PatchIds :
                  /\ \A p \in patches : p.id # id
                  /\ \A p \in patches : p.at # Head(run.todo)
                  /\ Patch(Head(run.todo), run.block, id)
        BY <1>7, <2>1, <2>2, HookPlaced, PatchKeeps
    <2>3. CASE UNCHANGED <<code, patches>> BY <2>3, CodeStands
    <2>4. QED BY <1>7, <2>2, <2>3, HookPlaced
<1>8. CASE RollBackPatch BY <1>8, UnpatchKeeps DEF RollBackPatch
<1>9. CASE RemoveHook BY <1>9, UnpatchKeeps DEF RemoveHook
<1>10. CASE RunDisableSection
    <2>1. patches' = patches BY <1>10 DEF RunDisableSection
    <2>2. \E D : code' = [c \in Cells |-> IF c \in D THEN Own ELSE code[c]]
        <3>1. PICK written, freed : SectionRan(run.script, written, freed)
            BY <1>10 DEF RunDisableSection
        <3>2. PICK D : D = {c \in Cells : /\ Restores(run.script) /\ written
                                         /\ c \in Hooks(text[run.script])}
            OBVIOUS
        <3>3. code' = [c \in Cells |-> IF c \in D THEN Own ELSE code[c]]
            BY <3>1, <3>2 DEF SectionRan
        <3>4. QED BY <3>3
    <2>3. QED BY <2>1, <2>2, RestoreKeeps
<1>11. QED
    BY <1>1, <1>2, <1>3, <1>4, <1>5, <1>6, <1>7, <1>8, <1>9, <1>10 DEF AssemblerNext

--------------------------------------------------------------------------------
(* The list of scripts and the call in progress, step by step.                *)

LEMMA CallStands ==
    ASSUME CallInv, UNCHANGED <<live, filled, text, enabled, state, run>> PROVE CallInv'
BY DEF CallInv, CallType, StateType, Building, Listed

(* What the [DISABLE] section leaves: at most the script's own cave is gone,  *)
(* no script that stays on is forgotten, and the call goes on with another.   *)
LEMMA SectionRun ==
    ASSUME CallInv, RunDisableSection
    PROVE  /\ run.pc = "disabling" /\ state[run.script].patchIds = <<>>
           /\ patches' = patches /\ enabled' = enabled \ {run.script}
           /\ \E gone \in SUBSET {state[run.script].block} :
                 live' = live \ gone /\ filled' = filled \ gone
           /\ \E F \in SUBSET Scripts :
                 /\ F \cap (enabled \ {run.script}) = {}
                 /\ text' = [u \in Scripts |-> IF u \in F THEN Nil ELSE text[u]]
                 /\ state' = [u \in Scripts |-> IF u \in F \cup {run.script} THEN NothingDone
                                                ELSE state[u]]
           /\ \/ run.rest = {} /\ run' = NoCall
              \/ \E u \in run.rest : run' = Disabling(u, TRUE, run.rest \ {u}, run.then)
<1>1. run.pc = "disabling" /\ state[run.script].patchIds = <<>> /\ patches' = patches
    BY DEF RunDisableSection, AllPatchesGone
<1>2. PICK written, freed : SectionRan(run.script, written, freed)
    BY DEF RunDisableSection
<1>3. PICK s : s = run.script OBVIOUS
<1>4. PICK gone : gone = IF Deallocs(s) /\ freed THEN {state[s].block} ELSE {} OBVIOUS
<1>5. PICK F : F = ForgottenScripts(s, run.ok /\ Compiles(s) /\ written /\ freed) OBVIOUS
<1>6. gone \in SUBSET {state[s].block} BY <1>4
<1>7. F \in SUBSET Scripts /\ F \cap (enabled \ {s}) = {}
    <2>1. s \in Scripts BY <1>1, <1>3, CallKinds
    <2>2. CASE run.rest = {} /\ run.then = "forget"
        <3>1. F = Scripts BY <1>5, <2>2 DEF ForgottenScripts
        <3>2. enabled \ {s} = {} BY <1>1, <1>3, <2>2 DEF CallInv
        <3>3. QED BY <3>1, <3>2
    <2>3. CASE ~(run.rest = {} /\ run.then = "forget")
        <3>1. F = {s} \/ F = {} BY <1>5, <2>3 DEF ForgottenScripts
        <3>2. QED BY <2>1, <3>1
    <2>4. QED BY <2>2, <2>3
<1>8. /\ live' = live \ gone /\ filled' = filled \ gone
      /\ text' = [u \in Scripts |-> IF u \in F THEN Nil ELSE text[u]]
      /\ state' = [u \in Scripts |-> IF u \in F \cup {s} THEN NothingDone ELSE state[u]]
      /\ enabled' = enabled \ {s}
      /\ IF run.rest = {} THEN run' = NoCall
         ELSE \E u \in run.rest : run' = Disabling(u, TRUE, run.rest \ {u}, run.then)
    BY <1>2, <1>3, <1>4, <1>5 DEF SectionRan
<1>9. QED BY <1>1, <1>3, <1>6, <1>7, <1>8

LEMMA CallUser ==
    ASSUME CallInv, NEW s \in Scripts, NEW t \in Texts, AddScript(s, t) \/ UpdateScript(s, t)
    PROVE  CallInv'
<1>1. /\ run.pc = "idle" /\ UNCHANGED <<live, filled, enabled, state, run>>
      /\ text' = [text EXCEPT ![s] = t] /\ s \notin enabled
    BY DEF AddScript, UpdateScript, MayEdit, process, NoCall, CallInv
<1>2. text' \in [Scripts -> Texts \cup {Nil}] BY <1>1 DEF CallInv
<1>3. \A u \in enabled : Listed(u)' BY <1>1 DEF CallInv, Listed
<1>4. QED BY <1>1, <1>2, <1>3 DEF CallInv, Building, StateType, CallType

LEMMA CallStarts ==
    ASSUME AutoAssemblerAssumption, CallInv, NEW s \in Scripts, StartEnable(s)
    PROVE  CallInv'
<1>1. PICK block \in Blocks \ live :
        /\ live' = live \cup {block}
        /\ run' = IF text[s].broken = "enable" THEN NoCall
                  ELSE Enabling(s, block, text[s].blocks)
    BY DEF StartEnable
<1>2. Listed(s) /\ UNCHANGED <<filled, text, enabled, state>> BY DEF StartEnable
<1>3. text[s].blocks \in Seq(Cells \cup {"cave"}) BY <1>2, ListedTexts
<1>4. /\ run' \in CallType /\ run'.pc \in {"idle", "enabling"}
      /\ run'.pc = "enabling" => run'.script = s /\ run'.block = block
    BY <1>1, <1>3 DEF CallType, NoCall, Enabling
<1>5. QED BY <1>1, <1>2, <1>4 DEF CallInv, Building, Listed

LEMMA CallUndoes ==
    ASSUME AutoAssemblerAssumption, CallInv, NEW s \in Scripts, StartDisable(s) \/ RemoveScript(s)
    PROVE  CallInv'
<1>1. UNCHANGED <<live, filled, enabled>> /\ run.pc = "idle"
    BY CallKinds DEF StartDisable, RemoveScript, process, lists
<1>2. CASE /\ s \in enabled /\ UNCHANGED <<text, state>>
           /\ \E then \in {"keep", "erase"} : run' = Disabling(s, TRUE, {}, then)
    <2>1. PICK then \in {"keep", "erase"} : run' = Disabling(s, TRUE, {}, then) BY <1>2
    <2>2. /\ run' \in CallType /\ run'.pc = "disabling" /\ run'.script = s /\ run'.rest = {}
          /\ run'.then \in {"keep", "erase"}
        BY <2>1 DEF CallType, Disabling
    <2>3. QED BY <1>1, <1>2, <2>2 DEF CallInv, Building, Listed
<1>3. CASE /\ s \notin enabled /\ text' = [text EXCEPT ![s] = Nil]
           /\ state' = [state EXCEPT ![s] = NothingDone] /\ UNCHANGED run
    <2>1. text' \in [Scripts -> Texts \cup {Nil}] /\ \A u \in enabled : Listed(u)'
        BY <1>3 DEF CallInv, Listed
    <2>2. state' \in [Scripts -> StateType] BY <1>3, StatesTyped DEF CallInv
    <2>3. QED BY <1>1, <1>3, <2>1, <2>2 DEF CallInv, Building, CallType
<1>4. QED BY <1>2, <1>3 DEF StartDisable, RemoveScript, MustUndoFirst, process, lists

LEMMA CallAll ==
    ASSUME AutoAssemblerAssumption, CallInv, DisableAll \/ CloseProject
    PROVE  CallInv'
<1>1. UNCHANGED <<live, filled, enabled>> /\ run.pc = "idle"
    BY CallKinds DEF DisableAll, CloseProject, process, lists
<1>2. CASE /\ UNCHANGED <<text, state>>
           /\ \E s \in enabled, then \in {"keep", "forget"} :
                 run' = Disabling(s, TRUE, enabled \ {s}, then)
    <2>1. PICK s \in enabled, then \in {"keep", "forget"} :
              run' = Disabling(s, TRUE, enabled \ {s}, then)
        BY <1>2
    <2>2. s \in Scripts /\ enabled \ {s} \in SUBSET Scripts BY DEF CallInv
    <2>3. /\ run' \in CallType /\ run'.pc = "disabling" /\ run'.script = s
          /\ run'.rest = enabled \ {s} /\ run'.then \in {"keep", "forget"}
        BY <2>1, <2>2 DEF CallType, Disabling
    <2>4. QED BY <1>1, <1>2, <2>3 DEF CallInv, Building, Listed
<1>3. CASE /\ enabled = {} /\ text' = [s \in Scripts |-> Nil]
           /\ state' = [s \in Scripts |-> NothingDone] /\ UNCHANGED run
    <2>1. state' \in [Scripts -> StateType] BY <1>3, StatesTyped
    <2>2. QED BY <1>1, <1>3, <2>1 DEF CallInv, Building, CallType
<1>4. QED BY <1>2, <1>3 DEF DisableAll, CloseProject, process, lists

LEMMA CallCave ==
    ASSUME AutoAssemblerAssumption, CallInv, FillCave
    PROVE  CallInv'
<1>1. /\ run.pc = "enabling" /\ run.todo # <<>>
      /\ UNCHANGED <<live, text, enabled, state>>
      /\ \/ filled' = filled \cup {run.block} /\ run' = [run EXCEPT !.todo = Tail(@)]
         \/ filled' = filled /\ run' = RollingBack(run.script, run.block)
    BY DEF FillCave, lists
<1>2. /\ run.script \in Scripts /\ run.block \in live /\ run.block \in Blocks /\ Listed(run.script)
    BY <1>1, CallKinds DEF CallInv, Building
<1>3. /\ run' \in CallType /\ run'.pc \in {"enabling", "rollingBack"}
      /\ run'.script = run.script /\ run'.block = run.block
    BY <1>1, <1>2, NextHook DEF CallType, Enabling, RollingBack
<1>4. QED BY <1>1, <1>2, <1>3 DEF CallInv, Building, Listed

LEMMA CallHook ==
    ASSUME AutoAssemblerAssumption, CodeInv, CallInv, PlaceHook
    PROVE  CallInv'
<1>1. /\ run.pc = "enabling" /\ run.todo # <<>> /\ UNCHANGED <<live, filled, text, enabled>>
    BY HookPlaced
<1>2. /\ run.script \in Scripts /\ run.block \in live /\ run.block \in Blocks /\ Listed(run.script)
    BY <1>1, CallKinds DEF CallInv, Building
<1>3. Tail(run.todo) \in Seq(Cells \cup {"cave"}) BY <1>1, NextHook
<1>4. /\ run' \in CallType /\ run'.pc \in {"enabling", "rollingBack"}
      /\ run'.script = run.script /\ run'.block = run.block
    BY <1>2, <1>3, HookPlaced DEF CallType, Enabling, RollingBack
<1>5. state' \in [Scripts -> StateType]
    <2>1. CASE \E id \in PatchIds : state' = [state EXCEPT ![run.script].patchIds = Append(@, id)]
        <3>1. PICK id \in PatchIds :
                  state' = [state EXCEPT ![run.script].patchIds = Append(@, id)]
            BY <2>1
        <3>2. Append(state[run.script].patchIds, id) \in Seq(PatchIds)
            BY <1>2, StatesTyped, IdsPutOn DEF CallInv
        <3>3. QED BY <1>2, <3>1, <3>2, IdsWith DEF CallInv
    <2>2. QED BY <2>1, HookPlaced DEF CallInv
<1>6. QED BY <1>1, <1>2, <1>4, <1>5 DEF CallInv, Building, Listed

LEMMA CallEnds ==
    ASSUME AutoAssemblerAssumption, CallInv, FinishEnable \/ FinishRollBack
    PROVE  CallInv'
<1>1. /\ Building /\ run' = NoCall /\ UNCHANGED text
      /\ live' \subseteq live /\ filled' \subseteq live' /\ filled' \subseteq filled
    <2>1. CASE FinishEnable BY <2>1 DEF FinishEnable, Building, process, CallInv
    <2>2. CASE FinishRollBack
        BY <2>2 DEF FinishRollBack, Free, Building, lists, CallInv
    <2>3. QED BY <2>1, <2>2
<1>2. /\ run.script \in Scripts /\ run.block \in Blocks /\ Listed(run.script)
    BY <1>1, CallKinds DEF CallInv, Building
<1>3. /\ enabled' \in {enabled, enabled \cup {run.script}}
      /\ \/ UNCHANGED state \/ state' = [state EXCEPT ![run.script].block = run.block]
    BY DEF FinishEnable, FinishRollBack, lists
<1>4. state' \in [Scripts -> StateType] BY <1>2, <1>3, CaveWith DEF CallInv
<1>5. run' \in CallType /\ run'.pc = "idle" BY <1>1 DEF CallType, NoCall
<1>6. QED BY <1>1, <1>2, <1>3, <1>4, <1>5 DEF CallInv, Building, Listed

(* An id taken off, by a rollback or by a script turned off.                  *)
LEMMA CallTakesOff ==
    ASSUME AutoAssemblerAssumption, CallInv, RollBackPatch \/ RemoveHook
    PROVE  CallInv'
<1>1. /\ UNCHANGED <<live, filled, text, enabled>> /\ state[run.script].patchIds # <<>>
      /\ state' = [state EXCEPT ![run.script].patchIds = Front(state[run.script].patchIds)]
      /\ run.pc \in {"rollingBack", "disabling"}
    BY DEF RollBackPatch, RemoveHook
<1>2. run.script \in Scripts BY <1>1, CallKinds
<1>3. state[run.script].patchIds \in Seq(PatchIds) BY <1>2, StatesTyped DEF CallInv
<1>4. Front(state[run.script].patchIds) \in Seq(PatchIds) BY <1>1, <1>3, IdsTakenOff
<1>5. state' \in [Scripts -> StateType] BY <1>1, <1>2, <1>4, IdsWith DEF CallInv
<1>6. CASE RollBackPatch
    <2>1. UNCHANGED run BY <1>6 DEF RollBackPatch
    <2>2. QED BY <1>1, <1>5, <2>1 DEF CallInv, Building, Listed, CallType
<1>7. CASE RemoveHook
    <2>1. PICK ok \in BOOLEAN : run' = [run EXCEPT !.ok = @ /\ ok] BY <1>7 DEF RemoveHook
    <2>2. run.pc = "disabling" BY <1>7 DEF RemoveHook
    <2>3. run \in [pc : {"disabling"}, script : Scripts, ok : BOOLEAN, rest : SUBSET Scripts,
                   then : {"keep", "erase", "forget"}]
        BY <2>2 DEF CallInv, CallType
    <2>4. /\ run' \in CallType /\ run'.pc = "disabling" /\ run'.script = run.script
          /\ run'.rest = run.rest /\ run'.then = run.then
        BY <2>1, <2>3 DEF CallType
    <2>5. QED BY <1>1, <1>5, <2>2, <2>4 DEF CallInv, Building, Listed
<1>8. QED BY <1>6, <1>7

LEMMA CallSection ==
    ASSUME AutoAssemblerAssumption, CallInv, RunDisableSection
    PROVE  CallInv'
<1>1. run.pc = "disabling" /\ enabled' = enabled \ {run.script} BY SectionRun
<1>2. PICK gone : live' = live \ gone /\ filled' = filled \ gone BY SectionRun
<1>3. PICK F \in SUBSET Scripts :
        /\ F \cap (enabled \ {run.script}) = {}
        /\ text' = [u \in Scripts |-> IF u \in F THEN Nil ELSE text[u]]
        /\ state' = [u \in Scripts |-> IF u \in F \cup {run.script} THEN NothingDone
                                       ELSE state[u]]
    BY SectionRun
<1>4. text' \in [Scripts -> Texts \cup {Nil}] BY <1>3 DEF CallInv
<1>5. state' \in [Scripts -> StateType] BY <1>3, StatesTyped DEF CallInv
<1>6. enabled' \subseteq Scripts /\ \A u \in enabled' : Listed(u)'
    BY <1>1, <1>3 DEF CallInv, Listed
<1>7. /\ run' \in CallType /\ run'.pc \in {"idle", "disabling"}
      /\ run'.pc = "disabling" =>
            /\ run'.script \in enabled' /\ run'.rest \subseteq enabled' \ {run'.script}
            /\ run'.then = "forget" => run'.rest = enabled' \ {run'.script}
            /\ run'.then = "erase" => run'.rest = {}
    <2>1. CASE run' = NoCall BY <2>1 DEF CallType, NoCall
    <2>2. CASE \E u \in run.rest : run' = Disabling(u, TRUE, run.rest \ {u}, run.then)
        <3>. PICK u \in run.rest : run' = Disabling(u, TRUE, run.rest \ {u}, run.then) BY <2>2
        <3>1. u \in Scripts /\ run.rest \ {u} \in SUBSET Scripts
              /\ run.then \in {"keep", "erase", "forget"}
            BY <1>1, CallKinds
        <3>2. /\ run' \in CallType /\ run'.pc = "disabling" /\ run'.script = u
              /\ run'.rest = run.rest \ {u} /\ run'.then = run.then
            BY <3>1 DEF CallType, Disabling
        <3>3. /\ run.rest \subseteq enabled \ {run.script}
              /\ run.then = "forget" => run.rest = enabled \ {run.script}
              /\ run.then # "erase"
            BY <1>1 DEF CallInv
        <3>4. QED BY <1>1, <3>2, <3>3
    <2>3. QED BY <2>1, <2>2, SectionRun
<1>8. QED BY <1>2, <1>4, <1>5, <1>6, <1>7 DEF CallInv, Building

LEMMA CallStep ==
    ASSUME AutoAssemblerAssumption, CodeInv, CallInv, [AssemblerNext]_assemblerVars
    PROVE  CallInv'
<1>1. CASE UNCHANGED assemblerVars BY <1>1, CallStands DEF assemblerVars, process, lists
<1>2. ASSUME NEW c \in Cells, UserPatch(c) PROVE CallInv'
    BY <1>2, CallStands DEF UserPatch
<1>3. ASSUME NEW p \in patches, UserToggle(p) \/ UserRemove(p) PROVE CallInv'
    BY <1>3, CallStands DEF UserToggle, UserRemove
<1>4. ASSUME NEW s \in Scripts, StartEnable(s) PROVE CallInv' BY <1>4, CallStarts
<1>5. ASSUME NEW s \in Scripts, StartDisable(s) \/ RemoveScript(s) PROVE CallInv'
    BY <1>5, CallUndoes
<1>6. ASSUME NEW s \in Scripts, NEW t \in Texts, AddScript(s, t) \/ UpdateScript(s, t)
      PROVE  CallInv'
    BY <1>6, CallUser
<1>7. QED
    BY <1>1, <1>2, <1>3, <1>4, <1>5, <1>6, CallCave, CallHook, CallEnds, CallTakesOff,
       CallSection, CallAll
       DEF AssemblerNext

--------------------------------------------------------------------------------
(* Whose the caves are, step by step, where no write fails.                   *)

(* Patches that are not jumps come and go, and jumps are turned off and on.   *)
LEMMA CavesStand ==
    ASSUME CavesInv, UNCHANGED <<filled, text, enabled, state, run>>,
           \A p \in patches' : p.bytes \in Blocks =>
               \E q \in patches : q.id = p.id /\ q.bytes = p.bytes
    PROVE  CavesInv'
<1>1. JumpsAnswered'
    <2>1. SUFFICES ASSUME NEW p \in patches', p.bytes \in Blocks
                   PROVE  \E s \in Scripts : /\ s \in enabled \/ Caller(s)
                                             /\ p.id \in ToSet(state[s].patchIds)
                                             /\ CaveOf(s) = p.bytes
        BY DEF JumpsAnswered, Caller, CaveOf
    <2>2. PICK q \in patches : q.id = p.id /\ q.bytes = p.bytes BY <2>1
    <2>3. QED BY <2>1, <2>2 DEF CavesInv, JumpsAnswered
<1>2. CavesTheirOwn' /\ Progress' /\ IdsWhole'
    BY DEF CavesInv, CavesTheirOwn, Progress, IdsWhole, Building, Caller
<1>3. QED BY <1>1, <1>2 DEF CavesInv

LEMMA CavesUser ==
    ASSUME AutoAssemblerAssumption, CodeInv, CavesInv,
           \/ \E c \in Cells : UserPatch(c)
           \/ \E p \in patches : UserToggle(p) \/ UserRemove(p)
    PROVE  CavesInv'
<1>1. ASSUME NEW c \in Cells, UserPatch(c) PROVE CavesInv'
    <2>1. PICK new : new = [id |-> CHOOSE i \in FreshId : TRUE, at |-> c, bytes |-> UserBytes,
                            original |-> code[c], on |-> TRUE]
        OBVIOUS
    <2>2. patches' = patches \cup {new} /\ UNCHANGED <<filled, text, enabled, state, run>>
        BY <1>1, <2>1 DEF UserPatch, Patch
    <2>3. new.bytes \notin Blocks BY <2>1 DEF AutoAssemblerAssumption
    <2>4. QED BY <2>2, <2>3, CavesStand
<1>2. ASSUME NEW p \in patches, UserToggle(p) PROVE CavesInv'
    <2>1. PICK new : new = [p EXCEPT !.on = ~p.on] OBVIOUS
    <2>2. patches' = (patches \ {p}) \cup {new} /\ UNCHANGED <<filled, text, enabled, state, run>>
        BY <1>2, <2>1 DEF UserToggle
    <2>3. p \in PatchType BY DEF CodeInv
    <2>4. new.id = p.id /\ new.bytes = p.bytes BY <2>1, <2>3 DEF PatchType
    <2>5. QED BY <2>2, <2>4, CavesStand
<1>3. ASSUME NEW p \in patches, UserRemove(p) PROVE CavesInv'
    <2>1. PICK ok : Unpatch(p.id, ok) BY <1>3 DEF UserRemove
    <2>2. patches' \subseteq patches BY <2>1, UnpatchKeeps
    <2>3. UNCHANGED <<filled, text, enabled, state, run>> BY <1>3 DEF UserRemove
    <2>4. QED BY <2>2, <2>3, CavesStand
<1>4. QED BY <1>1, <1>2, <1>3

(* Between calls only scripts that are on have anything.                      *)
LEMMA BetweenCalls ==
    ASSUME CallInv, CavesInv, run.pc = "idle"
    PROVE  /\ \A p \in patches : p.bytes \in Blocks =>
                 \E s \in enabled : /\ p.id \in ToSet(state[s].patchIds)
                                    /\ state[s].block = p.bytes
           /\ \A s \in enabled : /\ state[s].block \in filled
                                 /\ Len(state[s].patchIds) = Len(text[s].blocks) - 1
           /\ \A s, t \in enabled : state[s].block = state[t].block => s = t
           /\ \A s \in Scripts : s \in enabled \/ state[s].patchIds = <<>>
BY DEF CavesInv, JumpsAnswered, CavesTheirOwn, IdsWhole, Caller, CaveOf, CallInv

(* A list that is edited, or a call that begins: the scripts that are on stay *)
(* as they are.                                                               *)
LEMMA CavesBegin ==
    ASSUME CallInv, CavesInv, run.pc = "idle", UNCHANGED <<filled, patches, enabled>>,
           \A s \in enabled : text'[s] = text[s] /\ state'[s] = state[s],
           \A s \in Scripts \ enabled : state'[s].patchIds = <<>>,
           \/ run'.pc = "idle"
           \/ run'.pc = "disabling" /\ run'.script \in enabled
           \/ /\ run'.pc = "enabling" /\ run'.script \in Scripts \ enabled
              /\ run'.block \notin filled
              /\ run'.todo = text'[run'.script].blocks /\ run'.todo \in Seq(Cells \cup {"cave"})
              /\ CaveOnce(run'.todo)
    PROVE  CavesInv'
<1>1. JumpsAnswered'
    BY BetweenCalls DEF JumpsAnswered, Caller, CaveOf, CallInv
<1>2. CavesTheirOwn'
    BY BetweenCalls DEF CavesTheirOwn, Building
<1>3. Progress'
    <2>1. SUFFICES ASSUME run'.pc = "enabling"
                   PROVE  CaveToCome(text'[run'.script], state'[run'.script].patchIds, run'.todo)
        BY DEF Progress
    <2>2. /\ state'[run'.script].patchIds = <<>> /\ run'.todo = text'[run'.script].blocks
          /\ run'.todo \in Seq(Cells \cup {"cave"}) /\ CaveOnce(run'.todo)
        BY <2>1
    <2>3. Len(<<>>) + Len(run'.todo) = Len(run'.todo) BY <2>2
    <2>4. QED BY <2>2, <2>3 DEF CaveToCome
<1>4. IdsWhole'
    BY BetweenCalls DEF IdsWhole, Caller
<1>5. QED BY <1>1, <1>2, <1>3, <1>4 DEF CavesInv

LEMMA CavesEdited ==
    ASSUME AutoAssemblerAssumption, CallInv, CavesInv,
           NEW s \in Scripts, NEW t \in Texts, AddScript(s, t) \/ UpdateScript(s, t)
    PROVE  CavesInv'
<1>1. /\ run.pc = "idle" /\ UNCHANGED <<filled, patches, enabled, state, run>>
      /\ text' = [text EXCEPT ![s] = t] /\ s \notin enabled
    BY CallKinds DEF AddScript, UpdateScript, MayEdit, process, CallInv
<1>2. \A u \in enabled : text'[u] = text[u] BY <1>1 DEF CallInv
<1>3. QED BY <1>1, <1>2, CavesBegin, BetweenCalls

LEMMA CavesStarts ==
    ASSUME AutoAssemblerAssumption, CallInv, CavesInv, NEW s \in Scripts, StartEnable(s)
    PROVE  CavesInv'
<1>1. PICK block \in Blocks \ live :
        run' = IF text[s].broken = "enable" THEN NoCall
               ELSE Enabling(s, block, text[s].blocks)
    BY DEF StartEnable
<1>2. /\ run.pc = "idle" /\ s \notin enabled /\ Listed(s)
      /\ UNCHANGED <<filled, patches, text, enabled, state>>
    BY CallKinds DEF StartEnable
<1>3. \/ run'.pc = "idle"
      \/ /\ run'.pc = "enabling" /\ run'.script \in Scripts \ enabled
         /\ run'.block \notin filled
         /\ run'.todo = text'[run'.script].blocks /\ run'.todo \in Seq(Cells \cup {"cave"})
         /\ CaveOnce(run'.todo)
    BY <1>1, <1>2, ListedTexts DEF NoCall, Enabling, CallInv
<1>4. QED BY <1>2, <1>3, CavesBegin, BetweenCalls

LEMMA CavesUndoes ==
    ASSUME CallInv, CavesInv,
           (\E s \in Scripts : StartDisable(s) \/ RemoveScript(s)) \/ DisableAll \/ CloseProject
    PROVE  CavesInv'
<1>1. run.pc = "idle" /\ UNCHANGED <<filled, patches, enabled>>
    BY CallKinds DEF StartDisable, RemoveScript, DisableAll, CloseProject, process, lists
<1>2. CASE /\ UNCHANGED <<text, state>>
           /\ \E s \in enabled : \E rest, then : run' = Disabling(s, TRUE, rest, then)
    <2>1. run'.pc = "disabling" /\ run'.script \in enabled BY <1>2 DEF Disabling
    <2>2. QED BY <1>1, <1>2, <2>1, CavesBegin, BetweenCalls
<1>3. CASE /\ UNCHANGED run
           /\ \E s \in Scripts \ enabled : /\ text' = [text EXCEPT ![s] = Nil]
                                           /\ state' = [state EXCEPT ![s] = NothingDone]
    <2>1. \A u \in enabled : text'[u] = text[u] /\ state'[u] = state[u] BY <1>3 DEF CallInv
    <2>2. \A u \in Scripts \ enabled : state'[u].patchIds = <<>>
        BY <1>1, <1>3, BetweenCalls, StatesTyped DEF CallInv
    <2>3. QED BY <1>1, <1>3, <2>1, <2>2, CavesBegin
<1>4. CASE UNCHANGED run /\ enabled = {} /\ state' = [s \in Scripts |-> NothingDone]
    <2>1. \A u \in Scripts \ enabled : state'[u].patchIds = <<>> BY <1>4, StatesTyped
    <2>2. QED BY <1>1, <1>4, <2>1, CavesBegin
<1>5. QED
    BY <1>2, <1>3, <1>4
       DEF StartDisable, RemoveScript, MustUndoFirst, DisableAll, CloseProject, process, lists

LEMMA CavesFilled ==
    ASSUME AutoAssemblerAssumption, CallInv, CavesInv, FillCave
    PROVE  CavesInv'
<1>1. /\ run.pc = "enabling" /\ run.todo # <<>> /\ Head(run.todo) = "cave"
      /\ UNCHANGED <<code, live, patches, text, enabled, state>>
      /\ \/ filled' = filled \cup {run.block} /\ run' = [run EXCEPT !.todo = Tail(@)]
         \/ filled' = filled /\ run' = RollingBack(run.script, run.block)
    BY DEF FillCave, lists
<1>2. run.script \in Scripts /\ Listed(run.script)
    BY <1>1, CallKinds DEF CallInv, Building
<1>3. run.todo \in Seq(Cells \cup {"cave"}) BY <1>1, CallKinds
<1>4. CaveToCome(text[run.script], state[run.script].patchIds, run.todo)
    <2>1. ~NoCave(run.todo) BY <1>1, <1>3, TodoNext
    <2>2. QED BY <1>1, <2>1 DEF CavesInv, Progress, HooksToCome
<1>5. /\ NoCave(Tail(run.todo)) /\ Len(Tail(run.todo)) = Len(run.todo) - 1
    BY <1>1, <1>3, <1>4, TodoNext DEF CaveToCome
<1>6. /\ run'.script = run.script /\ run'.block = run.block
      /\ \/ run'.pc = "rollingBack" /\ filled' = filled
         \/ run'.pc = "enabling" /\ run'.todo = Tail(run.todo) /\ filled' = filled \cup {run.block}
    <2>1. CASE filled' = filled /\ run' = RollingBack(run.script, run.block)
        BY <2>1 DEF RollingBack
    <2>2. CASE filled' = filled \cup {run.block} /\ run' = [run EXCEPT !.todo = Tail(@)]
        <3>1. run' = Enabling(run.script, run.block, Tail(run.todo)) BY <1>1, <2>2, NextHook
        <3>2. QED BY <2>2, <3>1 DEF Enabling
    <2>3. QED BY <1>1, <2>1, <2>2
<1>7. JumpsAnswered' BY <1>1, <1>6 DEF CavesInv, JumpsAnswered, Caller, CaveOf
<1>8. CavesTheirOwn' BY <1>1, <1>6 DEF CavesInv, CavesTheirOwn, Building
<1>9. Progress'
    <2>1. CASE run'.pc = "enabling"
        <3>1. PICK ids \in Seq(PatchIds) : ids = state[run.script].patchIds
            BY <1>2, StatesTyped DEF CallInv
        <3>2. Len(ids) + (Len(run.todo) - 1) = Len(text[run.script].blocks) - 1
            <4>1. Len(ids) \in Nat /\ Len(run.todo) \in Nat BY <1>3, <3>1
            <4>2. Len(ids) + Len(run.todo) = Len(text[run.script].blocks)
                BY <1>4, <3>1 DEF CaveToCome
            <4>3. QED BY <4>1, <4>2
        <3>3. run'.todo = Tail(run.todo) /\ run'.block \in filled' BY <1>6, <2>1
        <3>4. state'[run'.script].patchIds = ids /\ text'[run'.script] = text[run.script]
            BY <1>1, <1>6, <3>1
        <3>5. HooksToCome(text[run.script], ids, Tail(run.todo))
            BY <1>5, <3>2 DEF HooksToCome
        <3>6. QED BY <3>3, <3>4, <3>5 DEF Progress
    <2>2. QED BY <1>6, <2>1 DEF Progress
<1>10. IdsWhole' BY <1>1, <1>6 DEF CavesInv, IdsWhole, Caller
<1>11. QED BY <1>7, <1>8, <1>9, <1>10 DEF CavesInv

LEMMA CavesHooked ==
    ASSUME AutoAssemblerAssumption, CodeInv, CallInv, CavesInv, PlaceHook
    PROVE  CavesInv'
<1>1. /\ run.pc = "enabling" /\ run.todo # <<>> /\ Head(run.todo) \in Cells
      /\ UNCHANGED <<live, filled, text, enabled>>
    BY HookPlaced
<1>2. run.script \in Scripts /\ run.block \in Blocks /\ Listed(run.script)
    BY <1>1, CallKinds DEF CallInv, Building
<1>3. run.script \notin enabled /\ \A s \in enabled : state[s].block # run.block
    BY <1>1 DEF CavesInv, CavesTheirOwn, Building
<1>4. CASE run' = RollingBack(run.script, run.block) /\ UNCHANGED <<code, patches, state>>
    <2>1. run'.pc = "rollingBack" /\ run'.script = run.script /\ run'.block = run.block
        BY <1>4 DEF RollingBack
    <2>2. JumpsAnswered' BY <1>1, <1>4, <2>1 DEF CavesInv, JumpsAnswered, Caller, CaveOf
    <2>3. CavesTheirOwn' BY <1>1, <1>4, <2>1 DEF CavesInv, CavesTheirOwn, Building
    <2>4. Progress' BY <2>1 DEF Progress
    <2>5. IdsWhole' BY <1>1, <1>4, <2>1 DEF CavesInv, IdsWhole, Caller
    <2>6. QED BY <2>2, <2>3, <2>4, <2>5 DEF CavesInv
<1>5. CASE /\ \E id \in PatchIds :
                 /\ \A p \in patches : p.id # id
                 /\ \A p \in patches : p.at # Head(run.todo)
                 /\ Patch(Head(run.todo), run.block, id)
                 /\ state' = [state EXCEPT ![run.script].patchIds = Append(@, id)]
           /\ run' = Enabling(run.script, run.block, Tail(run.todo))
    <2>1. PICK id \in PatchIds :
              /\ Patch(Head(run.todo), run.block, id)
              /\ state' = [state EXCEPT ![run.script].patchIds = Append(@, id)]
        BY <1>5
    <2>2. PICK ids \in Seq(PatchIds) : ids = state[run.script].patchIds
        BY <1>2, StatesTyped DEF CallInv
    <2>3. /\ Append(ids, id) \in Seq(PatchIds) /\ Len(Append(ids, id)) = Len(ids) + 1
          /\ ToSet(Append(ids, id)) = ToSet(ids) \cup {id}
        BY IdsPutOn
    <2>4. /\ state'[run.script].patchIds = Append(ids, id)
          /\ \A u \in Scripts : state'[u].block = state[u].block
          /\ \A u \in Scripts : u # run.script => state'[u] = state[u]
        BY <1>2, <2>1, <2>2, <2>3, IdsWith DEF CallInv
    <2>5. PICK new : new = [id |-> id, at |-> Head(run.todo), bytes |-> run.block,
                            original |-> code[Head(run.todo)], on |-> TRUE]
        OBVIOUS
    <2>6. patches' = patches \cup {new} /\ new.id = id /\ new.bytes = run.block
        BY <2>1, <2>5 DEF Patch
    <2>7. /\ run'.pc = "enabling" /\ run'.script = run.script /\ run'.block = run.block
          /\ run'.todo = Tail(run.todo)
        BY <1>5 DEF Enabling
    <2>8. /\ run.todo \in Seq(Cells \cup {"cave"}) /\ Head(run.todo) # "cave"
          /\ Len(Tail(run.todo)) = Len(run.todo) - 1
          /\ CaveOnce(run.todo) => CaveOnce(Tail(run.todo))
          /\ NoCave(run.todo) => NoCave(Tail(run.todo))
        <3>1. run.todo \in Seq(Cells \cup {"cave"}) BY <1>1, CallKinds
        <3>2. Head(run.todo) # "cave" BY <1>1 DEF AutoAssemblerAssumption
        <3>3. QED BY <1>1, <3>1, <3>2, TodoNext
    <2>a. \/ CaveToCome(text[run.script], ids, run.todo) /\ ~CaveFirst(text[run.script])
          \/ run.block \in filled /\ HooksToCome(text[run.script], ids, run.todo)
        BY <1>1, <2>2, <2>8 DEF CavesInv, Progress, CaveToCome, CaveFirst
    <2>b. Len(Append(ids, id)) + Len(Tail(run.todo)) = Len(ids) + Len(run.todo)
        <3>1. \A a, b \in Nat : a + 1 + (b - 1) = a + b OBVIOUS
        <3>2. Len(ids) \in Nat /\ Len(run.todo) \in Nat BY <2>8
        <3>3. QED BY <2>3, <2>8, <3>1, <3>2
    <2>9. JumpsAnswered'
        <3>1. SUFFICES ASSUME NEW p \in patches', p.bytes \in Blocks
                       PROVE  \E s \in Scripts : /\ s \in enabled' \/ Caller(s)'
                                                 /\ p.id \in ToSet(state'[s].patchIds)
                                                 /\ CaveOf(s)' = p.bytes
            BY DEF JumpsAnswered
        <3>2. CASE p = new
            <4>1. PICK s \in Scripts : s = run.script BY <1>2
            <4>2. Caller(s)' /\ CaveOf(s)' = run.block
                BY <1>1, <1>3, <2>7, <4>1 DEF Caller, CaveOf
            <4>3. p.id \in ToSet(state'[s].patchIds) BY <2>3, <2>4, <2>6, <3>2, <4>1
            <4>4. QED BY <2>6, <3>2, <4>2, <4>3
        <3>3. CASE p \in patches
            <4>1. PICK s \in Scripts : /\ s \in enabled \/ Caller(s)
                                       /\ p.id \in ToSet(state[s].patchIds)
                                       /\ CaveOf(s) = p.bytes
                BY <3>1, <3>3 DEF CavesInv, JumpsAnswered
            <4>2. s \in enabled' \/ Caller(s)' BY <1>1, <2>7, <4>1 DEF Caller
            <4>3. p.id \in ToSet(state'[s].patchIds) BY <2>2, <2>3, <2>4, <4>1
            <4>4. CaveOf(s)' = CaveOf(s) BY <1>1, <2>4, <2>7 DEF CaveOf
            <4>5. QED BY <4>1, <4>2, <4>3, <4>4
        <3>4. QED BY <2>6, <3>2, <3>3
    <2>10. CavesTheirOwn'
        BY <1>1, <1>3, <2>4, <2>7, <2>a DEF CavesInv, CavesTheirOwn, Building, CallInv
    <2>11. Progress'
        <3>1. CASE CaveToCome(text[run.script], ids, run.todo) /\ ~CaveFirst(text[run.script])
            <4>1. CaveToCome(text[run.script], Append(ids, id), Tail(run.todo))
                BY <2>8, <2>b, <3>1 DEF CaveToCome
            <4>2. QED BY <1>1, <2>4, <2>7, <4>1 DEF Progress
        <3>2. CASE run.block \in filled /\ HooksToCome(text[run.script], ids, run.todo)
            <4>1. HooksToCome(text[run.script], Append(ids, id), Tail(run.todo))
                BY <2>8, <2>b, <3>2 DEF HooksToCome
            <4>2. QED BY <1>1, <2>4, <2>7, <3>2, <4>1 DEF Progress
        <3>3. QED BY <2>a, <3>1, <3>2
    <2>12. IdsWhole'
        BY <1>1, <1>3, <2>4, <2>7 DEF CavesInv, IdsWhole, Caller, CallInv
    <2>13. QED BY <2>9, <2>10, <2>11, <2>12 DEF CavesInv
<1>6. QED BY <1>4, <1>5, HookPlaced

LEMMA CavesOn ==
    ASSUME AutoAssemblerAssumption, CallInv, CavesInv, FinishEnable
    PROVE  CavesInv'
<1>1. /\ run.pc = "enabling" /\ run.todo = <<>> /\ run' = NoCall
      /\ enabled' = enabled \cup {run.script}
      /\ state' = [state EXCEPT ![run.script].block = run.block]
      /\ UNCHANGED <<filled, patches, text>>
    BY DEF FinishEnable, process
<1>2. run.script \in Scripts /\ run.block \in Blocks /\ Listed(run.script)
    BY <1>1, CallKinds DEF CallInv, Building
<1>3. run.script \notin enabled /\ \A s \in enabled : state[s].block # run.block
    BY <1>1 DEF CavesInv, CavesTheirOwn, Building
<1>4. /\ state'[run.script].block = run.block
      /\ \A u \in Scripts : state'[u].patchIds = state[u].patchIds
      /\ \A u \in Scripts : u # run.script => state'[u] = state[u]
    BY <1>1, <1>2, CaveWith DEF CallInv
<1>5. run'.pc = "idle" BY <1>1 DEF NoCall
<1>6. /\ run.block \in filled
      /\ Len(state[run.script].patchIds) = Len(text[run.script].blocks) - 1
    <2>1. PICK ids \in Seq(PatchIds) : ids = state[run.script].patchIds
        BY <1>2, StatesTyped DEF CallInv
    <2>2. ~CaveOnce(<<>>) BY DEF CaveOnce
    <2>3. /\ run.block \in filled
          /\ Len(ids) + Len(<<>>) = Len(text[run.script].blocks) - 1
        BY <1>1, <2>1, <2>2 DEF CavesInv, Progress, CaveToCome, HooksToCome
    <2>4. Len(ids) + Len(<<>>) = Len(ids) BY <2>1
    <2>5. QED BY <2>1, <2>3, <2>4
<1>7. JumpsAnswered'
    <2>1. SUFFICES ASSUME NEW p \in patches, p.bytes \in Blocks
                   PROVE  \E s \in enabled' : /\ p.id \in ToSet(state'[s].patchIds)
                                              /\ state'[s].block = p.bytes
        BY <1>1, <1>2 DEF JumpsAnswered, CaveOf, CallInv
    <2>2. PICK s \in Scripts : /\ s \in enabled \/ Caller(s)
                               /\ p.id \in ToSet(state[s].patchIds)
                               /\ CaveOf(s) = p.bytes
        BY <2>1 DEF CavesInv, JumpsAnswered
    <2>3. s \in enabled' /\ p.id \in ToSet(state'[s].patchIds) BY <1>1, <1>4, <2>2 DEF Caller
    <2>4. state'[s].block = CaveOf(s) BY <1>3, <1>4, <2>2 DEF CaveOf, Caller
    <2>5. QED BY <2>2, <2>3, <2>4
<1>8. CavesTheirOwn'
    BY <1>1, <1>3, <1>4, <1>5, <1>6 DEF CavesInv, CavesTheirOwn, Building, CallInv
<1>9. Progress' BY <1>5 DEF Progress
<1>10. IdsWhole'
    BY <1>1, <1>3, <1>4, <1>5, <1>6 DEF CavesInv, IdsWhole, Caller, CallInv
<1>11. QED BY <1>7, <1>8, <1>9, <1>10 DEF CavesInv

(* An id taken off with its patch: the others keep their owner.               *)
LEMMA CavesTakenOff ==
    ASSUME AutoAssemblerAssumption, "write" \notin Faults, CodeInv, CallInv, CavesInv,
           RollBackPatch \/ RemoveHook
    PROVE  CavesInv'
<1>1. /\ UNCHANGED <<live, filled, text, enabled>> /\ state[run.script].patchIds # <<>>
      /\ state' = [state EXCEPT ![run.script].patchIds = Front(state[run.script].patchIds)]
      /\ run.pc \in {"rollingBack", "disabling"}
      /\ \E ok : Unpatch(Last(state[run.script].patchIds), ok)
    BY DEF RollBackPatch, RemoveHook
<1>2. run.script \in Scripts BY <1>1, CallKinds
<1>3. PICK ids \in Seq(PatchIds) : ids = state[run.script].patchIds
    BY <1>2, StatesTyped DEF CallInv
<1>4. /\ Front(ids) \in Seq(PatchIds)
      /\ \A x \in ToSet(ids) : x = Last(ids) \/ x \in ToSet(Front(ids))
    BY <1>1, <1>3, IdsTakenOff
<1>5. /\ state'[run.script].patchIds = Front(ids)
      /\ \A u \in Scripts : state'[u].block = state[u].block
      /\ \A u \in Scripts : u # run.script => state'[u] = state[u]
    BY <1>1, <1>2, <1>3, <1>4, IdsWith DEF CallInv
<1>6. patches' \subseteq patches /\ \A p \in patches' : p.id # Last(ids)
    BY <1>1, <1>3, UnpatchKeeps
<1>7. /\ run'.pc = run.pc /\ run'.script = run.script
      /\ run.pc = "rollingBack" => run'.block = run.block
    <2>1. CASE RollBackPatch BY <2>1 DEF RollBackPatch
    <2>2. CASE RemoveHook
        <3>1. PICK ok \in BOOLEAN : run' = [run EXCEPT !.ok = @ /\ ok] BY <2>2 DEF RemoveHook
        <3>2. run.pc = "disabling" BY <2>2 DEF RemoveHook
        <3>3. run \in [pc : {"disabling"}, script : Scripts, ok : BOOLEAN, rest : SUBSET Scripts,
                       then : {"keep", "erase", "forget"}]
            BY <3>2 DEF CallInv, CallType
        <3>4. QED BY <3>1, <3>2, <3>3
    <2>3. QED BY <2>1, <2>2
<1>8. run.pc = "disabling" => run.script \in enabled BY DEF CallInv
<1>9. JumpsAnswered'
    <2>1. SUFFICES ASSUME NEW p \in patches', p.bytes \in Blocks
                   PROVE  \E s \in Scripts : /\ s \in enabled' \/ Caller(s)'
                                             /\ p.id \in ToSet(state'[s].patchIds)
                                             /\ CaveOf(s)' = p.bytes
        BY DEF JumpsAnswered
    <2>2. PICK s \in Scripts : /\ s \in enabled \/ Caller(s)
                               /\ p.id \in ToSet(state[s].patchIds)
                               /\ CaveOf(s) = p.bytes
        BY <1>6, <2>1 DEF CavesInv, JumpsAnswered
    <2>3. s \in enabled' \/ Caller(s)' BY <1>1, <1>7, <2>2 DEF Caller
    <2>4. p.id \in ToSet(state'[s].patchIds) BY <1>3, <1>4, <1>5, <1>6, <2>1, <2>2
    <2>5. CaveOf(s)' = CaveOf(s) BY <1>1, <1>5, <1>7, <1>8, <2>2 DEF CaveOf, Caller
    <2>6. QED BY <2>2, <2>3, <2>4, <2>5
<1>10. CavesTheirOwn'
    BY <1>1, <1>5, <1>7 DEF CavesInv, CavesTheirOwn, Building, CallInv
<1>11. Progress' BY <1>1, <1>7 DEF Progress
<1>12. IdsWhole'
    BY <1>1, <1>5, <1>7 DEF CavesInv, IdsWhole, Caller, CallInv
<1>13. QED BY <1>9, <1>10, <1>11, <1>12 DEF CavesInv

LEMMA CavesRolledBack ==
    ASSUME AutoAssemblerAssumption, CallInv, CavesInv, FinishRollBack
    PROVE  CavesInv'
<1>1. /\ run.pc = "rollingBack" /\ state[run.script].patchIds = <<>> /\ run' = NoCall
      /\ UNCHANGED <<patches, text, enabled, state>>
      /\ filled \ {run.block} \subseteq filled'
    BY DEF FinishRollBack, Free, lists
<1>2. /\ run.script \in Scripts
      /\ run.script \notin enabled /\ \A s \in enabled : state[s].block # run.block
    BY <1>1, CallKinds DEF CavesInv, CavesTheirOwn, Building
<1>3. run'.pc = "idle" BY <1>1 DEF NoCall
<1>4. JumpsAnswered'
    <2>1. ASSUME NEW p \in patches, p.bytes \in Blocks
          PROVE  \E s \in enabled : p.id \in ToSet(state[s].patchIds) /\ state[s].block = p.bytes
        <3>1. PICK s \in Scripts : /\ s \in enabled \/ Caller(s)
                                   /\ p.id \in ToSet(state[s].patchIds)
                                   /\ CaveOf(s) = p.bytes
            BY <2>1 DEF CavesInv, JumpsAnswered
        <3>2. s # run.script BY <1>1, <3>1, NoIds
        <3>3. QED BY <3>1, <3>2 DEF Caller, CaveOf
    <2>2. QED BY <1>1, <2>1 DEF JumpsAnswered, CaveOf, CallInv
<1>5. CavesTheirOwn' BY <1>1, <1>2, <1>3 DEF CavesInv, CavesTheirOwn, Building
<1>6. Progress' BY <1>3 DEF Progress
<1>7. IdsWhole' BY <1>1, <1>2, <1>3 DEF CavesInv, IdsWhole, Caller
<1>8. QED BY <1>4, <1>5, <1>6, <1>7 DEF CavesInv

LEMMA CavesOff ==
    ASSUME AutoAssemblerAssumption, CallInv, CavesInv, RunDisableSection
    PROVE  CavesInv'
<1>1. /\ run.pc = "disabling" /\ state[run.script].patchIds = <<>>
      /\ patches' = patches /\ enabled' = enabled \ {run.script}
    BY SectionRun
<1>2. run.script \in enabled /\ run.rest \subseteq enabled \ {run.script}
    BY <1>1 DEF CallInv
<1>3. PICK gone \in SUBSET {state[run.script].block} : filled' = filled \ gone BY SectionRun
<1>4. PICK F \in SUBSET Scripts :
        /\ F \cap (enabled \ {run.script}) = {}
        /\ text' = [u \in Scripts |-> IF u \in F THEN Nil ELSE text[u]]
        /\ state' = [u \in Scripts |-> IF u \in F \cup {run.script} THEN NothingDone
                                       ELSE state[u]]
    BY SectionRun
<1>5. \A u \in enabled' : text'[u] = text[u] /\ state'[u] = state[u]
    BY <1>1, <1>4 DEF CallInv
<1>6. \A u \in Scripts \ enabled' : state'[u].patchIds = <<>>
    <2>1. ASSUME NEW u \in Scripts \ enabled' PROVE state'[u].patchIds = <<>>
        <3>1. CASE u = run.script BY <1>4, <3>1, StatesTyped
        <3>2. CASE u # run.script
            <4>1. state[u].patchIds = <<>>
                BY <1>1, <2>1, <3>2 DEF CavesInv, IdsWhole, Caller
            <4>2. QED BY <1>4, <4>1, StatesTyped
        <3>3. QED BY <3>1, <3>2
    <2>2. QED BY <2>1
<1>7. \A s \in enabled' : state[s].block \in filled'
    BY <1>1, <1>2, <1>3 DEF CavesInv, CavesTheirOwn
<1>8. run'.pc = "idle" \/ (run'.pc = "disabling" /\ run'.script \in enabled')
    <2>1. CASE run' = NoCall BY <2>1 DEF NoCall
    <2>2. CASE \E u \in run.rest : run' = Disabling(u, TRUE, run.rest \ {u}, run.then)
        BY <1>1, <1>2, <2>2 DEF Disabling
    <2>3. QED BY <2>1, <2>2, SectionRun
<1>9. JumpsAnswered'
    <2>1. ASSUME NEW p \in patches, p.bytes \in Blocks
          PROVE  \E s \in enabled' : p.id \in ToSet(state[s].patchIds) /\ state[s].block = p.bytes
        <3>1. PICK s \in Scripts : /\ s \in enabled \/ Caller(s)
                                   /\ p.id \in ToSet(state[s].patchIds)
                                   /\ CaveOf(s) = p.bytes
            BY <2>1 DEF CavesInv, JumpsAnswered
        <3>2. s # run.script BY <1>1, <3>1, NoIds
        <3>3. QED BY <1>1, <3>1, <3>2 DEF Caller, CaveOf
    <2>2. QED BY <1>1, <1>5, <2>1 DEF JumpsAnswered, CaveOf, CallInv
<1>10. CavesTheirOwn'
    BY <1>1, <1>5, <1>7, <1>8 DEF CavesInv, CavesTheirOwn, Building
<1>11. Progress' BY <1>8 DEF Progress
<1>12. IdsWhole'
    BY <1>1, <1>5, <1>6, <1>8 DEF CavesInv, IdsWhole, Caller, CallInv
<1>13. QED BY <1>9, <1>10, <1>11, <1>12 DEF CavesInv

LEMMA CavesStep ==
    ASSUME AutoAssemblerAssumption, "write" \notin Faults, CodeInv, CallInv, CavesInv,
           [AssemblerNext]_assemblerVars
    PROVE  CavesInv'
<1>1. CASE UNCHANGED assemblerVars BY <1>1, CavesStand DEF assemblerVars, process, lists
<1>2. QED
    BY <1>1, CavesUser, CavesEdited, CavesStarts, CavesUndoes, CavesFilled, CavesHooked, CavesOn,
       CavesTakenOff, CavesRolledBack, CavesOff
       DEF AssemblerNext

--------------------------------------------------------------------------------
(* The theorems.                                                              *)

LEMMA CodeSafe == ASSUME AutoAssemblerAssumption PROVE AssemblerSpec => [](CodeInv /\ CallInv)
<1>1. AssemblerInit => CodeInv /\ CallInv BY InitWhole DEF WholeInv
<1>2. CodeInv /\ CallInv /\ [AssemblerNext]_assemblerVars => CodeInv' /\ CallInv'
    BY CodeStep, CallStep
<1>3. QED BY <1>1, <1>2, PTL DEF AssemblerSpec

LEMMA Typed == ASSUME CodeInv, CallInv PROVE TypeOK
<1>1. \A s \in Scripts : /\ ToSet(state[s].patchIds) \subseteq PatchIds
                         /\ state[s].block \in Blocks \cup {Nil}
    <2>1. SUFFICES ASSUME NEW s \in Scripts
                   PROVE  /\ ToSet(state[s].patchIds) \subseteq PatchIds
                          /\ state[s].block \in Blocks \cup {Nil}
        OBVIOUS
    <2>2. state[s].patchIds \in Seq(PatchIds) /\ state[s].block \in Blocks \cup {Nil}
        BY StatesTyped DEF CallInv
    <2>3. QED BY <2>2 DEF ToSet
<1>2. run.pc \in {"idle", "enabling", "rollingBack", "disabling"} BY CallKinds
<1>3. QED BY <1>1, <1>2 DEF CodeInv, CallInv, TypeOK, PatchType

(* The variables keep their types, whatever accesses fail: what is filled is  *)
(* allocated, and only a script of the list is on.                            *)
THEOREM ScriptsAlwaysTyped == ASSUME AutoAssemblerAssumption PROVE AssemblerSpec => []TypeOK
BY CodeSafe, Typed, PTL

(* No patch ever has a jump into a cave for its original bytes, whatever      *)
(* accesses fail: neither the user nor a script that is turned off can bring  *)
(* back a jump into memory that was freed (PatchRegistry::overlaps).          *)
THEOREM OriginalsNeverJump ==
    ASSUME AutoAssemblerAssumption PROVE AssemblerSpec => []NoJumpInOriginals
<1>1. CodeInv => NoJumpInOriginals BY DEF CodeInv
<1>2. QED BY <1>1, CodeSafe, PTL

LEMMA Whole ==
    ASSUME AutoAssemblerAssumption, WholeInv
    PROVE  ScriptsWhole
<1>1. TypeOK BY Typed DEF WholeInv
<1>2. PatchesOwned
    BY CallKinds DEF WholeInv, CavesInv, JumpsAnswered, PatchesOwned, Answers, Caller
<1>3. JumpLandsInCave
    <2>1. SUFFICES ASSUME NEW c \in Cells, code[c] \in Blocks
                   PROVE  code[c] \in live /\ (code[c] \in filled \/ StillToCome(code[c]))
        BY DEF JumpLandsInCave
    <2>2. PICK p \in patches : p.bytes = code[c]
        BY <2>1 DEF WholeInv, CodeInv, JumpsArePatches
    <2>3. PICK s \in Scripts : /\ s \in enabled \/ Caller(s)
                               /\ p.id \in ToSet(state[s].patchIds)
                               /\ CaveOf(s) = p.bytes
        BY <2>1, <2>2 DEF WholeInv, CavesInv, JumpsAnswered
    <2>a. filled \subseteq live BY DEF WholeInv, CallInv
    <2>4. CASE s \in enabled
        BY <2>2, <2>3, <2>4, <2>a DEF WholeInv, CavesInv, CavesTheirOwn, CaveOf
    <2>5. CASE s \notin enabled
        <3>1. Building /\ run.script = s
            BY <2>3, <2>5, CallKinds DEF WholeInv, CallInv, Building, Caller
        <3>2. state[s].patchIds # <<>> BY <2>3, NoIds
        <3>3. run.block = code[c] /\ run.block \in live
            BY <2>2, <2>3, <2>5, <3>1 DEF CaveOf, WholeInv, CallInv
        <3>4. run.block \in filled \/ ~CaveFirst(text[run.script])
            BY <3>1, <3>2 DEF WholeInv, CavesInv, CavesTheirOwn
        <3>5. QED BY <3>1, <3>3, <3>4 DEF StillToCome, Building
    <2>6. QED BY <2>4, <2>5
<1>4. EnabledComplete
    BY CallKinds, BetweenCalls DEF WholeInv, EnabledComplete
<1>5. QED BY <1>1, <1>2, <1>3, <1>4 DEF ScriptsWhole, WholeInv, CodeInv

(* Where no write fails, a jump in the target's code always lands in a cave   *)
(* that is not freed and, but for a script just being turned on whose text    *)
(* has a hook before its cave, is written; every patch of a script has        *)
(* someone who undoes it, and a script that is on is wholly on - for every    *)
(* number of scripts, places and blocks, and whatever order scripts write     *)
(* their blocks in (AutoAssembler::runEnable, runDisable, rollback).          *)
THEOREM ScriptsAlwaysWhole ==
    ASSUME AutoAssemblerAssumption, "write" \notin Faults
    PROVE  AssemblerSpec => []ScriptsWhole
<1>1. AssemblerInit => WholeInv BY InitWhole
<1>2. WholeInv /\ [AssemblerNext]_assemblerVars => WholeInv'
    BY CodeStep, CallStep, CavesStep DEF WholeInv
<1>3. WholeInv => ScriptsWhole BY Whole
<1>4. QED BY <1>1, <1>2, <1>3, PTL DEF AssemblerSpec

================================================================================
