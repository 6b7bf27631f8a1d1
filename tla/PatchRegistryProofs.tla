-------------------------- MODULE PatchRegistryProofs --------------------------
(* What holds of the patch registry for every set of threads, every set of    *)
(* ranges and every bound on the ids: the types of its variables, that no two *)
(* patches ever share a byte, that the target holds what the list says, and   *)
(* that the registry implements PatchList.                                    *)
EXTENDS PatchRegistry, TLAPS

(* A call of apply that holds a reservation, and one of setEnabled that is    *)
(* past its lookup.                                                           *)
Applying(c) == call[c].pc \in {"reserved", "captured", "written"}
Toggling(c) == call[c].pc \in {"lookedUp", "toggled"}

PatchType(p) ==
    /\ DOMAIN p = {"id", "at", "original", "enabled"}
    /\ p.id \in Ids /\ p.at \in Ranges /\ p.enabled \in BOOLEAN
    /\ p.original \in [p.at -> {0} \cup Ids]

CallType(c) ==
    /\ call[c].pc \in {"idle", "reserved", "captured", "written", "lookedUp",
                       "toggled", "erasing", "restoring"}
    /\ Applying(c) => call[c].res \in reserved
    /\ call[c].pc \in {"captured", "written"} =>
          call[c].original \in [call[c].res.at -> {0} \cup Ids]
    /\ Toggling(c) => /\ PatchType(call[c].patch)
                      /\ call[c].then.kind \in {"return", "erase", "restore"}

(* TypeOK with what a call carries from one of its steps to the next.         *)
Types ==
    /\ mem \in [Cells -> {0} \cup Ids]
    /\ \A p \in patches : PatchType(p)
    /\ reserved \subseteq [id : Ids, at : Ranges]
    /\ nextId \in 1 .. MaxId + 1
    /\ DOMAIN call = Callers
    /\ \A c \in Callers : CallType(c)

(* Every id given out is below nextId, and no two calls share a reservation:  *)
(* the one a call turns into a record, or drops, is its own.                  *)
IdsSpent ==
    /\ \A p \in patches : p.id < nextId
    /\ \A r \in reserved : r.id < nextId
    /\ \A c, d \in Callers : c # d /\ Applying(c) /\ Applying(d) => call[c].res # call[d].res

(* NoOverlap, by who holds the two ranges.                                    *)
Apart(p, q) == p.id # q.id /\ p.at \cap q.at = {}
RecordsApart == \A p, q \in patches : p # q => Apart(p, q)
ReservedApart == \A p, q \in reserved : p # q => Apart(p, q)
CrossApart == \A p \in patches, q \in reserved : Apart(p, q)

RegistryInv == Types /\ IdsSpent /\ RecordsApart /\ ReservedApart /\ CrossApart

(* The part of it that a change of the list has to answer for.                *)
RecordsGood ==
    /\ \A p \in patches : PatchType(p) /\ p.id < nextId
    /\ RecordsApart /\ CrossApart

--------------------------------------------------------------------------------
(* The initial state satisfies the invariant.                                 *)
LEMMA InitRegistry == Init => RegistryInv
BY PatchRegistryAssumption
DEF Init, RegistryInv, Types, IdsSpent, RecordsApart, ReservedApart, CrossApart, CallType,
    Applying, Toggling, Idle, Ids

(* The invariant gives what TypeOK and NoOverlap say.                         *)
LEMMA RegistryInvGives == RegistryInv => TypeOK /\ NoOverlap
<1> SUFFICES ASSUME RegistryInv PROVE TypeOK /\ NoOverlap
    OBVIOUS
<1>1. TypeOK
      BY DEF RegistryInv, Types, TypeOK, PatchType, CallType
<1>2. NoOverlap
      BY DEF RegistryInv, NoOverlap, RecordsApart, ReservedApart, CrossApart, Apart
<1> QED BY <1>1, <1>2

--------------------------------------------------------------------------------
(* A list that stays, loses records, or has one updated, is as good as before. *)
LEMMA FewerRecords ==
    ASSUME RegistryInv, UNCHANGED <<reserved, nextId>>, patches' \subseteq patches
    PROVE  RecordsGood'
BY DEF RegistryInv, RecordsGood, Types, PatchType, IdsSpent, RecordsApart, CrossApart, Apart

LEMMA UpdatedRecords ==
    ASSUME RegistryInv, NEW p, NEW on \in BOOLEAN, Update(p, on), UNCHANGED <<reserved, nextId>>
    PROVE  RecordsGood'
<1> DEFINE Of(q) == IF q.id = p.id THEN [q EXCEPT !.enabled = on] ELSE q
<1>1. ASSUME NEW q \in patches
      PROVE  PatchType(Of(q)) /\ Of(q).id = q.id /\ Of(q).at = q.at
  <2>1. PatchType(q)
        BY DEF RegistryInv, Types
  <2> QED BY <2>1 DEF PatchType
<1>2. patches' = {Of(q) : q \in patches}
      BY DEF Update
<1> HIDE DEF Of
<1>3. ASSUME NEW r \in patches' PROVE (PatchType(r) /\ r.id < nextId)'
      BY <1>1, <1>2 DEF RegistryInv, IdsSpent, PatchType
<1>4. ASSUME NEW r \in patches', NEW s \in patches', r # s PROVE Apart(r, s)
      BY <1>1, <1>2, <1>4 DEF RegistryInv, RecordsApart, Apart
<1>5. ASSUME NEW r \in patches', NEW s \in reserved' PROVE Apart(r, s)
      BY <1>1, <1>2 DEF RegistryInv, CrossApart, Apart
<1> QED BY <1>3, <1>4, <1>5 DEF RecordsGood, RecordsApart, CrossApart, Apart

(* A step that moves a call on without giving it a reservation.               *)
LEMMA CallMoves ==
    ASSUME RegistryInv, NEW c \in Callers, NEW next, Goto(c, next),
           UNCHANGED <<mem, reserved, nextId>>, RecordsGood',
           next.pc \in {"idle", "lookedUp", "erasing", "restoring"},
           next.pc = "lookedUp" => /\ PatchType(next.patch)
                                   /\ next.then.kind \in {"return", "erase", "restore"}
    PROVE  RegistryInv'
<1> USE DEF RegistryInv, Goto
<1>1. call'[c] = next /\ \A d \in Callers \ {c} : call'[d] = call[d]
      BY DEF Types
<1>2. Types'
      BY <1>1 DEF Types, CallType, Applying, Toggling, PatchType, RecordsGood
<1>3. IdsSpent'
      BY <1>1 DEF IdsSpent, Applying, RecordsGood
<1> QED BY <1>2, <1>3 DEF RecordsGood, RecordsApart, ReservedApart, CrossApart, Apart

(* What follows setEnabled, and setEnabled as far as its write.               *)
LEMMA AfterMoves ==
    ASSUME RegistryInv, NEW c \in Callers, NEW id, NEW then, After(c, id, then),
           then.kind \in {"return", "erase", "restore"},
           UNCHANGED <<mem, reserved, nextId>>, RecordsGood'
    PROVE  RegistryInv'
<1> DEFINE next == CASE then.kind = "return" -> Idle
                     [] then.kind = "erase" -> Erasing(id)
                     [] then.kind = "restore" -> Restoring(then.ids)
<1>1. Goto(c, next) /\ next.pc \in {"idle", "erasing", "restoring"}
      BY DEF After, Idle, Erasing, Restoring, Goto
<1> QED BY <1>1, CallMoves

LEMMA FailureMoves ==
    ASSUME RegistryInv, NEW c \in Callers, NEW then, AfterFailure(c, then),
           UNCHANGED <<mem, reserved, nextId>>, RecordsGood'
    PROVE  RegistryInv'
<1> DEFINE next == IF then.kind = "restore" THEN Restoring(then.ids) ELSE Idle
<1>1. Goto(c, next) /\ next.pc \in {"idle", "restoring"}
      BY DEF AfterFailure, Idle, Restoring
<1> QED BY <1>1, CallMoves

LEMMA LookUpMoves ==
    ASSUME RegistryInv, NEW c \in Callers, NEW p \in patches, NEW on, NEW then,
           LookUp(c, p, on, then), then.kind \in {"return", "erase", "restore"},
           UNCHANGED <<mem, reserved, nextId>>, RecordsGood'
    PROVE  RegistryInv'
<1>1. CASE p.enabled = on
      BY <1>1, AfterMoves DEF LookUp
<1>2. CASE p.enabled # on
  <2> DEFINE next == LookedUp(p, then)
  <2>1. Goto(c, next) /\ next.pc = "lookedUp" /\ next.patch = p /\ next.then = then
        BY <1>2 DEF LookUp, LookedUp
  <2>2. PatchType(p)
        BY DEF RegistryInv, Types
  <2> QED BY <2>1, <2>2, CallMoves
<1> QED BY <1>1, <1>2

--------------------------------------------------------------------------------
(* The steps of apply.                                                        *)

LEMMA ReserveKeeps ==
    ASSUME RegistryInv, NEW c \in Callers, NEW range \in Ranges, Reserve(c, range)
    PROVE  RegistryInv'
<1> DEFINE res == [id |-> nextId, at |-> range]
<1>1. /\ reserved' = reserved \cup {res} /\ nextId' = nextId + 1
      /\ mem' = mem /\ patches' = patches /\ nextId \in Ids
      /\ call'[c] = Reserved(res) /\ \A d \in Callers \ {c} : call'[d] = call[d]
      /\ DOMAIN call' = Callers
      BY PatchRegistryAssumption DEF Reserve, Goto, RegistryInv, Types, Ids
<1>2. Types'
  <2>1. nextId' \in 1 .. MaxId + 1
        BY <1>1, PatchRegistryAssumption DEF RegistryInv, Types, Ids
  <2>2. reserved' \subseteq [id : Ids, at : Ranges]
        BY <1>1 DEF RegistryInv, Types
  <2>3. ASSUME NEW d \in Callers PROVE CallType(d)'
        BY <1>1 DEF RegistryInv, Types, CallType, Applying, Toggling, PatchType, Reserved
  <2> QED BY <1>1, <2>1, <2>2, <2>3 DEF RegistryInv, Types, PatchType
<1>3. IdsSpent'
  <2>1. \A r \in reserved' : r.id < nextId'
        BY <1>1, PatchRegistryAssumption DEF RegistryInv, Types, IdsSpent, Ids
  <2>2. \A p \in patches' : p.id < nextId'
        BY <1>1, PatchRegistryAssumption DEF RegistryInv, Types, IdsSpent, Ids, PatchType
  <2>3. \A d \in Callers : Applying(d) /\ d # c => call[d].res \in reserved /\ call[d].res # res
        BY <1>1 DEF RegistryInv, Types, IdsSpent, CallType, Ids
  <2>4. ASSUME NEW d \in Callers, NEW e \in Callers, d # e, Applying(d)', Applying(e)'
        PROVE  (call[d].res # call[e].res)'
        BY <1>1, <2>3, <2>4 DEF RegistryInv, IdsSpent, Applying, Reserved
  <2> QED BY <2>1, <2>2, <2>4 DEF IdsSpent
<1>4. \A q \in patches \cup reserved : Apart(q, res) /\ Apart(res, q)
  <2>1. \A q \in patches \cup reserved : q.id # nextId
        BY <1>1 DEF RegistryInv, Types, IdsSpent, Ids, PatchType
  <2>2. \A q \in patches \cup reserved : q.at \cap range = {}
        BY DEF Reserve, Overlaps
  <2> QED BY <2>1, <2>2 DEF Apart
<1>5. RecordsApart' /\ ReservedApart' /\ CrossApart'
      BY <1>1, <1>4 DEF RegistryInv, RecordsApart, ReservedApart, CrossApart, Apart
<1> QED BY <1>2, <1>3, <1>5 DEF RegistryInv

(* A reservation given back is nobody else's.                                 *)
LEMMA AbandonKeeps ==
    ASSUME RegistryInv, NEW c \in Callers, AbandonApply(c)
    PROVE  RegistryInv'
<1>1. /\ reserved' = reserved \ {call[c].res} /\ Applying(c)
      /\ UNCHANGED <<mem, patches, nextId>>
      /\ call'[c] = Idle /\ \A d \in Callers \ {c} : call'[d] = call[d]
      /\ DOMAIN call' = Callers
      BY DEF AbandonApply, Goto, RegistryInv, Types, Applying
<1>2. ASSUME NEW d \in Callers PROVE CallType(d)'
      BY <1>1 DEF RegistryInv, Types, IdsSpent, CallType, Applying, Toggling, PatchType, Idle
<1>3. Types'
      BY <1>1, <1>2 DEF RegistryInv, Types, PatchType
<1>4. IdsSpent'
      BY <1>1 DEF RegistryInv, IdsSpent, Applying, Idle
<1>5. RecordsApart' /\ ReservedApart' /\ CrossApart'
      BY <1>1 DEF RegistryInv, RecordsApart, ReservedApart, CrossApart, Apart
<1> QED BY <1>3, <1>4, <1>5 DEF RegistryInv

(* Between the reservation and the record a call reads and writes the target; *)
(* the lists stay as they are.                                                *)
LEMMA ReadKeeps ==
    ASSUME RegistryInv, NEW c \in Callers, ReadOriginal(c)
    PROVE  RegistryInv'
<1>1. /\ UNCHANGED <<mem, patches, reserved, nextId>> /\ call[c].pc = "reserved"
      /\ call'[c] = Captured(call[c].res, ReadBytes(call[c].res.at))
      /\ \A d \in Callers \ {c} : call'[d] = call[d]
      /\ DOMAIN call' = Callers
      BY DEF ReadOriginal, Goto, RegistryInv, Types
<1>2. call[c].res \in reserved /\ call[c].res.at \subseteq Cells
      BY <1>1, PatchRegistryAssumption DEF RegistryInv, Types, CallType, Applying
<1>3. ReadBytes(call[c].res.at) \in [call[c].res.at -> {0} \cup Ids]
      BY <1>2 DEF ReadBytes, RegistryInv, Types
<1>4. ASSUME NEW d \in Callers PROVE CallType(d)'
      BY <1>1, <1>2, <1>3 DEF RegistryInv, Types, CallType, Applying, Toggling, PatchType, Captured
<1>5. Types'
      BY <1>1, <1>4 DEF RegistryInv, Types, PatchType
<1>6. IdsSpent'
      BY <1>1 DEF RegistryInv, IdsSpent, Applying, Captured
<1> QED BY <1>1, <1>5, <1>6 DEF RegistryInv, RecordsApart, ReservedApart, CrossApart, Apart

LEMMA WriteKeeps ==
    ASSUME RegistryInv, NEW c \in Callers, WritePatch(c)
    PROVE  RegistryInv'
<1>1. /\ UNCHANGED <<patches, reserved, nextId>> /\ call[c].pc = "captured"
      /\ call'[c] = Written(call[c].res, call[c].original)
      /\ \A d \in Callers \ {c} : call'[d] = call[d]
      /\ DOMAIN call' = Callers
      BY DEF WritePatch, Goto, RegistryInv, Types
<1>2. call[c].res \in reserved /\ call[c].res.id \in Ids
      BY <1>1 DEF RegistryInv, Types, CallType, Applying
<1>3. mem' \in [Cells -> {0} \cup Ids]
      BY <1>2 DEF WritePatch, RegistryInv, Types
<1>4. ASSUME NEW d \in Callers PROVE CallType(d)'
      BY <1>1, <1>2 DEF RegistryInv, Types, CallType, Applying, Toggling, PatchType, Written
<1>5. Types'
      BY <1>1, <1>3, <1>4 DEF RegistryInv, Types, PatchType
<1>6. IdsSpent'
      BY <1>1 DEF RegistryInv, IdsSpent, Applying, Written
<1> QED BY <1>1, <1>5, <1>6 DEF RegistryInv, RecordsApart, ReservedApart, CrossApart, Apart

(* The reservation becomes the record, with its id and its range.             *)
LEMMA RecordKeeps ==
    ASSUME RegistryInv, NEW c \in Callers, RecordPatch(c)
    PROVE  RegistryInv'
<1> DEFINE res == call[c].res
           new == Patch(res.id, res.at, call[c].original, TRUE)
<1>1. /\ reserved' = reserved \ {res} /\ patches' = patches \cup {new}
      /\ UNCHANGED <<mem, nextId>> /\ call[c].pc = "written"
      /\ call'[c] = Idle /\ \A d \in Callers \ {c} : call'[d] = call[d]
      /\ DOMAIN call' = Callers
      BY DEF RecordPatch, Record, Goto, RegistryInv, Types
<1>2. res \in reserved /\ call[c].original \in [res.at -> {0} \cup Ids]
      BY <1>1 DEF RegistryInv, Types, CallType, Applying
<1>3. PatchType(new) /\ new.id = res.id /\ new.at = res.at
      BY <1>2 DEF RegistryInv, Types, PatchType, Patch
<1>4. ASSUME NEW d \in Callers PROVE CallType(d)'
      BY <1>1 DEF RegistryInv, Types, IdsSpent, CallType, Applying, Toggling, PatchType, Idle
<1>5. Types'
      BY <1>1, <1>3, <1>4 DEF RegistryInv, Types, PatchType
<1>6. IdsSpent'
  <2>1. new.id < nextId
        BY <1>2, <1>3 DEF RegistryInv, IdsSpent
  <2>2. \A d \in Callers : Applying(d)' => d # c /\ Applying(d) /\ call'[d] = call[d]
        BY <1>1 DEF Applying, Idle
  <2> HIDE DEF res, new
  <2> QED BY <1>1, <2>1, <2>2 DEF RegistryInv, IdsSpent
<1>7. /\ \A p \in patches : Apart(p, new) /\ Apart(new, p)
      /\ \A q \in reserved \ {res} : Apart(new, q)
      BY <1>2, <1>3 DEF RegistryInv, CrossApart, ReservedApart, Apart
<1>8. RecordsApart' /\ ReservedApart' /\ CrossApart'
      BY <1>1, <1>7 DEF RegistryInv, RecordsApart, ReservedApart, CrossApart, Apart
<1> QED BY <1>5, <1>6, <1>8 DEF RegistryInv

--------------------------------------------------------------------------------
(* The steps of setEnabled and what is built on it.                           *)

(* The bytes of one patch go in or come out.                                  *)
LEMMA WriteToggleKeeps ==
    ASSUME RegistryInv, NEW c \in Callers, WriteToggle(c)
    PROVE  RegistryInv'
<1>1. /\ UNCHANGED <<patches, reserved, nextId>> /\ call[c].pc = "lookedUp"
      /\ call'[c] = Toggled(call[c].patch, call[c].then)
      /\ \A d \in Callers \ {c} : call'[d] = call[d]
      /\ DOMAIN call' = Callers
      BY DEF WriteToggle, Goto, RegistryInv, Types
<1>2. PatchType(call[c].patch)
      BY <1>1 DEF RegistryInv, Types, CallType, Toggling
<1>3. mem' \in [Cells -> {0} \cup Ids]
      BY <1>2 DEF WriteToggle, BytesWritten, RegistryInv, Types, PatchType
<1>4. ASSUME NEW d \in Callers PROVE CallType(d)'
      BY <1>1 DEF RegistryInv, Types, CallType, Applying, Toggling, PatchType, Toggled
<1>5. Types'
      BY <1>1, <1>3, <1>4 DEF RegistryInv, Types, PatchType
<1>6. IdsSpent'
      BY <1>1 DEF RegistryInv, IdsSpent, Applying, Toggled
<1> QED BY <1>1, <1>5, <1>6 DEF RegistryInv, RecordsApart, ReservedApart, CrossApart, Apart

LEMMA RestoreNextKeeps ==
    ASSUME RegistryInv, NEW c \in Callers, RestoreNext(c), RecordsGood'
    PROVE  RegistryInv'
<1> DEFINE id == CHOOSE i \in call[c].ids : \A j \in call[c].ids : i <= j
           then == ThenRestore(call[c].ids \ {id})
           found == {p \in patches : p.id = id}
<1>1. UNCHANGED <<mem, reserved, nextId>> /\ then.kind = "restore"
      BY DEF RestoreNext, ThenRestore
<1>2. CASE call[c].ids = {}
      BY <1>1, <1>2, CallMoves DEF RestoreNext, Idle
<1>3. CASE call[c].ids # {} /\ found = {}
  <2>1. AfterFailure(c, then)
        BY <1>3 DEF RestoreNext
  <2> QED BY <1>1, <2>1, FailureMoves
<1>4. CASE call[c].ids # {} /\ found # {}
  <2> DEFINE p == CHOOSE q \in found : TRUE
  <2>1. LookUp(c, p, FALSE, then) /\ p \in patches
        BY <1>4 DEF RestoreNext
  <2> HIDE DEF p, then
  <2> QED BY <1>1, <2>1, LookUpMoves
<1> QED BY <1>2, <1>3, <1>4

(* Every step of every call keeps the invariant.                              *)
LEMMA NextRegistry == RegistryInv /\ [Next]_vars => RegistryInv'
<1> SUFFICES ASSUME RegistryInv, [Next]_vars PROVE RegistryInv'
    OBVIOUS
<1>1. CASE UNCHANGED vars
      BY <1>1 DEF vars, RegistryInv, Types, CallType, Applying, Toggling, PatchType, IdsSpent,
                  RecordsApart, ReservedApart, CrossApart, Apart
<1>2. ASSUME NEW c \in Callers, ApplyStep(c) PROVE RegistryInv'
      BY <1>2, ReserveKeeps, ReadKeeps, WriteKeeps, RecordKeeps, AbandonKeeps DEF ApplyStep
<1>3. ASSUME NEW c \in Callers, ToggleStep(c) PROVE RegistryInv'
  <2>1. ASSUME UNCHANGED <<patches, reserved, nextId>> PROVE RecordsGood'
        BY <2>1, FewerRecords
  <2>2. CASE \E p \in patches : RemovePatch(c, p)
        BY <2>1, <2>2, LookUpMoves DEF RemovePatch, ThenErase
  <2>3. CASE \E p \in patches, on \in BOOLEAN : SetEnabled(c, p, on)
        BY <2>1, <2>3, LookUpMoves DEF SetEnabled, Return
  <2>4. CASE RestoreAll(c)
        BY <2>1, <2>4, CallMoves DEF RestoreAll, Restoring
  <2>5. CASE RestoreNext(c)
        BY <2>1, <2>5, RestoreNextKeeps DEF RestoreNext
  <2>6. CASE WriteToggle(c)
        BY <2>6, WriteToggleKeeps
  <2>7. CASE AbandonToggle(c)
        BY <2>1, <2>7, FailureMoves DEF AbandonToggle
  <2>8. CASE RecordToggle(c)
    <3>1. /\ PatchType(call[c].patch)
          /\ call[c].then.kind \in {"return", "erase", "restore"}
          BY <2>8 DEF RecordToggle, RegistryInv, Types, CallType, Toggling
    <3>2. (~call[c].patch.enabled) \in BOOLEAN
          BY <3>1 DEF PatchType
    <3>3. RecordsGood'
          BY <2>8, <3>2, UpdatedRecords DEF RecordToggle
    <3> QED BY <2>8, <3>1, <3>3, AfterMoves DEF RecordToggle
  <2>9. CASE ErasePatch(c)
    <3>1. RecordsGood'
          BY <2>9, FewerRecords DEF ErasePatch
    <3> QED BY <2>9, <3>1, CallMoves DEF ErasePatch, Idle
  <2>10. CASE ForgetAll(c)
    <3>1. RecordsGood'
          BY <2>10, FewerRecords DEF ForgetAll
    <3>2. Types'
          BY <2>10, <3>1 DEF ForgetAll, RegistryInv, RecordsGood, Types, CallType, Applying,
                             Toggling, PatchType
    <3>3. IdsSpent' /\ ReservedApart'
          BY <2>10, <3>1 DEF ForgetAll, RegistryInv, RecordsGood, IdsSpent, ReservedApart,
                             Applying, Apart
    <3> QED BY <3>1, <3>2, <3>3 DEF RegistryInv, RecordsGood
  <2> QED BY <1>3, <2>2, <2>3, <2>4, <2>5, <2>6, <2>7, <2>8, <2>9, <2>10 DEF ToggleStep
<1> QED BY <1>1, <1>2, <1>3 DEF Next

(* TypeOK, of any number of threads, ranges and ids, faulty accesses or not.  *)
THEOREM RegistryTypeCorrect == Spec => []TypeOK
BY InitRegistry, NextRegistry, RegistryInvGives, PTL DEF Spec

(* The reservation that apply takes under the lock is enough: no interleaving *)
(* of applies, toggles, removals and failures lets two patches share a byte,  *)
(* so none takes another's bytes for the original.                            *)
THEOREM PatchesNeverOverlap == Spec => []NoOverlap
BY InitRegistry, NextRegistry, RegistryInvGives, PTL DEF Spec

--------------------------------------------------------------------------------
(* One thread toggles, removes and forgets, as in the application: then the   *)
(* target is the list at every moment.                                        *)

OneToggler == \A c, d \in Togglers : c = d

(* A call past its lookup has the record as it is in the list; one that will  *)
(* erase a patch has switched it off.                                         *)
CallsCurrent ==
    \A c \in Callers :
        /\ call[c].pc \in {"lookedUp", "toggled", "erasing", "restoring"} => c \in Togglers
        /\ Toggling(c) => /\ call[c].patch \in patches
                          /\ call[c].then.kind = "erase" => call[c].patch.enabled
        /\ call[c].pc = "erasing" => \E p \in patches : p.id = call[c].id /\ ~p.enabled

(* What is in the target under each record and each apply under way.          *)
RecordsInTarget ==
    \A p \in patches : \A x \in p.at : mem[x] = IF Now(p) THEN p.id ELSE p.original[x]
AppliesInTarget ==
    \A c \in Callers :
        /\ call[c].pc = "captured" => \A x \in call[c].res.at : mem[x] = call[c].original[x]
        /\ call[c].pc = "written" => \A x \in call[c].res.at : mem[x] = call[c].res.id

ListInv == RegistryInv /\ CallsCurrent /\ RecordsInTarget /\ AppliesInTarget

LEMMA InitList == Init => ListInv
<1> SUFFICES ASSUME Init PROVE ListInv
    OBVIOUS
<1>1. RegistryInv
      BY InitRegistry
<1>2. CallsCurrent /\ RecordsInTarget /\ AppliesInTarget
      BY DEF Init, CallsCurrent, RecordsInTarget, AppliesInTarget, Toggling, Idle
<1> QED BY <1>1, <1>2 DEF ListInv

(* A patch nobody is busy with is as its record says.                         *)
LEMMA ListInvGives == ListInv => TargetMatchesList
<1> SUFFICES ASSUME ListInv, NEW p \in patches, p.id \notin Busy
             PROVE  Now(p) = p.enabled
    BY DEF ListInv, RecordsInTarget, TargetMatchesList
<1> QED BY DEF Busy, Now

--------------------------------------------------------------------------------
(* The list and the program behind the target                                 *)

(* What was captured under one cell was captured once.                        *)
LEMMA OriginalsApart ==
    RegistryInv => \A a, b \in Originals : a.at \cap b.at # {} => a = b
<1> SUFFICES ASSUME RegistryInv, NEW a \in Originals, NEW b \in Originals, a.at \cap b.at # {}
             PROVE  a = b
    OBVIOUS
<1> DEFINE OfPatch(p) == [at |-> p.at, original |-> p.original]
           OfCall(c) == [at |-> call[c].res.at, original |-> call[c].original]
<1>1. \A o \in Originals : \/ \E p \in patches : o = OfPatch(p)
                           \/ \E c \in Callers : call[c].pc = "written" /\ o = OfCall(c)
      BY DEF Originals, BytesOut
<1>2. ASSUME NEW p \in patches, NEW q \in patches, p.at \cap q.at # {} PROVE p = q
      BY <1>2 DEF RegistryInv, RecordsApart, Apart
<1>3. ASSUME NEW p \in patches, NEW c \in Callers, call[c].pc = "written"
      PROVE  p.at \cap call[c].res.at = {} /\ call[c].res.at \cap p.at = {}
      BY <1>3 DEF RegistryInv, CrossApart, Apart, Types, CallType, Applying
<1>4. ASSUME NEW c \in Callers, NEW d \in Callers, call[c].pc = "written", call[d].pc = "written",
             call[c].res.at \cap call[d].res.at # {}
      PROVE  c = d
      BY <1>4 DEF RegistryInv, ReservedApart, IdsSpent, Apart, Types, CallType, Applying
<1>5. CASE \E p \in patches : a = OfPatch(p)
      BY <1>1, <1>2, <1>3, <1>5
<1>6. CASE \E c \in Callers : call[c].pc = "written" /\ a = OfCall(c)
      BY <1>1, <1>3, <1>4, <1>6
<1> QED BY <1>1, <1>5, <1>6

(* The program: what was captured where something was, what is there where    *)
(* nothing was.                                                               *)
ProgramKnown ==
    /\ \A p \in patches : \A x \in p.at : Program[x] = p.original[x]
    /\ \A c \in Callers : call[c].pc = "written" =>
         \A x \in call[c].res.at : Program[x] = call[c].original[x]
    /\ \A x \in Cells :
         /\ \A p \in patches : x \notin p.at
         /\ \A c \in Callers : call[c].pc = "written" => x \notin call[c].res.at
         => Program[x] = mem[x]

LEMMA ProgramIsKnown == RegistryInv => ProgramKnown
<1> SUFFICES ASSUME RegistryInv PROVE ProgramKnown
    OBVIOUS
<1>1. ASSUME NEW o \in Originals, NEW x \in o.at, x \in Cells PROVE Program[x] = o.original[x]
  <2>1. \A a \in Originals : x \in a.at => a = o
        BY <1>1, OriginalsApart
  <2>2. (CHOOSE a \in Originals : x \in a.at) = o
        BY <1>1, <2>1
  <2> QED BY <1>1, <2>2 DEF Program
<1>2. ASSUME NEW p \in patches, NEW x \in p.at PROVE Program[x] = p.original[x]
  <2>1. [at |-> p.at, original |-> p.original] \in Originals
        BY DEF Originals
  <2>2. x \in Cells
        BY PatchRegistryAssumption DEF RegistryInv, Types, PatchType
  <2> QED BY <1>1, <2>1, <2>2
<1>3. ASSUME NEW c \in Callers, call[c].pc = "written", NEW x \in call[c].res.at
      PROVE  Program[x] = call[c].original[x]
  <2>1. [at |-> call[c].res.at, original |-> call[c].original] \in Originals
        BY <1>3 DEF Originals, BytesOut
  <2>2. x \in Cells
        BY <1>3, PatchRegistryAssumption DEF RegistryInv, Types, CallType, Applying
  <2> QED BY <1>1, <2>1, <2>2
<1>4. ASSUME NEW x \in Cells, \A p \in patches : x \notin p.at,
             \A c \in Callers : call[c].pc = "written" => x \notin call[c].res.at
      PROVE  Program[x] = mem[x]
  <2>1. \A o \in Originals : x \notin o.at
        BY <1>4 DEF Originals, BytesOut
  <2> QED BY <2>1 DEF Program
<1> QED BY <1>2, <1>3, <1>4 DEF ProgramKnown

(* Every cell has the bytes of the one patch that is on there, or else the    *)
(* program's.                                                                 *)
LEMMA TargetIsTheCode == ListInv => TargetIsCode
<1> SUFFICES ASSUME ListInv, NEW x \in Cells
             PROVE  mem[x] = IF \E r \in Abstract!Covering(x) : r.enabled
                             THEN (CHOOSE r \in Abstract!Covering(x) : r.enabled).id
                             ELSE Program[x]
    BY DEF TargetIsCode, Abstract!Code, ListInv, RegistryInv, Types
<1> DEFINE Covering == Abstract!Covering(x)
<1>1. Covering = {r \in Records : x \in r.at}
      BY DEF Abstract!Covering
<1>2. ProgramKnown
      BY ProgramIsKnown DEF ListInv
<1>3. ASSUME NEW r \in Covering, NEW s \in Covering PROVE r = s
  <2>1. ASSUME NEW p \in patches, NEW q \in patches, p.at \cap q.at # {} PROVE p = q
        BY <2>1 DEF ListInv, RegistryInv, RecordsApart, Apart
  <2>2. ASSUME NEW p \in patches, NEW c \in Callers, call[c].pc = "written"
        PROVE  p.at \cap call[c].res.at = {}
        BY <2>2 DEF ListInv, RegistryInv, CrossApart, Apart, Types, CallType, Applying
  <2>3. ASSUME NEW c \in Callers, NEW d \in Callers, call[c].pc = "written", call[d].pc = "written",
               call[c].res.at \cap call[d].res.at # {}
        PROVE  c = d
        BY <2>3 DEF ListInv, RegistryInv, ReservedApart, IdsSpent, Apart, Types, CallType, Applying
  <2>4. \A t \in Covering : \/ \E p \in patches : t = Listed(p) /\ x \in p.at
                            \/ \E c \in Callers : call[c].pc = "written" /\ t = Applied(call[c])
                                                  /\ x \in call[c].res.at
        BY <1>1 DEF Records, Listed, Applied, BytesOut
  <2> HIDE DEF Covering
  <2>5. CASE \E p \in patches : r = Listed(p) /\ x \in p.at
        BY <2>1, <2>2, <2>4, <2>5
  <2>6. CASE \E c \in Callers : call[c].pc = "written" /\ r = Applied(call[c]) /\ x \in call[c].res.at
        BY <2>2, <2>3, <2>4, <2>6
  <2> QED BY <2>4, <2>5, <2>6
<1>4. ASSUME NEW p \in patches, x \in p.at
      PROVE  Listed(p) \in Covering /\ mem[x] = IF Now(p) THEN p.id ELSE Program[x]
      BY <1>1, <1>2, <1>4 DEF ListInv, RecordsInTarget, ProgramKnown, Records, Listed
<1>5. ASSUME NEW c \in Callers, call[c].pc = "written", x \in call[c].res.at
      PROVE  Applied(call[c]) \in Covering /\ mem[x] = call[c].res.id
      BY <1>1, <1>5 DEF ListInv, AppliesInTarget, Records, BytesOut, Applied
<1> HIDE DEF Covering
<1>6. CASE \E p \in patches : x \in p.at
  <2>1. PICK p \in patches : x \in p.at
        BY <1>6
  <2>2. \A r \in Covering : r = Listed(p)
        BY <1>3, <1>4, <2>1
  <2>3. Listed(p).enabled = Now(p) /\ Listed(p).id = p.id
        BY DEF Listed
  <2>4. CASE Now(p)
    <3>1. (CHOOSE r \in Covering : r.enabled) = Listed(p)
          BY <1>4, <2>1, <2>2, <2>3, <2>4
    <3> QED BY <1>4, <2>1, <2>3, <2>4, <3>1 DEF Covering
  <2>5. CASE ~Now(p)
        BY <1>4, <2>1, <2>2, <2>3, <2>5 DEF Covering
  <2> QED BY <2>4, <2>5
<1>7. CASE \E c \in Callers : call[c].pc = "written" /\ x \in call[c].res.at
  <2>1. PICK c \in Callers : call[c].pc = "written" /\ x \in call[c].res.at
        BY <1>7
  <2>2. Applied(call[c]).enabled /\ Applied(call[c]).id = call[c].res.id
        BY DEF Applied
  <2>3. (CHOOSE r \in Covering : r.enabled) = Applied(call[c])
        BY <1>3, <1>5, <2>1, <2>2
  <2> QED BY <1>5, <2>1, <2>2, <2>3 DEF Covering
<1>8. CASE /\ \A p \in patches : x \notin p.at
           /\ \A c \in Callers : call[c].pc = "written" => x \notin call[c].res.at
  <2>1. Covering = {}
        BY <1>1, <1>8 DEF Records, Listed, Applied, BytesOut
  <2> QED BY <1>2, <1>8, <2>1 DEF ProgramKnown, Covering
<1> QED BY <1>6, <1>7, <1>8

--------------------------------------------------------------------------------
(* Steps the list does not see                                                *)

(* Same records, same applies, same toggles, same target: the same list.      *)
LEMMA SameList ==
    ASSUME UNCHANGED <<mem, patches>>, BytesOut' = BytesOut,
           \A p \in patches : Now(p)' = Now(p)
    PROVE  Program' = Program /\ Records' = Records
BY DEF Program, Originals, Records, Listed, Applied

(* A call goes from one place to another, neither with bytes in the target    *)
(* that the list has not got.                                                 *)
LEMMA QuietMoves ==
    ASSUME ListInv, RegistryInv', NEW c \in Callers, NEW next, Goto(c, next), UNCHANGED <<mem, patches>>,
           ~ call[c].pc \in {"written", "toggled"}, ~ next.pc \in {"written", "toggled"},
           next.pc = "captured" => \A x \in next.res.at : mem[x] = next.original[x],
           next.pc \in {"lookedUp", "erasing", "restoring"} => c \in Togglers,
           next.pc = "lookedUp" => /\ next.patch \in patches
                                   /\ next.then.kind = "erase" => next.patch.enabled,
           next.pc = "erasing" => \E p \in patches : p.id = next.id /\ ~p.enabled
    PROVE  ListInv' /\ Program' = Program /\ Records' = Records
<1>1. call'[c] = next /\ \A d \in Callers \ {c} : call'[d] = call[d]
      BY DEF ListInv, RegistryInv, Types, Goto
<1>2. BytesOut' = BytesOut
      BY <1>1 DEF BytesOut
<1>3. \A p \in patches : Now(p)' = Now(p)
      BY <1>1 DEF Now
<1>4. CallsCurrent'
      BY <1>1 DEF ListInv, CallsCurrent, Toggling
<1>5. RecordsInTarget'
      BY <1>3 DEF ListInv, RecordsInTarget
<1>6. AppliesInTarget'
      BY <1>1 DEF ListInv, AppliesInTarget
<1> QED BY <1>2, <1>3, <1>4, <1>5, <1>6, SameList DEF ListInv

LEMMA LookUpQuiet ==
    ASSUME ListInv, RegistryInv', NEW c \in Callers, NEW p \in patches, NEW on \in BOOLEAN, NEW then,
           LookUp(c, p, on, then), then.kind \in {"return", "erase", "restore"},
           then.kind = "erase" => on = FALSE, call[c].pc \in {"idle", "restoring"}, c \in Togglers,
           UNCHANGED <<mem, patches>>
    PROVE  ListInv' /\ Program' = Program /\ Records' = Records
<1>1. p.enabled \in BOOLEAN /\ \A q \in patches : q.id = p.id => q = p
      BY DEF ListInv, RegistryInv, Types, PatchType, RecordsApart, Apart
<1>2. CASE p.enabled = on
  <2> DEFINE next == CASE then.kind = "return" -> Idle
                       [] then.kind = "erase" -> Erasing(p.id)
                       [] then.kind = "restore" -> Restoring(then.ids)
  <2>1. Goto(c, next) /\ next.pc \in {"idle", "erasing", "restoring"}
        BY <1>2 DEF LookUp, After, Idle, Erasing, Restoring, Goto
  <2>2. next.pc = "erasing" => then.kind = "erase" /\ next.id = p.id
        BY DEF Idle, Erasing, Restoring
  <2> HIDE DEF next
  <2> QED BY <1>1, <1>2, <2>1, <2>2, QuietMoves
<1>3. CASE p.enabled # on
  <2> DEFINE next == LookedUp(p, then)
  <2>1. Goto(c, next) /\ next.pc = "lookedUp" /\ next.patch = p /\ next.then = then
        BY <1>3 DEF LookUp, LookedUp
  <2> HIDE DEF next
  <2> QED BY <1>1, <1>3, <2>1, QuietMoves
<1> QED BY <1>2, <1>3

LEMMA FailureQuiet ==
    ASSUME ListInv, RegistryInv', NEW c \in Callers, NEW then, AfterFailure(c, then),
           call[c].pc \in {"lookedUp", "restoring"}, UNCHANGED <<mem, patches>>
    PROVE  ListInv' /\ Program' = Program /\ Records' = Records
<1> DEFINE next == IF then.kind = "restore" THEN Restoring(then.ids) ELSE Idle
<1>1. Goto(c, next) /\ next.pc \in {"idle", "restoring"} /\ c \in Togglers
      BY DEF AfterFailure, Idle, Restoring, ListInv, CallsCurrent
<1> QED BY <1>1, QuietMoves

LEMMA RestoreNextQuiet ==
    ASSUME ListInv, RegistryInv', NEW c \in Callers, RestoreNext(c)
    PROVE  ListInv' /\ Program' = Program /\ Records' = Records
<1> DEFINE id == CHOOSE i \in call[c].ids : \A j \in call[c].ids : i <= j
           then == ThenRestore(call[c].ids \ {id})
           found == {p \in patches : p.id = id}
<1>1. UNCHANGED <<mem, patches>> /\ then.kind = "restore" /\ call[c].pc = "restoring" /\ c \in Togglers
      BY DEF RestoreNext, ThenRestore, ListInv, CallsCurrent
<1>2. CASE call[c].ids = {}
  <2>1. Goto(c, Idle) /\ Idle.pc = "idle"
        BY <1>2 DEF RestoreNext, Idle
  <2> QED BY <1>1, <2>1, QuietMoves
<1>3. CASE call[c].ids # {} /\ found = {}
  <2>1. AfterFailure(c, then)
        BY <1>3 DEF RestoreNext
  <2> QED BY <1>1, <2>1, FailureQuiet
<1>4. CASE call[c].ids # {} /\ found # {}
  <2> DEFINE p == CHOOSE q \in found : TRUE
  <2>1. LookUp(c, p, FALSE, then) /\ p \in patches
        BY <1>4 DEF RestoreNext
  <2> HIDE DEF p, then
  <2> QED BY <1>1, <2>1, LookUpQuiet
<1> QED BY <1>2, <1>3, <1>4

(* The toggler is alone.                                                      *)
LEMMA NobodyElse ==
    ASSUME OneToggler, ListInv, NEW c \in Callers, c \in Togglers
    PROVE  \A d \in Callers \ {c} : ~ call[d].pc \in {"lookedUp", "toggled", "erasing", "restoring"}
BY DEF OneToggler, ListInv, CallsCurrent

(* The record of an apply: what was an apply under way is a patch.            *)
LEMMA RecordQuiet ==
    ASSUME ListInv, RegistryInv', NEW c \in Callers, RecordPatch(c)
    PROVE  ListInv' /\ Program' = Program /\ Records' = Records
<1>1. PICK new : new = Patch(call[c].res.id, call[c].res.at, call[c].original, TRUE)
      OBVIOUS
<1>2. PICK res : res = call[c].res
      OBVIOUS
<1>3. /\ patches' = patches \cup {new} /\ mem' = mem /\ call[c].pc = "written"
      /\ call'[c] = Idle /\ \A d \in Callers \ {c} : call'[d] = call[d]
      BY <1>1, <1>2 DEF RecordPatch, Record, Goto, ListInv, RegistryInv, Types
<1>4. /\ new.id = res.id /\ new.at = res.at /\ new.original = call[c].original /\ new.enabled = TRUE
      BY <1>1, <1>2 DEF Patch
<1>5. /\ \A p \in patches : p.id # res.id
      /\ \A d \in Callers \ {c} : call[d].pc = "written" => call[d] # call[c]
  <2>1. res \in reserved
        BY <1>2, <1>3 DEF ListInv, RegistryInv, Types, CallType, Applying
  <2>2. \A d \in Callers \ {c} : call[d].pc = "written" => call[d].res # res
        BY <1>2, <1>3 DEF ListInv, RegistryInv, IdsSpent, Applying
  <2> QED BY <1>2, <2>1, <2>2 DEF ListInv, RegistryInv, CrossApart, Apart
<1>6. BytesOut' = BytesOut \ {call[c]} /\ call[c] \in BytesOut
      BY <1>3, <1>5 DEF BytesOut, Idle
<1>7. \A p \in patches : Now(p)' = Now(p)
      BY <1>3 DEF Now, Idle
<1>8. Now(new)' = TRUE
  <2>1. ~ \E d \in Callers : call'[d].pc = "toggled" /\ call'[d].patch.id = new.id
        BY <1>3, <1>4, <1>5 DEF ListInv, CallsCurrent, Toggling, Idle
  <2> QED BY <1>4, <2>1 DEF Now
<1>9. Records' = Records
  <2>1. Listed(new)' = Applied(call[c])
        BY <1>2, <1>4, <1>8 DEF Listed, Applied
  <2>2. \A p \in patches : Listed(p)' = Listed(p)
        BY <1>7 DEF Listed
  <2>3. \A r : r \in Records' <=> \/ \E p \in patches \cup {new} : r = Listed(p)'
                                  \/ \E w \in BytesOut \ {call[c]} : r = Applied(w)
        BY <1>3, <1>6 DEF Records, Applied
  <2>4. \A r : r \in Records <=> \/ \E p \in patches : r = Listed(p)
                                 \/ \E w \in BytesOut : r = Applied(w)
        BY DEF Records
  <2>5. \A r : r \in Records' <=> r \in Records
        BY <1>6, <2>1, <2>2, <2>3, <2>4
  <2> QED BY <2>5
<1>10. Program' = Program
  <2>1. Originals' = {[at |-> p.at, original |-> p.original] : p \in patches \cup {new}}
                     \cup {[at |-> w.res.at, original |-> w.original] : w \in BytesOut \ {call[c]}}
        BY <1>3, <1>6 DEF Originals
  <2>2. Originals' = Originals
        BY <1>2, <1>4, <1>6, <2>1 DEF Originals
  <2> QED BY <1>3, <2>2 DEF Program
<1>11. CallsCurrent'
       BY <1>3 DEF ListInv, CallsCurrent, Toggling, Idle
<1>12. RecordsInTarget'
  <2>1. \A x \in new.at : mem[x] = new.id
        BY <1>2, <1>3, <1>4 DEF ListInv, AppliesInTarget
  <2> QED BY <1>3, <1>7, <1>8, <2>1 DEF ListInv, RecordsInTarget
<1>13. AppliesInTarget'
       BY <1>3 DEF ListInv, AppliesInTarget, Idle
<1> QED BY <1>9, <1>10, <1>11, <1>12, <1>13 DEF ListInv

(* The record of a toggle: it has been in the target since the write.         *)
LEMMA RecordToggleQuiet ==
    ASSUME OneToggler, ListInv, RegistryInv', NEW c \in Callers, RecordToggle(c)
    PROVE  ListInv' /\ Program' = Program /\ Records' = Records
<1>1. PICK p : p = call[c].patch
      OBVIOUS
<1>2. PICK q : q = [p EXCEPT !.enabled = ~p.enabled]
      OBVIOUS
<1>3. /\ p \in patches /\ c \in Togglers /\ PatchType(p)
      /\ call[c].then.kind \in {"return", "erase", "restore"}
      /\ call[c].then.kind = "erase" => p.enabled
      BY <1>1 DEF RecordToggle, ListInv, CallsCurrent, Toggling, RegistryInv, Types, CallType
<1>4. /\ q.id = p.id /\ q.at = p.at /\ q.original = p.original /\ q.enabled = ~p.enabled
      BY <1>2, <1>3 DEF PatchType
<1>5. \A r \in patches : r.id = p.id => r = p
      BY <1>3 DEF ListInv, RegistryInv, RecordsApart, Apart
<1>6. patches' = (patches \ {p}) \cup {q}
  <2>1. patches' = {IF r.id = p.id THEN [r EXCEPT !.enabled = ~p.enabled] ELSE r : r \in patches}
        BY <1>1 DEF RecordToggle, Update
  <2>2. \A r \in patches : (IF r.id = p.id THEN [r EXCEPT !.enabled = ~p.enabled] ELSE r)
                           = IF r = p THEN q ELSE r
        BY <1>2, <1>5
  <2>3. \A r : r \in patches' <=> \E s \in patches : r = IF s = p THEN q ELSE s
        BY <2>1, <2>2
  <2>4. \A r : r \in patches' <=> r \in (patches \ {p}) \cup {q}
        BY <1>3, <2>3
  <2> QED BY <2>4
<1>7. PICK next : /\ Goto(c, next) /\ next.pc \in {"idle", "erasing", "restoring"}
                  /\ next.pc = "erasing" => call[c].then.kind = "erase" /\ next.id = p.id
  <2>1. After(c, p.id, call[c].then)
        BY <1>1 DEF RecordToggle
  <2>2. CASE call[c].then.kind = "return"
        BY <2>1, <2>2 DEF After, Idle
  <2>3. CASE call[c].then.kind = "erase"
        BY <2>1, <2>3 DEF After, Erasing
  <2>4. CASE call[c].then.kind = "restore"
        BY <2>1, <2>4 DEF After, Restoring
  <2> QED BY <1>3, <2>2, <2>3, <2>4
<1>8. /\ mem' = mem /\ call[c].pc = "toggled" /\ call'[c] = next
      /\ \A d \in Callers \ {c} : call'[d] = call[d]
      BY <1>7 DEF RecordToggle, Goto, ListInv, RegistryInv, Types
<1>9. /\ \A d \in Callers \ {c} : ~ call[d].pc \in {"lookedUp", "toggled", "erasing", "restoring"}
      /\ \A d \in Callers : call'[d].pc # "toggled"
      BY <1>3, <1>7, <1>8, NobodyElse
<1>10. BytesOut' = BytesOut
       BY <1>7, <1>8 DEF BytesOut
<1>11. /\ \A r \in patches \ {p} : Now(r) = r.enabled /\ Now(r)' = r.enabled
       /\ Now(p) = ~p.enabled /\ Now(q)' = ~p.enabled
       BY <1>1, <1>3, <1>4, <1>5, <1>8, <1>9 DEF Now
<1>12. Records' = Records
  <2>1. Listed(q)' = Listed(p) /\ \A r \in patches \ {p} : Listed(r)' = Listed(r)
        BY <1>4, <1>11 DEF Listed
  <2>2. \A r : r \in Records' <=> \/ \E s \in (patches \ {p}) \cup {q} : r = Listed(s)'
                                  \/ \E w \in BytesOut : r = Applied(w)
        BY <1>6, <1>10 DEF Records, Applied
  <2>3. \A r : r \in Records <=> \/ \E s \in patches : r = Listed(s)
                                 \/ \E w \in BytesOut : r = Applied(w)
        BY DEF Records
  <2>4. \A r : r \in Records' <=> r \in Records
        BY <1>3, <2>1, <2>2, <2>3
  <2> QED BY <2>4
<1>13. Program' = Program
  <2>1. [at |-> q.at, original |-> q.original] = [at |-> p.at, original |-> p.original]
        BY <1>4
  <2>2. \A o : o \in Originals' <=>
                 \/ \E r \in (patches \ {p}) \cup {q} : o = [at |-> r.at, original |-> r.original]
                 \/ \E w \in BytesOut : o = [at |-> w.res.at, original |-> w.original]
        BY <1>6, <1>10 DEF Originals
  <2>3. \A o : o \in Originals <=>
                 \/ \E r \in patches : o = [at |-> r.at, original |-> r.original]
                 \/ \E w \in BytesOut : o = [at |-> w.res.at, original |-> w.original]
        BY DEF Originals
  <2>4. \A o : (\E r \in (patches \ {p}) \cup {q} : o = [at |-> r.at, original |-> r.original])
                <=> (\E r \in patches : o = [at |-> r.at, original |-> r.original])
        BY <1>3, <2>1
  <2>5. \A o : o \in Originals' <=> o \in Originals
        BY <2>2, <2>3, <2>4
  <2>6. Originals' = Originals
        BY <2>5
  <2> QED BY <1>8, <2>6 DEF Program
<1>14. CallsCurrent'
  <2>1. ASSUME NEW d \in Callers \ {c} PROVE ~ call'[d].pc \in {"lookedUp", "toggled", "erasing", "restoring"}
        BY <1>8, <1>9
  <2>2. call'[c].pc = "erasing" => \E r \in patches' : r.id = call'[c].id /\ ~r.enabled
        BY <1>3, <1>4, <1>6, <1>7, <1>8
  <2> QED BY <1>3, <1>7, <1>8, <2>1, <2>2 DEF CallsCurrent, Toggling
<1>15. RecordsInTarget'
       BY <1>3, <1>4, <1>6, <1>8, <1>11 DEF ListInv, RecordsInTarget
<1>16. AppliesInTarget'
       BY <1>7, <1>8 DEF ListInv, AppliesInTarget
<1> QED BY <1>12, <1>13, <1>14, <1>15, <1>16 DEF ListInv

--------------------------------------------------------------------------------
(* Steps the list sees                                                        *)

(* Two functions of the cells that agree.                                     *)
LEMMA SameProgram ==
    ASSUME \A x \in Cells : Program'[x] = Program[x]
    PROVE  Program' = Program
BY DEF Program

LEMMA WritePatchApplies ==
    ASSUME ListInv, RegistryInv', NEW c \in Callers, WritePatch(c)
    PROVE  /\ ListInv'
           /\ \E id \in Ids, range \in Ranges : Abstract!Apply(id, range)
<1>1. PICK res : res = call[c].res
      OBVIOUS
<1>2. PICK original : original = call[c].original
      OBVIOUS
<1>3. /\ mem' = [x \in Cells |-> IF x \in res.at THEN res.id ELSE mem[x]]
      /\ call[c].pc = "captured" /\ patches' = patches
      /\ call'[c] = Written(res, original) /\ \A d \in Callers \ {c} : call'[d] = call[d]
      BY <1>1, <1>2 DEF WritePatch, Goto, ListInv, RegistryInv, Types
<1>4. res \in reserved /\ res.id \in Ids /\ res.at \in Ranges /\ res.at \subseteq Cells
      BY <1>1, <1>3, PatchRegistryAssumption DEF ListInv, RegistryInv, Types, CallType, Applying
<1>5. \A p \in patches : p.id # res.id /\ p.at \cap res.at = {} /\ p.at \subseteq Cells
      BY <1>4, PatchRegistryAssumption DEF ListInv, RegistryInv, CrossApart, Apart, Types, PatchType
<1>6. \A d \in Callers \ {c} : Applying(d) =>
        /\ call[d].res.id # res.id /\ call[d].res.at \cap res.at = {} /\ call[d].res.at \subseteq Cells
      BY <1>1, <1>3, <1>4, PatchRegistryAssumption
      DEF ListInv, RegistryInv, IdsSpent, ReservedApart, Apart, Types, CallType, Applying
<1>7. /\ Written(res, original).pc = "written" /\ Written(res, original).res = res
      /\ Written(res, original).original = original
      BY DEF Written
<1>8. BytesOut' = BytesOut \cup {Written(res, original)}
      BY <1>3, <1>7 DEF BytesOut
<1>9. \A p \in patches : Now(p)' = Now(p)
      BY <1>3, <1>7 DEF Now
<1>10. CallsCurrent'
       BY <1>3, <1>7 DEF ListInv, CallsCurrent, Toggling
<1>11. RecordsInTarget'
       BY <1>3, <1>5, <1>9 DEF ListInv, RecordsInTarget
<1>12. AppliesInTarget'
       BY <1>3, <1>4, <1>6, <1>7 DEF ListInv, AppliesInTarget, Applying
<1>13. Records' = Records \cup {[id |-> res.id, at |-> res.at, enabled |-> TRUE]}
  <2>1. \A p \in patches : Listed(p)' = Listed(p)
        BY <1>9 DEF Listed
  <2>2. \A r : r \in Records' <=> \/ \E p \in patches : r = Listed(p)'
                                  \/ \E w \in BytesOut \cup {Written(res, original)} : r = Applied(w)
        BY <1>3, <1>8 DEF Records, Applied
  <2>3. \A r : r \in Records <=> \/ \E p \in patches : r = Listed(p)
                                 \/ \E w \in BytesOut : r = Applied(w)
        BY DEF Records
  <2>4. Applied(Written(res, original)) = [id |-> res.id, at |-> res.at, enabled |-> TRUE]
        BY <1>7 DEF Applied
  <2> QED BY <2>1, <2>2, <2>3, <2>4
<1>14. \A r \in Records : r.id # res.id /\ r.at \cap res.at = {}
       BY <1>3, <1>5, <1>6 DEF Records, Listed, Applied, BytesOut, Applying
<1>15. Program' = Program
  <2>1. ProgramKnown /\ ProgramKnown'
        BY ProgramIsKnown, PTL DEF ListInv
  <2>2. ASSUME NEW x \in Cells PROVE Program'[x] = Program[x]
    <3>1. CASE \E p \in patches : x \in p.at
          BY <1>3, <2>1, <3>1 DEF ProgramKnown
    <3>2. CASE \E d \in Callers : call[d].pc = "written" /\ x \in call[d].res.at
          BY <1>3, <2>1, <3>2 DEF ProgramKnown
    <3>3. CASE x \in res.at
      <4>1. Program'[x] = original[x]
            BY <1>3, <1>7, <2>1, <3>3 DEF ProgramKnown
      <4>2. \A d \in Callers : call[d].pc = "written" => x \notin call[d].res.at
            BY <1>3, <1>6, <3>3 DEF Applying
      <4>3. Program[x] = mem[x]
            BY <1>5, <2>1, <3>3, <4>2 DEF ProgramKnown
      <4>4. mem[x] = original[x]
            BY <1>1, <1>2, <1>3, <3>3 DEF ListInv, AppliesInTarget
      <4> QED BY <4>1, <4>3, <4>4
    <3>4. CASE /\ \A p \in patches : x \notin p.at
               /\ \A d \in Callers : call[d].pc = "written" => x \notin call[d].res.at
               /\ x \notin res.at
      <4>1. Program[x] = mem[x]
            BY <2>1, <3>4 DEF ProgramKnown
      <4>2. Program'[x] = mem'[x]
            BY <1>3, <1>7, <2>1, <3>4 DEF ProgramKnown
      <4> QED BY <1>3, <3>4, <4>1, <4>2
    <3> QED BY <3>1, <3>2, <3>3, <3>4
  <2> QED BY <2>2, SameProgram
<1>16. Abstract!Apply(res.id, res.at)
       BY <1>13, <1>14, <1>15 DEF Abstract!Apply
<1> QED BY <1>4, <1>10, <1>11, <1>12, <1>16 DEF ListInv

(* Bytes go in or come out: the patch is toggled now, its record later.       *)
LEMMA WriteToggleToggles ==
    ASSUME OneToggler, ListInv, RegistryInv', NEW c \in Callers, WriteToggle(c)
    PROVE  ListInv' /\ \E r \in Records : Abstract!Toggle(r)
<1>1. PICK p : p = call[c].patch
      OBVIOUS
<1>2. PICK next : next = Toggled(p, call[c].then)
      OBVIOUS
<1>3. /\ next.pc = "toggled" /\ next.patch = p /\ next.then = call[c].then
      BY <1>2 DEF Toggled
<1>4. /\ p \in patches /\ c \in Togglers /\ PatchType(p) /\ call[c].pc = "lookedUp"
      /\ mem' = BytesWritten(p) /\ patches' = patches
      /\ call'[c] = next /\ \A d \in Callers \ {c} : call'[d] = call[d]
      BY <1>1, <1>2 DEF WriteToggle, Goto, ListInv, CallsCurrent, Toggling, RegistryInv, Types, CallType
<1>5. \A q \in patches \ {p} : q.id # p.id /\ q.at \cap p.at = {} /\ q.at \subseteq Cells
      BY <1>4, PatchRegistryAssumption DEF ListInv, RegistryInv, RecordsApart, Apart, Types, PatchType
<1>6. \A d \in Callers : Applying(d) =>
        /\ call[d].res.id # p.id /\ call[d].res.at \cap p.at = {} /\ call[d].res.at \subseteq Cells
      BY <1>4, PatchRegistryAssumption DEF ListInv, RegistryInv, CrossApart, Apart, Types, CallType
<1>7. \A d \in Callers \ {c} : ~ call[d].pc \in {"lookedUp", "toggled", "erasing", "restoring"}
      BY <1>4, NobodyElse
<1>8. /\ Now(p) = p.enabled /\ Now(p)' = ~p.enabled
      /\ \A q \in patches \ {p} : Now(q) = q.enabled /\ Now(q)' = q.enabled
      BY <1>3, <1>4, <1>5, <1>7 DEF Now
<1>9. BytesOut' = BytesOut
      BY <1>3, <1>4 DEF BytesOut
<1>10. \A x \in p.at : x \in Cells /\ mem'[x] = IF p.enabled THEN p.original[x] ELSE p.id
       BY <1>4, PatchRegistryAssumption DEF BytesWritten, PatchType
<1>11. \A x \in Cells : x \notin p.at => mem'[x] = mem[x]
       BY <1>4 DEF BytesWritten
<1>12. CallsCurrent'
       BY <1>1, <1>3, <1>4 DEF ListInv, CallsCurrent, Toggling
<1>13. RecordsInTarget'
  <2>1. ASSUME NEW q \in patches \ {p}, NEW x \in q.at
        PROVE  mem'[x] = IF Now(q)' THEN q.id ELSE q.original[x]
        BY <1>5, <1>8, <1>11 DEF ListInv, RecordsInTarget
  <2> QED BY <1>4, <1>8, <1>10, <2>1 DEF PatchType, RecordsInTarget
<1>14. AppliesInTarget'
       BY <1>3, <1>4, <1>6, <1>11 DEF ListInv, AppliesInTarget, Applying
<1>15. Program' = Program
  <2>1. ProgramKnown /\ ProgramKnown'
        BY ProgramIsKnown, PTL DEF ListInv
  <2>2. ASSUME NEW x \in Cells PROVE Program'[x] = Program[x]
    <3>1. CASE \E q \in patches : x \in q.at
          BY <1>4, <2>1, <3>1 DEF ProgramKnown
    <3>2. CASE \E d \in Callers : call[d].pc = "written" /\ x \in call[d].res.at
          BY <1>3, <1>4, <2>1, <3>2 DEF ProgramKnown
    <3>3. CASE /\ \A q \in patches : x \notin q.at
               /\ \A d \in Callers : call[d].pc = "written" => x \notin call[d].res.at
      <4>1. Program[x] = mem[x]
            BY <2>1, <3>3 DEF ProgramKnown
      <4>2. Program'[x] = mem'[x]
            BY <1>3, <1>4, <2>1, <3>3 DEF ProgramKnown
      <4> QED BY <1>4, <1>11, <3>3, <4>1, <4>2
    <3> QED BY <3>1, <3>2, <3>3
  <2> QED BY <2>2, SameProgram
<1>16. PICK r : r = Listed(p)
       OBVIOUS
<1>17. r \in Records /\ r.id = p.id /\ r.enabled = p.enabled
       BY <1>4, <1>8, <1>16 DEF Records, Listed
<1>18. Records' = (Records \ {r}) \cup {[r EXCEPT !.enabled = ~r.enabled]}
  <2>1. Listed(p)' = [r EXCEPT !.enabled = ~r.enabled]
        BY <1>8, <1>16 DEF Listed
  <2>2. \A q \in patches \ {p} : Listed(q)' = Listed(q) /\ Listed(q) # r
        BY <1>5, <1>8, <1>17 DEF Listed
  <2>3. \A w \in BytesOut : Applied(w) # r
        BY <1>6, <1>17 DEF BytesOut, Applied, Applying
  <2>4. \A s : s \in Records' <=> \/ \E q \in patches : s = Listed(q)'
                                  \/ \E w \in BytesOut : s = Applied(w)
        BY <1>4, <1>9 DEF Records, Applied
  <2>5. \A s : s \in Records <=> \/ \E q \in patches : s = Listed(q)
                                 \/ \E w \in BytesOut : s = Applied(w)
        BY DEF Records
  <2>6. \A s : s \in Records' <=> s \in (Records \ {r}) \cup {[r EXCEPT !.enabled = ~r.enabled]}
        BY <1>4, <1>16, <2>1, <2>2, <2>3, <2>4, <2>5
  <2> QED BY <2>6
<1>19. Abstract!Toggle(r)
       BY <1>15, <1>18 DEF Abstract!Toggle
<1> QED BY <1>12, <1>13, <1>14, <1>17, <1>19 DEF ListInv

(* A patch that is off leaves the list, and what it covered is the program.   *)
LEMMA EraseRemoves ==
    ASSUME OneToggler, ListInv, RegistryInv', NEW c \in Callers, ErasePatch(c)
    PROVE  ListInv' /\ \E r \in Records : Abstract!Remove(r)
<1>1. /\ call[c].pc = "erasing" /\ c \in Togglers /\ mem' = mem
      /\ call'[c] = Idle /\ \A d \in Callers \ {c} : call'[d] = call[d]
      BY DEF ErasePatch, Goto, ListInv, CallsCurrent, RegistryInv, Types
<1>2. PICK p \in patches : p.id = call[c].id /\ ~p.enabled
      BY <1>1 DEF ListInv, CallsCurrent
<1>3. \A q \in patches \ {p} : q.id # p.id /\ q.at \cap p.at = {}
      BY DEF ListInv, RegistryInv, RecordsApart, Apart
<1>4. patches' = patches \ {p}
      BY <1>2, <1>3 DEF ErasePatch
<1>5. \A d \in Callers : Applying(d) => call[d].res.id # p.id /\ call[d].res.at \cap p.at = {}
      BY DEF ListInv, RegistryInv, CrossApart, Apart, Types, CallType
<1>6. \A d \in Callers : ~ call[d].pc \in {"lookedUp", "toggled"} /\ ~ call'[d].pc \in {"lookedUp", "toggled", "erasing"}
      BY <1>1, NobodyElse DEF Idle
<1>7. \A q : Now(q) = q.enabled /\ Now(q)' = q.enabled
      BY <1>6 DEF Now
<1>8. BytesOut' = BytesOut
      BY <1>1 DEF BytesOut, Idle
<1>9. CallsCurrent'
  <2>1. \A d \in Callers : call'[d].pc = "restoring" => d \in Togglers
        BY <1>1 DEF ListInv, CallsCurrent, Idle
  <2> QED BY <1>6, <2>1 DEF CallsCurrent, Toggling
<1>10. RecordsInTarget'
       BY <1>1, <1>4, <1>7 DEF ListInv, RecordsInTarget
<1>11. AppliesInTarget'
       BY <1>1 DEF ListInv, AppliesInTarget, Idle
<1>12. Program' = Program
  <2>1. ProgramKnown /\ ProgramKnown'
        BY ProgramIsKnown, PTL DEF ListInv
  <2>2. ASSUME NEW x \in Cells PROVE Program'[x] = Program[x]
    <3>1. CASE \E q \in patches \ {p} : x \in q.at
          BY <1>4, <2>1, <3>1 DEF ProgramKnown
    <3>2. CASE \E d \in Callers : call[d].pc = "written" /\ x \in call[d].res.at
          BY <1>1, <2>1, <3>2 DEF ProgramKnown
    <3>3. CASE /\ \A q \in patches \ {p} : x \notin q.at
               /\ \A d \in Callers : call[d].pc = "written" => x \notin call[d].res.at
      <4>1. \A d \in Callers : call'[d].pc = "written" => x \notin call'[d].res.at
            BY <1>1, <3>3 DEF Idle
      <4>2. Program'[x] = mem[x]
            BY <1>1, <1>4, <2>1, <3>3, <4>1 DEF ProgramKnown
      <4>3. CASE x \in p.at
            BY <1>2, <1>7, <2>1, <4>2, <4>3 DEF ProgramKnown, ListInv, RecordsInTarget
      <4>4. CASE x \notin p.at
            BY <2>1, <3>3, <4>2, <4>4 DEF ProgramKnown
      <4> QED BY <4>3, <4>4
    <3> QED BY <3>1, <3>2, <3>3
  <2> QED BY <2>2, SameProgram
<1>13. PICK r : r = Listed(p)
       OBVIOUS
<1>14. r \in Records /\ r.id = p.id /\ ~r.enabled
       BY <1>2, <1>7, <1>13 DEF Records, Listed
<1>15. Records' = Records \ {r}
  <2>1. \A q \in patches \ {p} : Listed(q)' = Listed(q) /\ Listed(q) # r
        BY <1>3, <1>7, <1>14 DEF Listed
  <2>2. \A w \in BytesOut : Applied(w) # r
        BY <1>5, <1>14 DEF BytesOut, Applied, Applying
  <2>3. \A s : s \in Records' <=> \/ \E q \in patches \ {p} : s = Listed(q)'
                                  \/ \E w \in BytesOut : s = Applied(w)
        BY <1>4, <1>8 DEF Records, Applied
  <2>4. \A s : s \in Records <=> \/ \E q \in patches : s = Listed(q)
                                 \/ \E w \in BytesOut : s = Applied(w)
        BY DEF Records
  <2>5. \A s : s \in Records' <=> s \in Records \ {r}
        BY <1>13, <2>1, <2>2, <2>3, <2>4
  <2> QED BY <2>5
<1>16. Abstract!Remove(r)
       BY <1>12, <1>14, <1>15 DEF Abstract!Remove
<1> QED BY <1>9, <1>10, <1>11, <1>14, <1>16 DEF ListInv

(* Everything recorded goes; what it left in the target is the program now.   *)
LEMMA ForgetAllForgets ==
    ASSUME OneToggler, ListInv, RegistryInv', NEW c \in Callers, ForgetAll(c)
    PROVE  ListInv' /\ \E kept \in SUBSET Records : Abstract!Forget(kept)
<1>1. /\ c \in Togglers /\ call[c].pc = "idle" /\ mem' = mem /\ call' = call /\ patches' = {}
      BY DEF ForgetAll, Idle
<1>2. \A d \in Callers : ~ call[d].pc \in {"lookedUp", "toggled", "erasing", "restoring"}
      BY <1>1, NobodyElse
<1>3. BytesOut' = BytesOut
      BY <1>1 DEF BytesOut
<1>4. CallsCurrent' /\ RecordsInTarget' /\ AppliesInTarget'
      BY <1>1, <1>2 DEF ListInv, CallsCurrent, RecordsInTarget, AppliesInTarget, Toggling
<1>5. PICK kept : kept = {Applied(w) : w \in BytesOut}
      OBVIOUS
<1>6. kept \subseteq Records /\ Records' = kept
      BY <1>1, <1>3, <1>5 DEF Records, Applied
<1>7. \A x : (\E r \in kept : x \in r.at) <=> \E d \in Callers : call[d].pc = "written" /\ x \in call[d].res.at
  <2>1. \A r : r \in kept <=> \E d \in Callers : call[d].pc = "written" /\ r = Applied(call[d])
        BY <1>5 DEF BytesOut
  <2>2. \A w : Applied(w).at = w.res.at
        BY DEF Applied
  <2> QED BY <2>1, <2>2
<1>8. Program' = [x \in Cells |-> IF \E r \in kept : x \in r.at THEN Program[x] ELSE Abstract!Code[x]]
  <2>1. ProgramKnown /\ ProgramKnown' /\ mem = Abstract!Code
        BY ProgramIsKnown, TargetIsTheCode, PTL DEF ListInv, TargetIsCode
  <2>2. ASSUME NEW x \in Cells
        PROVE  Program'[x] = IF \E r \in kept : x \in r.at THEN Program[x] ELSE mem[x]
    <3>1. CASE \E d \in Callers : call[d].pc = "written" /\ x \in call[d].res.at
          BY <1>1, <1>7, <2>1, <3>1 DEF ProgramKnown
    <3>2. CASE \A d \in Callers : call[d].pc = "written" => x \notin call[d].res.at
          BY <1>1, <1>7, <2>1, <3>2 DEF ProgramKnown
    <3> QED BY <3>1, <3>2
  <2>3. Program' = [x \in Cells |-> Program'[x]]
        BY DEF Program
  <2> QED BY <2>1, <2>2, <2>3
<1>9. Abstract!Forget(kept)
      BY <1>6, <1>8 DEF Abstract!Forget
<1> QED BY <1>4, <1>6, <1>9 DEF ListInv

--------------------------------------------------------------------------------

(* Every step keeps the invariant, and is a step of the list or none.         *)
LEMMA NextList ==
    ASSUME OneToggler, ListInv, [Next]_vars
    PROVE  ListInv' /\ [Abstract!Next]_<<Program, Records>>
<1> USE DEF Abstract!Next
<1>1. RegistryInv'
      BY NextRegistry DEF ListInv
<1>2. CASE UNCHANGED vars
  <2>1. UNCHANGED <<mem, patches, call>>
        BY <1>2 DEF vars
  <2>2. \A p : Now(p)' = Now(p)
        BY <2>1 DEF Now
  <2>3. BytesOut' = BytesOut
        BY <2>1 DEF BytesOut
  <2>4. CallsCurrent' /\ RecordsInTarget' /\ AppliesInTarget'
        BY <2>1, <2>2 DEF ListInv, CallsCurrent, RecordsInTarget, AppliesInTarget, Toggling
  <2> QED BY <1>1, <2>1, <2>2, <2>3, <2>4, SameList DEF ListInv
<1>3. ASSUME NEW c \in Callers, ApplyStep(c)
      PROVE  ListInv' /\ [Abstract!Next]_<<Program, Records>>
  <2>1. CASE \E range \in Ranges : Reserve(c, range)
    <3>1. PICK next : Goto(c, next) /\ next.pc = "reserved"
          BY <2>1 DEF Reserve, Reserved
    <3>2. UNCHANGED <<mem, patches>> /\ call[c].pc = "idle"
          BY <2>1 DEF Reserve, Idle
    <3> QED BY <1>1, <3>1, <3>2, QuietMoves
  <2>2. CASE ReadOriginal(c)
    <3>1. PICK next : /\ Goto(c, next) /\ next.pc = "captured"
                      /\ next.res = call[c].res /\ next.original = ReadBytes(call[c].res.at)
          BY <2>2 DEF ReadOriginal, Captured
    <3>2. \A x \in next.res.at : mem[x] = next.original[x]
          BY <3>1 DEF ReadBytes
    <3> QED BY <1>1, <2>2, <3>1, <3>2, QuietMoves DEF ReadOriginal
  <2>3. CASE AbandonApply(c)
    <3>1. Goto(c, Idle) /\ Idle.pc = "idle" /\ UNCHANGED <<mem, patches>>
          /\ call[c].pc \in {"reserved", "captured"}
          BY <2>3 DEF AbandonApply, Idle
    <3> QED BY <1>1, <3>1, QuietMoves
  <2>4. CASE WritePatch(c)
        BY <1>1, <2>4, WritePatchApplies
  <2>5. CASE RecordPatch(c)
        BY <1>1, <2>5, RecordQuiet
  <2> QED BY <1>3, <2>1, <2>2, <2>3, <2>4, <2>5 DEF ApplyStep
<1>4. ASSUME NEW c \in Callers, ToggleStep(c)
      PROVE  ListInv' /\ [Abstract!Next]_<<Program, Records>>
  <2>1. CASE \E p \in patches : RemovePatch(c, p)
    <3>1. PICK p \in patches : RemovePatch(c, p)
          BY <2>1
    <3>2. ThenErase.kind = "erase" /\ Idle.pc = "idle"
          BY DEF ThenErase, Idle
    <3>3. LookUp(c, p, FALSE, ThenErase) /\ call[c].pc = "idle" /\ c \in Togglers /\ UNCHANGED <<mem, patches>>
          BY <3>1, <3>2 DEF RemovePatch
    <3> QED BY <1>1, <3>2, <3>3, LookUpQuiet
  <2>2. CASE \E p \in patches, on \in BOOLEAN : SetEnabled(c, p, on)
    <3>1. PICK p \in patches, on \in BOOLEAN : SetEnabled(c, p, on)
          BY <2>2
    <3>2. Return.kind = "return" /\ Idle.pc = "idle"
          BY DEF Return, Idle
    <3>3. LookUp(c, p, on, Return) /\ call[c].pc = "idle" /\ c \in Togglers /\ UNCHANGED <<mem, patches>>
          BY <3>1, <3>2 DEF SetEnabled
    <3> QED BY <1>1, <3>2, <3>3, LookUpQuiet
  <2>3. CASE RestoreAll(c)
    <3>1. PICK next : Goto(c, next) /\ next.pc = "restoring"
          BY <2>3 DEF RestoreAll, Restoring
    <3>2. UNCHANGED <<mem, patches>> /\ call[c].pc = "idle" /\ c \in Togglers
          BY <2>3 DEF RestoreAll, Idle
    <3> QED BY <1>1, <3>1, <3>2, QuietMoves
  <2>4. CASE RestoreNext(c)
        BY <1>1, <2>4, RestoreNextQuiet
  <2>5. CASE WriteToggle(c)
        BY <1>1, <2>5, WriteToggleToggles
  <2>6. CASE AbandonToggle(c)
        BY <1>1, <2>6, FailureQuiet DEF AbandonToggle
  <2>7. CASE RecordToggle(c)
        BY <1>1, <2>7, RecordToggleQuiet
  <2>8. CASE ErasePatch(c)
        BY <1>1, <2>8, EraseRemoves
  <2>9. CASE ForgetAll(c)
        BY <1>1, <2>9, ForgetAllForgets
  <2> QED BY <1>4, <2>1, <2>2, <2>3, <2>4, <2>5, <2>6, <2>7, <2>8, <2>9 DEF ToggleStep
<1> QED BY <1>2, <1>3, <1>4 DEF Next

(* While one thread toggles, as in the application, a patch that no call is   *)
(* busy with is in the target exactly when the list says so, and otherwise    *)
(* what was captured under it is back (PatchRegistry.cpp, setEnabled).        *)
THEOREM TargetAlwaysMatchesList ==
    ASSUME OneToggler
    PROVE  Spec => []TargetMatchesList
<1>1. ListInv /\ [Next]_vars => ListInv'
      BY NextList
<1> QED BY <1>1, InitList, ListInvGives, PTL DEF Spec

(* At every moment, also between a write and its record, the target is the    *)
(* program with the enabled patches on top (PatchRegistry.h, the class).      *)
THEOREM TargetAlwaysCode ==
    ASSUME OneToggler
    PROVE  Spec => []TargetIsCode
<1>1. ListInv /\ [Next]_vars => ListInv'
      BY NextList
<1> QED BY <1>1, InitList, TargetIsTheCode, PTL DEF Spec

(* apply, setEnabled, remove, restoreAll and forgetAll, in several steps each *)
(* and with any access to the target failing, do what PatchList says, which   *)
(* does each in one (PatchRegistry.cpp).                                      *)
THEOREM RegistryImplementsList ==
    ASSUME OneToggler
    PROVE  Spec => ImplementsPatchList
<1>1. ListInv /\ [Next]_vars => ListInv' /\ [Abstract!Next]_<<Program, Records>>
      BY NextList
<1>2. Init => Abstract!Init
  <2> SUFFICES ASSUME Init PROVE Abstract!Init
      OBVIOUS
  <2>1. BytesOut = {} /\ patches = {}
        BY DEF Init, BytesOut, Idle
  <2>2. Records = {} /\ Originals = {}
        BY <2>1 DEF Records, Originals
  <2>3. Program \in [Cells -> {0}]
        BY <2>2 DEF Program, Init
  <2> QED BY <2>2, <2>3 DEF Abstract!Init
<1> QED BY <1>1, <1>2, InitList, PTL DEF Spec, ImplementsPatchList, Abstract!Spec
================================================================================
