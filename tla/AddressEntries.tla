----------------------------- MODULE AddressEntries -----------------------------
(* The address list and its two writers: the user, through the service, and   *)
(* the thread that re-resolves pointer chains and rewrites frozen values.     *)
(* Every write to the list is a whole entry, taken from a snapshot earlier.   *)
EXTENDS Integers, FiniteSets, FiniteSetsExt

CONSTANTS
    Addrs,          \* of the target
    Values,
    None,           \* no value held; a chain that leads nowhere
    MaxId,
    MaxEdits,       \* bounds what the user and the target do
    ResolveEvery    \* freezer ticks between two resolutions: 10 in the program

AddressAssumption == Addrs # {} /\ None \notin Addrs /\ None \notin Values /\ ResolveEvery \in Nat \ {0}

VARIABLES
    entries,        \* id -> [addr, value, frozen, resolved, chain]
    nextId, revision,
    attached,
    points,         \* where the chain leads in the target, or None
    writable,       \* the pages that take a write
    freezer,        \* [pc, tick, snap]: snap is what is left of its snapshot
    user,           \* [pc, id, entry]: the snapshot it edits
    edited,         \* history: ids the user changed since the freezer's snapshot
    edits

list == <<entries, nextId, revision>>
world == <<attached, points, writable>>
vars == <<list, world, freezer, user, edited, edits>>

NoEntry == [addr |-> None, value |-> None, frozen |-> FALSE, resolved |-> TRUE, chain |-> FALSE]
Entries == [addr : Addrs \cup {None}, value : Values \cup {None}, frozen : BOOLEAN, resolved : BOOLEAN,
            chain : BOOLEAN]

Init ==
    /\ entries = [i \in {} |-> NoEntry] /\ nextId = 1 /\ revision = 0
    /\ attached = TRUE /\ points = (CHOOSE a \in Addrs : TRUE) /\ writable = Addrs
    /\ freezer = [pc |-> "sleep", tick |-> 0, snap |-> [i \in {} |-> NoEntry]]
    /\ user = [pc |-> "idle", id |-> 0, entry |-> NoEntry]
    /\ edited = {} /\ edits = 0

--------------------------------------------------------------------------------
(* The list, one critical section each                                        *)

InstallQuietly(new, next) == entries' = new /\ nextId' = next /\ revision' = revision    \* mutant
Install(new, next) == entries' = new /\ nextId' = next /\ revision' = revision + 1

AppendEntry(entry) ==
    Install([i \in DOMAIN entries \cup {nextId} |-> IF i = nextId THEN entry ELSE entries[i]], nextId + 1)

(* Replaces the entry of that id; an id that is gone stays gone.              *)
Update(id, entry) ==
    IF id \in DOMAIN entries THEN Install([entries EXCEPT ![id] = entry], nextId) ELSE UNCHANGED list

Replace(new) == Install(new, IF DOMAIN new = {} THEN 1 ELSE Max(DOMAIN new) + 1)

--------------------------------------------------------------------------------
(* The user: a snapshot, then one update of the whole entry                   *)

Edit ==
    /\ user.pc = "idle" /\ edits < MaxEdits /\ edits' = edits + 1
    /\ UNCHANGED freezer
Touched(ids) == edited' = edited \cup ids

(* A row added holds the value the target has there now.                      *)
ReadNow(a) == IF attached /\ a # None THEN Values ELSE {None}

Add ==
    /\ Edit /\ nextId <= MaxId
    /\ \E a \in Addrs : \E v \in ReadNow(a) :
         AppendEntry([addr |-> a, value |-> v, frozen |-> FALSE, resolved |-> TRUE, chain |-> FALSE])
    /\ UNCHANGED <<world, user, edited>>

AddChain ==
    /\ Edit /\ nextId <= MaxId
    /\ \E v \in ReadNow(points) :
         AppendEntry([addr |-> IF attached THEN points ELSE None, value |-> v, frozen |-> FALSE,
                 resolved |-> attached /\ points # None, chain |-> TRUE])
    /\ UNCHANGED <<world, user, edited>>

RemoveEntry(id) ==
    /\ Edit
    /\ Install([i \in DOMAIN entries \ {id} |-> entries[i]], nextId)
    /\ Touched({id}) /\ UNCHANGED <<world, user>>

(* A new project, or one that was saved: its ids come with it.                *)
ReplaceEntries ==
    /\ Edit
    /\ \E new \in { [i \in {} |-> NoEntry], [i \in {1} |-> [NoEntry EXCEPT !.chain = TRUE, !.resolved = FALSE]] } :
         Replace(new) /\ Touched(DOMAIN entries \cup DOMAIN new)
    /\ UNCHANGED <<world, user>>

Frozen(e, on) ==
    {[e EXCEPT !.frozen = on, !.value = v] : v \in IF on /\ e.value = None THEN ReadNow(e.addr) ELSE {e.value}}

(* setFrozen, toggleHotkey, updateValue and the editor's Apply each take the  *)
(* entry from a snapshot and change it.  Any row may have a hotkey.           *)
Changed(e) ==
    Frozen(e, TRUE) \cup Frozen(e, FALSE)
      \cup {[e EXCEPT !.frozen = ~@]}
      \cup {[e EXCEPT !.value = v] : v \in Values}
      \cup {[e EXCEPT !.addr = a, !.chain = FALSE, !.resolved = TRUE] : a \in Addrs}

BeginEdit(id) ==
    /\ Edit /\ user.pc = "idle"
    /\ \E new \in Changed(entries[id]) : user' = [pc |-> "update", id |-> id, entry |-> new]
    /\ UNCHANGED <<list, world, edited>>

EndEdit ==
    /\ user.pc = "update" /\ Update(user.id, user.entry)
    /\ user' = [user EXCEPT !.pc = "idle"]
    /\ Touched({user.id}) /\ UNCHANGED <<world, freezer, edits>>

--------------------------------------------------------------------------------
(* The freezer                                                                *)

Freezer(pc, snap) == freezer' = [freezer EXCEPT !.pc = pc, !.snap = snap]
Rest == freezer.snap
Without(id) == [i \in DOMAIN Rest \ {id} |-> Rest[i]]
SnapshotOf(ids) == [i \in ids |-> entries[i]]
Chains == {i \in DOMAIN entries : entries[i].chain}
Freezable == {i \in DOMAIN entries : entries[i].frozen /\ entries[i].value # None /\ entries[i].resolved}

(* A pass: chains on every tenth one, then the frozen entries.                *)
Wake ==
    /\ freezer.pc = "sleep" /\ attached
    /\ IF freezer.tick = 0 THEN Freezer("resolve", SnapshotOf(Chains)) ELSE Freezer("freeze", SnapshotOf(Freezable))
    /\ edited' = {} /\ UNCHANGED <<list, world, user, edits>>

WakeDetached ==
    /\ freezer.pc = "sleep" /\ ~attached
    /\ freezer' = [freezer EXCEPT !.tick = (@ + 1) % ResolveEvery]
    /\ UNCHANGED <<list, world, user, edited, edits>>

Following(e) ==
    LET ok == attached /\ points # None IN
    [e EXCEPT !.resolved = ok, !.addr = IF ok THEN points ELSE e.addr]
ThawUnresolved(e) == [Following(e) EXCEPT !.frozen = e.frozen /\ Following(e).resolved]   \* mutant
SkipBroken(e) == IF e.resolved THEN Following(e) ELSE e    \* mutant: given up on
Resolved(e) == Following(e)

ResolveOne(id) ==
    /\ freezer.pc = "resolve" /\ id \in DOMAIN Rest
    /\ IF Resolved(Rest[id]) = Rest[id] THEN UNCHANGED list ELSE Update(id, Resolved(Rest[id]))
    /\ Freezer("resolve", Without(id))
    /\ UNCHANGED <<world, user, edited, edits>>

EndResolve ==
    /\ freezer.pc = "resolve" /\ DOMAIN Rest = {}
    /\ Freezer("freeze", SnapshotOf(Freezable))
    /\ edited' = {} /\ UNCHANGED <<list, world, user, edits>>

DropFailure(id) == UNCHANGED list                   \* mutant
GiveUp(id) == Update(id, [Rest[id] EXCEPT !.frozen = FALSE])

(* A write that fails switches the entry off.                                 *)
FreezeOne(id) ==
    /\ freezer.pc = "freeze" /\ id \in DOMAIN Rest
    /\ IF attached /\ Rest[id].addr \in writable THEN UNCHANGED list ELSE GiveUp(id)
    /\ Freezer("freeze", Without(id))
    /\ UNCHANGED <<world, user, edited, edits>>

Sleep ==
    /\ freezer.pc = "freeze" /\ DOMAIN Rest = {}
    /\ freezer' = [freezer EXCEPT !.pc = "sleep", !.tick = (@ + 1) % ResolveEvery]
    /\ UNCHANGED <<list, world, user, edited, edits>>

--------------------------------------------------------------------------------
(* The target and the session                                                 *)

TargetChanges ==
    /\ edits < MaxEdits /\ edits' = edits + 1
    /\ \/ attached' = ~attached /\ UNCHANGED <<points, writable>>
       \/ points' \in (Addrs \cup {None}) \ {points} /\ UNCHANGED <<attached, writable>>
       \/ (\E b \in writable : writable' = writable \ {b}) /\ UNCHANGED <<attached, points>>
    /\ UNCHANGED <<list, freezer, user, edited>>

FreezerStep ==
    \/ Wake \/ WakeDetached \/ EndResolve \/ Sleep
    \/ \E id \in DOMAIN Rest : ResolveOne(id) \/ FreezeOne(id)
EntriesNext ==
    \/ Add \/ AddChain \/ ReplaceEntries \/ EndEdit \/ TargetChanges
    \/ \E id \in DOMAIN entries : RemoveEntry(id) \/ BeginEdit(id)
    \/ FreezerStep

Spec == Init /\ [][EntriesNext]_vars
FairSpec == Spec /\ WF_vars(FreezerStep)

--------------------------------------------------------------------------------
(* Properties                                                                 *)

OnlyFreezerFields(old, new) ==
    \/ [new EXCEPT !.addr = old.addr, !.resolved = old.resolved] = old
    \/ [new EXCEPT !.frozen = FALSE] = [old EXCEPT !.frozen = FALSE] /\ ~new.frozen

(* The freezer overwrites whole entries from its snapshot.  An entry nobody   *)
(* has edited since then loses nothing of the user's: a re-resolution moves   *)
(* its address and leaves the freeze on, a failed write only switches it off; *)
(* an entry removed meanwhile stays removed.                                  *)
FreezerKeepsEdits ==
    [][freezer' # freezer =>
         /\ DOMAIN entries' = DOMAIN entries
         /\ \A id \in DOMAIN entries \ edited : OnlyFreezerFields(entries[id], entries'[id])]_vars

(* While a process is attached, a row frozen on a page that takes no write is *)
(* switched off, removed or moved, rather than failing twenty times a second. *)
Failing(id) ==
    /\ attached /\ id \in Freezable
    /\ entries[id].addr \notin writable
FreezeGivesUp == \A id \in 1..MaxId : Failing(id) ~> ~Failing(id)

(* A row tracked by a chain comes to show where the chain leads.              *)
Astray(id) ==
    /\ attached /\ points # None
    /\ id \in DOMAIN entries /\ entries[id].chain
    /\ ~(entries[id].resolved /\ entries[id].addr = points)
ChainsFollowed == \A id \in 1..MaxId : Astray(id) ~> ~Astray(id)
================================================================================
