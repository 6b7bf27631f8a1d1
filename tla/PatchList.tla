------------------------------- MODULE PatchList -------------------------------
(* What PatchRegistry promises: a list of patches over code that was there    *)
(* first.  The target's code is always the program with the enabled patches   *)
(* on top, so turning a patch off gives back what was there before it.        *)
EXTENDS Naturals

CONSTANTS Cells,    \* the target's code, as the cells patches cover
          Ranges,   \* the ranges patched: sets of cells
          Ids       \* what a patch may be called

VARIABLES program,  \* each cell without any patch of the list
          records   \* the list: [id, at, enabled]

Covering(c) == {r \in records : c \in r.at}

(* A patch's bytes are stood for by its id, the program's own by 0.           *)
Code == [c \in Cells |-> IF \E r \in Covering(c) : r.enabled
                         THEN (CHOOSE r \in Covering(c) : r.enabled).id
                         ELSE program[c]]

Init == records = {} /\ program \in [Cells -> {0}]

Apply(id, range) ==
    /\ \A r \in records : r.id # id /\ r.at \cap range = {}
    /\ records' = records \cup {[id |-> id, at |-> range, enabled |-> TRUE]}
    /\ UNCHANGED program

Toggle(r) ==
    /\ records' = (records \ {r}) \cup {[r EXCEPT !.enabled = ~r.enabled]}
    /\ UNCHANGED program

Remove(r) ==
    /\ ~r.enabled
    /\ records' = records \ {r}
    /\ UNCHANGED program

(* Every record goes, and what is in the target is the program from now on;   *)
(* an apply that has not returned yet keeps its own.                          *)
Forget(kept) ==
    /\ kept \subseteq records
    /\ records' = kept
    /\ program' = [c \in Cells |-> IF \E r \in kept : c \in r.at THEN program[c] ELSE Code[c]]

Next ==
    \/ \E id \in Ids, range \in Ranges : Apply(id, range)
    \/ \E r \in records : Toggle(r) \/ Remove(r)
    \/ \E kept \in SUBSET records : Forget(kept)

Spec == Init /\ [][Next]_<<program, records>>
================================================================================
