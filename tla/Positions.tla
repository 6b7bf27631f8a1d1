-------------------------------- MODULE Positions --------------------------------
(* Parts of a sequence by the positions they are taken from.                  *)
EXTENDS Naturals, Sequences, FiniteSets

(* Some numbers, the least first.                                             *)
Ascending(numbers) ==
    LET Before(i) == {j \in numbers : j < i} IN
    [k \in 1 .. Cardinality(numbers) |-> CHOOSE i \in numbers : Cardinality(Before(i)) = k - 1]

(* What a sequence has at some of its positions, in its order.                *)
Picked(s, positions) == [k \in 1 .. Cardinality(positions) |-> s[Ascending(positions)[k]]]
================================================================================
