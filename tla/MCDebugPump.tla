----------------------------- MODULE MCDebugPump -----------------------------
(* Small instances of DebugPump: one to three threads, since what two of them *)
(* do on one int3 is the hard part; one or two addresses of each sort.        *)
EXTENDS DebugPump, TLC

CONSTANTS t1, t2, t3, a1, a2, a3, f1

(* Every thread runs every address; or each address is one thread's code.     *)
Shared == [t \in Threads |-> Addrs]
Private == [t \in Threads |-> IF t = t1 THEN {a1, f1} \cap Addrs ELSE {a2} \cap Addrs]
ThreadSymmetry == Permutations(Threads)
================================================================================
