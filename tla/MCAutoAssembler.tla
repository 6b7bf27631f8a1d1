--------------------------- MODULE MCAutoAssembler ---------------------------
(* A small instance of AutoAssembler: two scripts that may hook the same      *)
(* cell, of their own records only, [DISABLE] giving the cave back.           *)
EXTENDS AutoAssembler

CONSTANTS s1, s2, c1, c2, b1, b2

Plain == {[blocks |-> <<"cave", c1>>, restores |-> FALSE, deallocs |-> TRUE, broken |-> "none"]}
================================================================================
