--------------------------- MODULE MCPatchRegistry ---------------------------
(* Small instances of PatchRegistry: three cells, and ranges that overlap in  *)
(* every way - one inside another, one beside another, one across a boundary. *)
EXTENDS PatchRegistry

CONSTANTS ui, other

Window == 1 .. 3
Overlapping == {{1}, {1, 2}, {2, 3}}
================================================================================
