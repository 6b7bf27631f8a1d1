------------------------- MODULE MCPatchedBreakpoints -------------------------
(* One thread, two cells, and patches over either or both of them.            *)
EXTENDS PatchedBreakpoints

CONSTANT ui

Window == 1 .. 2
Overlapping == {{1}, {1, 2}}
================================================================================
