------------------------------- MODULE ScriptTable ------------------------------
(* What a Lua script can ask for: every function of its API, in the steps of  *)
(* the C function.  All of it runs on the script's own thread, but for what   *)
(* goes to the window.  A refused argument raises a Lua error, a refusal of   *)
(* the target is returned.                                                    *)
EXTENDS ToolTable

Lua(name, steps) == Inline(name, steps)

ScriptTarget == {
    Lua("print", <<>>),
    Lua("processes", <<>>),
    Lua("attach", <<Arg("pid"), Does("session")>>),
    Lua("detach", <<Always("session")>>),
    Lua("refresh", <<Attached, Always("tables")>>),
    Lua("modules", <<Sees("tables")>>),
    Lua("regions", <<Sees("tables")>>) }

ScriptMemory == {
    Lua("read", <<Arg("address"), Arg("type"), Arg("length"), Reads("target")>>),
    Lua("write", <<Arg("address"), Arg("type"), Arg("value"), Does("target")>>),
    Lua("read_u32", <<Arg("address"), Reads("target")>>),
    Lua("write_u32", <<Arg("address"), Arg("value"), Does("target")>>),
    Lua("read_bytes", <<Arg("address"), Arg("length"), Reads("target")>>),
    Lua("write_bytes", <<Arg("address"), Arg("hex"), Does("target")>>) }

(* Started with or without a target.                                          *)
ScriptScans == {
    Lua("scan_exact", <<Arg("type"), Arg("value"), Always("scan")>>),
    Lua("scan_unknown", <<Arg("type"), Always("scan")>>),
    Lua("scan_next", <<Arg("mode"), Sees("scan"), Arg("value"), Is("results"), Always("scan")>>),
    Lua("scan_status", <<Sees("scan")>>) }

(* A cancelled script gets no further than the next of these, or the next     *)
(* 10 000 instructions.                                                       *)
ScriptWaits == {
    Lua("cancelled", <<Sees("cancel")>>),
    Lua("check_cancel", <<Is("uncancelled")>>),
    Lua("scan_wait", <<Is("uncancelled"), Is("in_time")>>) }
ScriptResults == {
    Lua("scan_results", <<Sees("scan"), Sees("scan")>>),
    Lua("resolve", <<Arg("module"), Arg("offset"), Arg("offsets"), Reads("target")>>) }

ScriptChanges == {
    Lua("add_address", <<Arg("address"), Arg("type"), Always("entries")>>),
    Lua("alloc", <<Arg("size"), Does("target")>>),
    Lua("thread", <<Arg("address"), Does("target")>>),
    Lua("loadlibrary", <<Arg("path"), Does("target"), Always("tables")>>) }

ScriptWindow == {
    Lua("screenshot", <<Arg("path"), <<"window", "frame">> >>),
    Lua("select_panel", <<Arg("name"), <<"window", "panels">> >>),
    Lua("set_layout", <<Arg("name"), <<"window", "panels">> >>),
    Lua("set_window_size", <<Arg("width"), Arg("height"), <<"window", "frame">> >>),
    Lua("wait_frames", << <<"window", "frame">> >>),
    Lua("quit", << <<"window", "quit">> >>) }

Functions == ScriptTarget \cup ScriptMemory \cup ScriptScans \cup ScriptWaits \cup ScriptResults
             \cup ScriptChanges \cup ScriptWindow
================================================================================
