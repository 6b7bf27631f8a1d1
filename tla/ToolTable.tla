------------------------------- MODULE ToolTable --------------------------------
(* What an MCP client can ask for: every tool with the steps of its handler   *)
(* in their order, and the thread the registration says it runs on.  A step   *)
(* looks at an argument, at the program's state or at the target, or changes  *)
(* something; each of them may refuse, and a refusal ends the call.           *)
EXTENDS Sequences

Arg(what) == <<"arg", what>>            \* an argument, refused if missing or unusable
Is(what) == <<"is", what>>              \* a state of the program
Attached == Is("attached")
Resolves == <<"resolves", "session">>   \* an expression resolved against the target
Reads(what) == <<"reads", what>>        \* the target's memory, which may not be readable
Sees(what) == <<"sees", what>>          \* whatever is there, under a lock of its own
Does(what) == <<"does", what>>          \* changes it, or refuses and does not
Always(what) == <<"always", what>>      \* changes it and cannot refuse

Inline(name, steps) == [name |-> name, marshalled |-> FALSE, steps |-> steps]
OnUi(name, steps) == [name |-> name, marshalled |-> TRUE, steps |-> steps]

--------------------------------------------------------------------------------
(* The process and its memory                                                 *)

RegisterTarget == {
    Inline("processes", <<>>),
    OnUi("attach", <<Arg("pid"), Does("session"), Always("entries")>>),
    OnUi("detach", <<Always("session")>>),
    OnUi("refresh", <<Attached, Always("tables")>>),
    Inline("session_info", <<>>),
    Inline("modules", <<Attached>>),
    Inline("regions", <<Attached>>) }

WriteInline == {                        \* mutant: the write flag of one tool
    Inline("read", <<Arg("type"), Attached, Resolves, Reads("target")>>),
    Inline("write", <<Arg("type"), Arg("value"), Attached, Resolves, Arg("parsed"), Does("target")>>) }
RegisterTyped == {
    Inline("read", <<Arg("type"), Attached, Resolves, Reads("target")>>),
    OnUi("write", <<Arg("type"), Arg("value"), Attached, Resolves, Arg("parsed"), Does("target")>>) }
RegisterRaw == {
    Inline("read_bytes", <<Arg("size"), Attached, Resolves, Arg("nonzero"), Reads("target")>>),
    OnUi("write_bytes", <<Arg("hex"), Arg("nonempty"), Attached, Resolves, Does("target")>>),
    Inline("read_pointer", <<Attached, Resolves, Reads("target")>>) }

--------------------------------------------------------------------------------
(* Scanning                                                                   *)

RegisterScan == {
    OnUi("scan_first", <<Arg("mode"), Arg("type"), Arg("supported"), Arg("value"), Attached, Always("scan")>>),
    OnUi("scan_next", <<Arg("mode"), Attached, Is("results"), Arg("supported"), Arg("value"), Always("scan")>>),
    Inline("scan_status", <<Sees("scan")>>),
    Inline("scan_results", <<Sees("scan"), Sees("scan"), Sees("scan")>>) }
RegisterScanSettings == {
    OnUi("scan_cancel", <<Always("scan")>>),
    OnUi("scan_set_options", <<Always("scan")>>),
    Inline("find_pattern", <<Arg("size"), Arg("pattern"), Arg("parsed"), Attached, Resolves, Sees("target")>>) }

RegisterPointers == {
    Inline("resolve_chain", <<Arg("chain"), Attached, Reads("target")>>),
    OnUi("pointer_scan_start", <<Attached, Resolves, Always("chains")>>),
    OnUi("pointer_scan_filter", <<Attached, Resolves, Always("chains")>>),
    Inline("pointer_scan_status", <<Sees("chains")>>),
    Inline("pointer_scan_results", <<Sees("chains")>>) }

--------------------------------------------------------------------------------
(* Names, the address list and layouts                                        *)

RegisterSymbols == {
    Inline("resolve", <<Arg("expression"), Resolves>>),
    Inline("describe", <<Resolves>>),
    OnUi("symbol_define", <<Arg("name"), Arg("expression"), Does("symbols")>>),
    OnUi("symbol_undefine", <<Arg("name"), Does("symbols")>>),
    Inline("symbols_list", <<Sees("symbols")>>) }

RegisterNewEntries == {
    OnUi("add_address", <<Resolves, Arg("type"), Always("entries")>>),
    OnUi("add_chain_address", <<Arg("chain"), Arg("type"), Always("entries")>>),
    Inline("list_addresses", <<Sees("entries"), Sees("target"), Sees("entries")>>) }
(* update_value replaces what the entry is frozen at before it writes.        *)
RegisterEntries == {
    OnUi("remove_address", <<Arg("id"), Does("entries")>>),
    OnUi("set_frozen", <<Arg("id"), Does("entries")>>),
    OnUi("update_value", <<Arg("id"), Is("found"), Arg("value"), Arg("parsed"), Always("entries"), Does("target")>>) }

RegisterLayouts == {
    OnUi("struct_add", <<Arg("name"), Always("layouts")>>),
    Inline("struct_list", <<Sees("layouts")>>),
    OnUi("struct_set_fields", <<Arg("id"), Arg("fields"), Does("layouts")>>) }
RegisterInstances == {
    Inline("struct_read", <<Attached, Arg("id"), Arg("addresses"), Resolves, Arg("nonempty"), Reads("target")>>),
    OnUi("struct_guess", <<Attached, Arg("id"), Arg("addresses"), Resolves, Reads("target"), Does("layouts")>>) }

--------------------------------------------------------------------------------
(* Code in the target and scripts                                             *)

RegisterCode == {
    Inline("disassemble", <<Attached, Resolves, Sees("target")>>),
    Inline("assemble", <<Arg("source"), Resolves, Arg("assembles")>>),
    OnUi("alloc", <<Arg("size"), Arg("protection"), Attached, Resolves, Does("target")>>),
    OnUi("free", <<Attached, Resolves, Does("target")>>),
    OnUi("create_thread", <<Attached, Resolves, Does("target")>>),
    OnUi("load_library", <<Attached, Arg("path"), Does("target"), Always("tables")>>) }
(* Enabling a script compiles it, which allocates before all of it is read.   *)
RegisterScripts == {
    OnUi("aa_check", <<Arg("source"), Reads("target")>>),
    OnUi("aa_add", <<Arg("name"), Arg("source"), Always("scripts")>>),
    OnUi("aa_set_enabled", <<Arg("id"), Does("target"), Arg("compiles"), Does("scripts")>>),
    OnUi("aa_disable_all", <<Always("scripts"), Does("scripts")>>),
    Inline("aa_scripts", <<Sees("scripts")>>) }

RegisterBreakpoints == {
    OnUi("debugger_attach", <<Does("pump")>>),
    OnUi("debugger_detach", <<Always("pump")>>),
    OnUi("breakpoint_add", <<Arg("kind"), Arg("length"), Attached, Resolves, Does("pump"), Does("pump")>>),
    OnUi("breakpoint_remove", <<Resolves, Does("pump")>>),
    Inline("breakpoints_list", <<Sees("pump")>>),
    OnUi("breakpoint_events", <<Always("pump")>>) }
(* The watch is begun before its breakpoint is armed, and stopped again if    *)
(* arming fails.                                                              *)
RegisterWatch == {
    OnUi("access_watch_start", <<Arg("length"), Attached, Resolves, Arg("aligned"), Does("pump"),
                                 Always("watch"), Does("pump")>>),
    OnUi("access_watch_stop", <<Always("watch"), Always("pump")>>),
    Inline("access_watch_sites", <<Sees("watch")>>) }

RegisterPatches == {
    OnUi("patch_apply", <<Arg("hex"), Arg("nonempty"), Attached, Resolves, Sees("target"), Does("patches")>>),
    OnUi("patch_set_enabled", <<Arg("id"), Does("patches")>>),
    OnUi("patch_remove", <<Arg("id"), Does("patches")>>),
    OnUi("patch_restore_all", <<Always("patches"), Does("patches")>>),
    Inline("patches_list", <<Sees("patches"), Sees("target")>>) }

RegisterSpeed == {
    OnUi("speed_load", <<Attached, Is("writable"), Always("tables"), Does("target"), Does("speed")>>),
    OnUi("speed_set_scale", <<Arg("scale"), Does("speed"), Does("target")>>),
    OnUi("speed_reset", <<Does("target"), Does("target")>>),
    Inline("speed_status", <<Sees("speed")>>) }

--------------------------------------------------------------------------------
(* The window.  These block on the UI thread themselves, and so must not be   *)
(* run there: submitRequest refuses on it.                                    *)

RegisterProject == {
    Inline("project_save", <<Arg("path"), <<"window", "file">> >>),
    Inline("project_load", <<Arg("path"), <<"window", "project">> >>) }
RegisterWindow == {
    Inline("screenshot", <<Arg("path"), <<"window", "frame">> >>),
    Inline("select_panel", <<Arg("name"), <<"window", "panels">> >>),
    Inline("set_layout", <<Arg("name"), <<"window", "panels">> >>),
    Inline("set_window_size", <<Arg("width"), Arg("height"), <<"window", "frame">> >>),
    Inline("quit", << <<"window", "quit">> >>) }

Tools == RegisterTarget \cup RegisterTyped \cup RegisterRaw \cup RegisterScan \cup RegisterScanSettings
         \cup RegisterPointers \cup RegisterSymbols \cup RegisterNewEntries \cup RegisterEntries
         \cup RegisterLayouts \cup RegisterInstances \cup RegisterCode \cup RegisterScripts
         \cup RegisterBreakpoints \cup RegisterWatch \cup RegisterPatches \cup RegisterSpeed
         \cup RegisterProject \cup RegisterWindow
================================================================================
