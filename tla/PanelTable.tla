-------------------------------- MODULE PanelTable ------------------------------
(* What the user can ask for: every control of every panel that reaches past  *)
(* the window, in the steps its handler takes on the UI thread.  A control    *)
(* that is greyed out has the condition as its first step; Confirmed stands   *)
(* for the dialog an action is put to first.                                  *)
EXTENDS ScriptTable

Panel(name, steps) == [name |-> name, marshalled |-> FALSE, steps |-> steps]
Confirmed == Is("confirmed")
Shows == Always("panels")               \* opens or turns to a panel

Watches == <<Arg("width"), Attached, Arg("aligned"), Does("pump"), Always("watch"), Does("pump")>>
BeginAccessWatch(name) == Panel(name, Watches \o <<Shows>>)

--------------------------------------------------------------------------------
(* The target                                                                 *)

ProcessPanel == {
    Panel("refresh_processes", <<>>),
    Panel("attach", <<Does("session")>>),
    Panel("detach_and_attach", <<Attached, Confirmed, Always("session"), Does("session")>>) }
ModulesPanel == { Panel("refresh_modules", <<Attached, Always("tables")>>) }
RegionsPanel == {
    Panel("refresh_regions", <<Attached, Always("tables")>>),
    Panel("view_region", <<Shows>>) }

(* The whole detach: scripts, speed, pump, patches, session.                  *)
DetachPanel == {
    Panel("detach", <<Attached, Confirmed, Always("scripts"), Always("speed"), Always("pump"), Always("patches"),
                      Always("session")>>) }
Menu == {
    Panel("refresh_target", <<Attached, Always("tables")>>),
    Panel("show_panel", <<Shows>>),
    Panel("reset_layout", <<Shows>>),
    Panel("dump", <<Does("file")>>) }
CommandBar == {
    Panel("refresh_all", <<Attached, Always("tables")>>),
    Panel("reset_layout_from_the_bar", <<Shows>>) }

--------------------------------------------------------------------------------
(* Scanning                                                                   *)

(* Options are set when a scan starts, and not when it is refused.            *)
OptionsFirst == {                       \* mutant: set before the value is looked at
    Panel("first_scan", <<Attached, Arg("supported"), Always("scan"), Arg("value"), Always("scan")>>),
    Panel("next_scan", <<Is("results"), Arg("supported"), Arg("value"), Always("scan"), Always("scan")>>),
    Panel("cancel_scan", <<Is("scanning"), Always("scan")>>) }
ScanControls == {
    Panel("first_scan", <<Attached, Arg("supported"), Arg("value"), Always("scan"), Always("scan")>>),
    Panel("next_scan", <<Is("results"), Arg("supported"), Arg("value"), Always("scan"), Always("scan")>>),
    Panel("cancel_scan", <<Is("scanning"), Always("scan")>>) }
ScanResults == {
    Panel("add_result", <<Is("results"), Always("entries")>>),
    Panel("view_result", <<Is("results"), Shows>>),
    BeginAccessWatch("watch_result"),
    Panel("dissect_result", <<Is("results"), Always("layouts"), Shows>>) }

PointerPanel == {
    Panel("pointer_scan", <<Attached, Resolves, Always("chains")>>),
    Panel("pointer_rescan", <<Is("chains"), Attached, Resolves, Always("chains")>>),
    Panel("cancel_pointer_scan", <<Is("scanning"), Always("chains")>>),
    Panel("add_chain", <<Is("chains"), Always("entries")>>) }
LuaScannerPanel == {
    Panel("lua_scan", <<Attached, Always("lua_scan")>>),
    Panel("cancel_lua_scan", <<Always("lua_scan")>>),
    Panel("add_lua_result", <<Is("results"), Always("entries")>>),
    Panel("view_lua_result", <<Is("results"), Shows>>) }

--------------------------------------------------------------------------------
(* The address list                                                           *)

(* The entry is replaced even when its value cannot be written.               *)
AddressEditor == {
    Panel("add_entry", <<Resolves, Always("entries"), Always("target"), Always("entries")>>),
    Panel("apply_entry", <<Resolves, Arg("offsets"), Always("target"), Always("entries")>>),
    Panel("cancel_edit", <<>>) }
AddressRows == {
    Panel("freeze", <<Does("entries")>>),
    Panel("edit", <<Shows>>) }
AddressActions == {
    Panel("write", <<Arg("value"), Always("entries"), Does("target")>>),
    BeginAccessWatch("watch_entry"),
    Panel("dissect_entry", <<Always("layouts"), Shows>>),
    Panel("remove_entry", <<Confirmed, Does("entries")>>) }
Hotkeys == { Panel("toggle", <<Is("bound"), Always("entries")>>) }

SymbolsPanel == {
    Panel("define", <<Resolves, Does("symbols")>>),
    Panel("re_resolve", <<Is("expression"), Resolves, Does("symbols")>>),
    Panel("undefine", <<Confirmed, Does("symbols")>>) }

--------------------------------------------------------------------------------
(* Memory, code and what is done to it                                        *)

MemoryNavigation == {
    Panel("go", <<Resolves, Shows>>),
    Panel("page", <<Shows>>) }
MemoryHex == {
    Panel("poke", <<Arg("byte"), Does("target")>>),
    Panel("follow", <<Reads("target"), Shows>>),
    Panel("disassemble_here", <<Shows>>),
    BeginAccessWatch("watch_here"),
    Panel("dissect_here", <<Always("layouts"), Shows>>) }
MemoryPatch == { Panel("patch_bytes", <<Arg("cursor"), Arg("hex"), Confirmed, Does("patches"), Shows>>) }
DisassemblyPanel == {
    Panel("follow_branch", <<Shows>>),
    Panel("assemble_and_patch", <<Resolves, Attached, Arg("assembles"), Sees("target"), Confirmed, Does("patches"), Shows>>) }
BreakpointPanel == {
    Panel("attach_debugger", <<Does("pump")>>),
    Panel("detach_debugger", <<Always("pump")>>),
    Panel("set_breakpoint", <<Resolves, Does("pump"), Does("pump")>>),
    Panel("remove_breakpoint", <<Confirmed, Does("pump")>>) }
AccessWatchPanel == {
    Panel("stop_watch", <<Is("watching"), Always("watch"), Always("pump")>>),
    Panel("clear_watch", <<Always("watch")>>),
    Panel("show_site", <<Shows>>),
    Panel("script_from_site", <<Is("resolved"), Always("scripts"), Shows>>) }
NopInstruction == {
    Panel("nop", <<Is("resolved"), Arg("length"), Attached, Confirmed, Does("patches"), Shows>>) }
PatchesPanel == {
    Panel("toggle_patch", <<Does("patches")>>),
    Panel("remove_patch", <<Does("patches")>>),
    Panel("restore_all", <<Is("patched"), Confirmed, Always("patches"), Does("patches")>>),
    Panel("show_patch", <<Shows>>) }

(* A check allocates nothing; a script that is on cannot be saved over.       *)
ScriptsList == {
    Panel("new_script", <<Always("scripts")>>),
    Panel("toggle_script", <<Is("saved"), Does("target"), Arg("compiles"), Does("scripts")>>),
    Panel("select_script", <<Confirmed, Shows>>),
    Panel("remove_script", <<Confirmed, Does("scripts")>>) }
ScriptEditor == {
    Panel("save_script", <<Is("off"), Does("scripts")>>),
    Panel("check_script", <<Reads("target")>>),
    Panel("template", <<Confirmed>>) }

InjectionPanel == {
    Panel("allocate", <<Confirmed, Does("target"), Shows>>),
    Panel("remote_thread", <<Resolves, Confirmed, Does("target")>>),
    Panel("load_library", <<Arg("path"), Confirmed, Does("target")>>) }
SpeedPanel == {
    Panel("set_speed", <<Attached, Arg("scale"), Does("speed"), Does("target")>>),
    Panel("remove_hook", <<Is("loaded"), Confirmed, Does("target"), Does("target")>>) }
TrainerPanel == { Panel("export", <<Is("entries"), Does("file")>>) }

StructureList == {
    Panel("new_layout", <<Always("layouts")>>),
    Panel("rename_layout", <<Does("layouts")>>),
    Panel("remove_layout", <<Confirmed, Does("layouts")>>) }
StructureRows == {
    Panel("guess", <<Resolves, Reads("target"), Does("layouts")>>),
    Panel("read_rows", <<Resolves, Sees("target")>>) }
FieldEditor == { Panel("apply_field", <<Does("layouts")>>) }
FieldMenu == {
    Panel("retype_field", <<Does("layouts")>>),
    Panel("remove_field", <<Does("layouts")>>),
    Panel("add_instances", <<Resolves, Always("entries")>>),
    BeginAccessWatch("watch_field") }

--------------------------------------------------------------------------------
(* The program                                                                *)

LuaPanel == {
    Panel("run", <<Is("idle"), Always("script")>>),
    Panel("stop_script", <<Is("scripting"), Always("script"), Always("scan")>>) }
McpPanel == {
    Panel("start_server", <<Arg("port"), Does("server")>>),
    Panel("stop_server", <<Is("serving"), Always("server")>>) }
LogPanel == { Panel("capture_level", <<Always("log")>>), Panel("clear_log", <<Always("log")>>) }
(* A new project keeps the symbols; a loaded one does not.                    *)
ProjectMenu == {
    Panel("new_project", <<Confirmed, Always("entries"), Always("scripts"), Always("scripts"), Always("layouts")>>),
    Panel("open", <<Arg("file"), Does("project")>>),
    Panel("save", <<Does("file")>>) }

Panels == ProcessPanel \cup ModulesPanel \cup RegionsPanel \cup DetachPanel \cup Menu \cup CommandBar
          \cup ScanControls \cup ScanResults \cup PointerPanel \cup LuaScannerPanel \cup AddressEditor
          \cup AddressRows \cup AddressActions \cup Hotkeys \cup SymbolsPanel \cup MemoryNavigation
          \cup MemoryHex \cup MemoryPatch \cup DisassemblyPanel \cup BreakpointPanel \cup AccessWatchPanel
          \cup NopInstruction \cup PatchesPanel \cup ScriptsList \cup ScriptEditor \cup InjectionPanel
          \cup SpeedPanel \cup TrainerPanel \cup StructureList \cup StructureRows \cup FieldEditor
          \cup FieldMenu \cup LuaPanel \cup McpPanel \cup LogPanel \cup ProjectMenu
================================================================================
