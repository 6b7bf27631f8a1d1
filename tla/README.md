# A verification of Pointer Lab

TLA+ models of the parts of Pointer Lab that act on a live process from several
threads at once, TLC configurations that check them on small instances, and
TLAPS proofs for every size of instance. Paths below are relative to `src/`
in this repository.

## The system

Pointer Lab attaches to another process, scans its memory, writes values,
breakpoints, patches and scripts into it, and can be driven by its own window,
by a Lua script or by an agent over MCP. Everything lives in one executable and
seven kinds of thread:

| thread | runs | touches |
|---|---|---|
| UI | the frame loop (`src/ui/UiApp.cpp`), every panel, requests of the others | everything |
| debug pump | `DebugEventPump::run` | the breakpoint tables, the target's code bytes and registers, the access watch |
| Lua worker | `LuaConsole::execute` | the session, scans, the address list; the window by request |
| MCP | `McpServer::serve`, one connection at a time | read-only tools directly, mutating ones by request to the UI thread |
| freeze | `AddressListService::freezeLoop`, every 50 ms | the address list, the target's memory |
| scan, pointer scan | one worker each | a result list of their own |

and, in the target, its own threads and the speed payload's.

### Components

What each keeps, does, and must get right. `PROJECT.json` lists all of them
with their files, the modelled and the others.

* **Debug event pump** (`platform_win32`). `breakpoints_`, `stepping_`,
  `disarmed_`, `hardwareUsed_` under one mutex; attach, detach, add, remove
  from the UI thread, debug events on its own. Hard: an event is handled long
  after the thread raised it, and by then the tables have changed. Right when
  the pump's traps and steps are never passed to the target, its code is its own
  again when the pump lets go, and no breakpoint goes quiet.
* **Patch registry** (`engine_patch`). `patches_`, `reserved_`, `nextId_`;
  apply, setEnabled, remove, restoreAll, forgetAll. Hard: the mutex is not
  held across an access to the target. Right when turning patches off in any
  order gives the program back.
* **Auto assembler** (`engine_aa`). Scripts, which are on, and what each left
  to undo; add, update, setEnabled, remove, disableAll. Hard: a script is many
  writes, any of which may fail, while the target's threads run through them.
  Right when a jump always has its cave and a script is on or off, not half.
* **Requests to the UI thread** (`ui/UiAutomation.cpp`, `mcp/McpServer.cpp`,
  `scripting/LuaConsole.cpp`). A queue, and for each request whether it is
  taken and finished. Hard: time-outs, requests that point into the stack of
  the thread that made them, and a stop that joins a thread which may be
  waiting for the one that joins it.
* **Session** (`domain/TargetSession`) and the parts that hold state about the
  attached process: pump, patch list, scripts, speed. Hard: the window's
  detach takes them down in order; MCP and Lua call attach and detach on the
  session alone.
* **Address list, freezing, pointer chains** (`services`, `domain`). Entries
  read as a snapshot and written back whole by three threads.
* **Access watch** (`engine_debug`). One watch, its sites, and a pump thread
  that resolves instructions outside the lock.
* **Speed** (`engine_speed`, `payload`). A shared block, a worker in the
  target, and hooked clocks that are rebased at each change of rate.
* **Scanners** (`engine_scan`, `engine_pointer`). A worker, cancel, results
  with a limit; the search itself is a pure algorithm.
* **Symbols, dissector, disassembler boundaries, value parsing, page
  protections**. Pure functions, or tables used by one thread. Hard: edges of
  chunks and widths, names that can be read two ways, a platform call that
  fails in the middle of several.
* **MCP on the wire and the tools, the panels' actions, the script API**. What
  can be asked for, in what steps, and on which thread. Right when what is
  refused has changed nothing and what changes something runs on the UI thread.
* **Project files, layout, logging, crash handler, injector, trainer export,
  tutorial**. No state another part relies on: not modelled.

How they meet: the UI thread calls every engine; scripts call the patch
registry; the registry and the pump write the same code bytes without knowing
of each other; the pump calls the access watch; MCP and Lua reach the engines
through `services::uiCommands()` or, for the session, directly.

## Modules

The core first: what acts on the target's code from several threads.

| module | models |
|---|---|
| `DebugPump` | the pump, the target's threads and the UI's calls; `MCDebugPump` instances |
| `DebugPumpProofs` | theorems about it |
| `PatchList` | what the patch registry promises: a program with patches on top |
| `PatchRegistry` | the registry, refining `PatchList`; `MCPatchRegistry` instances |
| `PatchRegistryProofs` | theorems about it |
| `PatchedBreakpoints` | `PatchRegistry` and software breakpoints over the same bytes |
| `AutoAssembler`, `AutoAssemblerProofs` | scripts over the patch list; `MCAutoAssembler` instances |
| `UiRequests`, `RequestProofs` | the request queue, the frame loop, the MCP server's thread and a script; theorems about it, about `Wire` and about `Calls` |
| `Positions`, `Lemmas` | a sequence by positions taken from it; what the proofs need of sequences, numbers and recursive functions |

Then the parts around it:

| module | models | in run |
|---|---|---|
| `TargetSession` | attach, detach, refresh, the generation, and the caches kept by it | `parts` |
| `Attachments` | the session and the four owners of state about a process; the confirmation dialog and the whole detach | `parts`, `reattach` |
| `AddressEntries` | the address list, the user's edits, chains and the freezer's passes | `live` |
| `ShownEntries` | the window's copy of it, by revision | `parts` |
| `AccessWatch` | begin, stop, clear, record, and the breakpoint that feeds it | `parts` |
| `Speed` | the controller, the control block, the payload's worker, hooked clocks | `live` |
| `ServicesProofs` | theorems about these six | |
| `LuaScripts` | the console's worker and the Lua scanner's: hooks, pcall, C calls, coroutines, flags, joins | `live` |
| `ScanJob` over `Values` | the memory scanner's life cycle and its comparisons | `parts` |
| `PointerScan` | the search for pointer chains, the rescan, `resolveChain` | `parts` |
| `SymbolTable` | symbols, modules, exports with forwarders, both directions | `parts` |
| `AlgorithmProofs` | theorems about these two, and about `Inputs` | |
| `MemoryWrites` | `writeMemory` with its changes of page protection | `parts` |
| `Structures` | the dissector: layouts and their fields, the guess, the rows | `parts` |
| `MemoryProofs` | theorems about `MemoryWrites`, `ScanJob` and `Structures` | |
| `Wire` | a request in pieces, the checks of HTTP, a JSON-RPC batch | `parts` |
| `ToolTable`, `ScriptTable`, `PanelTable` | every MCP tool, Lua function and panel action, in the steps of its handler | through `Calls` |
| `Calls` | the three threads that run them | `parts` |
| `Inputs` over `Values`, `CodeBytes` | the pure functions, every small input | `parts` |

`MCParts` and `MCLive` are the instances of these. A behaviour of either is of
one part, which `part` names and which never changes. The parts that are proved
about are extended and keep their names, so that a run and a theorem speak of
the same definition: all of `MCParts`, `UiRequests` and `Speed` in `MCLive`, of
which `LuaScripts` and `AddressEntries` are instances. Nothing of two parts interacts in them: where parts do
meet, the meeting is in a module of its own (`Attachments`,
`PatchedBreakpoints`, `UiRequests`, `Calls`, `ShownEntries`).

### DebugPump

One step is one debug event handled (each handler runs under `mutex_` while
Windows holds the target), one call of the UI, or one thing a thread of the
target does. `mem`, `regs`, `dr6` are the target's bytes and registers,
`mode`/`at` where each thread is; the other variables are the pump's members
of those names, and `pump` is the position in `run()`: its loop, `disarmAll`,
`drainPendingEvents`, and the release. `inherited`, `misdelivered` and
`reported` are history. A trap is raised, and its event stays in flight until
some later handling; each thread has at most one in flight and they are
handled in any order. `Faults` lets platform calls fail; a thread whose rewind
fails is "derailed" and no longer promised anything. A trap that nobody owns any
more is rewound onto a thread that may already be stepping over the address:
`rewindThread` moves the instruction pointer only, so such a thread keeps its
trap flag (the third disjunct of `AbsorbStaleTrap`; without it two threads at
two addresses would leave a breakpoint quiet).

In `pump_mixed` and `pump_live` an address is the code of one thread only
(`Private`) and the user does not set a breakpoint again at an address some
thread is still stepping over (`ReaddSteppedOver = FALSE`): with either, an
int3 can be left behind, which is what `pump_stray_int3` shows. `pump_shared`
and the theorems have both unrestricted, and state what holds nevertheless.

### PatchRegistry and PatchList

A byte of code is a cell; the bytes a patch writes are stood for by its id, so
a byte always says whose it is. Each access to the target and each critical
section is one step, threads interleave between them, and any access may fail.
`PatchList` is what a user believes: code is the program with the enabled
patches on top. `ImplementsPatchList` is the refinement: an apply or a toggle
takes place when the target is written, the list follows. One thread toggles
and removes, as in the application, where only the UI thread does.

`PatchedBreakpoints` adds the other writer of code bytes, with a pump at rest.

### AutoAssembler

A script's text is what it may do: its blocks in their order (the cells it
hooks and, once, its cave, which may come after a hook), whether its
`[DISABLE]` writes bytes and frees the cave, and which section does not
compile. Enabling writes the blocks in the order of the text, as `runEnable`
does, so a text with its hook first has a jump in the code into a cave that is
allocated and not yet written; `JumpLandsInCave` grants that
(`StillToCome`) to such a text, while it is being turned on, and to no other.
Calls do not interleave (all on the UI thread), but each access to
the target is a step, because the target runs on. The patch list is used as
`PatchList` promises it. Registered symbols, `createthread` and the compiler's
own algorithms are not in it.

### UiRequests

`submitRequest` is split where the lock is released: asking for the window
("ask"), queued and in the timed wait ("waiting"), and in the untimed wait
after a time-out that found the request taken ("held"). A drain takes under
the lock and then runs requests one at a time, so time-outs fall between. The
frame loop, its minimised path, `McpServer::stop` with its pump, and the
destructor of the window are the UI thread's program, in `ui`. `Picked` (of
`Positions`) is what a drain or a withdrawal keeps of the queue, in order: it says
by positions what `SelectSeq` says by recursion, which the provers cannot expand. A render target
that cannot be recreated, and device loss, are left out.

### TargetSession and Attachments

In `TargetSession` a step is one critical section of the session: a module
table is replaced and the generation moves in the same one, while a reader that
resolves an export takes the module, reads the target and puts what it found
into the cache, three steps during which anything may be attached. The cache
and the window's copies carry the generation they were read at, and
`CachesTellTheTruth` is about that number: what carries today's is today's.

`Attachments` keeps of each owner (the pump, the patch list, the scripts, the
speed controller) only the process it acts on. Its actions are the user's ways
to give an owner something to hold, the doors by which the session is attached
and detached (the panel with its dialog; tools and scripts on the session
alone), and `requestDetach` in its order. A dialog
and its answer are separate (`pending`, `screen`), because the tools are
drained while it is open. `HeldOfTarget` has two exceptions, both history.
`apart` is the owners under whom the session was replaced and that have let go
of nothing since; a whole detach takes each out of it as it is taken apart.
`uncounted` is the script that a tool switched on behind a detach question
asked when none was on: the detach counts the scripts when it asks, and leaves
this one on (see the disagreements below).

### AddressEntries, ShownEntries, AccessWatch

All writers of the address list work on a snapshot and write a whole entry
back, each of which is a step. `FreezerKeepsEdits` excepts the ids the user
touched since the freezer's snapshot (`edited`), for which the code makes no
promise: the freezer may write its older copy over an edit. `ShownEntries` adds
the frame's two reads, the revision and the list, with the list going on
between them.

`AccessWatch` splits a hit where the lock is released: compared, recorded or
looked up, and recorded after the look-up. `foreign` counts hits of an earlier
watch in the list of this one; one is possible, the one in flight. `recorder`
is the pump's thread in the callback, `starter` the user's call. `Shown` is the
list hit by hit, so that a sum over its rows is a number of elements.

### Speed and LuaScripts

A step of `Speed` is one access to the control block or one critical section of
the clock; `caller` is the real time a hooked call has read before it takes
the lock, so that the base may move under it. `LuaScripts` counts instructions
down to the next count hook, which is the only place a loop can be stopped. What
a script is in is a stack of `frames`: a pcall, a C function that has called
Lua back (`table.sort`'s comparator, `gsub`'s callback), a coroutine it has
resumed, each of the last with a count of its own. The hook yields, and a yield
passes every pcall; but with a C function above the innermost coroutine
(`Unyieldable`) `lua_yield` raises an ordinary error, which a pcall outside
catches. A yield of a coroutine of the script's own gives control back to the
one that resumed it, whose hook comes due in its turn. So `StoppedScriptEnds` excepts a script whose hook comes
due where it cannot yield (`Beyond`), and nothing else. The predicate of the
scanner is stopped likewise.

### ScanJob, PointerScan

The worker goes chunk by chunk, the target's
memory changes between, and the user starts, cancels and detaches. In `ScanJob` a chunk
is read in one step, compared place by place, and its matches are appended to
the results in another, because `cancel` may strike between any two. The
properties compare the results against what the memory holds: for every region
that did not change under the scan, all matches and no others across the
chunks' edges. A next scan stops when its results are as many as the limit
allows and says nothing: `NextComplete` holds it to the candidates it has been
through (`Examined`), and to all of them if it has room left.

A chunk of `PointerScan` is `PointerChunk` words, read at once, and the read
ends at the first word that cannot be read: what lies after a hole in its chunk
is not looked at, and the scan calls itself complete all the same. `SweptWords`
is what it does get to see, and `Within` defines over it which addresses lead
to the target. A target that is detached from is told from one that changed:
`rewritten` frees a job of its promises, while a detach (`cut`) leaves a scan's
chains right though not all, and a rescan with those of the chains it had
`looked` at by then that lead to the address.

### SymbolTable, Wire, MemoryWrites, Structures, Inputs

`LookupsAgree` is the round trip: the name `describe` gives an address resolves
to that address, unless a symbol has a module's name or the module's own name
has a `-` in it, which the parser of expressions reads as an offset. `Wire` has a request as what
its parts come to (a head of a length, a declared and a real length, a token)
and receives it in pieces; `AnsweredAsAWhole` says the pieces do not matter, and
`AnsweredOnce` that what is answered and what is run are, in order and once
each, the entries that ask and those that call a tool. A body may also be
no text: for bytes that are not UTF-8 the answer with the parser's message
cannot be written, and what that throws ends the process
(`ParseErrorThrows`); `TerminatedByBytes` says that nothing else does.
`MemoryWrites` takes every path out of the page by page retry, and the call
that puts a protection back may fail too: the page then stays writable and is
in `warned`, which stands for the line in the log. `Structures` has
the user's edits of layouts as actions, and `setFields` with any list a project
may bring and any guess at what the instances may hold (`Objects`); a word is four
bytes, and what a word or two look like is a matter of sets. In `Inputs` one
initial state is one input; there the functions of `Values` and `CodeBytes` are
compared with what they are for. `MaxListed` stands for the 32 instructions
that `padToInstructionBoundary` decodes: a patch over more comes back as it was,
and `PadWhole` promises a whole instruction to no more than are listed.

### Calls and its tables

A table's row is a handler's steps in order: arguments (`Arg`), states (`Is`),
reads of the target (`Reads`), changes that may refuse (`Does`) or not
(`Always`), looks under a part's own lock (`Sees`), requests to the window
(`"window"`). What a step does inside a part is that part's module's concern;
`Calls` is about order and threads. `RefusedChangesNothing` names, in
`Partial`, the calls whose later step can be refused after an earlier one took
effect, a list the run shows to be complete.

## Runs

| run | bounds | shows |
|---|---|---|
| `pump_shared` | 3 threads on 1 software breakpoint, re-added at will, thread contexts may fail | traps are recognised, no breakpoint goes quiet |
| `pump_mixed` | 2 threads, 1 software and 2 hardware breakpoints in 2 registers, 1 int3 of the target's | bytes and registers are what the table says; steps are claimed; the target is clean and survives the release |
| `pump_live` | 2 threads, 2 breakpoints, the drain's deadline may strike | re-armed, past the breakpoint, detached: eventually |
| `patches` | 2 threads, 3 cells, overlapping ranges, 3 ids, faults | the registry implements `PatchList` |
| `parts` | thirteen parts, one at a time; see below | the safety of each |
| `live` | five parts, one at a time; see below | what each brings about in the end |

The bounds: every hazard of the pump needs one thread in flight and another
past it, and a third to find the first two's tables changed; two debug
registers are enough for one to be given away and another to stay. Three cells
give ranges that nest, touch and cross. `MaxId`, `PatchIds`, `MaxFrames`,
`MaxCalls`, `MaxEdits`, `MaxStarts`, `MaxJobs`, `MaxChanges`, `MaxHits`,
`MaxGeneration`, `MaxSessions` and `MaxTime` are the only bounds that cut
behaviour short, each in the guard or the set that names it.

In `parts`:

| part | instance |
|---|---|
| scan | two regions, one of two chunks and one read-only; a byte, an array that crosses a chunk, a 2-byte relative and an array-changed scan; result limits 1 and 9; 2 scans, 1 change of memory |
| pointers | 2 modules of a cell and a heap of 3, in chunks of 2 words; every initial memory, and every one with a hole at the head of the heap's first chunk; depth 3, offset 1, result limit 2; 2 jobs, 1 change or detach |
| session | 2 processes, 2 bases, 2 threads resolving exports, the window's copy, 3 generations |
| symbols | 8 addresses, modules that move between two processes, a name with a `-`, forwarders that loop, lead to an ordinal and lead on |
| watch | 2 addresses, 3 instructions, 2 registers, a list of 2 rows, 5 hits, 4 calls |
| scripts | 2 scripts of 1 or 2 hooks, one text with a hook before its cave; 2 cells, 2 caves, 4 patch ids, frees may fail |
| calls | the UI thread with the server's, and with a script's; every tool, function and action |
| attachments | 2 processes, all three doors |
| wire | every batch of up to two entries of every kind; a body that is no JSON and one that is no text; heads, lengths, tokens around each limit; 2 starts of the server |
| writes | 3 pages of 3 protections, every call may fail, those that restore too |
| list | 1 row, 2 addresses, 3 edits |
| layouts | 2 structures, fields of up to 2 words from -1 to 2, objects of 3 words in 2 or 3 instances, any of which may be gone |
| inputs | digits of base 2, codes of up to 5 bytes, listings of 3 instructions, patches of up to 5 |

Two scripts suffice for one to meet the other's jump, two threads resolving
for one to fill the cache the other uses, two rows of sites for the third to be
dropped, a batch of two for one entry to answer and one not. In `live`: a
script waiting up to 2 frames and connections of up to 2 calls; a hook every 2
instructions under up to two frames of any kind; rates of a half and of twice the real one, 2 ticks, 3 calls, a module
loaded late; 1 row, 3 edits, a resolution every 2 passes.

`parts` and `live` end with the window, a closed connection or a cap on jobs,
so their cfgs do not check for deadlock; all other passing runs do.

Each of the other runs ends in a counterexample to something the code says of
itself:

| run | what happens |
|---|---|
| `pump_stray_int3` | two threads past one int3, the breakpoint removed while one still steps: the int3 the other put back stays in the target |
| `pump_early_detach` | a detach before the loader breakpoint is handled passes it to the target, which the loop's comment says terminates it |
| `patched_breakpoints` | a patch over a breakpoint records the int3 as the original byte |
| `scripts_freed_cave` | disabling frees a cave whose jump could not be removed |
| `ui_teardown` | closing the window destroys the queue and its mutex before the script thread that uses them is joined |
| `reattach` | "Detach and attach" with something to lose only asks again and swaps the session all the same: a patch is undone in the wrong process |

Their reasons are in `PROJECT.json` under "findings", with the lines quoted.
Six more disagreements of the code with what is written of it have no run: the
model has the behaviour, the property of the passing run states what the
code does keep and names the exception, and the module states what was
promised beside it, in a definition TLC refutes when it is checked under the
constants of `Parts.cfg` (the last: under `LuaSpec` and the constants `MCLive` gives it).

| definition | what is written | what the code does |
|---|---|---|
| `LimitAdmitted` of `ScanJob` | `MemoryScanner.h:20-22`: the flag is "set when the result limit stopped the scan early" | `scanNext` breaks at the limit (`MemoryScanner.cpp:427`), sets no flag and reports "Next scan complete" (452) |
| `RescanDropsOnlyStrays` of `PointerScan` | `PointerScanner.cpp:270-272`: running the filter with nothing attached "would quietly discard a scan that took minutes" | that is asked once (274); after a detach midway the rest of the chains is dropped and the status is "Rescan complete" (326) |
| `TakesScriptsApart` of `Attachments` | `UiApp.cpp:616-622`: scripts are switched off first, since "once the handle closes nothing can" | `liveScripts` is counted when the question is asked (611-613), so a script switched on behind it is not |
| `MalformedAnswered` of `Wire` | `tests/test_mcp.cpp:202`: "Malformed JSON is answered with a parse error" | with bytes that are not UTF-8 in the message, `dump()` throws out of the catch (`McpProtocol.cpp:36-37`) and the process ends |
| `CoversWhole` of `Inputs` | `Disassembler.h:19-21`: the patch is made to cover whole instructions | 32 are decoded (`Disassembler.cpp:138`), and a patch over more is returned as it was |
| `YieldNotCaught` of `LuaScripts` | `LuaConsole.cpp:197-199`: "A yield cannot be caught: pcall passes it straight through" | under a C function that has called Lua back `lua_yield` raises, and a pcall around it catches that each time the hook is due |

Others met while modelling: a hardware breakpoint set
where a software one was just removed under a stepping thread gets that one's
bytes written (`Win32Platform.cpp:1331`); a JSON-RPC notification that names a
method such as `initialize` or one of the empty lists is answered (`Wire`'s
`Dispatch` has it); the panels' cache of resolved expressions outlives a change
of the symbols (`UiPanelsSymbols.cpp:28`).

### Fairness

`pump_live`: the pump thread runs and Windows delivers every queued event in
turn (weak fairness for each thread's event and each step of the pump), a
thread resumed under the trap flag executes its instruction, and a join
returns. Nothing obliges the user or the rest of the target's code.

`live` has the fairness its parts state. Requests: the frame loop runs on,
timed waits return, and the MCP thread goes on with a connection, its sockets
having time-outs; nothing makes a client connect or a script end, and
`QuitHonoured` is for a window that is not minimised for good, since the
minimised branch of `run()` never looks at `quitRequested_`. Console and
predicate: the console's and the scanner's threads execute instructions, and a join returns
when the thread has ended; a script or predicate may loop for ever. Clock: the
payload's worker wakes every 8 ms and a call of the controller's that has begun
is finished. List: the freezer thread wakes every 50 ms. Since one part runs
and the rest stand still, a fairness conjunct of `MCLive` is a disjunction of one
action of each part, and is weak fairness of the action of the part that runs.

## Proofs

`DebugPumpProofs`, for any threads, addresses and number of registers:

* `TypeCorrect`: `Spec => []TypeOK`, with no assumption on faults.
* `OwnTrapsAlwaysClaimed` and `TrapsAlwaysAccounted`: if writes to the target
  do not fail, no trap of the pump's is passed on. That traps are claimed is not
  inductive by itself. The invariant is that every int3 in memory, trap in
  flight and step owed is at an address the pump answers for (`Ours`): a
  software entry, an address in `disarmed`, or an int3 that was there first. It
  holds because every action that takes an entry out of the table while one of
  the three may exist puts its address into `disarmed`, and only a release, or
  a new breakpoint at the address, takes it out again. A re-arm whose write
  fails is the exception, hence the assumption.
* `BreakpointsNeverGoQuiet`: `[]ArmedOrStepped`, with no assumption at all. The
  invariant (`PhaseInv`) adds that a thread which owes a step stays at the
  address it steps over until the step is answered, ends or is derailed, so that
  it cannot hit a second breakpoint first, whose hit would make the pump forget
  the first one's.
* `RegistersAlwaysMatch`: `[]RegistersMatchTable`, if no call fails. The
  invariant (`RegisterInv`) adds that no two entries have one slot, that a
  thread just created has either nothing or the table in its registers, and that
  a pump which lets go has no entry left to program.
* `OwnStepsAlwaysClaimed` and `HitsAlwaysCreditedRight` (an action property), if
  besides the drain gets the time it needs. The invariant (`StepInv`) adds that
  a step in flight has a thread that owes it or hardware that may have caused
  it, and that a slot in some thread's DR6 belongs to the address the thread
  stopped at, or to nobody: `AddHardware` has to clear what it takes over.
* `Int3AlwaysOwned` (an int3 that is not the program's is in memory only
  while a software breakpoint owns it), `AlwaysReleasedClean` (after the pump has let go the target's bytes and its
  threads' debug registers are its own; it says nothing of trap flags) and
  `TargetAlwaysSurvives` (nothing the pump leaves behind when it lets go, an int3,
  a trap flag or a debug register, kills the target; what it passes on before
  that is another matter, as with the loader breakpoint in `pump_early_detach`), if besides
  breakpoints are kept apart (`KeptApart`: the code under a breakpoint is one
  thread's, software and hardware breakpoints are set at different addresses,
  and none is set again under a step). The invariant (`ByteInv`) adds that the
  byte a thread steps over is the original one.

The assumptions get stronger down this list and each is needed: the runs
`pump_stray_int3` and the note on `Win32Platform.cpp:1331` above are what
happens without `KeptApart`, `TrapsAlwaysAccounted` fails with a write that
fails, and a drain that runs out of time leaves a step in flight, which the
code accepts. Each layer's invariant contains the one before.

`PatchRegistryProofs`, for any cells, ranges, callers and bound on ids:

* `RegistryTypeCorrect`: `Spec => []TypeOK`.
* `PatchesNeverOverlap`: `Spec => []NoOverlap`, with any number of threads
  that apply and toggle. The invariant adds that a reservation and its call
  belong together, that ids in use are below `nextId`, and that records and
  reservations are apart from each other: what makes the gap between
  `apply`'s two critical sections harmless.
* `TargetAlwaysMatchesList` and `TargetAlwaysCode`: `[]TargetMatchesList` and
  `[]TargetIsCode`, with any access failing, if one thread toggles
  (`OneToggler`, as in the application: only the UI thread does; two that toggle
  one patch can leave the list contradicting the target). The invariant
  (`ListInv`) follows each call through its unlocked window: a record that no
  call is busy with is in the target as it says, and the bytes a call has
  captured or written are still there when it takes the lock again.
* `RegistryImplementsList`: `Spec => ImplementsPatchList`, the refinement of
  `PatchList`, step by step: the write of an apply or a toggle is the abstract
  step and every other step a stutter.

`AutoAssemblerProofs`, for any scripts, texts, places, blocks and ids:

* `ScriptsAlwaysTyped` and `OriginalsNeverJump`: `[]TypeOK` and
  `[]NoJumpInOriginals`, whatever accesses fail. The invariant (`CodeInv`): ids
  and places of patches are their own, and a jump in the code is a patch that is
  on. So where there is no patch there is no jump, and none can be recorded as
  original bytes.
* `ScriptsAlwaysWhole`: `[]ScriptsWhole`, if no write fails. The invariant
  (`CavesInv`) says whose every jump is: a patch that jumps has its id with a
  script that is on or with the call under way, and jumps into that script's
  cave; caves of different scripts differ, and a cave being made is nobody
  else's. So the cave that disabling frees has no jump left once the script has no
  ids. The blocks of a text may come in any order: a jump's cave is allocated
  at every moment, and written unless the text puts the hook first and is just being
  turned on. A write that fails breaks exactly the first, which is the run
  `scripts_freed_cave`.

`RequestProofs`, for scripts that wait for any number of frames and
connections of any number of calls:

* `RequestsAlwaysKept`: `[]RequestsKept`. The invariant (`RequestInv`): a caller
  has one request at most, in the queue, in a drain's hands or finished, and it
  waits as long as it has; what is taken is what is in hand or finished; and
  outside `stop` a server that does not run has no thread, so when the window
  pointer is cleared there is nobody left whose call would find it missing.

and for any messages, limits and size of a piece (`WireAssumption` says only
what a message consists of):

* `RequestsAlwaysAnswered`: `[]WireAnswers`. The invariant (`WireInv`): a request
  still being read has been given nothing; one being served is complete and has
  passed the checks, and what has been answered and run so far is owed to the
  entries so far, in order (`OneMore`, `AnsweredMore`). The one body that is not
  answered is one that is not UTF-8: it ends the program, before any tool has
  run for it. A server is stopped only
  without a connection, so the token a request was compared with is the token
  it is judged by at the end. `DispatchAsks` is about every entry: it is
  answered exactly if it asks.

`ServicesProofs`, first for any rows, addresses, values and edits, there being at
least one address (`AddressAssumption`):

* `FreezerNeverUndoes`: the action property `FreezerKeepsEdits`, part of what
  the run `live` checks. A pass writes back whole rows of a snapshot, so the
  invariant is about the snapshot: what is left of it is the list, but for the
  rows the user has touched since it was taken. That ids are given out once is
  needed for it: otherwise a row added could pass for one that was removed.
* `WindowShowsList`: `[]ShownIsCurrent`, because every change of the list moves
  its revision, and the window reads the revision first.

and then for any addresses, debug registers, room in the list, hits and calls:

* `ListAlwaysHonest`: `[]ListHonest`. The invariant (`WatchInv`): as long as a
  hit of another address is in hand, none of an earlier watch has been counted;
  counting one ends that, and a hit is only taken in hand for the address
  watched. A watch begun or a list cleared in between starts from none.
* `StoppedNeverMoves`: `StoppedStandsStill`, an action property, because the
  second look under the lock asks again whether the watch is active.

of the clock, for any threads, modules, rates, units and times:

* `ClockNeverBack`: `ClockMonotonic`. The invariant (`SpeedInv`): no thread has
  been told more than it would be told now for the real time it has in hand, or
  for the present if it has none. A rebase happens at the present, which is
  ahead of every time in hand, and gives none less than it had; an answer to an
  old time moves the base back, which makes every later answer the greater. So
  the code needs the branch of `fakeOf` that moves the base: without it a time
  read before a rebase would be less than the base.

of the session, for any processes, bases, threads and copies:

* `NothingKeptIsStale`: `[]CachesTellTheTruth`. The invariant: nothing is kept
  with a generation the session has not come to, and a thread that would still
  store has read the attached process alone, into a cache that is of its
  generation or empty. Empty, because a slower thread may meanwhile have emptied
  the cache for an older generation: that costs a parse and never an answer.

and then for any processes and ways to attach:

* `OwnersHoldTarget`: `[]HeldOfTarget`, with its two exceptions: an owner under
  whom the session was replaced and that has let go of nothing since, and the
  script a detach question has not counted. A detach under way has taken the owners
  apart as far as it has come, and nothing puts one together again before the
  session goes.
* `AnswerIsToTheQuestion`: `[]AnswersWhatIsShown`, inductive as it stands.

`MemoryProofs`, first for pages that are an interval and any protections:

* `WritesRestoreProtections`: `[]ProtectionsRestored`, with any call failing, the
  one that restores too: every page ends with what it had, or writable and
  warned of. The
  invariant is that the pages changed are saved once each, from the first up,
  with what they had before, and all others are as they were.

and then for any regions in the order of their addresses, any memory, jobs and
options, and any chunk size that is a whole number of values (`ScanAssumption`;
the program's is a megabyte, its values 1, 2, 4 or 8 bytes):

* `ResultsAlwaysHonest`: `[]ResultsHonest`, whatever the target writes or unmaps
  and whoever cancels; of a rescan that stopped at its limit it is about the
  candidates it has been through. The invariant (`ScanInv`) is what the worker knows half way:
    - `AllDistinct` and `OnlyBehind`: results are in the order of their
      addresses, and every one, of the batch in hand too, is behind the place
      the worker has come to. So a place found in the overlap of two chunks could only
      be one that starts in both, and none does.
    - `InChunk`: the buffer is as long as the read gave, up to the first byte
      that could not be read, and places are at multiples of the stride in the
      region and not just in the chunk, which is where the chunk size matters.
    - `AllFound`: of a region nothing has touched, every place behind the worker
      that should be found is in the results or the batch, unless the results are
      truncated.
    - `Filtered`: of the candidates behind the worker, those nothing has touched
      are in the new list if and only if they survive as memory is now, and the
      worker leaves some unseen only when the list is full.
    - `FirstDone` and `NextDone`: the same when the worker is done, said of the
      options it was started with, which nobody can change while it runs
      (`AtWork`).
  What happens outside the worker leaves all of this alone (`Bystander`), a
  change of the target because what it touches is no longer promised anything
  (`Calm`). That a read is well defined, as far as the first byte that cannot
  be read, needs a least number, which the library's theorem on well-founded
  minima gives without an induction (`LeastNumber`).

and last for any layouts, any instances and any size of object:

* `DissectorAlwaysSound`: `[]DissectorSound`. That no two fields share a byte has the
  invariant that those of a layout have a width and do not overlap (`LayoutsInv`),
  which a replaced field keeps because it is compared with all the others. That a
  guess tiles the object is an induction over a recursive function: there is a
  function that satisfies the definition (`GuessDefined`), and from each slot on
  its fields tile the rest (`Tiles`), or there would be a last slot at which
  either fails, which `LeastNumber` turns into a contradiction.

`AlgorithmProofs`, first for any regions, modules, memory, pointers, depth, offset
and limits (`PointerAssumption`):

* `ChainsAreHonest`: `[]ChainsHonest`, whatever the target does and whoever
  cancels. `Within` is a recursive function; that one exists, and grows with the
  number of pointers, is proved first. It is about the words a scan gets to see: after a hole none of
  its chunk. The invariant (`ChainInv`) has a part for
  each phase of a job under which nothing was rewritten:
    - `Scanning`: what has been seen is within the depth, or is a cell behind the
      worker that needs one pointer more (`ScanSound`); unless the search is
      truncated or detached, all of these have been seen, those at this very depth are the
      frontier, those one further on the next one, and each in a module is the root of a
      chain (`ScanWhole`). The offsets of both frontiers lead to the target.
    - `Scanned`: so when there is nothing to go on from, nothing lies further off,
      however deep one may look.
    - `Filtering`: a rescan has kept, of the chains behind it, and no further than
      it was attached (`looked`), those that lead to the new address, in order.
  What the target does only takes away what is promised (`rewritten`, `cut`).

and then for any modules, exports, symbols and expressions (`SymbolAssumption`):

* `LookupsDoAgree`: `[]LookupsAgree`. The invariant (`SymbolInv`) is no more than that
  the session's table is one of the layouts while attached and else empty. The rest
  is about `ResolveExport`: what it has come to after each forwarder is in every set
  of exports that is closed under forwarders, by induction on their number.

and last of the pure functions, for any base of digits and of bytes, any widths,
texts, patterns, chunks and sizes, and any table of lengths of instructions
(`InputsAssumption`):

* `AlgorithmsAlwaysSound`: `[]AlgorithmsSound`. A state is one input and never
  changes, so there is no invariant to find: the work is to say of each function
  what it computes, for an input of any length.
    - Values. The number that digits stand for is below the power of the base
      that their count allows (`NumberFits`), different digits are different
      numbers (`NumberTells`), and packing and unpacking undo each other (`Packed`,
      `Unpacked`). So a value and another a step above it differ by the step and a
      multiple of the width's range, which reads the same from both ends: a rise
      that wraps is a fall that wraps (`RiseIsFall`, `CompareLaws`).
    - Text. The parsers pick positions out of a text, and what is picked is told
      by how many positions are before each (`Ascending` and `Picked`, in `Lemmas`).
      In a text of digits alone bytes start at the odd positions, for both parsers
      (`StartsOfDigits`, `PairsOfDigits`): `ReadBack` and `ParsersDoAgree`.
    - Patterns. After some chunks, what is found is every place that begins in
      them, in order: the places of a chunk are all behind those of the next
      (`ChunkIs`, `AscendingJoined`), so nothing over an edge is lost or found twice.
    - Code. A listing visits exactly the boundaries (`BoundariesListed`): it never
      steps over one, being closed under the step and skipping nothing. A padded
      patch ends at the least that is far enough, if no more are listed than
      `MaxListed` (`PaddedWhole`), and the greatest
      before an address is an instruction that ends there (`Landed`,
      `PrecedingIsReal`).
  Each recursive function is shown to exist first (`Recursion`), and what holds
  all along it by there being no first place where it fails.

`RequestProofs` ends with the tools, script functions and panels, for any set of
threads:

* `ToolsAlwaysMarshalled` and `RefusedCallsChangeNothing`: `[]ToolsMarshalled` and
  `[]RefusedChangesNothing`. First every row of the three tables is shown to be
  what it should (`ToolsOnTheirThreads`: a tool of the server's thread has no step
  that changes; `ToolsOrderly`, `FunctionsOrderly`, `PanelsOrderly`: no step that
  changes comes before one that can refuse, but in the operations of `Partial`).
  The invariant (`CallsInv`) then says: a call that is changing something stands at
  a step that does, one that has changed something is past one (`CallHonest`),
  the server's thread has only calls that need not be marshalled, and only those that
  need it are handed to the window.

Each of these states the very definition its run checks, but for
`FreezerNeverUndoes`: `live` checks that formula of an instance of
`AddressEntries`, as a part of `EntriesKept`.

Only model-checked, because it is out of the provers' reach: liveness under
fairness (`RearmedEventually`, `DetachReturns`, `TrappedThreadsGetPast`,
`RequestsEnd`, `StoppedScriptEnds`, `DoesAsAsked`, and `FreezeGivesUp` and
`ChainsFollowed` in `EntriesKept`), and `ENABLED`.

Every other property of a passing run has a theorem.

## Not modelled

The components `PROJECT.json` marks `not_modelled`, with the reasons: the
injector (single platform calls), the project store and settings (a text format
and a rename, one thread), trainer export (text), the Lua sandbox (a list of
names), logger, paths, crash handler and start-up, the tutorial target.

Inside the modelled components:

* texts, logs, rate limits, layout, drawing, filters and sorting;
* the compiler of scripts (sections, directives, the layout fixpoint): a text is
  what it may do. Registered symbols and created threads are left out with it;
* the instruction set: a decoder is any table of lengths, Zydis and Keystone are
  external. The parsing of a module's export directory, and of import tables by
  the payload, is left out; what is resolved or hooked is in;
* floating point: comparisons are of integers and bytes;
* the 32-bit clocks' truncation in the payload: one clock stands for the four;
* partial writes of a patch (a write of the registry's happens or does not;
  `MemoryWrites` has the partial ones) and WOW64 contexts;
* scripts that take the count hook off with `debug.sethook`: a stop is then not
  promised, and `StoppedScriptEnds` is not about them;
* threads of the target that run into a cave not yet written, or are still in one
  that is freed: the jump is modelled, not the program counters;
* hotkeys as Win32 registers them: a hotkey is an action of the user's.

## Plan

Modelled, in the order of what matters to someone with a program attached: what
writes to the target's code (`DebugPump`, `PatchRegistry`, `AutoAssembler`),
the threads that ask for it (`UiRequests`, `Calls`), who owns what about which
process (`TargetSession`, `Attachments`), then the parts with a thread of
their own, then the pure functions.

Left to TLC: the liveness properties, for the reason above.

Still to model: the sections and labels of a script's text with the symbols it
registers; a thread of the target inside a cave.
