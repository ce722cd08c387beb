# esp32-fx in TLA+

esp32-fx runs the `fx` coding agent, compiled to WebAssembly, on an ESP32-S3 board with 8 MB of
PSRAM, no MMU and Linux. This directory holds TLA+ models of its runtime, the TLC runs that check
them, and theorems about them checked by TLAPS. The models follow the code in `src/`; PROJECT.json
names, for every definition, the lines it stands for.

    tlc -workers 2 -config AcpClient.cfg MCAcpClient      # one run
    tlapm AcpClientProofs.tla                             # one proof module

## The system and its parts

On the board, `fx-eink` takes a prompt, starts `fx-wamr` (the WAMR interpreter with the fx module),
talks to it over two pipes and shows the answer on an e-paper panel with `einkctl`. `fx-wamr` gives the
guest three things: memory, HTTP streams to the model provider, and a few tools of the coding example.
Two regions of PSRAM are reserved at fixed addresses, outlive every process, and are never cleared by
Linux. On the host, `fxctl` (Python) drives the board over its serial console: it installs, logs in,
deploys modules and runs prompts.

| part | state it keeps | operations | what makes it hard | what makes it correct |
|---|---|---|---|---|
| runtime allocator `runtime/fx_wamr_runner.c:88-302` | metadata slots, linear arena | malloc, realloc, free of WAMR; init, destroy | holes in either order; in-place resize; an arena that was left dirty | blocks apart; first fit is complete and ends; fresh guest memory is zero; no pointer goes to the wrong heap |
| HTTP streams `runtime/fx_wamr_native.c` | stream slots, owned or lent buffer, request sink | open, next, close, request, init, deinit | failure after any piece; second close; one lent buffer | no leak, no double free; a stream reads its own whole response |
| contiguity guards `fx_wamr_native.c:144-261` | two mapped guards | prepare, lend, rearm, release | mmap and munmap fail one by one | lent only to the test; taken back only after it is gone |
| test runner `runtime/fx_example_tools.c:133-235`, helper `fx_example_test.c` | pipe, child, deadline, reply | spawn, read, wait, kill, reap, reply | a child that loops, forks, closes its output; EOF against exit against timeout | always returns; leaves nothing running; reports success only for a run it saw whole |
| example file tools `fx_example_tools.c:28-131, 237-307` | project files, temporary file | read_project, replace_battery | a crash between temporary file and rename; a name left by a dead process | replacement is all or nothing |
| ACP client `runtime/fx_eink.c` | child, pipes, response, held arenas, transcript | claim, wait for marker, three turns, finish, release, render, cleanup | a runner that talks, fails or dies anywhere; Ctrl-C and SIGPIPE | arenas never wiped under a guest; every guest starts on zeros; what is shown is the whole answer; every run ends |
| runner lifecycle `fx_wamr_runner.c:352-563, 565-887` | arenas, guards, runtime, module, stdio | load, instantiate, run, tear down in reverse | an error at any of some twenty steps | what was acquired is released once, in order |
| trust-root loader `fx_wamr_native.c:38-88` | one certificate buffer | bounded PEM streaming | a certificate longer than the buffer | no partial certificate is used |
| e-paper driver `runtime/einkctl.c` | GPIO lines, SPI device, panel power, text layout | open, reset, initialise, transfer, refresh, power off | BUSY races, timeouts, failure in the middle | no command to a busy panel; power off on every path; exported lines given back |
| guest arena `guest/compact-arena.zig`, `compact-allocator.zig` | node list, end index | alloc, resize, free, reset | only the newest allocation can shrink or be freed | live allocations never overlap |
| serial console `tools/board_io.py` | byte stream, markers | command, download, credentials | late output of a timed-out command; lost and torn lines | an answer belongs to the command that was asked |
| install, login, network `tools/cli.py`, `tools/network.py` | access record, pending record, board password | setup, change of password, login, recovery | host crash or lost answer between the two sides | a password the host chose is never lost; the record kept opens the board |
| deployment `tools/deploy.py`, `cli.py:137-157` | served module, current path and digest on the board | serve, download, verify, switch, execute | interrupted switch; server thread against console thread | what is executed is what was deployed |
| SD storage `board/rootfs/fx-sd`, `S07fx-sd-home` | card, mount, home, adoption marker | prepare, mount, adopt | power loss in the middle of an adoption | the user's files survive |
| coding example driver `tools/example.py`, `tool_trace.py`, `fx-example-preflight` | artifacts, verdict | run, collect, judge | partial artifacts | a pass needs every artifact |
| RSA shim and self test `runtime/fx_rsa_hw.c`, `fx_crypto_selftest.c` | one ioctl | modular exponentiation, fallback | - | equals software |
| build, packaging, fetching `tools/build.py`, `package.py`, `fetch.py`, `overlay.py` | files on the host | compile, download, verify, pack | - | - |
| kernel and upstream patches `board/kernel`, `guest/*.patch` | - | - | their program is elsewhere | - |

How they meet: `fx-eink` and `fx-wamr` share the two arenas (addresses passed in the environment), the
pipes and the process status; the allocator puts guest memory in the linear arena and the streams put
responses in the stream arena; the test tool borrows the guards' blocks for `/bin/sh`; `fxctl` meets the
board only through the console and one HTTP download. The hazards this gives rise to, each at its line and with
the properties that watch it, are under "hazards" in PROJECT.json.

## Modules

| module | models | extends |
|---|---|---|
| `RuntimeAllocator` | allocator callbacks of fx-wamr, from process start to death | |
| `ArenaRegions` | abstract specification: disjoint regions of one arena | |
| `MCRuntimeAllocator` | sizes for TLC | `RuntimeAllocator` |
| `RuntimeAllocatorProofs` | theorems of `RuntimeAllocator`, and that it implements `ArenaRegions` | `RuntimeAllocator`, `TLAPS` |
| `HttpStreams` | streams and requests | |
| `HttpStreamsProofs` | theorems of `HttpStreams` | `HttpStreams`, `TLAPS` |
| `TestRunner`, `MCTestRunner` | `run_tests`, the guards, the test process; its bounds for the run of the guards | |
| `AcpClient`, `MCAcpClient` | `fx-eink` beside a runner, run after run | |
| `AcpClientProofs` | theorems of `AcpClient` | `AcpClient`, `TLAPS` |
| `ProjectTools` | `read_project` and `replace_battery` across kills and losses of power | |
| `MCExampleTools` | the tools of the example project for TLC | `ProjectTools`, `TestRunner` |
| `ExampleToolsProofs` | theorems of `ProjectTools` and `TestRunner` | `ProjectTools`, `TestRunner`, `TLAPS` |
| `RunnerLifecycle` | `main` of fx-wamr: acquisition, failure, teardown | |
| `Deploy` | `fxctl load` and `execute` of a user's module, and fx-wamr started on it | `RunnerLifecycle` |
| `MCFxWamr` | fx-wamr for TLC: its process and its streams | `Deploy`, `HttpStreams` |
| `TextLayout` | the text of `einkctl`: sanitising, wrapping, paging | |
| `PanelDriver` | the panel side of `einkctl`: GPIO lines, SPI device, commands, and the panel | |
| `Einkctl`, `MCEinkctl` | the program `einkctl`: `render`, `display` and `clear`, run after run | `TextLayout`, `PanelDriver` |
| `EinkctlProofs` | theorems of `Einkctl` | `Einkctl`, `TLAPS` |
| `BoardAccess`, `MCBoardAccess` | `fxctl load` and `execute` up to the login, their records, the boards' terminals | |
| `FxctlProofs` | theorems of `RunnerLifecycle`, `Deploy` and `BoardAccess` | `Deploy`, `BoardAccess`, `TLAPS` |
| `SdHome` | `fx-sd` and its start at boot, with cards that are swapped | |
| `SdHomeProofs` | theorems of `SdHome` | `SdHome`, `TLAPS` |
| `CompactArena`, `MCCompactArena` | the arena the guest allocates a turn from | |
| `CompactArenaProofs` | theorems of `CompactArena` | `CompactArena`, `TLAPS` |

`MCFxWamr` and `MCExampleTools` put two modules into one run that share no state: a behaviour takes one of the two at its
beginning and makes only that one's steps, so each is checked exactly as it would be alone.

Operators marked "Faulty:" in a module are deliberate errors (a forgotten guard, an off-by-one). No
action uses them; each is exchanged for the definition it resembles to see that a property notices.

### RuntimeAllocator

`wamr_malloc`, `wamr_realloc` and `wamr_free` send a request to the linear arena (guest memory), to the
metadata arena (objects above `SmallMax`) or to libc. The loop of `metadata_malloc` is modelled turn by
turn (`SearchSkip`, `SearchPlace`, `SearchFail`), because whether it ends and what it skips is the
question; every other callback is one action. `held` is a history of the pointers WAMR believes it owns,
`dirty` the pages of the linear arena that are not zero. A process may be killed anywhere (`Killed`); in
borrowed mode the next one finds the arena as it was left. Guest memory is counted in pages, the metadata
arena in bytes, since its rounding to 8 matters. Arithmetic does not wrap: sizes are compared with the
arena before they are added (`:180`, `:189`, `:251`). `fx-wamr` is single threaded while it calls the
allocator.

### HttpStreams

A request owns a sink (heap block, the lent buffer, or the guest's own buffer), takes pieces, and ends as
a stream or fails after any number of pieces. A response is a tag and a length: `content` says whose
bytes a buffer holds. `realloc` may move the block on every piece. Curl is the environment, and what it knows is in the
model apart from what the sink holds: `given` counts the bytes it has handed over, `refused` says that `write_body` once
answered with another count than the piece's. It hands over pieces in order until one is refused, and reports success when
all were given and none was refused (`Complete`), whatever `len` is. That an opened stream is whole is then a consequence of
`write_body`, which takes a piece as a whole or refuses it; one that clamped and answered with the full count would let curl
succeed with a short stream (`WriteBodyClamps`, the mutant). The guest may read and close any
handle, used or not, valid or one beside the table, at any time no request runs (a request blocks it).

### TestRunner

One action per system call of `run_tests`; the guards' three functions are the sets of guards they can
leave behind, because `mmap` and `munmap` fail one by one. The test process writes, closes its output,
forks one descendant, loops or exits, and so does the descendant. Bytes are counted, not distinguished.
Time is one fact, "the deadline passed". Not in the model: a descendant that leaves its process group
(the helper's `RLIMIT_NPROC` of 1 and a shell without `setsid` are what prevents it), reuse of a pid
between two system calls, and a `SIGCHLD` set to be ignored, which nothing in the program does.

### AcpClient

`main`, `start_fx`, `read_until_id`, `finish_fx` and `run_renderer` in the order of the code, each exit to
`cleanup` included. It models the board build, where both arenas are fixed addresses; the `mmap` variant for
other builds is not modelled. One client runs at a time: its callers are a foreground command of one
console. A message is one JSON line with a kind and an id; text is counted in chunks, and `said` counts
the chunks the prompt produced, so that "the whole answer" can be stated. Lines the client cannot take
(too long, malformed, no memory) are the kind "bad". The runner may use the arenas, answer, say
anything, fail, or exit at any moment. Its own requests and its updates carry any id or none (`AgentIds`): the agent
numbers its requests itself, and `read_until_id` asks of a line only that its first `"id"` is the one it waits for. `usurped` is
a history: a line that is no answer has ended a turn of this run. `WholeUnlessUsurped` says what is true of the text shown;
`RendersWholeAnswer`, without the proviso, is a finding. `Interrupt` is a Ctrl-C to the whole foreground group, `SendToDead` the
SIGPIPE of a write to a dead runner; both end the client without its cleanup. `ModuleRun` is a
`fxctl execute --module`, which starts `fx-wamr` without the client and leaves both arenas dirty.

### ProjectTools

One action per system call of the two file tools. A file is a prefix of a content, so that "partly
written" can be said; bytes are counted, not distinguished. The syntax of the arguments comes down to valid or
not, and the checks on a file (regular, one link, size) to denied or not. Processes are killed between any two
calls and followed by one with the same or another pid; power is lost at any time. Of the file system
it is assumed that a rename replaces a name at once, and that after a loss of power a name stands for what it stood
for at some moment since the last write-back, with at least the bytes that were synchronised. The card of
the board is FAT, which has no journal: there this is an assumption, not a guarantee.
`disk` is the set of contents a loss of power could leave. Two outcomes that no text of the repository speaks
about are in the model without a property: a `read` that fails after some pieces leaves the file's bytes over the
text of the refusal ("garbled"), and the temporary file of a killed process denies every replacement of
a later process with its pid.

### RunnerLifecycle

`main` of the board build as a list of steps (`Setup`) that each pass or go to `cleanup`, and the list of
what cleanup releases (`Teardown`). `load_module_bytes` is modelled by system call because its result decides who
frees what: flash, read-only mapping, or a buffer WAMR may release. `Needs` says what depends on what; it
is knowledge about WAMR and curl, and used by a property only. `stain` is what a process left in memory that
outlives it. The allocator's callbacks are `RuntimeAllocator`, the slots of the streams `HttpStreams`, the lending
of the guards `TestRunner`; here the guest may use the arenas and lose guards at any moment. A process is started
(`StartProcess`) by `Deploy`, which also says what module it is given.

### Deploy

`load` and `execute --module` each type one line to the board's shell, a chain of `&&`: `step` is the command the shell has
come to, and every command may fail (`CommandFails`), which ends the line. The host is a second process: `served` is set
by the thread of its HTTP server, `status` is the exit status its console thread can read, and it may give up while
the board goes on (`GiveUp`); the next command then waits for a free shell, as `login` waits for a prompt. `object` is
the file of each module, named by its digest; `incoming` the file curl writes; `current` the file `current.sha256`, which is
truncated before it is written (`Switch`). `current.path` is written and read by nobody, so it has no variable. `writes`
says what a loss of power may undo: nothing in RAM survives it; on the SD card what was written since the last `sync` may or
may not, the file just written in any state. `Launch` is the one place where the composition meets: it starts `RunnerLifecycle` on
the module that was hashed. `LaunchOther` is a start on the firmware's module, as of `fx-eink`, or on any file by hand.

One disagreement of the two threads is in the model and harmless: the board may report success before `served` is set, and
`load` then fails although the module is there. The reverse does not happen.

### TextLayout

`Sanitize` is one round of the loop of `sanitize_text`, `WrapLine` one line of `wrap_text`; `Frame` is what
`render_text` draws of a page. A byte is what the code tells apart (twelve kinds; "lead" and "continuation" are bytes
above 0x7f), a line is a stretch of the text. The loop of `wrap_text` that trims trailing blanks is left out because
the test behind it undoes it in every case. A CSI sequence ends at any printable byte, where the code wants one of 0x40 to 0x7e:
more is dropped by the code, and no property depends on it. Glyphs, title and footer are left out.

### PanelDriver

`Sequence` is the run of `display` or `clear` that goes well, made of the steps of `panel_open`,
`panel_initialize` and `panel_display`; each step's action passes to the next or fails, to `panel_close` when
opening and to the label `fail` afterwards. `power`, `work`, `ram` and `shown` are the panel: it is at work on a
power-on, refresh or power-off for as long as it likes (`PanelFinishes`), which is what makes the waits time
out, and a run may be killed at any step. What one run leaves - exported lines, a panel at work - the next one finds.
The GPIO lines of a run that is killed stay exported for good, since later runs do not own them; the code promises
nothing else.

Assumed of the panel, whose data sheet is not in the repository: BUSY is low from the moment it has taken
a command, a reset ends whatever it was doing, and it does not refresh without power. Unexporting a line
does not fail (`gpio_close_line` ignores the result), and one `einkctl` runs at a time.

### Einkctl

`main`: what is read is laid out, and the page asked for is written to a file or becomes the frame of a run of the
panel; `clear` runs the panel with a white frame. Layout and panel meet in `Start(Frame(page))`, so "the panel shows
its frame" is about the text that was read. Whatever is not displayed is laid out before the first run with
the panel (`Readable`): a bound, as the panel has no part in it. An input of exactly `MAX_INPUT_BYTES` is refused, as in
the code, which sees the end of an input only by reading on.

### BoardAccess

The host's commands step by step, and the terminal of each board: a line that is typed lies in `queue` until getty,
login, the shell or passwd takes it, which may be after the host has given up. That is what makes retries hard: the
password of an earlier attempt may be taken as a user name, or an old command by the shell. Output is lost unless a
command has the port open, and the words of an output are a set, since `until` drops whatever came along with the
word it waits for. `Run` with its marker makes all earlier markers worthless (`Outdated`), as `secrets.token_hex`
does. `Abandon` is any timeout, failure or Ctrl-C and runs the `finally`; `HostKilled` does not. The records are
`access`, `pending` and the archives; a record is written in one step, or torn (`TornFile`). The words this code types are `Words`; a random password of 32 characters is
assumed to be none of them (`AccessAssumption`).

`Inspect` is the person whom "pending access record exists; inspect it before retrying" addresses: it is assumed
to keep a pending record exactly when it opens the board. Also assumed: a serial line that alters nothing, one
command at a time (the lock on the port), and passwd writing through to the flash. `execute` refuses a board other
than the one of its record. The board's passwd is BusyBox's (`src/README.md:89-90`), which lets root take any password, the empty one
included; it may also refuse one. That matters because every login begins with an empty line: a host killed between passwd's two
questions leaves them to the next two logins, and root's password is then empty. `Recoverable`, which is what the comment at
`network.py:89` says, is therefore a finding; `NeverUnknown` is what holds. The code compares serial devices where `Knock` compares boards
(`cli.py:37`): two boards used one after the other on one port are the same to it.
Joining the network, the CA link and the clock (`network.py:30-68, 128-163`) are one step that succeeds or fails.

### SdHome

The functions of `fx-sd` in the order of the script; `cp -a` copies one file after the other and may stop within one
(`Torn`). Each write of the user makes a new version of a file; `live` is a history of the versions he has not replaced
himself. A command may fail or be killed between any two steps. The card changes only while the board is off, and
`Reboot` is clean: what a loss of power does to a FAT card is beyond what the script could promise. A card that is swapped after
an `unmount`, without a reboot, comes to the same.

### CompactArena

`nodes` is the list of nodes, of which the head alone is allocated from; `live` the regions the client may use.
A node's data begins at some address, of which only the remainder by the alignments matters (`origin`);
positions in a node are offsets. `Placements` is what an allocation can come to: the head, a new node, or nothing when
the child allocator has no more (`MaxNodes`). A remap that moves does not free the old place, as in the code.
Lengths are positive: `std.mem.Allocator` never hands a length of 0 to an implementation. Checked additions
(`:82-83`) do not wrap.

## What the runs check

| run | shows |
|---|---|
| `allocator` | Two slots in an arena of four 8-byte units, two guest pages on an arena that may be dirty from the start, a libc block. `ArenaSafe`: blocks stay inside, aligned, apart. `FailsOnlyWithoutRoom`: a NULL means that no aligned offset would do. `SearchEnds`: the search terminates. `ImplementsRegions`: the whole implements `ArenaRegions`. `FreshPagesZero`, `StoredPagesKept`: what appears is zero, what stays is kept, over malloc, grow, shrink, free and process death. `HeapsSeparate`: each pointer resolves to its own slot and libc never holds a large object. |
| `fx_wamr` | The process, or the streams. `Supported`: nothing is released while something that needs it is held, in every unwinding. `LeavesNothing`: a process that returns holds nothing and wiped credential, response and metadata. `RunsWhatWasLoaded`: what is run is a whole module, the one of the last load that succeeded or one tried since, and a load that succeeds has put its module there, over commands that fail, hosts that give up and losses of power. `TypeOK` includes that the module's bytes are not freed twice. `BuffersAccounted`: one owner of each heap block, nothing leaked or freed twice. `ReadsOwnResponse`: an open stream's buffer holds its response. `NeverTruncated`: a stream that is opened holds its whole response. |
| `example_tools` | The file tools, or the test. `FilesWhole`: whatever is interrupted, a file of the project is a whole content. `RepliesTrue`: text returned is the whole file, "wrote" means replaced, a refusal means unchanged. `NoSurvivors`, `LentWhileRunning`, `TruthfulSuccess` (an `exit_code=0` reply was a normal exit whose whole output was read, with the guards back), `EveryCallReturns`. `TestTypeOK` includes that the output leaves room for the `exit_code` line. |
| `test_runner_guards` | `ReservedDuringRequests`, a finding below: expected to be violated. |
| `acp_client` | `ArenaExclusive`, `GuestStartsClean`, `CleanReturn`, `EveryRunEnds`, over any number of runs in sequence. `WholeUnlessUsurped`: what is rendered is the whole text of the prompt, of a runner that ended well, unless another line took the place of an answer. |
| `acp_client_answer` | `RendersWholeAnswer`, a finding below: expected to be violated. |
| `einkctl` | `EveryCharacterOnce`: each character that is no blank is on one line of one page. `LinesAreFull`: a line is as long as its words allow, but for words that begin in its first third. `EinkctlTypeOK` includes that the text fits its buffer. `ShownOnSuccess`: a run that exits with success leaves the panel showing its frame, idle and without power, whatever an earlier run that failed or was killed left behind. `NoCommandWhileBusy`: nothing but the last power-off is sent to a panel at work. `LinesReturned`: the lines exported after a run are those exported before it. |
| `board_access` | `NeverUnknown`: whatever is interrupted, root's password on each board is the default, empty, or in a record of that board: no password this code chose is lost. `InstallOpensBoard`: after a `load` that succeeded the next login finds the right password. `StockKept`: what was on a board before the first `load` is backed up, verified, and never replaced. |
| `board_access_empty` | `Recoverable`, a finding below: expected to be violated. |
| `sd_home` | `NothingLost`: a version the user did not replace is on the flash or on a card. `MarkedWhenWhole`: a card is marked only with the whole home on it. |
| `sd_home_seed` | `SeedNeverOverwrites`, a finding below: expected to be violated. |
| `compact_arena` | `LiveApart`: regions in use are inside their nodes, aligned, apart. `MovesApart`: remap never copies between overlapping places. `NodesServe`: a new node is large enough for the request it is made for. |

The type invariants `StreamsTypeOK` of `HttpStreams`, `TypeOK` of `RuntimeAllocator`, `AcpClient`, `ProjectTools` and `CompactArena` and the invariants
`NoFitBelow` and `HomeOnAdoptedCard` are in no run: they are proved. `BoardAccess` and `SdHome` have none for TLC;
`SdHomeProofs!TypeInv` is that of `SdHome`, `FxctlProofs!Kinds` that of `BoardAccess`.

Bounds, and why they are enough:

- Allocator: the board has two slots, and so has the model. With an arena of four units and sizes on both
  sides of 8, 16, 32 and of `SmallMax`, a hole can be before, between and behind the blocks, and a request
  can fit it exactly or miss by a byte. The theorems remove this bound.
- Streams: two of four slots are enough to have a used one below and above a free one; a third heap block
  allows a freed block to be reused or not. Two tags tell a response from any other. Lengths 0 to 3 against
  a capacity of 2 give empty, partial, exact and overflowing responses. Heap blocks and tags are symmetric
  (only safety is checked).
- Test runner: a reply of five bytes with two reserved, a pipe of two, up to six bytes written
  (`Limit + 1`, the one bound in a guard): below, at and above the limit, with a writer that blocks. Calls
  follow one another without bound.
- Client: response of two chunks, three messages that are not answers, of any id (`MaxMessages`, the one bound in a
  guard), pipe of two lines, one poll of the marker. Three chunks overflow the response; a pipe of two
  lets the runner block while the client waits for it. Runs follow one another without bound.
- File tools: a limit of two bytes and contents of 0 to 3, room of one and two bytes against files of one and two and a
  refusal of two: below, at and above each limit. Two pids: the same or another one after a kill.
- Lifecycle and deployment: the lifecycle has no constants; every step and every kind of input is in the model. Two modules,
  since all that a load can do is leave the old one or put another in its place; RAM or SD, chosen at the start.
  Modules are symmetric (only safety is checked).
- `einkctl`: lines of six characters (a first third of two) and pages of two. Inputs of up to four bytes of all kinds hold
  every escape sequence that ends or does not, and a tab at each column modulo four; those of up to ten letters, blanks
  and newlines a full line with a word before, on and behind its end, and three lines, so that a page is full, partial
  or single. Ten bytes are `MAX_INPUT_BYTES`, so the refusal is met. Three frames are displayed, so that what is shown may be
  another run's. Runs follow one another without end.
- Board access: two boards, as a record is of one and may be needed for another; two passwords (a third attempt before an inspection
  is refused by the code); three lines in a terminal, the most that a command types before it waits, and one left over.
  Boards and passwords are symmetric (only safety is checked).
- SD home: two cards, two files (one copied and one not), four versions (`MaxWrites`, the bound in a guard): the
  flash and either card may each hold a version of their own of a file.
- Compact arena: chunks of four bytes and lengths 2, 3, 5: up to two regions in a chunk, and one length that needs a
  node of its own; two nodes, since only the head and "not the head" differ; data on an odd and on an even
  address against alignments 1 and 2. The theorems remove these bounds.

Deadlock is checked in every run.

Fairness, and why the code justifies it:

- `RuntimeAllocator`: weak fairness of `Search`, straight-line code of a running process.
- `TestRunner`: weak fairness of the runner's own steps (error returns of system calls are not among
  them), of the clock, and of the death of a process with SIGKILL pending. The test process owes nothing. The
  time limit of a provider request (`CURLOPT_TIMEOUT`) is behind `ProviderAnswer`. In `MCExampleTools` it is the same, and
  asks nothing where only files are called: none of these actions is enabled there.
- `AcpClient`: weak fairness of the client (the renderer included, whose waits for the panel are bounded),
  and of the runner serving a request it was sent, ending at the end of its input, and dying of a SIGTERM, which
  it does not handle. It owes no text and no success. `fx-eink` itself waits without a deadline, so a guest that never
  answers would hold it: that assumption is needed.

### Findings

`test_runner_guards`: a comment says of the guards "These blocks remain reserved throughout provider
requests" (`fx_wamr_native.c:250-251`; likewise `docs/architecture.md:37-38`). When `mmap` finds no contiguous
block in the rearm, `run_tests` reports the tool call as failed (or, after a failed `vfork`, ignores it) and the
guest goes on to its next provider request with one guard or none. Nothing takes them back later; the next
test call fails in `lend`.

`sd_home_seed`: a comment in `fx-sd` says "Seed, but never overwrite, any existing SD home on first adoption" (`:58`).
The command under it is `cp -a /home/root/. "$home/root/"`, which replaces the files of a home that the card already
has, where names are the same. The run lets the user write to `/media/sd/home/root` before he adopts the card (`ForeignHome`),
with one card, one file and two versions. `SdHome`'s other properties are stated without such a home.

`board_access_empty`: a comment says "Save before applying so an interrupted password change remains recoverable"
(`network.py:89`). A host killed after passwd's first question leaves passwd on the terminal. Logins begin with an empty line
(`cli.py:42`); two of them, each giving up when no prompt comes, answer both questions, and BusyBox's passwd gives root an empty
password. It is neither the default nor in a record, the pending one included, so no record opens the board.

`acp_client_answer`: the documentation says that `fx-eink` "puts the answer on the display" (`src/README.md:55`). `read_until_id` ends a turn
at the first line with the wanted id and does not look whether it is a response (`fx_eink.c:504`). A request of the agent with id 3 while the
prompt is served ends the turn; the chunks that follow are not read, and the page shows a part of the answer. It needs an agent
that uses such an id; whether fx's does is not in the repository.

## What is proved

The theorems hold for every value of the constants under the modules' named assumptions
(`SizesAssumption`: an arena of a multiple of 8 bytes, at least one slot, sizes natural numbers;
`StreamsAssumption`: at least one stream, sizes natural numbers, buffers and tags told apart;
`ClientAssumption`: bounds are natural numbers, the pipe holds a line; `ToolsAssumption`: lengths and limits are
natural numbers; `ArenaAssumption`: lengths are positive, alignments are powers of two up to 64, the
largest in the arena's own tests; `LayoutAssumption`, `InputsAssumption`, `FramesAssumption`: at least three columns and one row, inputs
of the kinds of bytes; `SdAssumption`: `MaxWrites` a natural number; `ModulesAssumption`: a module is told from none, a torn digest, a file started by hand and
the firmware's module; `RunnerAssumption`: sizes are natural numbers, the pipe holds a byte, and more is reserved in the reply than the `exit_code` line takes;
`AccessAssumption`: no random password is a word this code types, and a record is told from none and from a torn one). One theorem
has a hypothesis beside these, in its statement: `TypesCorrect`, that every page of text is a frame the panel can show. `SdHomeProofs` has one
more, below.

`RuntimeAllocatorProofs`. The inductive invariant is

    IInv == TypeOK /\ ArenaSafe /\ NoFitBelow /\ HeldIsLive /\ LibcIsSmall

`NoFitBelow` is what makes the search correct: it says that every aligned offset below the candidate is taken, and
is kept by a skip because offsets between the candidate and the end of the block it hit overlap that
block too (lemma on `AlignUp`: the result is the least multiple of 8 not below its argument, hence no aligned
offset is jumped over). `HeldIsLive` ties WAMR's pointers to slots; with `ArenaSafe` offsets of live
blocks differ, so a pointer resolves to one slot. From `IInv`: `TypeCorrect`, `ArenaIsSafe`, `SearchIsFirstFit`,
`HeapsStaySeparate`, `SearchFailsOnlyWithoutRoom`, `NewPagesAreZero`, `GuestPagesAreKept`, and the
refinement `RefinesRegions`, whose step proof maps a placed block to `Allocate`, a resize to `Resize` or
`Release`, a free to `Release`, the end of the process to `ReleaseAll`, and everything else to a stutter.

`HttpStreamsProofs`. The inductive invariant is

    IInv == StreamsTypeOK /\ SlotsOK /\ SinkOK /\ Owners /\ AllClosed

A slot that is not used is empty, so closing it again frees nothing (`SlotsOK`); a request fills an empty slot, and the lent
buffer only while no stream is open, and has written exactly what it was given, within its room (`SinkOK`); each heap block belongs to one slot or to the request (`Owners`), so that
a block that `realloc` returns holds nobody else's response. Without the last, nothing would say that a piece written for one
request does not change another stream's bytes. From it: `TypeCorrect`, `OneOwner` (`BuffersAccounted`), `OwnResponse`
(`ReadsOwnResponse`) and the action property `WholeOrFailed` (`NeverTruncated`): `write_body` keeps `len` equal to `given`, and curl
succeeds only with all given.

`AcpClientProofs`. The inductive invariant is

    IInv == TypeOK /\ RunnerOwned /\ WipedBeforeStart /\ HeldOrWiped /\ WaitedFor

`RunnerOwned` says where in the client's code a runner can be alive; `WipedBeforeStart` that an arena claimed
and not yet used is clean; `HeldOrWiped` that what is dirty after a run is still held; `WaitedFor` that
no path reaches the wipe with a runner that was not reaped. None of them follows from the others, and without
`RunnerOwned` the wipe in `Return` cannot be shown safe. From it: `TypeCorrect`, `NeverWipedUnderGuest`,
`GuestsStartOnZero`, `ReturnsClean`. For `WholeAnswerRendered` (`WholeUnlessUsurped`) it is not enough: it says nothing of the
text. `TurnInv` adds the count of the chunks, at every step of the three turns: those the client has heard and those in the
pipe are those the prompt has produced, the answer to a prompt is the last line the runner writes for it, and an earlier turn's text is
gone before the next is asked. All this of a run in which no
line took the place of an answer; without that the pipe may hold chunks the client no longer reads. A client that comes to the
renderer has read the answer, so that nothing was left in the pipe.

`ExampleToolsProofs`. The inductive invariant of the two file tools is

    IInv == TypeOK /\ FilesWhole /\ DiskWhole /\ InFlight /\ InCall /\ RepliesTrue

`InFlight` is the argument: a replacement that has not failed is complete from `fsync` on and synchronised from `close`
on, so that the rename, and `disk` with it (`DiskWhole`), only ever get a whole file. `InCall` says that the
project is what it was before the call until the call's last step, which is what makes refusals true. From
it: `TypeCorrect`, `FilesStayWhole`, `RepliesAreTrue`. That of `run_tests` is

    RunInv == Kinds /\ Sizes /\ Flags /\ Processes /\ Lent /\ Counted

`Processes` says at which steps the test process may run, have exited or be gone, and that a descendant which outlives the kill
has its SIGKILL pending; `Lent` that no guard is mapped during a call; `Counted` that what was read and what is in the pipe
is what was written, and that past the end of the output nobody is left to write more, as long as the run has not failed.
`LentWhileRunning` needs both `Lent` and `Processes`: the call ends only where the process is gone. From it: `RunnerTypes`, `NothingSurvives`, `GuardsStayLent`, and the action
property `SuccessIsTruthful`.

`CompactArenaProofs`. The inductive invariant is

    IInv == TypeOK /\ AllSound /\ AllPlaced /\ AllApart

A node is used exactly up to the end of its newest allocation (`AllSound`), and every region in use either is that
allocation (possibly shrunk since, under a newer head) or ends before it (`AllPlaced`). Disjointness alone is not
inductive: without `AllPlaced` nothing says that the room behind the newest allocation is nobody's. From it:
`TypeCorrect`, `RegionsStayApart`, `RemapMovesApart`, `NodesAreUsed`.

`EinkctlProofs` has two invariants, since text and panel share only the program.

    LayoutInv == TextInv /\ FitsBuffer /\ Covered /\ Ordered

`Covered` says that each character before the cursor that is no blank is on a line, `Ordered` that lines follow one another and end at the
cursor. They need each other: a new line is disjoint from all others because these end at the cursor. From it:
`BufferFits`; `WrapGoesOn` (no turn of the loops stays where it is); and `TextIsOnPages`, that is
`EveryCharacterOnce`: a character is on exactly one line, and line `k` on page `(k - 1) \div Rows` only. `Accounted` says that
during a run the exported lines are those it found and those it owns, disjointly; from it `LinesGivenBack`. No fact about the
order of the steps is needed, so it holds for any sequence of them.

`LinesFilled` (`LinesAreFull`) rests on `FullInv`, which says the same of the lines made so far, the last of them against the
cursor instead of a next line: that the word at the cursor would not have fitted is known when the line is made. `SuccessIsShown` and `BusyIsLeftAlone` rest on `PanelInv`, which does need the order: it says at each step of the sequence
what the panel may be at work on, whether it has power, and whose frame is in its memory and on it; an earlier run's leavings
are allowed up to the reset and not behind it. `TypesCorrect` rests on `LinesInv`, `ValuesInv` and `FramesInv`
(only exported lines are opened; what is displayed is a page of the text or a frame).

`SdHomeProofs` assumes that there is no home of the user's own on a card (`~ForeignHome`). Its invariant says beside types where the live versions
are (`Kept`), that `/home` leads to an adopted card that is mounted (`Leads`), and that while a card is seeded the internal home is
what the user works with and each file is either still to be copied or there (`Seeding`). From it: `FilesSurvive`, `MarksAreTrue`,
`HomeLeadsToAdopted`.

`FxctlProofs` has four invariants. That of the deployment is

    IInv == TypeInv /\ Alone /\ Uploading /\ Named /\ Executing /\ Started /\ Switched

`Uploading` follows a line of `load`: from `mv` on what was verified is what moves, from the switch on the file of the module is
whole. `Named` says that `current` never names a module nobody loaded, `Executing` that what `execute` is about to hash is what
`current` names, and `Alone` that the shell runs one line at a time, so that no upload happens under a running fx-wamr. From
it: `StartsTheLoaded` (`RunsWhatWasLoaded`).

`ProcessesLive` is the composition: every step of `Deploy` is a step of `RunnerLifecycle` or leaves the process alone. What is
proved of the process therefore holds in the deployment. Its invariant is

    LifeInv == TypeOK /\ Supported /\ Acquiring /\ Unwinding /\ Stained

`Acquiring` says what a process that has come to a step of the setup holds, `Unwinding` what one that has come to a step of the
teardown no longer holds, `Stained` that who left a stain in memory still holds what he will wipe it with. `Supported` alone is not
inductive: a step that takes the runtime is safe only because `Acquiring` says that the allocator was taken before, and the last
step of the teardown leaves nothing only by `Unwinding`. From it: `TypeCorrect`, `AlwaysSupported`, `ReturnsEverything`.

That of the logins is

    AccessInv == Kinds /\ InCommand /\ KnownLines /\ NeverUnknown /\ Installing /\ Opened /\ NoneForPasswd

`KnownLines` is the argument: every random password on its way to a board - in a line not yet
taken - stands in a record of that board. A board takes a password only from there, whenever it gets to the line and
whoever has given up in between, so `NeverUnknown` is kept. `InstallOpensBoard` needs more, as a record of an earlier image would
satisfy `NeverUnknown`: `Installing` says that an install, which resets the board before it types anything, has nothing on its way but the
pending password, up to the step that has seen passwd succeed, where it is the board's; `Opened` that after its return nothing is on its way
but the password the board has. An empty line must not become the password either: `NoneForPasswd` says that from the boot after the flash on, at
most the first line of the terminal is empty, and only while getty is the one to take it. No assumption about
passwd is needed. From it: `NoPasswordLost`, `InstallsOpen`. `StockIsKept` has the small invariant `StockInv`
of its own (what is flashed is flashed with a whole backup at hand), and needs no fact about terminals.

Only model-checked: the liveness properties (`SearchEnds`, `EveryCallReturns`, `EveryRunEnds`), since liveness under fairness is beyond the
prover. Every other property of the passing runs is the statement of a theorem.

## Not modelled

- Formatting, logging, option parsing, JSON syntax, URL rewriting, response headers: data no property is about.
- Of the serial console: `download`, which only the coding example uses, and all of `prepare_launch` but its `sync`.
- Small windows no property is about: a pid taken again between `waitpid` and `kill` (`fx_example_tools.c:217`), the marker
  read between its creation and its first byte (`fx_eink.c:612`), two `fx-eink` side by side (`:671`), BUSY sampled before the
  panel has raised it. They rest on timing or on programs outside the repository.
- The Wi-Fi commands, the CA link and the clock of `network.py`: they change no record; one step of `BoardAccess`.
- The trust-root loader: one function that streams certificates through a buffer.
- The coding example driver: a sequential verdict over collected files.
- The guest's page allocator (`compact-allocator.zig`): it keeps no state; its remap copies inside a block of the C heap.
- The RSA shim and its self test: arithmetic behind one ioctl.
- Build, packaging, fetching: straight-line host tools around compilers and image builders.
- Kernel and upstream patches: the programs they change are not in the repository.
- The `mmap` build variant of `fx-eink`, and two clients on two consoles at a time.

## Plan

1. A join of `RunnerLifecycle` with `RuntimeAllocator`: the allocator is destroyed only after WAMR has returned every object.
2. Proofs of what the liveness properties rest on: the measure each of the loops of `Search` and of `run_tests` makes smaller.
