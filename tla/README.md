# mcp-netdiag-rs in TLA+

mcp-netdiag-rs is an MCP server over stdio. A client sends `tools/call`
requests; each names one of 24 diagnostic tools, is checked, is admitted or
refused, runs one pinned command (or reads one pinned file) under a timeout, and
is answered. Every call leaves two rows in an append-only audit journal.
Requests are served concurrently; the server keeps no session state.

This directory holds models of that program, the TLC runs that check them on
small instances, and TLAPS proofs of every safety property those runs check for
instances of any size. Line numbers are those of `src/`; `PROJECT.json` maps each definition
to the lines it models.

## 1. Inventory

| Component | State it keeps | Operations | What makes it correct | Module |
|---|---|---|---|---|
| Command runner (`src/netdiag/commands.rs`) | semaphore of 4 slots and its line of waiters; per call a future, a child, two pipes; two timeouts | `run`, `run_spec`, `run_process`, `read_file`, `resolve_program` | slots neither leak nor idle; first come, first served; children bounded; every call ends within a bound | `CommandRunner` |
| Refusal gate (`commands.rs`) | allowlist and opt-in set, fixed at start | `run` (its first half), `check_privileged` | allowlist first; the opt-in never widens it | `Gate` |
| Environment filters (`src/config.rs`) | none (read once) | `enabled_commands`, `privileged_enabled` and their parsers | what is listed runs, what is not does not | `ToolCatalog` |
| Tool handlers (`src/mcp/mod.rs`), parameters (`params.rs`) | none | 24 tools, `interface_args`, `bounded` | nothing unchecked reaches a command line | `ToolCatalog` |
| Validators (`src/netdiag/validators.rs`) | none | one per kind of text, the capture device lookup | accepted characters and lengths; the host's failure is not the caller's | `ToolCatalog` |
| Dispatch (`call_tool` in `src/mcp/mod.rs`) | one future per request | call row, dispatch, result row, answer | no effect and no answer without its row | `NetdiagServer`, `NetdiagSystem` |
| Audit journal writer (`src/mcp/journal.rs`) | one file, one buffer, one mutex | `log` | a failure costs its own row and nothing else | `AuditJournal` |
| Journal opening (`journal.rs`, `config.rs`) | candidate paths, one descriptor | `resolve_journal_paths`, `try_open_first`, `open`, `prepare_parent` | the file is ours and private; a candidate is given up for a reason, and not in silence | `JournalOpen` |
| Output shaping (`commands.rs`, `src/netdiag/mod.rs`) | two buffers per child | `read_capped`, `bounded_text`, `truncate_text`, `normalize_tool_result`, `evidence_head` | the child is not disturbed; sizes bounded; nothing but the cut changes | `OutputCapture`, `OutputText` |
| Timestamps (`journal.rs`) | none | `iso8601_from_secs`, `civil_from_days` | the right date | `CivilDate` |
| Error mapping (`src/errors.rs`) | none | `code`, `data`, `From` | distinct codes | `ToolCatalog` (codes) |
| Bootstrap (`src/main.rs`) | none | open journal, serve, wait | degraded mode rather than no start | `NetdiagServer`, `NetdiagSystem`, `JournalOpen` |
| Example client (`examples/minimal-mcp-client`) | request id, child server | plan, request, notify, report, shutdown | answers match requests, every step is reported, no server is left | `ExampleClient` |

How they interact: rmcp receives a request and calls `call_tool`, which awaits
the journal's mutex, awaits a tool handler, awaits the journal again and returns
the answer. A handler checks its arguments and awaits `CommandRunner::run`,
which refuses at the gate or awaits a slot, a program lookup and a child. All
calls share the semaphore of the runner and the mutex of the journal; nothing
else is shared. The runner's filters are built, and the journal is opened, once
at start. The client is another process: it starts the server as its child and
talks to it through two pipes.

What is hard to test here: a slot handed to a waiter that is timing out at that
instant; a killed child that is not gone yet; a child that fills one pipe while
the other is read; a grandchild that holds a pipe; a program lookup no timeout
covers; rows of concurrent calls around a failed write or a crash; a disk that
does not answer; children that outlive the server; a path that changes between
two system calls; the order in which validation, allowlist and opt-in decide;
sentinels and unreadable values in the environment; cuts inside characters;
calendar boundaries; a server that dies in the middle of an answer.
`PROJECT.json` lists each of these at its line with the properties aimed at it.

## 2. The modules

| Module | Models | Read with |
|---|---|---|
| `Gate` | `check_privileged` and the precedence in `run` | `commands.rs` 444-508 |
| `CommandRunner` | `run`, `run_spec`, `run_process`, `read_file` | `commands.rs` 267-479 |
| `SlotPool` | abstract: a first-come, first-served pool of slots | (specification) |
| `AuditJournal` | `JournalWriter::log` | `journal.rs` 156-177 |
| `NetdiagServer` | `call_tool`, start, stop and restart, over `AuditJournal` | `mcp/mod.rs` 703-750, `main.rs` |
| `AuditTrail` | abstract: what the journal promises about every call, warned-about gaps, degraded mode and crashes included | (specification) |
| `NetdiagSystem` | `NetdiagServer` over `CommandRunner`, with the children a stop leaves behind | the two above together |
| `ToolCatalog` | tool handlers, validators, filters, `CommandRunner::new`, over `Gate` | `mcp/mod.rs` 91-699, `validators.rs` 24-169, `config.rs` 145-213 |
| `JournalOpen` | `resolve_journal_paths`, `try_open_first`, `open`, `prepare_parent`, `is_refusal` | `config.rs` 67-119, `journal.rs` 80-238 |
| `OutputText` | `bounded_text`, `truncate_text`, the cut of `evidence_head` | `commands.rs` 527-548, `netdiag/mod.rs` 129-141 |
| `OutputCapture` | `read_capped` on both pipes, the answer and its result row, over `OutputText` and `CivilDate` | `commands.rs` 383-413, 510-525, `netdiag/mod.rs` 38-61, `journal.rs` 240-269 |
| `CivilDate` | `iso8601_from_secs`, `civil_from_days`, and the calendar they must agree with | `journal.rs` 271-303 |
| `ExampleClient` | the example client, against a server as it sees it | `examples/minimal-mcp-client/src/main.rs` |
| `Selection` | the chosen elements of a sequence, in order (a filter, an iterator) | used by `NetdiagServer`, `OutputText`, `OutputCapture` |
| `SharedLemmas` | lemmas about lines of waiters, pools of slots and elements chosen from a sequence | (proofs) |
| `CommandRunnerProofs`, `NetdiagServerProofs`, `NetdiagSystemProofs`, `ToolCatalogProofs`, `JournalOpenProofs`, `OutputCaptureProofs` (with `OutputText` and `CivilDate`), `ExampleClientProofs` | theorems about the module they are named after | (proofs) |
| `MCCommandRunner`, `MCNetdiagServer`, `MCNetdiagSystem`, `MCToolCatalog`, `MCJournalOpen`, `MCOutputCapture`, `MCExampleClient` | instances for TLC | |

Definitions marked "Mutant of" state a plausible bug in the definition they
precede. No specification uses them; each shows that some property would notice
the bug.

### CommandRunner

Each element of `Calls` is one in-flight `run()`. `pc` is where its future is
suspended: `queued` in `acquire()`, `granted` when its permit was handed over but
its task has not been polled, `resolving`, `running`, `reading`, `done`.
`permits` and `queue` are the semaphore. tokio's semaphore is fair and hands a
released permit straight to the oldest waiter, so `Return` moves the head of the
queue to `granted`; a permit that reaches a waiter whose deadline fires in the
same poll is passed on when the acquire future is dropped (`GrantedTooLate`).

`child`, `pipes` and `dying` separate what the code separates: the process, the
two pipes (`Complete` needs both pipes ended and the child reaped), and a process
that was sent SIGKILL by `kill_on_drop` and is not gone. The two pipes are one
variable, the join of their reads: what the code sees is whether both reads have
ended and whether either failed. `OutputCapture` has the two pipes apart.

Time is a tick. The server's own steps take none: a tick waits until every future
that is due has been polled, so a wait ends at its deadline and never later.
`elapsed` counts a call's current wait. `age` counts its time in line, running and
reading, which are the three awaits the code puts under a timeout (`SlotDue`,
`RunDue`, `FileDue`); its own program lookup is under none and not in `age`, but
delays the calls in line behind it like any other use of a slot. A lookup takes at
most `LookupBound` ticks: the code has no such bound, TLC needs one, and no
theorem depends on its value.

Left out: cancellation (nothing in `src/` cancels a call, and the SDK drops
none while the server runs; a stop of the server is in `NetdiagSystem`),
`acquire()` failing (the semaphore is never closed) and a child without pipes
(both are requested). A second child of the same call identity killed before the
first has gone is not counted separately in `dying`, which makes
`CommandsBounded` weaker, not stronger.

### NetdiagServer and AuditJournal

`stage` is where the `call_tool` future of a request is suspended. `line` is the
mutex of the journal: its head holds the guard. A row is handed to the disk by
`Write` and settled by `Settle`: it is on record whole, or, at most `MaxFaults`
times, warned about and dropped, whole or torn. A failed row is not written
again: tokio's file takes the buffered bytes over before the disk refuses them.
`Crash` stands for end of input, a signal or a crash at any await; rows on record
stay, the row in flight may or may not have arrived. `Restart` opens the same
file again, or, where `MayDegrade`, does not. `audited`, `ran` and `warned` are
history variables. The runner is represented by what `CommandRunner` shows of it:
an admitted call runs and returns.

### NetdiagSystem

The same requests are calls of the runner: `Dispatch` is `Run` of the server
together with `Call` of the runner, `Collect` is `RunReturns` together with
`Forget`; everything in between leaves the server's variables alone. So a call
that holds the journal's mutex competes with calls that hold slots. `Crash`
splits in two: `Stop` (end of input, where the runtime drops every future and
`kill_on_drop` signals the children) and `Kill` (the process itself is gone, its
children become `orphans` that nobody signals). The next process starts with a
new runner over whatever is left of the last one's children (`ChildrenPerLife`). `ImplementsServer` checks that this composition implements
`NetdiagServer!FairSpec`, fairness included: what the server model takes for
granted of the runner is what the runner's timeouts bring about.

### ToolCatalog

A tool is its command key and the sequence of its checks, each translated from
its handler. A text is a record of what the validators look at: length, first
character, classes of characters, the few special names, whether it is six hex
pairs, whether it is all digits, and what `/sys/class/net` has under that name. A
number keeps its value. A variable of the environment is the sequence of its
trimmed entries, or unset, or not Unicode. Checks are pure apart from the capture
device lookup, so the whole handler is one step.

### JournalOpen

One action per system call of `open` and `prepare_parent`. The place of a
candidate is two directory entries, its directory and the file, with their kind,
owner and whether others may write (`open`) or this user may (`grants`). Between
two calls another user may replace what a sticky directory lets them replace
(`OthersChangeDir`, `OthersChangeFile`), and another server of the same user may
be at the same point (`SiblingCreates`). Only the place of the current candidate
is represented: it is chosen when its turn comes, since no candidate's calls touch
another's place. `same`, `usable` and `logged` are history variables: whether the
path still names the opened file, whether a private journal was possible all
through this turn, and how each candidate was given up. Not represented: hard
links, log rotation by this user, and an adversary with root's rights.

### OutputText and OutputCapture

A byte is a letter, a newline, a carriage return, another white space, or the
first or second byte of a two-byte character; a decoded character keeps its width,
so byte limits, character limits and U+FFFD (three bytes for one) are all visible.
`Lines` is what `lines()` leaves of a text: the carriage return of every CRLF goes
with its line end, a bare one stays. `Trimmed` is `trim_end()`: all white space at
the end goes. White space of two or three bytes, which differs from a letter of
that width only there, is not represented. `OutputCapture` runs a
child that writes an arbitrary script to two bounded pipes, blocks when one is
full and dies of SIGPIPE when nobody reads it.

### CivilDate

`CivilFromDays` and `Iso8601FromSecs` are the code's arithmetic, in the order the
code does it. `DayNumber` is the calendar they are checked against: years of 365
or 366 days by the Gregorian rule, months by a table. The clock is never before
the epoch (`iso8601_now` maps such a time to the epoch).

### ExampleClient

`run()` step by step: handshake, plan, one request at a time, report, kill. The
server is what the client sees of it: it takes lines in order, answers each with a
result, a failed one or an error, and may die anywhere, half way through a line
too. That the client may kill it right after the last answer is the server's
doing: `AnswerIsAudited` of `NetdiagServer` says that the row is settled by then,
on record, warned about, or without a journal to be in. `infer_domain` looks for words in signals
that `signal_for`, on the server, chooses; both are in the model.

## 3. Runs

| Run | Question | Result |
|---|---|---|
| `runner_one_slot` | do slots survive every interleaving of ends, timeouts and hand-overs, in order and in time? | holds |
| `runner_lingering` | do at most `MaxSlots` commands run at once? | violated (finding 1) |
| `server_faults` | what does the journal promise under failed writes, crashes and degraded mode, and is it then still an audit trail? | holds |
| `server_stuck_disk` | is every request answered also when a write never completes? | violated (finding 3) |
| `server_torn_row` | does every complete entry have a line of its own? | violated (finding 4) |
| `system` | with the real runner: are processes on record, children bounded over stops and restarts, successes real, and does every request end? | holds |
| `system_output` | do at most `MaxSlots` calls hold captured output? | violated (finding 2) |
| `catalog` | which calls run, and how are the others refused? | holds |
| `journal_open` | which file is the journal, whoever changes the path meanwhile, and when is a candidate given up? | holds |
| `journal_refusal` | is every unsafe path logged at error? | violated (finding 5) |
| `output` | what of a child's output, status and time reaches the answer and its row? | holds |
| `client` | what does the client report of a server that errs or dies anywhere? | holds |

`TypeOK` is proved, not run, where a theorem states it (runner, server, journal
opening, catalogue, client); `OutputCapture` has its types inside the invariants of
its proofs.

Bounds, and why they are enough.

- Runner: three calls on one slot give a holder and a line of two, the smallest
  line whose order can go wrong and whose head can time out while the other stays.
  `Timeout = 1` puts "before", "at" and "after" a deadline at different ticks, and
  with `LookupBound = 2` a lookup outlasts the timeout of the calls in line;
  everything else is proved for all values.
- Server: three requests give a row between the two rows of another call while a
  third waits for the mutex; one fault and one crash give a fault before, during
  and after a crash.
- System: two requests, one slot, one crash, one fault; a call that waits for the
  slot, one that waits for the mutex, and both in either order. `LookupBound = 0`:
  the lookup's time is the runner's subject.
- Catalogue: every tool, texts at each rule of the validators, both ends of each
  range and one beyond, every one and two entries out of plain, privileged,
  sentinel, misspelt and empty ones. The theorems need no bound.
- Journal opening: every environment with an absolute, relative or missing
  setting, the operator's own path inside and outside the directory under `/tmp`,
  and every kind of directory and file in the place of each candidate.
- Output: caps of three bytes and one, pipes of one byte, every script of up to
  five writes of a child that succeeds and of up to three of one that fails: each
  cap is crossed, each pipe filled, and each cut falls inside a character, before
  and after a newline, and between the two bytes of a CRLF. Clocks at leap days, ends of months and
  years, and the end of a 400-year era; the theorem covers the rest.
- Client: every plan, three shapes of results, and two calls that end otherwise
  than well, so that one trouble can follow another.

Requests and calls are symmetric in the safety runs; runs with liveness or a
refinement under fairness use no symmetry.

Deadlock is checked except where the modelled program ends: `client` (the client
exits), `journal_open` and `journal_refusal` (startup is over), `output` (the
child is gone and the row is made). `Finish` in `NetdiagServer` is the idle server
with nothing left to do.

Fairness.

- `NetdiagSystem!SystemFairSpec`: the clock runs, and the runtime polls a future
  that is ready (`WF` on `Tick` and `Polled`); a program lookup ends and the disk
  answers, with an error if need be. Nothing is assumed of children, pipes and
  files: that every request is answered rests on the timeouts.
- `NetdiagServer!FairSpec`: every ready future is polled, the runner returns (which
  `ImplementsServer` shows), a write is settled. `StuckDiskSpec` drops the last.
- `OutputCapture!FairSpec`: a child that can write or exit does, and both reads are
  polled even while one of them waits, as `tokio::join!` does.
- `JournalOpen!FairSpec`: a system call on the journal's place returns; opening a
  FIFO without `O_NONBLOCK` would be a call that does not.
- `ExampleClient!FairSpec`: client and server go on. The server may die at any time
  but need not.

### Findings

1. `architecture.md` says that at most 4 commands run concurrently. The slot is
   free when the timed-out child has been signalled, before it is gone.
2. `SECURITY.md` 106-109 bounds captured output by the four slots. A call keeps
   its output while it waits for the journal, when its slot has been given on.
3. `mod.rs` 711-712 says auditing never blocks a tool call. Errors do not, but a
   write that does not complete holds the mutex and every call with it.
4. `journal.rs` 5 says one line per entry. After a torn write the next row
   continues the torn line.
5. `SECURITY.md` 320-321 says that a path refused as unsafe is logged at `error`.
   Another user's file without permission for this one fails with EACCES, a
   directory with EISDIR, and both are logged at `warn` as unavailable.

Seen while modelling, and true to the models, but without a run of their own:

- The comment at `commands.rs` 325-327 gives "one timeout waiting plus one timeout
  running" as the worst case, and `SECURITY.md` 100-101 about 10 s end to end. The
  program lookup between the two runs under neither, so a call on a file system
  that hangs takes longer than both say. `TwoTimeouts` states the documented bound
  for all of a call but its own lookup, which is as much of it as the code keeps.
- An allowlist that is not Unicode counts as unset (`FiltersCompose` excepts it).
- Arguments are validated before the gate, so a bad call of a disabled tool is
  answered -32010 and not -32011.

## 4. Proofs

Everything below holds for every value of the constants, from the assumptions the
modules name: `SlotsAssumption`, `TimeAssumption`, `CallsAssumption`,
`KeysAssumption` (at least one slot, a positive timeout, finitely many calls at a
time), `ResultsAssumption`, `BoundsAssumption`, `FinishedAssumption` (what a run
can answer), `TextsAssumption`, `MacsAssumption` (what a text is; a text of six hex
pairs has 17 characters), `ScriptsAssumption`, `ClocksAssumption`, `PipeAssumption`,
`CapsAssumption` (what a child may write, and limits that are numbers),
`QuestionsAssumption`, `ShapesAssumption` (how a server wraps a result).
TLC evaluates each of them in the runs.

### Slots (`SharedLemmas`, `CommandRunnerProofs`)

Conservation, "no idle slot" and "the line is the waiters" are not inductive
apart. A hand-over adds the head of the line to the holders, and conservation
needs that it is not one already; that a freed permit does not pass a waiter needs
"no idle slot", and so does that a new call does not enter past the line.
`SharedLemmas` states their conjunction once, as `Accounts` of a line, a set of
waiters, a set of holders and a number of permits, and proves a lemma for each way
accounts can change: a slot is taken, awaited, forgone, freed, or handed over.
The runner and the composed system both use it.

- `SlotSafety`, `SlotsAreBusy` and `LineIsWaiters` are the three parts.
- `TypeCorrect` (that permits stay within bounds follows from conservation, not
  from any guard), `ChildrenAreBounded` (a child belongs to a running call,
  running calls hold slots, holders are at most `MaxSlots`).
- `CallsAreBoundedInTime`, `OutcomesAreTimely`: `TimeInv` bounds the age of a call
  by its state, its current wait and the timeouts of the waits behind it, for
  lookups of any length.
- `LineIsByAge`: newcomers have waited for no time, a tick ages all alike, and
  removing a waiter from the middle keeps the order of the rest.
- `RunnerImplementsPool`: the initial state maps to the pool's, and every step to
  a step of the pool or a stutter.

### Server and journal (`NetdiagServerProofs`)

`ServerInv` is `LineInv` (types, the line of the mutex, and that the row in flight
is the one its head is at), `StateInv` (which stages go with which history),
`RecordInv` (a call past its row has it on record or warned about, and pieces of
the file never move) and `FileInv` (a row in the file belongs to a call past the
stage that writes it; a stage is never entered again, so no row is written twice).
From it: `LineSafety`, `EffectSafety`, `AnswerSafety`, `RowSafety`.

`TrailRefinement` shows that the server implements `AuditTrail`. The mapping takes
the whole rows of the file for the trail, the degraded mode for a closed one, and
forgets the mutex, the row in flight and the tool. `LoggedRefines`: a settled call
row is `Announce`, a settled result row `Conclude`, each with its row whole or
warned about. Without a journal the same steps are `Receive` and the return of the
tool. `Respond` is `Answer`, a stop is `Crash` of the calls in progress, with the
row in flight arriving or not (`CrashRefines`), `Restart` is `Reopen`; every other
step stutters. A torn piece adds nothing to the trail and a whole row its last
element (`OnRecordAppended`). The proof needs more than `ServerInv`: `TrailInv`
says that a row is awaited only with a journal open, that a call past its tool has
a result, and that one about to answer has its result row settled.

The whole rows are *chosen* from the file (`Selection`): the k-th is at the
position with k chosen ones up to it. That is the filter without recursion, so
what appending does to it follows from cardinalities (`ChosenMore`), not from
induction over data. Decoding and the bytes of one pipe are chosen the same way.

### The composition (`NetdiagSystemProofs`)

`SystemIsServer` proves `SystemSpec => Spec`: a step of the runner stutters, a
`Dispatch` is a `Run`, a `Collect` returns one of the runs' answers, `Stop` and
`Kill` are `Crash`. All theorems about the server thereby hold of the composition;
`SystemKeepsTrail` says so of the audit trail.
`SystemInv` adds the accounts of the slots, which a stop resets, and ties the two
halves (`CallInv`: a call is with the runner exactly while its request is at the
tool). From it: `ProcessesAreOnRecord`, `SuccessLeavesNothing`, and
`LivesAreBounded`: the children of this life hold slots (`LiveHold`), a kill turns
at most that many into orphans and counts as a crash, and nothing else makes any
(`OrphansStep`).

### Startup and admission (`JournalOpenProofs`, `ToolCatalogProofs`)

- `JournalIsOurs` and `FallbackIsPrivate`: `OpenInv` says that past the check of
  the directory under `/tmp` it is private, so that nobody else's step is
  enabled on it, and past `fstat` the descriptor is safe, whatever the path names.
- `RefusalsAreReported`, `JournalIsWhereItBelongs`: `ReportInv` counts the reports
  against the turn.
- `NothingGivenUpInVain`: as long as a private journal is possible the directory,
  once seen, stays this user's (`VainInv`), and then no call fails
  (`FailsForAReason`).
- `FiltersHold`, `OnlyTheUnlistedRefused`, `AllowlistDecidesFirst`: for lists of any
  length, what the filters let pass is what the variables list (`AllowlistListed`,
  `OptInListed`).
- `RunsValidated`, `CapturesOnDevices`: every parameter of every tool has a good
  check (`ToolsAreGood`), and the first check that fails decides (`HandleCases`).
- `CatalogTyped`.

### Output and dates (`OutputCaptureProofs`)

- `StatusSafety`: a read ends only at end of file (`Drained`), so the child is never
  stopped by its reader.
- `KeptSafety`: of the bytes written to a pipe, the last are still in it and the
  first, up to the cap, are kept (`Pieces`, per stream in `Captured`). A write and a
  read each keep that (`PiecesWritten`, `PiecesRead`); that the pieces cover the
  whole, in order, is what makes it inductive.
- `TextSafety`, `AnswerBounds`: decoding the beginning of some bytes gives the
  beginning of their text but for its last character, which is a line end in both
  or in neither (`NearlyBegins`, `DecodeBeginning`). So the lines of the one are
  those of the other up to that character (`LinesOfBeginning`): it is a replacement
  character, or a carriage return whose newline was cut off, and then `trim_end`
  takes it away (`TrimmedRight`, `CutRight`). A cut after some lines gives a
  beginning with fewer newlines (`FirstLinesRight`), and truncation one that fits,
  or the text itself (`TruncateRight`). `Answered` ties
  the answer and its row to the texts of pipes that nobody reads any more.
- `EveryDayRight`, `EveryStampRight`: every day and every second from the epoch on.
  Each division by a constant is replaced by the two inequalities that define it,
  which leaves linear arithmetic over the parts of an era. `StampSafety` carries
  this to the rows.

### The client (`ExampleClientProofs`)

The properties speak of finished steps; what makes them inductive is where the one
request under way is. `FlowInv` says it is nowhere, in the server's input, with the
server, in the client's input, or lost with a server that died; there is never a
second one. `PhaseInv` derives the next id from the phase and the number of results,
which is why an answer, once its id matches, belongs to the step at hand.
`OutputsInv` says of every result that it is what the server found for that step or
that the call failed. From it: `ClientTyped`, `StepsAreReported`,
`ResultsAreGenuine`. `DomainIsRight` adds that `infer_domain` finds its words in
the signals of failing tools of that layer and in no others (`FailingSignal`).

### Only model-checked

Liveness under fairness (`EveryRequestAnswered`, `NeverStalls`, `OpeningEnds`,
`EndsWithoutServer`) and the fairness in `ImplementsServer` need `ENABLED`, which
the prover does not handle; the safety part of `ImplementsServer` is
`SystemIsServer`. The five violations are counterexamples, which need no proof.

## 5. Not modelled

- Wording: messages and data of errors, `suggested_action`, descriptions of tools,
  the layout of the client's reports, tracing, `get_info`, `--version`. Nothing in
  the program depends on them. Milliseconds and padding of timestamps likewise.
- rmcp and tokio: libraries. Their semaphore, mutex, timeout, file and child
  handling appear as the code relies on them. Deserialisation of arguments is
  rmcp's and appears as one of the refusals of `NetdiagServer`.
- `parse_args` of the client: one match on literals.
- The commands themselves, and what the kernel does with them beyond exit, pipes
  and SIGKILL.

## 6. What is left

Every safety property of the passing runs is proved. Still open: that `Chosen` is
`SelectSeq` (the library's operator is recursive, so equality is an induction over
data; the runs exercise both sides of every choice), what follows from `AuditTrail`
and `SlotPool` by themselves, and larger instances of `system` (three requests on
two slots), which take longer than the runs here are meant to and of which only
liveness would be new.
