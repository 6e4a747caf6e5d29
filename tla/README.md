# LucasCore: a TLA+ verification project

LucasCore (LCC) is a control centre for terminals that run agents. A Rust API server
(`src/apps/api`) spawns pseudo terminals, retains their output and relays it over
WebSockets; a React application (`src/apps/web`) shows the terminals and sends prompts to
them; runner processes (`os_agent_runner`) keep agents that outlive the server and share a
registry file; the server keeps a work ledger, canvases, messages and memories in files; and
a number of Node programs (`tools`) watch the terminals and hand out work by its API.

This directory holds TLA+ models of the parts of that system in which the order of steps
matters, the TLC configurations that check them, and proofs checked by TLAPS. Paths below
are relative to the repository unless they name a file of this directory.

1. [Inventory](#1-inventory)
2. [How the project is built](#2-how-the-project-is-built)
3. [The modules](#3-the-modules)
4. [The runs, their bounds and what they show](#4-the-runs)
5. [Fairness](#5-fairness)
6. [Disagreements found](#6-disagreements-found)
7. [Proofs](#7-proofs)
8. [What is not covered](#8-what-is-not-covered)

## 1. Inventory

### The parts and how they interact

```
 web app (composer, views) --HTTP--> session handlers --spawn--> PTY + child
        |                                 |   ^                   |      |
        | WebSocket                  AppState.sessions      reader thread  waiter thread
        v                                 |   ^                   |      |
 socket task <---- broadcast channel <----+---|--- append_terminal_output|
        ^                                     +---- status task <--------+
        +---- retained output (ring buffer, display, last display) <--- reader

 os_agent_runner processes --lock file--> registry file <-- API server (reads)
 ledger / canvas / peer / memory handlers --> store in memory + file
 tools: watchdog, newline monitor        --HTTP--> screens of sessions, Enters, alerts to ceo
        loss check, resident monitor     --DevTools--> a browser on the web app
        dispatcher, patrol, wake, ops    --HTTP--> sessions, ledger, prompts
```

| Part | State | Operations | Interacts through |
|---|---|---|---|
| Terminal sessions (`api/session/mod.rs`, `main.rs` 2868-3342) | `AppState.sessions` (id to session), `SessionMeta.status`, the child processes | `create_session`, `delete_session`, `list_sessions` with the P1-C guard `ensure_minimum_sessions`, the waiter thread and its status task | the table's RwLock, one mutex per session, the broadcast channel |
| Terminal fan-out (`main.rs` 2278-2316, `api/terminal/mod.rs`) | `terminal_buffers`, `terminal_display_snapshots`, `terminal_last_nonempty_snapshots`; the broadcast channel; `attached_sessions` of each socket | `append_terminal_output`, `spawn_pty_reader`, the socket task with attach, replay and protocol calls | three mutexes, a bounded broadcast channel, WebSocket messages |
| PTY output pipeline (`main.rs` 90-398) | carry of the UTF-8 decoder, escape state of the normalizer, pending output, ring buffer | `push_chunk`, `finish`, `TerminalRingBuffer::push` | reads of the PTY, `Instant::now()` |
| Prompt delivery (`main.rs` 2061-2245 and 2826-2866, `main.tsx` 478-566 and 2277-2353) | text and draft of a composer, the request it waits for, the input line of the PTY | `sendTerminalPrompt`, `prompt-text`, `prompt-submit`, `write`, `key` | HTTP, timeouts, sleeps, localStorage |
| Work ledger (`app/work_ledger`, `infra/persistence/work_ledger.rs`) | a document in memory and in a file | upsert of a task, adding an event, load at start | the file, an RwLock held for single steps only |
| OS agent registry (`bin/os_agent_runner.rs`, `scripts/start-9003-attach-poc.ps1`) | the registry file, the lock file | acquire, take over a stale lock, upsert, release; the script's upsert without the lock | the file system, between processes |
| OS agent runner's PTY, command file and log | runner process | start, write, tail, exit | files, HTTP |
| OS agent views and attachment (`main.rs` 3011-3190, `api/os_agent`) | `attachments.json` | attach, detach, list | file, HTTP to the runner |
| Canvases (`app/canvas`, `infra/persistence/canvas.rs`) | list of canvases in memory and in a file | create, edit, put the content | an RwLock per save |
| Peer messages, memory, daily memory (`infra/persistence/{peer,memory,daily_memory}.rs`) | JSONL and Markdown files, a mirror in memory | append, list, start | files |
| Terminal logs (`main.rs` 848-1070) | log file, archives, pending bytes | push, flush, rotate | files |
| Display snapshot (`main.rs` 401-680) | a grid with cursor and colours | `push`, `ansi_text` | called by the fan-out |
| Branch files and census (`main.rs` 1609-1923) | none of their own | read-only listings | files, HTTP |
| Page data (`main.tsx` 967-1170) | the tables shown, the fetch in flight, refreshes put off | `refresh`, interval, socket events, `onChanged` | HTTP, the event socket, the composers |
| Ledger page (`main.tsx` 1520-1680) | rows, notes and `apiReady` | load, set the status, add a note | HTTP |
| Terminal view (`HqTerminalPreview`) | its socket, the screen, the last seed | seed, connect, attach, draw, reconnect | WebSocket, the rows of the page |
| Shell (`ShellApp`) | view, filter, layout, selection; URL and session storage | select, choose, reload, the effects | the browser |
| Tools that look at terminals (`tools/terminal-stuck-input-watchdog.cjs`, `caesar-newline-monitor.cjs`, `check-9000-terminal-input-loss-cdp.cjs`, `terminal-work-cdp-resident-monitor.cjs`) | a state file each, a browser | look, press Enter, alert, compare | HTTP, DevTools protocol |
| Tools that hand out work (`tools/agent-work-dispatcher.cjs`, `caesar-patrol.cjs`, `ceo-wake-tick.cjs`, `non-sleeping-ops-loop.cjs`) | what was sent when, who looked idle | list, decide, write prompts, save | HTTP, files |
| Other operations tools (`branch-hq-bridge.cjs`, `ceo-ledger-board-server.cjs`, captures) | what was relayed last, in memory | poll, relay, render | HTTP |

### What is hard

- **Lookups by id.** A session is looked up by id again at each step, so what was true of one
  child is applied to the next child of that name: status task of the waiter, second half of a
  prompt, reader of a PTY that was replaced.
- **Check, then act, with an await in between.** The 409 of `create_session`, the limit of
  active sessions, the guard's count, ledger edits, canvas edits, takeover of a stale lock.
- **Two stores of one thing, changed one after the other.** Retained output and the events
  for it; the ledger in memory and in its file; composer and draft; a prompt that was sent
  and the file that says so.
- **Bounded buffers and time.** A lagging receiver loses its place in the channel; pending
  output has no timer; the composer gives up while its request goes on.
- **Decisions on what was read a while ago.** A watchdog presses Enter into whatever the
  screen shows by then; a page shows the answer of a request sent before the last change;
  a preview comes later than the output that it lacks.
- **Crashes and partial failures.** In-place writes, lock files that nobody removes, children
  spawned by a create that then fails, handlers dropped in the middle.

Every such place is listed in `PROJECT.json` under `hazards`, at its line, with the
properties that would notice it going wrong or the reason why none does.

### What makes each part correct

- Sessions: an exit is shown only when some child of the id was waited for, a death is
  always noticed, no running child is lost from the table, the limit is overshot by a known
  amount at most, stopped is final, the guard only fills an empty pool.
- Fan-out: a view that is up to date misses nothing of the server's display and its screen
  never skips output; every event is received or the connection is closed.
- PTY output: what comes out does not depend on how the stream was cut into reads, and
  nothing is lost on the way to the ring buffer.
- Prompts: text before Enter, each submitted line is one send, nothing is submitted twice,
  nothing typed is lost, a text that was written gets its Enter.
- Ledger: it is a log of edits; what was acknowledged survives; no event without its task.
- File stores: what is acknowledged is kept, and memory tells what the file does.
- Registry: the lock excludes, records are kept, each runner changes its own record only,
  unless it cannot read the others.
- Web application: nothing shown goes back in time, a terminal has no gap, a reload restores
  the page, and the page shows in the end what the server has.
- Tools that look: one Enter for one prompt, an Enter for every prompt that is stuck, and
  reports of what has really happened.
- Tools that hand out work: nothing is sent twice in its cooldown, protected sessions are
  left alone, an idle fleet gets work and is reported, changes are told.

## 2. How the project is built

The modules in order of importance of the behaviour, and what each is aimed at.

| # | Module | Composes / refines | Properties aimed at |
|---|---|---|---|
| 1 | `Sessions` | | ownership, exits, guard, limit; proofs |
| 2 | `TerminalFanout` | | no loss, no skip, delivery; proofs |
| 3 | `PtyOutput` | part of `Retained` | independence of chunking; proofs |
| 4 | `PromptDelivery` | the table of `Sessions`, reduced to one id | order, loss and repetition of input; proofs |
| 5 | `WorkLedger` | implements `EditLog` | loss and overlap; proofs |
| 6 | `RunnerRegistry` | implements `RegistryMap` | exclusion under takeover; proofs |
| 7 | `JsonlStore`, `CanvasStore`, `Attachments`, `DailyMemory` | part of `Retained` | what overlaps, failed writes and restarts take away; proofs |
| 8 | `PageData`, `LedgerPage`, `TerminalView`, `ShellState` | composed in `WebApp` | coalesced, late and overlapping answers; proofs |
| 9 | `Watchdog`, `NewlineMonitor`, `InputLossCheck`, `ResidentMonitor` | composed in `ScreenTools` | spacing of Enters, truth of reports; proofs |
| 10 | `NonstopLoop`, `CeoWake`, `OpsLoop` | composed in `LedgerTools` | spacing of prompts, nothing forgotten; proofs |

`WebApp`, `ScreenTools`, `LedgerTools` and `Retained` are *sums*: their parts share no file and no memory,
and what one part does (a screen that changes, a row that is fetched, a task that is done) is
for another one a change of its environment, which its module allows at any time, so that
each part is checked against more than the others can do. A state of the sum is that of one
part, chosen in `Init` by `part`, `running` or `store`; the variables of the others rest. Parts that
do interact are in one module: composers with the fetches that they put off (`PageData`),
the dispatcher with the patrol that reads its file (`NonstopLoop`), both readers and views
of one channel (`TerminalFanout`).

Abstract specifications: `EditLog` for the ledger, `RegistryMap` for the registry.

All modules are written to be proved about: no RECURSIVE operator (what goes over a stream, a
file or a list is a recursive function or a fold), named assumptions on the constants,
invariants as conjunctions of named parts. Twelve runs in all, one or two per module or sum, so that the
whole project is checked in minutes: a new property joins the run of its module.

## 3. The modules

Each module has an `MC...` module, which holds its model values, symmetry sets and
definitions of constants. Definitions named `..._Faulty...` are plausible mistakes in the
definition after them; no specification uses them, and each one makes some property fail.
`PROJECT.json` maps every other definition to the lines it models.

**`Sessions`**: the table, the child processes, the waiters and the handler tasks. One step is
what a handler does between two points at which another task can run, that is, between two
awaits. An id and an *instance* (one spawned PTY with its child) are told apart, because the
code tells them apart nowhere. `CreateCheck`, `CreateLimit`, `CreateSpawn` (with `SpawnFails`,
and `SpawnLeaks` for a failure after the child was spawned) and `CreateInsert` are
`create_session`; `DeleteRemove` and `DeleteStop` are `delete_session`; `ListCount`,
`GuardCheck`, `GuardSpawn`, `GuardInsert` and `ListReply` are `list_sessions`; `WaitReturns` is
the waiter thread, `WaitFails` a `wait()` that returns an error (which the closure turns into an
exit without a code), and `ReportExit` the status task that either hands to the runtime.
`active_session_count` locks one session after another, but a status it reads can only go
from active to exited meanwhile, so its result is that of one moment.

**`TerminalFanout`**: one session id with the readers of the PTYs spawned under it, the three
retained maps, the broadcast channel and the socket tasks. A reader takes one mutex after the
other and then sends, in four steps (`PushBuffer`, `PushSnapshot`, `CacheLast`, `SendOutput`).
The channel is the sequence of all events with the position of each receiver; a receiver more
than `Capacity` behind gets `Lagged`, and the socket is closed. `AttachRead`,
`AttachFallback`, `AttachLast` and `ReplayRead` (each under a lock of its own), `AttachReply`,
`AttachError` and `AttachReplay` follow the attach message; `ProtocolBegin` to `ProtocolEnd`
is a protocol call, during which the socket receives nothing. A chunk draws or clears; a
screen is the sequence of chunks drawn since the last clear. `TypeOK` says what the variables
hold; the run checks the other properties.

**`PtyOutput`**: the decoder, the normalizer and the batching as functions on sequences, over
bytes that stand for the classes the code tells apart (two bytes of a character, the final
and introducing bytes of escape sequences, CR, LF, BEL). `Read` is one `read()` and its
`push_chunk`, `EndOfStream` is `finish`; `TimePasses` is the clock, which the code consults at
a read only.

**`PromptDelivery`**: composers, requests and PTY input of one session id. A prompt is two
requests; `Lookup`, `WriteBytes`, `WriteFails` and `Wake` are the server's side of a request,
with the sleep after a text and the second half of `write_to_session`. `Type`, `Send`,
`TextAcked`, `SubmitAcked`, `Failed`, `TimesOut` and `Reload` are the composer. What a PTY was
given is a sequence of words and Enters, each marked with its send.

**`WorkLedger`**: a document is the sequence of edits made to the default ledger. `Begin` is the
copy and the edit of the copy, `Truncate` and `Write` are `fs::write`, `Publish` the assignment
in `save`; `Drop` is a handler whose client went away, `Crash` and `Restart` the process. A file
that is cut within a character is not valid UTF-8, for which the API does not start; then
`Restart` does not happen, and nothing says that it must.
`lapses` is a history variable: requests that overlapped, crashes, torn writes.
**`EditLog`** is its abstract specification.

**`RunnerRegistry`**: runner processes with the lock file and the registry file. `TryCreate`,
`TryBusy`, `Examine`, `RemoveStale` and `GiveUp` are the loop of `RegistryLock::acquire`,
`WritePid`, `ReadRegistry`, `WriteRegistry` and `Release` are `upsert_registry`. `ReadFails`
is a read or a parse that fails, which counts as an empty list: the write that follows drops
the records of all others. `ScriptReads`, `ScriptWrites` and `ScriptFails` are
`Upsert-AttachRegistry` of the start script, which takes no lock. Age of the lock is one bit,
set by `LockAges`. `stolen` and `crossed` are history variables: some takeover removed a lock
that was not the stale one it had looked at, or whose owner was merely slow; the script wrote
between a runner's read and write, or something wrote between its own. `author` tells who
wrote each record, or that it was dropped. **`RegistryMap`** is the abstract specification.

**`JsonlStore`**: the messages (`PeerStore`) and the memories (`MemoryStore`), which have the
same code for this. `WriteLine`, `WriteEnd` and `Push` are the two appends and the list in
memory; `Lines` is what a start reads back. **`CanvasStore`**: the use cases that copy a
canvas (`Find`) and save the copy, those that do not, and the lock from `Save` to the end of
`Write`. A canvas is the set of requests that made it what it is. **`Attachments`**: `Begin`
reads `attachments.json` and changes the copy, `Truncate` and `Write` write it.
**`DailyMemory`**: `Look`, `Open` and `Write` of `append_checkpoint`. In all four `Drop` is a
handler whose client went away, whose write goes on if it has started, and `met` and `lapses`
are history variables. **`Retained`** is the sum of these four and of `PtyOutput`: what the
API keeps of what it is given, the ledger aside.

**`PageData`**: the tables that a page shows, each one a number that counts its changes.
`Refresh` is `refresh` of `main.tsx`: put off while a composer is in use, answered by the
fetch in flight if there is one. `Tick`, `OnEvent`, `Acted` and `Effect` are its four callers;
`Reads`, `Lands` and `Fails` are the requests of one fetch. `told` are the fetches whose
caller shows their error (the first one, and that of the effect on composers), `error` whether
one is shown, which nothing takes back, and `Sees` what a user sees: on the popout the error
stands in place of the terminal. **`LedgerPage`**: `Timer`, `SetStatus`, `AddNote` with what
is shown at once (`row`, `notes`), the loads that follow, which may overlap, and the server
that applies the edits. **`TerminalView`**: `Mount`, `Opens`, `Attach`, `Receive`,
`NewPreview`, `Closes` and `Reconnect` of `HqTerminalPreview`, with output numbered in its
order. **`ShellState`**: the `readStored` functions, with what the local storage may still
hold, the effects that write URL and storage in the order of the code (`Effects`), the
deferred list of sessions (`CatchUp`), what the user does. A filter is for all sessions or the
active ones, but for those of hidden teams, for a group or for a team (`Shows`). **`WebApp`**
is their sum.

**`Watchdog`**: one tick of `terminal-stuck-input-watchdog.cjs` from `List` to `Save`, with a
look at each session, `submitEnter` as `ReadBefore`, `Press`, `Check` and `Fallback`, or, for
a session that answers 404, `Refused` and `WriteInstead`, the file that is read at the start
of each tick and written at its end, and the screens that change in between.
**`NewlineMonitor`** is the same for `caesar-newline-monitor.cjs`, whose Enters repeat and
come with an alert. `Hangs` is a call of a tick that takes so long that `repeatAlertMs` goes
by; the alerts of that tick are recorded with the time at which it began, so that they are
over when they are saved. **`InputLossCheck`**: the looks of
`check-9000-terminal-input-loss-cdp.cjs` at a composer, in their order, on a page that may
change what it shows and what it stores, each for itself, and whose composer may be missing,
so that nothing is typed or read, and come back with the draft; with a browser that may go
away or stop to answer at any step, and requests that fail at any step. **`ResidentMonitor`**:
the browser that is found or started, the sample of API and DOM, what the monitor remembers of
each card under two keys, its end. **`ScreenTools`** is their sum.

**`NonstopLoop`**: a run of `agent-work-dispatcher.cjs` from `Begin` to `SaveIdle` and the
patrol that follows it each minute. `state` is the file of what was sent, less what its
cooldown has expired, counted from the start of the run that sent it; `watched`, `got`,
`again` and `lost` are history variables about one agent or the alert, `lost` also when that
run was slower than the cooldown. **`CeoWake`**: a run of `ceo-wake-tick.cjs`, its fingerprint
(`Found`: how many tasks are open, those of P0, of which it names eight at most, and the
owners of any task that are missing, stale or paused), the two writes and the save after both.
**`OpsLoop`**: the ticks of `non-sleeping-ops-loop.cjs` with `findIssues` and the choice of
whom to write to (`Targets`). **`LedgerTools`** is their sum.

**`SessionsProofs`**, **`TerminalFanoutProofs`**, **`PromptDeliveryProofs`**,
**`SharedFilesProofs`** (the ledger and the registry, whose variables have different names for
that reason), **`RetainedProofs`**, **`WebAppProofs`**, **`ScreenToolsProofs`** and
**`LedgerToolsProofs`** hold the theorems (section 7).

## 4. The runs

Several properties hold only under a condition on what the environment does. The condition
is part of the property, in one of two forms: `[]OneAtATime => []...` over the whole
behaviour, or `~stolen => ...` over a history variable. The condition tells the reader how
far the code's promise reaches: where it fails, the property has counterexamples.

| Run | Instance | What it shows |
|---|---|---|
| `sessions_safety` | 2 handlers, 3 ids (1 of them standard), 3 instances, limit 1 | Exits have a cause, no dead session is shown as active once its waiter is through, instances are in one place, the limit is overshot by at most one session per other handler and per guard entry after the first, stopped is final. |
| `sessions_fair` | 2 handlers, 2 ids, 2 instances, limit 2 | A death reaches the table; while requests come one at a time no running child loses its entry (`OneOwner`) and the guard tops up an empty pool only (`GuardFillsEmptyPool`). |
| `fanout_views` | 1 reader, 1 view, 3 chunks, 4 events, channel of 2 | A current view misses nothing of the display and its screen skips nothing; every event is received or the connection closed. |
| `prompts_one` | 1 composer and a writing tool, 2 sessions, 2 words, 3 requests; timeouts, reloads, exits, sessions created again | The Enter of a send never precedes its text; nothing typed is lost. |
| `prompts_two` | 2 composers that wait for their answers and let their users type ahead, 2 words, 6 requests, 2 sessions | While the composers send in turns, or nobody creates the session again, nothing is submitted twice; with both each submitted line is one send; a text that was written gets its Enter unless the session goes away. |
| `ledger_edits` | 3 requests, 1 task, failing writes, dropped handlers, crashes | Until requests overlap or the API dies the ledger is an `EditLog`; until requests overlap or a write is torn the file has all that was acknowledged; there is never an event without its task. |
| `ledger_torn` | 2 requests, crashes | *Violated*: acknowledged edits survive a restart. |
| `registry` | 2 runners, 4 attempts, looked at from the second on, every fault, the script for one of the agents | Until a lock is stolen the lock excludes; until then, and until the script crosses another write, a record is lost only to a runner that cannot read the registry, and the file is a `RegistryMap`; nobody waits for the lock for ever. |
| `retained` | streams of up to 5 bytes of text or of escape sequences, reads of up to 3, batches of 3; 3 requests, 2 canvases, 2 agents, every fault | The output is that of the whole stream and stable under a second normalization, nothing of it is lost, and the ring buffer keeps each CR LF that no flush cuts. What is acknowledged is kept in its file but for what overlapping requests, torn writes and lost lines take away; memory and file tell the same. |
| `screen_tools` | 2 sessions, 1 of them protected, one text of each kind | Enters are spaced unless a record of them was lost or one came late in a slow tick, a stuck prompt gets its Enter, the checks of the page report what has happened (the loss check also reports a loss when it found no composer), come to an end and leave the browser as they should. |
| `ledger_tools` | 3 sessions, 1 or 2 tasks | Nothing is sent twice in its cooldown unless a run failed after it was sent or was slower than the cooldown, the protected session is left alone, idle agents get work and are reported, changes are told. |
| `web_app` | 1 composer, 2 changes of a table; 1 task with 1 note; 4 chunks; 2 sessions, one of them in a hidden team, 2 views, 2 layouts | No table goes back, a seeded terminal has no gap, a reload restores the page, and all of it catches up with the server, but for a popout whose first fetch, or one made when its composer became idle, has failed. |

### Why the bounds are enough

- *Sessions.* Two handlers are enough for every race of two requests, and three instances for
  an id that is created, deleted and created again while a third child is in a handler's
  hands. Limit 1 makes the limit matter with two handlers; in the fair run it is 2, because
  with 1 the limit would hide a missing 409. A handler serves any number of requests.
  Instances are the only bound; when they are used up, spawns can only fail.
- *Fan-out.* A channel of 2 with 4 events makes a receiver lag and come back; 3 chunks let a
  chunk be drawn, cleared and drawn again around an attach. Views do not interact, so one is
  enough for properties of each view.
- *PTY output.* 5 bytes hold a complete CSI or OSC sequence with a terminator of two bytes
  and a character on either side; reads of 1 to 3 bytes cut them in every way.
- *Prompts.* Two words distinguish the order within a send; 3 requests are a whole prompt and
  a foreign write, 6 are three prompts, which two overlapping composers need to submit a text
  twice when the session is created again: with 5 `NoResubmit` would seem to hold without its
  condition. `MaxRequests` leaves room for the Enter of
  every text sent, so the bound never ends a send in the middle.
- *Ledger.* Three requests are two that overlap and one that comes after both.
- *Registry.* Two runners show every step of a takeover; the theorems hold for any number, and
  for a script that starts any of them. One script at a time: `start-9003-attach-fleet.ps1` and
  `start-os-codex-agents.ps1` call it for one agent after another.
- *File stores.* Three requests are two that overlap and one that comes after both, or one
  before; two canvases and two agents show what a save of one does to the other. A day has a
  file of its own, so that one is enough. Requests are alike but for what they ask for, which
  `Init` enumerates, so that they may be renamed (symmetry; the run has invariants only).
- *Web application.* Two changes are enough for an answer that is older than the change after
  it, and two loads or edits under way for one that overtakes the other. Composers matter only
  as none or some. Four chunks are one that is seeded, one in the snapshot, one that follows
  and one that a reconnection misses. Only the two views that differ (terminals and another)
  and the two layouts that differ (grid and another) are told apart by the code.
- *Tools that look.* `Typed`, `Shown`, `Drawn` and `Chosen` name what may become of which
  screen: an agent whose screen shows everything and ceo, who is protected and gets the alerts.
  Sessions meet only in the tick that looks at one after the other and in the title that two of
  them share, for which two are enough. `Steady` keeps ceo listed.
- *Tools that hand out work.* Three sessions: the lead, who may be missing or inactive, and two
  that may be idle at once, which is what raises the alert. `Shown`, `Becomes` and `Turns`
  name what may become of whom. `Watch` names whom the history variables follow.

Deadlock is checked except where the system rightly stops: a stream that has ended
(`PtyOutput`), requests that are used up (`PromptDelivery`, the stores of `Retained`), and
a check that has come to its end (`InputLossCheck` and `ResidentMonitor`, in
`ScreenTools`).

## 5. Fairness

- *Sessions*: weak fairness of the waiter thread and of the status task of each child. One is
  an OS thread that blocks in `wait()`, the other a task of the tokio runtime. Nothing is
  assumed of clients or children.
- *Fan-out*: weak fairness of the steps that the socket task takes once it has begun a
  message, and strong fairness of the receive branch: `tokio::select!` polls its branches in
  random order, so a client that never stops sending does not keep it from being taken.
  Protocol calls end because they only sleep and write. Nothing is assumed of readers.
- *PTY output*: time passes. A child need not write or end.
- *Prompts*: handlers run on, and the browser delivers answers. Nobody has to type or send.
- *Registry*: a runner that has begun to record its status goes on or crashes.
- *Web application*: the intervals go on while the page is open, requests are answered or fail,
  the browser delivers messages and runs its timers. Nothing is assumed of people, of other
  sources of change, or of failures, but for the conditions that the properties state.
- *Tools*: their loops run on, and are started again by scripts or by hand (weak fairness of
  the steps of a tick). Each round sleeps, so a threshold or a cooldown that is counted from
  a stored time goes by within a bounded number of rounds: strong fairness of `TimePasses`,
  `Ages`, `CooldownPasses` and `WakeCools`, which are enabled only between two ticks. A call that
  hangs (`Hangs`) may happen or not.

## 6. Disagreements found

One run finds a disagreement with what the repository says:

- `ledger_torn`: the ledger is written in place (`work_ledger.rs:45`) and a file that cannot
  be read counts as the default ledger (line 27), so that acknowledged edits do not survive
  every restart.

Four more are stated as properties of the modules that no run checks, because they are known
to fail, TLC refutes each within seconds, and what they show is said here:

- `SettledViewAgrees` (`TerminalFanout`): the retained display is changed first and the event
  sent last (`main.rs:2278-2316`), which is the order that loses nothing; but an attach in
  between draws the chunk twice, and an attach just after a clear is answered with the last
  non-empty screen (`main.rs:2786`). The documents say that all surfaces render the same tail.
- `OutputShown` (`PtyOutput`): whether the flush interval has passed is asked only when a chunk
  is read (`main.rs:383`). The documents give 50 ms as the bound of a batch.
- `NoResubmit` (`PromptDelivery`) when the page may be loaded again during a send: the draft is
  cleared only after the submit is acknowledged (`main.tsx:2340`), so the text is sent twice.
- `OneLinePerWrite` (`JsonlStore`): an entry and its newline are two appends without a lock
  (`memory.rs:109-112`, `main.rs:3429-3432`), so that two saves at once end up in one line and a
  start reads neither. `docs/hq-memory-system-benchmark-20260601.md` asks for exactly one line per
  accepted write.

The conditions of the passing properties name what else breaks: when two composers of one
session send at the same time, the Enter of one may submit what the other has written and is
still waiting to submit; if the session is then created again, the other's own Enter fails and
its text is sent once more to the new session (`NoResubmit`). Overlapping creates of one
id orphan a running child (`OneOwner`), overlapping ledger requests lose an edit (`IsALog`),
two waiting runners may steal a lock (`Exclusion`), a start script undoes what a runner has
written between its read and its write (`RecordKept`, `IsAMap`), overlapping requests undo the edits of a
canvas (`ChangesKept`) or the state of another agent (`AttachmentsHold`) and head a day twice
(`HeadedOnce`), of two overlapping loads of the ledger page
the older may win (`SyncedIsTrue`), a run that fails after it has sent something sends it again
(`NoUndueWrites`), a watchdog that dies after an Enter presses it again, and a newline monitor
whose Enter came late presses the next one early (`EntersSpaced`).

The models also show, without a property that says otherwise:

- a runner that cannot read or parse the registry takes it for empty and erases the records
  of all others while it holds the lock (`os_agent_runner.rs:437`, `ReadFails`); so does one that
  reads a registry of one record as the start script writes it, an object and not a list;
- a popout whose first fetch has failed, or the one that its composer waited for, shows the
  error in place of the terminal for good (`main.tsx:866`, `876` and `952`, `CatchesUp`);
- the loss check takes a composer that is missing, or late after the reload, for one that has
  lost its text, and reports it as reproduced (`ReproducedMeansLost`);
- a line that is cut short takes the next entry with it, which was acknowledged (`SavedIsKept`);
- a write of `attachments.json` that is cut short attaches every agent whose runner has not
  stopped, and the next one makes that last (`AttachmentsHold`);
- a terminal view without a snapshot draws a late preview over newer output, and one that
  reconnects goes blank until a snapshot or a preview comes (`main.tsx:2877`);
- a non-empty draft in any mounted card puts off every refresh of the page (`main.tsx:1071`);
- the layout of a filter is stored under the filter before it is read for it, so that it is
  never restored when the filter changes (`SyncedLayout`);
- the loss check waits without a timeout on a page that has stopped to answer, and ends with
  exit code 0 and no summary when the browser has gone (`Silent`);
- the resident monitor leaves the browser behind when it does not answer in time (`NotReady`),
  ends at the first request that fails, and keeps the second of two cards of one title.

## 7. Proofs

`tlapm M.tla`, for each module `M` whose name ends in `Proofs`, checks all its obligations.
From nothing that takes some ten minutes for `RetainedProofs` and less for each of the others.

**Sessions**, for any ids, handlers, instances, guard list and limit, assuming only
`SessionsAssumption`. `TypeOK`, `ExitReportHasCause`, `NoGhostActive` and
`OnePlacePerInstance` are invariants, and `StoppedIsFinal` is an action property. The
invariants are not inductive by themselves. The proof strengthens them to

    IInv == TypeOK /\ HolderInv /\ InstanceInv /\ TableInv
            /\ OnePlacePerInstance /\ NoGhostActive /\ ExitReportHasCause

where `HolderInv` says what a handler knows of the instance in its hands (one that is to be
inserted is active and has no waiter yet; one that is to be stopped had one), `InstanceInv`
relates process, waiter and status of one instance, and `TableInv` says that what is in the
table has a waiter and is active or exited. `NoGhostActive` needs that the insert comes before
the waiter; `StoppedIsFinal` needs that a stopped instance is not in the table, where the
status task would find it (`TableInv`), and was spawned already (`InstanceInv`). `NextIInv` has a step per action and under it a step per part that the action
can disturb; `TaskMoves` deals at once with all steps in which a handler merely moves on.

`LimitOvershoot`, for any finite set of handlers: `LimitOvershootBound`. The number of active
sessions alone is not inductive, because a handler past its limit check adds one later. What is
bounded is the set of *charged* ids: those that are active, those of the creates that were let
through, and the guard's whole list while a guard is at work (`ChargeInv`). An insert moves
an id from one part of that set to another; only a create that passes its limit check and a
guard that begins add to it, and both count the active sessions first, with their own id
still uncharged. Two guards at work charge the same list, which is why the bound has it once.

`NobodyGetsLost` and `GuardKeepsOut`: `OneOwner` and `GuardFillsEmptyPool`, whose condition is that
requests come one at a time. `AloneInv` is inductive for the steps between two states at which
that holds: a handler that makes a step is then the only one at work (`OthersIdle`), so what a
create or the guard has checked is still so when it inserts (`CheckedInv`) and the entry that is
replaced is empty; and nobody but the guard has inserted since it counted (`PoolInv`).

**TerminalFanout**, assuming only the module's assumption: `TypeCorrect`, for any readers, and
`NoOutputMissed`, that is, `NothingMissed` with one reader, as in the run (a second reader resets
what the first retains, see section 8), for any views, amount of output, capacity and
number of connections. The invariant is

    IInv == TypeInv /\ AttachInv /\ BufferInv /\ DisplayInv /\ LastInv /\ LogInv /\ ViewInv

`BufferInv` numbers the chunks by their place in the ring buffer, which the other parts then
speak of: the display is what was drawn since the last clear (`DisplayInv`), the last non-empty
display is followed by clears only (`LastInv`), the channel has carried each chunk that was sent
once and in order (`LogInv`). `ViewInv` says of the screen of a view, and of the snapshot
that an attach holds, that what is drawn and sent since the last clear is on it or is still to
be received (`Keeps`), and that there are clears only in its gaps and between its end and what
is still to come (`Continues`). An attach has what the display had, and the display is ahead
of the channel, so the queued events repeat some of it but leave nothing out.

**PromptDelivery**, assuming only `PromptAssumption`. For any composers, other clients and
environment, and any number of words, requests and sessions: `TextFirst`, that is,
`TextBeforeSubmit` for every instance. The invariant is

    IInv == TypeInv /\ ReqsInv /\ PtyInv /\ CompsInv

`CompsInv` says that a composer that waits for its text waits for the request it posted;
`ReqsInv` that a text which was served is in the PTY it was looked up in, that the Enter of a
send is posted only for a text which was acknowledged, and that it finds a session no older
than the one its text went to; `PtyInv` is the property, key by key. Ids are looked up afresh, and
sessions are numbered as they are created, so what was written before is in this PTY or in an
older one (`LookupInv`); and PTYs only grow (`Grows`), so what was right stays right
(`KeyStays`). The hard step is `WriteBytesInv`. On this invariant rest:

- `TypeCorrect`: `TypeOK`, from `Ranges`. That the requests stay within their bound needs that room
  is left for the Enter of each text that a composer waits for (`RoomInv`).
- `NoWordLost`: `TypedNotLost` for one composer that does not type ahead, with everything else
  that can go wrong. `DraftInv`: the draft is what the composer shows, and is the text of the send
  under way; `KeptInv`: each word is in the draft or in a request that was served.
- `SubmitsOnce` and `LinesWhole`: `NoResubmit` and `LinesAreSends` for any composers that may type
  ahead, any number of words and requests, and a session created again any number of times
  (the hypotheses are the environment of `prompts_two`: no other clients, and no timeout, reload or
  child that ends). Both rest on `Tracked`: each unfinished request is awaited by one composer, no
  two composers have the same send, no word is in two composers, and a word in a PTY was written
  by the text of its send, once. The conditions are temporal, so each is assumed of
  every state and the invariants are proved under it. While composers send in turns (`OneInv`),
  a word is sent again only when its send is `Lost`: it failed, or it is in the PTY of a session
  that was replaced, with no Enter after it and no request that could still write one. In the first
  session (`FirstInv`), a word is sent again only when there is no session to write it to. Under
  both (`LineInv`) the input line is empty until a text is written, and is that text until its Enter.

**RunnerRegistry** (in `SharedFilesProofs`), for any runners, any number of attempts and any
faults, assuming only `RegistryAssumption`:

- `RegistryTypeCorrect`: typing, and no runner makes more than `MaxTries` attempts.
- `LockExcludes`: `Exclusion` is inductive with the types. Its hard step is `Release`, which
  removes whatever lock is there, and which by exclusion is its own.
- `RecordsStay`: needs `Kept`, that who is about to write holds a copy that *is* the registry, or
  an empty one because its read failed, and that who has just written finds its record. It
  rests on `Exclusion`: nobody else is inside, so no other runner writes; and on `crossed`, for
  the script, which needs no lock. `author` says what may have become of a record: its runner
  wrote it, the script did, or it was dropped by a runner that could not read.
- `RegistryImplementsMap`: each step maps to an upsert of one record, to one that drops the
  others (`UpsertBlind`, after a read that failed), to a stutter, or, once a lock is stolen or
  the script has crossed another write, to `Break` (lemma `StepMaps`, from `Kept`).
- `NothingStolen`: with failing opens, reads and writes only (no crash, no suspended process, no
  leaked lock) no lock is ever stale (`NoneStale`), so none is stolen and the lock excludes for
  good. The script may still cross a write.

**WorkLedger** (in `SharedFilesProofs`), for any tasks, requests, edits and faults, assuming
only the module's assumption on its constants:

- `TypeCorrect` and `LedgerIsSound`. The invariant is

      IInv == StateInv /\ DocInv /\ AloneInv /\ FileInv

  `StateInv` is typing; `DocInv` says that every document there is (in memory, in the file, in
  the hands of a request) is *good*, that is, has the task of each of its events before the
  event; `AloneInv` says that until requests overlap a request that holds a copy holds the
  published ledger with its edit; `FileInv` says what the file is at each stage of a write.
  That a document stays good rests on the two lemmas `GoodStays` and `GoodAppends`: edits are
  only appended, and an event is only added where its task was found.
- `LedgerImplementsLog`: each step maps to an append of one edit, to the loss of what was not
  acknowledged, or to a stutter, from `AloneInv` and `FileInv`.

**WebApp**, for any composers, changes, statuses, views, layouts, sessions, filters, whomever each
of them shows, and any amount of output, assuming only `WebAppAssumption`:

- `NoTableGoesBack` rests on `DataInv`: the fetch in flight is the one that `ref` names, so there
  is at most one, and what it has read is no older than what is shown and no newer than what
  the server has. A fetch that overlapped another would break it, and with it the property.
- `ViewsKeep` has an invariant for each of two parts. `ViewInv`: the messages under way are
  consecutive and end with the last output, only the first may be a snapshot and only for a
  view that has drawn none, and a seeded view shows `1 .. m` where `m + 1` is the next message.
  `ShellInv`: every step but the effects asks for the effects, and they write what they read.
- `TypeCorrect`: that the page shows only tables there have been rests on `DataInv`, for what a
  fetch has not read is below all tables; that of a terminal, that its messages tell only of
  output there has been (`Sent`); that of the ledger page, on what an edit may carry (`Edits`).

**ScreenTools**, for any sessions, texts and titles: `TypeCorrect`, `EntersAreSpaced` and
`ProbesAreTruthful`. Each tool has an invariant of its own, and each invariant was checked by TLC
over all states of the run before it was proved.

- `WatchdogInv`: of a text that got an Enter and is still on the screen the record is in the file
  between two ticks (`RecordInv`); within a tick memory has it, or the session is the one whose
  Enter is being checked. A session that the tick has still to look at is listed as its screen
  is, so that it is the record that keeps it from a second Enter.
- `NewlineInv`: the same of the alert that goes with an Enter (`AlertInv`), which is recorded
  before the next session is looked at, as of the start of the tick: of a session whose Enter came
  in a slow tick the record is no longer recent, and it is one of `late`.
- `LossCheckInv`: a text that was lost has been missed by a look already, or neither the composer
  nor the draft has it before the last look, which will miss it (`FieldInv`); and a look that
  found the text is over (`KeptInv`), without which a look could miss the text and be counted
  as one that found it. A verdict needs all five looks. Of a draft of this run that the page has
  not changed, `FieldInv` says that it is the text, if there was a composer to type into, and is
  found after the reload, if there was one to look at.
- `ResidentInv`: what the monitor remembers as text was seen as text on a card with that id or
  that title (`SeenInv`). It needs that no title is the id of a session and that nobody changes
  the addressee of a card, which is so in a browser that the monitor has started itself.

**LedgerTools**, for any agents, plans, tasks, owners and protected sessions: `NothingUndue`.
Each program has an invariant of its own. `SentInv` of the dispatcher: whom a run has dealt
with is no longer in its list, and what was sent within its cooldown is in the file or in what
the run will save, unless that was lost or comes with the time of a start long ago. `ToldInv`
of the wake-up: what ceo was told is what the file says, or what the run that has told it has
found; and a run that does not wake ceo has found what the file says. That of the ops loop is
inductive by itself, because dev-lead, who stands in for an owner who is not there, is not
protected. `TypeCorrect` rests on `SentInv` too: an agent that a run types to is one that it
has not dealt with.

**Retained**, for any requests, canvases, agents, streams, sizes of reads and faults, assuming
only `RetainedAssumption`: `TypeCorrect`, `WhatIsGivenIsKept`, `ReadsAreInvisible` and
`MemoryAndFileAgree`, which are all the invariants of its run. `StoreInv` is the sum of an
invariant of each store.

- `PtyInv`: until the stream ends, the decoder and the normalizer are where one read of the whole
  stream takes them, but for what went out (`AsOneRead`), and at the end all of it went out
  (`AllOut`). That a read takes them there rests on lemmas about the code's loops, proved by
  induction over the text: normalizing a text and then another one is normalizing both
  (`NormalizeConcat`), what was put out before changes nothing (`NormalizeLater`), decoding goes
  on with the byte that was left (`DecodeChunk`), and what the normalizer makes of its own output is
  that output, as it was before but for carriage returns (`NormalizeAgain`). The ring buffer
  appends a piece in which each CR has its LF (`RingPushKeeps`, `RingKeepsPairs`).
- `ListInv`: an entry is in the file once (`WrittenOnce`), and memory has only what is there
  (`ReadOrPushed`). The line of a request that met nobody has its end behind it (`EndsItsLine`), and
  before it an end or what a failed request left (`StartsItsLine`), so that it is read back; that is
  `SavedIsKept` once torn lines are counted against failed requests (`TornBySomeone`). As long as
  nobody met anybody, memory is the file without what is not in memory (`InFileOrder`), in the
  file's order. The lemmas on what a sequence has of a set (`PickAppend`, `PickAgain`) do the rest.
- `CanvasInv`: who writes is alone with the lock, unless dropped (`CanvasAlone`); a change that met
  nobody is in the list and in each copy made after it (`KeepsChanges`); and the file is the list
  whenever nobody writes, unless a write failed (`FileFollows`).
- `AgentsInv`: until requests overlap, the file and the map about to be written say of every agent
  what was asked for last, or nothing once a write was torn (`OneByOne`).
- `DayInv`: a checkpoint is in the file once, from its write on (`Once`), and until two meet only the
  first writer finds no file, and its heading is the first line (`OneHeading`).

The induction over data is this: `Induction` (for sets of natural numbers, from the
well-foundedness of `<` on Nat) gives that a recursion or a fold has one run (`RunExists`,
`RunIsUnique`, `RecursionFacts`), hence what it gives for a sequence with one more element
(`ValueAppend`, `RecursionIs`), and induction on sequences (`SeqInduction`). Statements to be proved
by induction are sets (`G == {s \in Seq(T) : ...}`), because the provers cannot take a predicate as
a parameter.

**Model-checked only**: liveness (`DeathIsNoticed`, `Delivered`, `TextGetsSubmitted`,
`NobodyWaitsForever`, `StuckGetsEnter`, `ProbesFinish`, `IdleIsHandled`, `ChangesAreTold`,
`PagesCatchUp`) and anything about ENABLED, which the prover does not do. All invariants of the
passing runs, both refinements and every action property are proved.

## 8. What is not covered

- *In the file stores*: `CanvasStore.delete` and `MemoryStore.archive`, which nothing calls;
  searches, the order of canvases, ids made of the clock; a line cut within a character, which
  makes its file unreadable, so that the messages are gone and a memory file keeps the API
  from starting.
- *Terminal logs* are input and output only.
- *The runner's child, command file and log.* One writer each; what races is the registry.
- *The display snapshot.* A pure algorithm on a grid, abstracted to draw and clear.
- *In the web application*: `PeerDock`, which loses what is typed while it sends; the filters by a
  status other than active; the tabs that only display; code that nothing uses (`WorkLedgerDock`, the
  xterm write queue, `pickActiveTerminalSessionId`).
- *In the tools*: which texts are prompts, directives or anomalies (a model has classes of
  screens), the texts of prompts and reports, and the tools that keep nothing that another run
  depends on: the board, the captures, and the bridge to another server's meetings, which
  advances its position before it sends and so loses rather than repeats.
- In `TerminalFanout`: what is on a screen beyond chunks drawn and cleared, the size limit of
  the ring buffer, persistent logs. The passing run has one reader: a second one, of a
  session deleted and created again, resets what the first retains, and `NothingMissed` does
  not hold then.
- In `PtyOutput`: sizes. The ring buffer's limit and the tails cut from it are left out.
- In `PromptDelivery`: the line ends within a prompt, which `normalize_prompt_body` unifies;
  images; a card that sends to another session than the one it shows. `TypedNotLost` has one
  composer that does not type ahead: an acknowledgement empties the composer whatever it
  holds by then, and composers of one id share a draft.
- In `RunnerRegistry`: two start scripts at once, which the other scripts do not start; what is in
  a record besides the status of its agent.
- In `TerminalFanout` too: a client that does not read, for which the socket task would wait.
- In `Sessions`: resizes and writes, and a write that blocks while it holds the session's
  mutex, for which every handler that goes through the table would wait.
- *In the two sums of tools*: what two programs do to one session at the same time, beyond what
  each module allows the screens and the fleet to do by themselves.
- Branch files, census and documents have no state that outlives a request. Of the start scripts
  only `start-9003-attach-poc.ps1` changes a file that others change, the registry, and it is in
  `RunnerRegistry`; the others start it or programs.
