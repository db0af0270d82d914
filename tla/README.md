# a2e-shell: a TLA+ verification project

a2e-shell is an HTTP server (TypeScript on Node) that gives agents sessions in
which they execute commands: through bash, or through a small "bounded" verb
language, or through MCP servers it connects to. Each session has a working
directory, an environment overlay, bindings and a transcript, which survive a
restart when persistence is on, and may have a catalog of skills checked out of
git through a cache shared by several server processes.

This directory models the parts whose correctness depends on the order of
events: what happens between two `await`s, who else runs in between, what a
crash leaves, and what a response that was sent promises. TLC checks the models
on small instances; TLAPS proves the main safety properties for every instance.

Paths in this document are relative to the repository (`src/session/state.ts`
is the file of the server's own `src`).

## 1. Inventory

| Part | State | Operations | Module |
|---|---|---|---|
| Session state and persistence (`src/session/state.ts`, `persistence.ts`) | cwd, env, bindings, turn, history size, dirty flag, flush promise; `state.json`, `state.json.tmp` | setCwd, setEnv, unsetEnv, bind, nextTurn, markDirty, runFlush, flush, writeState, readState | `SessionState`, `DurableSession` |
| Exec route and idempotency (`src/http/routes/exec.ts`, `state.ts`) | response cache (a Map with TTL and cap), map of executions in flight | look up, join, execute, cache, evict, respond | `ExecIdempotency` |
| Transcript (`src/session/transcript.ts`, `state.ts`, `routes/replay.ts`) | `transcript.jsonl`, rotated segments, byte counter, history size | append, rotate, read all segments | `Transcript` |
| Server lifecycle (`src/http/lifecycle.ts`, `server.ts`, `index.ts`) | accepting / draining / stopped, in-flight counter, resolver, exit sequence | gate in, gate out, signal, grace timer, close, exit | `Lifecycle` |
| Session manager (`src/session/manager.ts`, `routes/sessions.ts`) | Map of live sessions, session directories, MCP connections | create, resume, get, delete, sweepExpired | `SessionManager` |
| Catalog cache (`src/catalog/cache.ts`) | bare mirror, lock file, registered worktrees, inFlight map per process | materialize, ensureMirror, acquireLock, refresh, sweep | `CatalogCache` |
| Exec pipeline, runner, event stream (`src/exec/`, `routes/exec.ts`, `src/verbs/call.ts`, `src/mcp/invoke.ts`) | child process, pipe, captured output, timer, queue of events | interpolate, intercept cd/export/unset, run, call, truncate, time out, bind, drain, close | `ExecTurn` |
| Bounded runtime (`src/runtime/`, `src/exec/pipeline-bounded.ts`) | bindings, frames, transcript of turns, hydration and write promises, `bounded-state.json` | hydrate, foreach with its workers, assign, if, save, schedulePersist | `BoundedRuntime` |
| MCP stdio transport (`src/mcp/stdio-client.ts`, `rate-limit.ts`) | child, pending map with timers, limiter's time stamps | connect, request, answer, time out, exit, close ladder | `McpStdio` |
| MCP HTTP transport (`src/mcp/client.ts`) | session id, notification stream, back-off, status | request, adopt id, retry once, reconnect, close | `McpHttp` |
| MCP catalog refresh (`src/mcp/catalog-refresh.ts`, `catalog-dispatcher.ts`) | tool lists, debounce timer | notify, debounce, refresh | `McpHttp` |
| HTTP middleware (`src/http/server.ts`) | fixed-window counters | authenticate, limit | not modelled |
| Parser, pure verbs, meta commands, policy, redactor, schemas, logging, metrics | none, or output only | pure functions of text and JSON | not modelled |

**How they interact.** A request passes the middleware of `server.ts` (the drain
gate of the lifecycle, body limit, authentication, rate limit) and reaches a
route. The route takes a session from the manager's Map, keeps the object across
its awaits, mutates it and awaits `flush()` before it answers. An exec looks its
idempotency key up first, runs the pipeline, numbers the turn and appends to the
transcript. `create` bootstraps the catalog through the cache and connects MCP
servers before it registers the session. A turn waits for a subprocess, an HTTP
call or an MCP client, and what arrives meanwhile is pushed to the event stream of
a streaming exec. MCP notifications drive the refresh of the client's lists.
Timers (expiry sweep, cache sweep, grace period, time-outs, debounce) run beside
all this, and other server processes share the catalog cache directory.

**What is hard.** Everything in one process runs on one event loop, so the unit of
interleaving is the code between two awaits. The hard parts are: a mutation that
arrives while an older snapshot is being written; a crash between a response and
the write it relies on; two requests with one idempotency key; two appends that
see the same byte counter; a reader that meets a rotation; a resume that meets a
delete or another resume; the grace timer that meets the last request out; a
command that times out, floods its pipe or leaves a descendant behind; a child
that answers late, twice, or after it died; overlapping requests that adopt or
lose a session id; refreshes that answer out of order; iterations of a foreach
that share one interpreter state with other turns; a stream that closes while an
event is still being written; a save that nobody awaits and that outlives its request
into a DELETE; file operations whose failure is ignored; and, between processes, a lock
file that can be stolen and a sweep that removes what another process is using.
`PROJECT.json` lists every such place under `hazards`,
with the properties that watch it.

**What makes each part correct.**

* Persistence: an acknowledged change survives a crash unless the last write
  failed; no update is lost; `state.json` never goes back and is never torn; a
  turn number is given twice only after a failed write and a crash; a request whose
  command is over does not wait for ever.
* Idempotency: at most one execution per key at a time, and per TTL; replays
  are of fresh, resolved executions; the cache keeps its cap and evicts the
  response with the least time left.
* Transcript: every recorded entry is in exactly one file, once; the log is
  in order and within the cap when appends do not overlap; an undisturbed
  read is complete.
* Lifecycle: `stopped` means that no mutation is inside and none gets in; exit
  code 0 is honest; the process does exit.
* Manager: one writer per `state.json` and `bounded-state.json`; a live session has
  its files; a 204 is honest.
* Catalog cache: one clone at a time; no lock file without a reason; one
  ensureMirror per process; no mirror is taken from under a session; every
  call ends, unless git never does or the lock file cannot be handled at all.
* Exec turn: output is complete up to the cap and says when it is not; a binding
  comes from a success; `done` comes last and comes; every turn ends.
* Bounded runtime: iterations and turns that overlap keep apart; a block that
  returned is over; the file follows the memory and loses no turn.
* MCP stdio: a request is in the table, has a timer and is unsettled, or none of
  these; the limiter's window holds; every call settles; close ends the child.
* MCP HTTP and refresh: a session is given up for a reason; the client's list
  follows the server's; a stream that was given up is not shown as connected.

## 2. Modules and how they correspond to the code

In every module an action is one run of JavaScript between two awaits, or one
system call of a file operation where another actor can see the difference.
Requests are model values with a program counter `pc`; a client sends a request
at most once. Data that the properties do not tell apart is abstracted: a
response is the request that computed it, a transcript line its turn number, a
session's cwd, env and bindings the set of mutations they include.

**SessionState** is one session with persistence on. `mem` is the session object,
`body` the snapshot `writeState` is writing, `tmp` and `disk` the two files.
Execs come in two forms. A plain one runs its command, numbers its turn, appends to the
transcript, awaits `flush()` and answers. A streaming one (`StreamReqs`) first sends
`done`, awaits the client's reading of it (`SendDone`), and only then does the same and
closes its stream; its answer, in this module, is that close. `MarkDirty` starts the flush loop, whose first iteration runs synchronously up to
the first await, or sets the flag for the running one; `MarkDirtyRepeatedly` is
a `PATCH /env` with several keys, whose first key starts the loop before the
others are set. `TmpOpened`, `TmpWritten` and `Renamed` are the awaits of
`writeState`; any of them may fail (`WriteFailed`), which `runFlush` logs and
survives. `LoopCheck` is the loop's condition. `Crash` loses memory; `Resume`
restores it from `disk`. The history variable `stale` is set while the last
write attempt failed: the code then answers 200 for a change that is not on
disk, and says so in its log only. `lossy` records a crash in that state: it drops
answered execs, whose turn numbers are then given again.

**DurableSession** is the abstract specification: working state, saved state, and
the claims acknowledged; a crash revokes an answer only while degraded.
`SessionState` implements it (`ImplementsDurableSession`).

**ExecIdempotency** is the cache and the in-flight map of one session. The cache
keeps the Map's insertion order in `seq`. An execution that settles releases its
key, caches, and lets its own and the joined requests go on in one action: the
reactions run in one microtask checkpoint. `arrivedAt`, `endAt`, `result` and
`evicted` are history.

**Transcript** separates the inode from the name, because an append opens the file
by name and writes later; `content` has the lines of each inode and `length` its
bytes. Rotation is `Rename` then `Reopen`, and each may fail: a failed rename is ignored and
the byte counter restarted all the same (`RenameFails`; `unrotated` records it), a failed
reopen or append reaches the caller (`ReopenFails`, `WriteFails`). The reader lists the segments by time
stamp (`SortedStamps`), reads each, and then opens the current file by name; when the
directory cannot be listed it takes it for empty (`ListFails`). `LogFiles`
is that order of the files, over which `SerialLogSound` is stated.

**Lifecycle** has plain mutating requests, streaming execs (whose handler returns
when the stream is open) and reads, which pass the gate and are counted too.
`Decrement` contains `notifyIfIdle`, also when it fires after the grace timeout.

**SessionManager** follows one session id. Objects are named by the request that
made them, so that two objects of one id can be told apart. The recursive
removal is two steps, unlink the files and remove the directory; the second fails
when a file appeared, either may fail by itself (`RmFails`), and the code ignores that.
A create may also throw when the transcript cannot be opened (`CreateThrows`), which leaves
directory and connections behind; so may a resume (`ResumeThrows`). `save` is the write of
`bounded-state.json` that an exec starts and nobody awaits: it goes on after the
request has been answered, writes through its temporary file, and creates what a DELETE has
just unlinked. `raced` and `spoiled` record the overlaps and failures under which the
code gives no guarantee.

**CatalogCache** follows one repository shared by several processes. `mirror` is
absent, partial or whole; `lock` names who created the lock file; every removal
of it is by name. The lock file may fail to be written, looked at (`StatFails`), stolen
(`StealFails`) or removed by its holder (`ReleaseLock`), which the code ignores; `stuck`
says that a request left one behind. git is external: a command may succeed, fail or be
killed, and a killed one may still not close (`CloneHangs`). A killed clone leaves a partial
mirror, a failing one removes it. The bootstrap timeout (60 s by default) is below the ten
minutes after which a lock counts as stale, so locks age when their holder is dead, has
left them behind, or waits for a git that does not close. The history variables
`usurped`, `evictRace` and `early` record the overlaps under which the code
gives no guarantee: two thieves of one stale lock or the stale lock of a holder that still
waits for git, a request in progress while the mirror is being removed, and a worktree that
git added to a mirror that was not complete.

**ExecTurn** is one streaming exec from its `start` event to the close of its stream.
`pc` says where the handler is and `runner` what it waits for: a shell command, a
binary or a URL of a bounded `call`, an MCP client, or nothing (`cd` and the
refusals). Output is counted in bytes: `pipe` is written and not yet read,
`kept` is `stdoutLen`, `decoder` is what the `TextDecoder` holds back. The child
exits, is killed or leaves a descendant that holds the pipe (`holder`); `Settles`
is the `close` event, which needs the child gone, nobody on the pipe, and the pipe
empty. `Push` is `queue.push(ev); void drain()`, and `writing` the event whose write
`drain` awaits. `FinishTurn` is the last `await drain()`, which returns at once when
another drain is at work (`overlap` records that).

**BoundedRuntime** is the interpreter state of one session, `rt`, and the turns that
run over it. A turn runs a parallel `foreach` whose body is a call and a `save`, or
an assignment of a call, alone or under an `if`. `Pull` is a worker of `runBounded`
taking the next index, `frame` the pushed frame of each iteration, `RunSave` the
look and the write of one name with nothing in between. `GetOrCreate` and `Hydrate`
are the coalesced hydration; `kick` is the entry of `pendingWrites`, whose loop writes
again if a turn ended meanwhile. Nobody awaits it. A crash may come anywhere.

**McpStdio** has connect (`Initialize`, `Discover`, `Connected`), the request table
`pending` with its `timers`, the limiter, and the process. The child is external: it
answers what it was sent late, twice or never, writes an oversized line, and ends
with code 0, another code or a signal. Its exit and the exit *event* are two steps,
and unread output is still read after both. The limiter drops what has left its
window from the front of its list (`StopsAt`, `Evict`). `ContinuationDue` keeps events from
overtaking a microtask. `Close` climbs the ladder end-of-file, SIGTERM, SIGKILL.

**McpHttp** has slots for requests under way: one for connect's and later a user's,
the others for refreshes. A request carries the session id of the moment it is
sent; a 200 adopts the id it carries; the body of a 400 is read in a step of its own,
without a timer, and may lead to the one retry. Whether a 400 is about the session is
guessed from its words (`looksLikeSessionIdError`): the refusal of an id is recognised, and a
400 about something else may be taken for one (kind "mention"). The notification stream has its
states and back-off; `Notify`, `Fire` and `TakeList` are the dispatcher, the debounce
timer and the refresher, so the module composes `client.ts`, `catalog-dispatcher.ts`
and `catalog-refresh.ts`. The server is external; lists are version numbers.
`excuse` records that a notification or a refresh was lost, failed or overtaken.

The theorems of a module `X` and their proofs are in **XProofs**, except that
**RequestPathProofs** has those of `ExecIdempotency` and `Lifecycle`, and
**McpTransportProofs** those of `McpStdio` and `McpHttp`; so that one module can extend
two components, the specifications of `Lifecycle` and `McpHttp` are called `DrainSpec`
and `HttpSpec`, and their parts likewise. Every module of the system is proved about.
The `MC` modules only instantiate the constants; `MCSessionManager` also names the sets
under whose permutations its run is reduced (resumes, requests and MCP servers are each
alike, and no property of that run is a liveness property).

Definitions called "Mutant" in a comment are wrong versions of the definition
that follows them, one for every checked property: with the wrong version in its
place TLC finds that property violated. No specification uses them.

## 3. Runs

| Run | Instance | States | Result |
|---|---|---|---|
| `session_state` | 1 plain and 1 streaming exec, 1 PATCH, 1 crash | about 719 000 | holds |
| `exec_idempotency` | 3 requests, 3 keys, cap 2, TTL 1, clock to 2 | about 652 000 | holds |
| `transcript` | 3 appends of sizes 2, 4 or 6, cap 5, 2 milliseconds, 1 reader | about 3 675 000 | holds |
| `lifecycle` | 2 plain, 1 streaming, 2 reads | about 4 400 | holds |
| `session_manager` | create, 2 resumes, 1 DELETE, 2 execs or PATCHes with their saves, 2 MCP servers, 1 crash; up to symmetry | about 4 591 000 | holds |
| `catalog_cache` | 2 processes, 3 calls, 1 sweep, 1 crash | about 546 000 | holds |
| `mcp_stdio` | 2 lists, 4 requests, 1 unread line, 3 requests per window of 1 tick, clock to 2 | about 115 000 | holds |
| `mcp_http` | connect or user and 2 refreshes, 2 in flight, 1 session id, 2 list changes, 1 back-off | about 885 000 | holds |
| `bounded_runtime` | 2 turns, each a foreach over 3 items with 2 workers or an assignment, 1 crash, 1 failed read or write | about 486 000 | holds |
| `exec_turn` | cap 3, output up to 5, 3 notifications | about 12 000 | holds |
| `transcript_loses_segment` | as `transcript` | | `NoEntryLost` violated |
| `stream_loses_done` | as `exec_turn` | | `DoneDelivered` violated |

`CHECK_DEADLOCK FALSE` everywhere: a server with no request to serve, or one that
has exited, is at rest and rightly so.

**Bounds.** Each request is sent once, so the sets of requests bound the behaviours;
the other bounds are in the guards and named: `MaxCrashes`, `MaxSweeps`,
`MaxTime`, `MaxFaults`, `MaxId`, `MaxLines`, `MaxInFlight`, `MaxSid`, `MaxVer`,
`MaxOut`, `MaxNotes`. They are chosen so that the cases that matter happen.

* Two execs, one of each kind, and a PATCH are enough for a mutation to arrive while one write runs
  and another request waits for it; one crash is enough to lose memory and go on.
* Three keys and a cap of two make eviction happen; a clock of two ticks with a
  TTL of one passes an entry's last valid instant.
* Sizes 2, 4 and 6 against a cap of 5 (threshold 4) give an entry that fits, one
  that fills the file and one that is refused; three appends give two rotations
  in one millisecond.
* Two resumes beside a delete give two objects of one id; two execs give a save that
  outlives its request and meets another one's, or the DELETE.
* Two calls in one process and one in another give both kinds of sharing; a
  leaked lock gives two stealers without a second crash.
* Four request ids are the handshake, two lists sent together and a call, against a
  limiter of three; two ticks with a window of one reach its closed end and pass it.
  An unread line may outlive the child, the time-out of its request and `close`.
* Two refreshes under way with two list changes give the older answer that arrives
  last; a user's request beside a refresh gives two requests that carry one id when
  it is refused; one back-off gives a reconnect and a stream given up.
* Three items under two workers give a worker that pulls again while another is
  inside a call; two turns give a second turn that ends during a write, and a shared
  hydration.
* A cap of three with five bytes gives a chunk that meets the cap exactly, one that
  passes it and one after it, and a character cut in two; three notifications give
  a queue with something in it behind a slow write.

**Fairness** is stated only where liveness is checked. Awaited file operations
settle, polls and timers come, and ready continuations run: the event loop justifies
weak fairness of those steps. Nothing makes a client send a request, a process
crash, or somebody resume a session. `SessionState` and `ExecIdempotency` do not assume that
a command ends or that a slow client reads its `done`, so `RequestsSettle` begins when the
command and the client are done with, and `EveryRequestSettles` when the execution that a request stands on
is over; `CatalogCache` does not assume that git ends, killed or not. In `Lifecycle` no handler is assumed to
return: the grace timer alone must bring the exit about. `McpStdio` assumes nothing of
a child that was not sent SIGKILL; `McpHttp` nothing of the server, nor that the body
of a 400 ends, whose timer is cleared; `BoundedRuntime` nothing of the calls;
`ExecTurn` neither that a command or its descendants end by themselves nor that an
HTTP body read without a timer does, but that a client that stays connected reads in
the end and that the timers of the MCP clients fire.

**Properties with a proviso.** Some guarantees hold only without certain overlaps or
faults, and the models say which.

* `AckDurable` and the refinement except answers given after a failed write, and for a
  streaming exec they are about the end of its stream, not its `done`. `AckedTurnsUnique`
  covers every answered exec, and lets two share a number only when a process crashed after a
  failed write and one of the two answers was dropped by it.
* `EntriesKept` excepts segments whose name a second rotation of the same
  millisecond took; `SerialLogSound` is about appends that do not overlap, and its part
  about the cap excepts a rotation whose rename failed; `QuietReadComplete` is about
  reads that could list the directory and during which no file changed.
* `LiveOwnsFiles` and `QuietDeleteHonest` except resumes that overlap each other, a
  removal, or a request or save of a dropped object. `QuietDeleteHonest` also excepts a DELETE
  that met a request or a save of the session, and a removal that the file system
  refused.
* `CloneExclusion` excepts two simultaneous thefts of a stale lock, the theft of one whose
  holder waits for a killed git for ten minutes, and an eviction under a request in progress;
  `AnswerKept` excepts such evictions and worktrees that git added to a mirror that was not
  complete. `NoOrphanLock` excepts a lock file that its maker could not write in full or
  could not remove. `MaterializeSettles` excepts a git that never closes, and a lock
  file that can be neither looked at nor removed.
* `SessionKept` is about calls that do not overlap: an overlapping one drops an id
  another has just adopted. It excepts a 400 about something else that is taken for one about
  the session, and says that the request is then sent again at once. `CatalogFollows` and `CatalogCatchesUp` except a lost
  notification, a failed refresh, and one overtaken by an older answer.
* `DiskFollows` and `EventuallyDurable` except failed writes, `SavedTurnsKept` a
  hydration that could not read the file and started afresh.
* `DoneUnlessOverlap` excepts a last drain that found another one at work; `TurnEnds`
  a descendant that holds the pipe and a body that never ends.

These provisos are not a convenience: each is an overlap or a fault that the
code does not guard against, and the models contain the behaviour it excepts.

## 4. Where the code and its documents differ

Two runs that TLC must find violated:

* `transcript_loses_segment`: two concurrent execs of one session rotate in the same
  millisecond, and the second `rename` replaces the first one's segment.
  `docs/ARCHITECTURE.md:264` has "no interleaving".
* `stream_loses_done`: a slow client; the last `await drain()` finds another drain at
  work and returns, the stream closes, and `done` is written to a closed stream.
  `docs/API.md:406` has "Exactly once at exec end".

Behaviours of the models, without a run of their own:

* A rotation between the reader's listing and its read of the current file hides
  entries; `src/http/routes/replay.ts:13` has "rotation is transparent".
* A streaming exec is not counted once its response is open, so the drain ends
  cleanly and the exit cuts it off; `docs/OPERATIONS.md:244` has "In-flight mutating
  ops continue until they finish."
* Expiry closes no MCP client, DELETE does; `docs/OPERATIONS.md:276` has "Same
  cleanup behavior."
* The mirror directory is looked for before the lock is taken, and exists as soon as
  a clone begins; `docs/OPERATIONS.md:271` has "wait for the lock holder to finish
  cloning". A killed clone leaves a directory that every later call takes for a
  mirror until it is evicted.
* A stdio child that exits with code 0 or by SIGTERM or SIGKILL while calls are
  pending rejects none of them: they wait for their timers. The comment at
  `src/mcp/stdio-client.ts:21` has "all pending requests reject". A connect that fails
  after the spawn leaves its child running.
* A second 400 about the session id reaches the caller as the internal error;
  `src/mcp/client.ts:852` has "never leaks to callers".
* `call` of a binary: a chunk that ends exactly at the cap does not kill the child,
  and neither does any later one; `src/verbs/call.ts:363` has "as soon as stdout hits
  the cap".
* The body of a 400, the body of a `call` to a URL and the initialized notification
  have no timer. A steady flow of notifications keeps restarting the debounce.
* A create whose `initial_cwd` is rejected leaves its directory (`badcwd`), and one whose
  transcript cannot be opened leaves its directory and its MCP connections
  (`src/session/manager.ts:185`).
* A streaming exec sends `done` before its turn is numbered, appended and flushed, so a crash
  loses a turn whose outcome the client has. `docs/ARCHITECTURE.md:128`, "persistence write
  durable before 200", is true of the plain path only, which is the one it describes.
* After a failed write of `state.json` requests are still answered 200. If the process
  then crashes, the resumed session gives the same turn numbers again.
* A failed rename of the transcript is ignored and its byte count restarted, so the file
  outgrows the cap (`src/session/state.ts:193`); a directory that cannot be listed reads as one
  without segments.
* A failed `fsp.rm` of a session directory is ignored (`manager.ts:125`, `154`, `363`), and
  so is the one that fails because a save of `bounded-state.json` that nobody awaited
  (`src/exec/pipeline-bounded.ts:138`) put its file there: the 204 is sent and the id can
  be resumed. A rotation under way creates a deleted directory again.
* A stale lock file that can be neither looked at nor removed is looked at again and again:
  the loop of `acquireLock` goes on before it reaches its deadline (`src/catalog/cache.ts:500`,
  `507`). `releaseLock` ignores a failure and leaves the file for ten minutes (`485`). The lock
  of a request whose killed git has not closed ages and is stolen from it.
* A 400 that mentions the session for another reason costs a valid session id, and with it
  the server's session; the comment at `src/mcp/client.ts:868` has "False positives cost one
  extra round-trip".

## 5. What is proved

With tlapm, for every value of the constants: every invariant, every action property
and the refinement that a run checks. The assumptions are the named ones of the modules,
which TLC evaluates in the runs: `ConstantsAssumption` (sets of requests are disjoint and
the special values differ from them; in `Transcript` the appends are finitely many, sizes
are positive, and cap and clock are numbers), `RequestsAssumption` (the set of requests is
finite and its three parts disjoint), and `StdioAssumption`, `HttpAssumption`,
`BoundedAssumption` and `TurnAssumption` (the caps and bounds are natural numbers, and what
each of those modules says of them).

**SessionStateProofs.** `TypeCorrect`, `AckDurability`, `NoLostUpdate`,
`TurnUniqueness`, `SavedStateNeverRegresses` and `Refinement` (every behaviour of
`SessionState` is one of `DurableSession`). `AckDurable` is not inductive: that
the write which releases a request has the request's effects depends on every
earlier step. `IInv` adds the chain state.json <= snapshot <= memory, with
snapshot = memory unless the dirty flag is set (`FlushInv`); for each request,
which of the three covers it at its place (`ReqInv`); and that turn numbers in
force are distinct and at most the counter, while those dropped by a crash need not be
(`TurnInv`). `TurnUniqueness` is about all answered execs, the dropped ones included. The order on states is
`Leq`, with its lemmas proved first. There is one lemma per action, and one for
all the actions that go through `MarkDirty`.

**RequestPathProofs, idempotency.** `OneExecutionPerKey`, `NoRepeatWithinTTL`,
`ReplaysAreFresh`, `CacheStaysBounded`, `EvictionTakesOldest`. The invariant says
that the in-flight map is exact and disjoint from the cache (`InflightInv`), that a
response is in the cache, evicted or past its time (`KeptInv`), that the
executions of a key come one after the other (`SerialInv`), and that insertion
order is the order of expiry (`OrderInv`), which needs that a cached key is never
inserted a second time.

**RequestPathProofs, lifecycle.** `StoppedServerIsQuiet` and `CleanExitIsHonest`, from
`CountExact` (the counter is the number of requests inside, a cardinality argument) and the
agreement of the phases (`DrainInv`); together they are `GateInv`.

**TranscriptProofs.** `TypeCorrect`, `EntriesAreKept`, `SerialLogIsSound`,
`QuietReadIsComplete`. A line's place is decided when the file is opened, so `LineInv` ties
each line to the one append that wrote it and to the descriptor it wrote through, and
`TurnInv` makes turn numbers distinct: an entry then has one home, whatever renames come in
between. `NameInv` says that every file ever made has a name or lost it to a rotation. The
order of the log needs more than that no two appends overlap: `SoleInv` says that the one
append under way has the last turn, that the current file is missing only during its own
rotation, and that the stamp of that rotation is not before any segment; with `OrderInv` the
file renamed last is newer than every segment, also when it takes the name of one.
`LengthInv` ties the byte counter to the length of the file at every place of an append,
which is what the threshold test relies on. `ReadInv` says what an undisturbed reader has
still to come to. That `listRotatedSegments` returns every stamp once and in order
(`StampsSorted`) is proved by counting: the rank of a stamp is an injection into
1 .. n, hence onto.

**SessionManagerProofs.** `TypeCorrect`, `OneOwner`, `DeleteIsHonest`. Neither of the two
properties is inductive. `CreateInv` says that nobody else uses the id, and nothing is being
saved, before the create is answered. `ResumeInv`, `RemovalInv`, `OwnerInv` and `FilesInv` go together: but for a race, a
resume runs alone, while a directory is being removed there is no object, all who may
write, requests and saves, share one object, and the object in the Map has its files.
`DeleteInv` follows a
quiet delete: first no object and no writer, then no file, then no directory, and no
resume gets past its read.

**CatalogCacheProofs.** `TypeCorrect`, `OneCloneAtATime`, `LockHasItsMaker`,
`SessionsKeepTheirMirror`. `LeaderInv` ties the inFlight entry of a process to its one
request inside `ensureMirror`. `MakerInv` gives each lock file its maker, and a stale one a
maker that is lost, has left it behind (`StuckInv`) or hangs; `StealInv` and `HolderInv` add that, but for a race, whoever is in the
section made the lock that is there and a thief still looks at a stale one. `EvictInv` and
`MirrorInv` say that without a race nobody works on a mirror that is being removed, and
a clone writes only what is not complete. The attempt to prove an earlier form of
`AnswerKept`, which excepted calls that *began* on an unfinished clone, failed: with four
calls TLC shows a joined call whose leader goes on over a mirror another process is
making again. `early` now records the step at which it matters, the `git worktree add`.

**McpTransportProofs, stdio.** `TypeCorrect`, `TableStaysExact`, `QuotaHolds`. `TableExact` needs that a
request not sent has not settled (`Unsent`) and where connect is (`PhaseInv`).
`WindowRespected` speaks of the whole history of sends, the limiter of its short list:
`LimiterInv` says that the list is the end of the history and that all before it has left
the window for good, so that a full window is a full list.

**McpTransportProofs, HTTP.** `HttpTypeCorrect`, `ListFollowsServer`,
`EndedStreamIsReported`, `SessionIsKept`. `CatalogFollows` is not inductive: `FollowInv` adds
that no answer is newer than the server's list, which refreshes will bring the present
one (`Bringing`: not answered yet, or answered with it), and that the list connect is about
to take is followed in the same way. `SessionKept` is a property of steps and rests on
`SoleCallInv`: while calls do not overlap there is one at a time, it carries the cached id,
and an id that was refused is one the server no longer holds, so that a valid one is given
up only for a mistaken 400, which was no retry. `BootInv` ties stream and
`close` to the end of connect.

**BoundedRuntimeProofs.** `TypeCorrect`, `IterationsAreIsolated`, `BlocksEndClean`,
`FileCatchesUp`, `SavedTurnsStay`. The invariant says that nobody has a runtime while it is
being hydrated and nobody waits for one that is there (`HydrateInv`), that a list is pulled
from the front (`LoopInv`), that a running iteration sees its own item (`FrameInv`), that
file, snapshot and memory form a chain (`KeptInv`), and that at rest memory is on the disk,
in the writer's hands, or the writer will look again (`SaveInv`).

**ExecTurnProofs.** `TypeCorrect`, `OutputIsComplete`, `BindingsFromSuccess`, `DoneIsDelivered`.
`BytesInv` is the account of the bytes: what was read was kept up to the cap, what was
kept was streamed or is in the decoder, and after the close event pipe and decoder are
empty. `StreamInv` says what the writer is at while the last drain is awaited.

Each inductive invariant was checked by TLC on the instance of its run before it was proved,
those of `SessionManager` and `CatalogCache` on larger ones too. The theorems
`SavedStateNeverRegresses` and `CacheStaysBounded` are proved and have no run: they are steps
on the way to the properties that have one.

**Only model-checked.** Liveness under fairness and `ENABLED` are beyond the prover, so
`RequestsSettle`, `EveryRequestSettles`, `ShutdownCompletes`, `MaterializeSettles`,
`EveryCallSettles`, `CloseEndsChild`, `CatalogCatchesUp`, `EventuallyDurable` and `TurnEnds`
rest on TLC, and so on the instances of section 3. The two refuted properties of section 4
are refuted by TLC's counterexamples. No module that is proved about reaches a RECURSIVE
operator, and nothing is stated by recursion over data: the prover has no induction for
it, which is why the order of the segments is defined by rank and the length of a file is
kept as state.

## 6. What is not modelled, and why

* Parser, interpolation, policy, redactor, schemas, reports, the verbs transform,
  merge and filter, the parsers of the MCP commands, meta commands: functions of text
  and JSON without state; their input space is not TLC's.
* HTTP middleware: authentication, body limit and the fixed-window rate limits are
  each one synchronous step, with which nothing can interleave.
* Logging and metrics: output only.
* An append that fails after a part of its line was written: a failed append leaves no line.
* A stdio answer whose `error` member is malformed (null, or without a message): the handler
  throws after the entry and its timer are gone (`src/mcp/stdio-client.ts:347`), so that
  `McpStdio` speaks of well-formed answers only.
* The contents of a session beyond "which mutations it includes", the size caps of
  `bind` (a refusal is one outcome of `Bind`), redaction of transcript entries.
* Of the bounded runtime: `save --overwrite` and `--ttl`, and `$_`, which the iterations
  of a parallel foreach share by design.
* Of MCP: subscriptions and `resources/updated`, the resolution of npm packages to
  commands, the choice of transport, authentication headers, the bytes of an event
  stream. The three lists of a server share no state; one is followed.
* Of a command: stderr (the same handlers as stdout but for the truncated flag), the
  values of cwd and environment.
* `materializeDirect` (catalog cache off): each call works in its own directory.
* The composition of `Transcript` and `SessionState` at a crash between a line and
  the `state.json` that counts it.
* The crash of the machine with a file system that reorders a rename: the model takes
  `sync` and `rename` at their word.
* Persistence off: nothing is promised across a restart then.

## 7. Plan

The modules follow the order in which the server depends on them: session state,
idempotency, transcript, lifecycle, manager, cache, then the MCP transports, the
bounded runtime and the turn. All of them exist, and their safety properties are proved.
What is left are the three hazards that `PROJECT.json` lists without a property:

1. A streaming exec whose command runs on while the drain ends. `Lifecycle` contains the
   behaviour (section 4); its safety properties are about the requests the gate counts.
2. A crash between a transcript line and the `state.json` that counts it: the composition of
   `Transcript` and `SessionState`.
3. A stdio connect that fails after its spawn and leaves the child running (section 4).
