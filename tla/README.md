# NexusIntelliCore in TLA+

NexusIntelliCore is an MCP server in Rust: it reads JSON-RPC requests from standard
input, keeps an index and parsed analyses of one or more source trees in memory, and
answers tool calls about them through a privacy filter. This directory holds TLA+
modules of the parts of it that hold state and can interleave and of what its tools
compute, the TLC configurations that check them, and TLAPS proofs about them. Paths below are relative to the
repository (`src/watcher.rs` and so on).

* [Running the checks](#running-the-checks)
* [Inventory](#inventory)
* [Modules](#modules-and-how-they-correspond-to-the-code)
* [Runs, bounds and fairness](#runs)
* [Proofs](#proofs)
* [Where the code and its documentation disagree](#findings)
* [What is not modelled, and the plan](#plan)

## Running the checks

    tlc -workers 2 -config WatchRefresh.cfg MCWatchRefresh
    tlapm WatchRefreshProofs.tla

`PROJECT.json` lists the runs with their modules, the source lines each definition
translates ("map"), one mutant of the code per checked property, the hazards of the code
with the properties that watch them, the findings and the theorems.

## Inventory

What the server is made of, what each part keeps, and what makes it correct.

### Processes and tasks

`main.rs` registers the roots of the command line, starts a `FileWatcher` for each of
them, then serves requests one at a time: read a message, handle it to the end, write the
response. Concurrency comes from elsewhere:

* one blocking watcher thread per project that receives notify's events;
* the tokio tasks that thread spawns: tool cache invalidations, debounce sleepers, and
  the refresh loop a sleeper may start;
* blocking threads that read and parse files for `get_analysis`;
* the tool timeout, which drops a call at whatever `.await` it stands;
* the disk, which changes at any time.

The library (`ServerState`, `Session`, `dispatch_tool`) is written for more: locks,
permits for expensive tools and a session per connection, "so two clients connected to the
same registry never overwrite each other's active project" (`src/state/session.rs:3`). The
registry and the permits are therefore modelled with several clients; what needs two of
them is said to.

### Components

| component | state | operations | interacts with | must hold |
|---|---|---|---|---|
| **Watcher and index refresh** (`watcher.rs`, `state/project.rs`, `state/index.rs`) | notify's channel, `refresh_debounce_active`, `watch_refresh_pending`, `watch_refresh_running`, the `FileIndex` behind a tokio `RwLock` | `classify_event`, debounce, `request_watcher_refresh`, `run_watcher_refresh_loop`, `rebuild`, tool `refresh_index` | disk, caches | no event is lost to the two levels of coalescing; one loop at a time; the loop ends; the index catches up and never goes back |
| **Caches** (`state/cache.rs`, `get_analysis`, `dispatch_tool_internal`) | AST cache (path → analysis), tool cache (root, tool, canonical arguments → result) | get-or-compute, insert, evict one, invalidate all, invalidate by predicate | watcher, index refresh, every tool | an entry older than its file is about to go, or there is a known reason; results never go back in time |
| **Project registry and sessions** (`state/mod.rs`, `state/session.rs`, `tools/projects_tool.rs`) | `projects`, `default_project_id`, each behind a `std::sync::RwLock`; `active_project_id` per session | register, unregister, get, resolve by path, resolve by session, set active | tool dispatch, `initialize`, watcher start | the default is always a registered project; no lock cycle; every operation atomic to the others |
| **Tool dispatch** (`tools/mod.rs`, `tools/definitions.rs`) | the permits of expensive tools, counters | scope resolution, permit, cache lookup, compute, insert, privacy pass, timeout | registry, caches | permits are returned; errors are not cached; a result belongs to the project of its key |
| **File indexer** (`indexer.rs`) | none; builds a `FileIndex` | walk, restricted patterns, `.mcpignore`, rendered tree | index refresh | every file is allowed or restricted, as the rules say; the tree accounts for all of them |
| **Server** (`server.rs`, `main.rs`, `protocol.rs`) | `client_authenticated`, `AUTH_FAILURE_COUNT` | `initialize`, `tools/list`, `tools/call`, `ping`, notifications | all | nothing but `initialize` before authentication; a denied tool is never dispatched; bounded back-off; one response per request |
| **Transport** (`transport.rs`) | the reader's buffer, `line_delimited_json_mode` | read header block / line / body, write | server | mode never goes back; frames are delivered in order, limits hold |
| **Security configuration and audit log** (`security.rs`) | `PREV_AUDIT_HASH`, the log file | `log_audit_event` | server | the lines form one hash chain |
| **Lint pool** (`linter/pool.rs`) | two permits, `lint_cache` | `get_or_schedule`, `run_sync`, external run with timeout | `lint_file`, file tools | at most two external linters; diagnostics follow the file |
| **Linters** (`linter/level1.rs`, `level2.rs`) | none | rules on lines, running a linter, parsing its messages, merging | lint pool | no silent pass; every message about the file and no other is reported |
| **Analyzer** (`analyzer/`) | none | parse a file into a `FileAnalysis` | caches | a function of the file |
| **Markov predictor** (`analyzer/predictor.rs`) | transition and descendant counts | observe, predict, prune | `query_ast` and audits | counts are those of the trees, totals match counts |
| **Dependency graph** (`tools/deps_graph/`) | none | imports → graph, reversal, cycles, response budget | AST cache, index | edges are imports between indexed files; inbound is outbound turned round; every cycle reported |
| **Privacy gateway, sanitizer** (`privacy_gateway.rs`, `sanitizer.rs`) | `COMPILED_PRIVACY_RULES`, keyed by the settings | ordered redaction passes | every tool result | no secret leaves, whatever rules another caller or an earlier setting has left compiled |
| **Security audit tool** (`tools/audit.rs`) | none | findings, contexts, deduplication, summary | AST cache | every place found once; the sums of the summary agree |
| **Project documentation** (`tools/project_docs/`) | none; the client keeps the offset | pagination, sections | index, AST cache | the pages partition the files |
| **File tools** (`tools/outline.rs`, `symbol.rs` ...) | none | outline, summary, symbol, patterns, query, config, angular | caches | what one tool lists another finds; what is hidden stays hidden |
| **Metrics** (`state/metrics.rs`) | counters | record, report | dispatch, server stats | feed nothing back |

### What is hard

* **Two levels of coalescing** between an event and the index: the debounce flag and the
  pending/running pair. Each has a moment at which it is taken down and a new event may
  come; the close-race check in `run_watcher_refresh_loop` exists for one of them.
* **Acquire/release flags.** The close-race check is a store followed by a load of
  another location, which acquire/release does not order.
* **Invalidation against computation.** Both caches are filled by computations that read
  the file, wait, then store; both are invalidated by tasks that may run between.
* **Kinds of events.** A modification evicts the AST entry; a create, remove or rename
  leaves that to the refresh.
* **Two locks** taken one inside the other, and a fallback path that takes the same lock
  again.
* **Cancellation**: the tool timeout drops a call at any await: in the queue for a permit,
  with a permit just handed over, in the middle of a parse others wait for, or beside a
  linter that runs on.
* **The lint cache** has no invalidation: every call of `lint_file` replaces its entry,
  while the tools that lint on the side are content with what is there.
* **Conversations.** A client follows the offsets of the documentation while the index may
  be rebuilt, and inspects symbols by the identifiers an outline gave it.
* **Answers that must add up.** Limits, budgets, deduplication, redaction and the outcomes
  of a linter each leave something out of an answer; the rest must say so.

`PROJECT.json` "hazards" lists these and the others at their lines.

## Modules and how they correspond to the code

    RefreshService     promise of the index refresh
      ^ implemented by            ^ extended by
    WatchRefresh                CacheCoherence
      ^ MCWatchRefresh,           ^ CacheCoherenceProofs
        WatchRefreshProofs

    ProjectService     promise of the registry, each operation one step
      ^ extended and implemented by
    ProjectRegistry
      ^ MCProjectRegistry, ProjectRegistryProofs

    Transport   AuditLog
      ^ extended by ^ implemented by
    Server
      ^ MCServer, ServerProofs

    Permits        a semaphore, as the server uses it
      ^ extended by
    ToolDispatch
      ^ ToolDispatchProofs

    Listing        filtered, mapped and sorted sequences
      ^ extended by DepsGraph, Privacy, Linters, ProjectDocs, SecurityAudit, AnalysisProperties

    DepsGraph  Linters  SecurityAudit  ProjectTree  ProjectDocs  Predictor  Privacy
      |          |           |             |            |            |        ^ FileTools
      +----------+-----------+-------------+------------+------------+--------+
      v instantiated by
    AnalysisTools  <- AnalysisProperties  <- MCAnalysisTools
                         ^ GatewayProofs  <- AnalysisProofs, ReportsProofs

### WatchRefresh

`watcher.rs` from the classified event on, `state/project.rs` (`request_watcher_refresh`,
`run_watcher_refresh_loop`), `state/index.rs` (`rebuild`) and the `refresh_index` tool,
for one project. Every atomic operation is an action. The tree is a version number;
`built[t]` is the version a `FileIndex::build` has read, `index` the version behind the
lock.

| TLA+ | code |
|---|---|
| `chan` | notify's mpsc channel, only events that classify as `ScheduleIndexRefresh` |
| `debounce`, `pending`, `running` | `refresh_debounce_active`, `watch_refresh_pending`, `watch_refresh_running` |
| `pc[t]` | where a spawned task stands: `sleep` (debounce window), `post`/`claim` (`request_watcher_refresh`), `swap`, `build`, `write`, `release`, `recheck`, `reclaim` (the loop) |
| `buffered` | tasks whose `store(false, Release)` of `running` no other task sees yet |
| `excuses` | history: why the index may be behind although nothing is on its way |

The requester that wins `running` spawns the loop and returns; the model lets the loop go
on under the same name, as the requester does nothing else. `StoreBuffered = TRUE` lets
the release store of `running` become visible after the acquire load of `pending` that
follows it, which the memory model permits; a compare-exchange of `running` by the same
task waits for it. Other reorderings that acquire/release permits are not modelled.
The write lock of the index is held for one assignment only and is one step.

### RefreshService

What `WatchRefresh` promises: changes raise a request, one pass at a time answers it by
installing the tree as it read it, a request stays up until a pass has read, or failed to read, the tree after
it. `WatchRefresh!ImplementsService` substitutes "some signal of a change is on its way"
for `wanted` and the versions read and not yet installed for `pass`.

### CacheCoherence

The two caches of one project next to the abstract `RefreshService`. A cached value is the
version of the file it was computed from.

| TLA+ | code |
|---|---|
| `Edit`, `Replace` | a data modification; another file renamed over this one |
| `Receive`, `Evict`, `RunFlush` | the watcher thread's loop body, `evict_cache_entry`, the spawned `invalidate_tool_cache_for_root` |
| `RefreshStarts`, `RefreshEnds` | a pass of the refresh loop and its two invalidations |
| `Lookup`, `Analyze`, `Parse`, `Fill`, `ReadDirect`, `Insert`, `Timeout` | `dispatch_tool_internal` with `get_analysis` (moka's `get_with`), or with a tool that reads the file itself; the timeout of `dispatch_tool` |
| `RebuildIndex`, `ReportRefreshed` | the `refresh_index` tool |
| `unevicted`, `unflushed`, `promised`, `served` | history |

The AST cache is built without `support_invalidation_closures`, so
`invalidate_ast_cache_for_root` only produces an error that is dropped: `RefreshEnds`,
`ReportRefreshed` and `ProjectRegistry!UnregisterRemove` leave the AST entries alone.
There is one tool call at a time, as the main loop has it. Edits of `.mcpignore` are
changes of the tree and appear in `WatchRefresh` only. A read may fail at any time (the
file is being replaced, is too large, is gone): `get_analysis` then caches an empty
analysis, the value `Unread`, and keeps it until the entry is evicted. Such an answer tells
the client nothing of the file, so `served` does not move.

### Permits and ToolDispatch

`CacheCoherence` follows one file through the caches, with one call; `ToolDispatch` follows
several calls through `dispatch_tool`, with what they share: the permits of expensive tools,
the tool cache, the parse of a file that several of them want, and the lint pool.
`Permits` is tokio's semaphore: fair, a returned permit handed to the first waiter even if
it is not awake, an acquisition that may be dropped before or after that.

| TLA+ | code |
|---|---|
| `call[c].pc` | where a call stands: `queued` (waits for a tool permit), `lookup` (tool cache), `analyze` (`get_analysis`), `parse` (its own `get_with` future parses), `await` (another call's does), `lint` (about to ask the pool), `lintqueue`, `linter` (external linter running), `finish` |
| `permits`, `linters` | `ServerState.tool_concurrency`, `LintPool.semaphore` |
| `toolCache`, `lintCache` | for each key, the version its diagnostics were read from |
| `parsed`, `parser` | whether the AST cache has the file; whose future parses it |
| `Begin`, `Granted`, `Busy`, `Timeout` | `dispatch_tool`: permit at once or queue, its 30 s, the tool timeout |
| `Lookup`, `StoreResult`, `Fail` | `dispatch_tool_internal`; an error flushes the results that name the root |
| `Analyze`, `Parsed`, `DropParse` | `get_with`: the first comes to parse, the others wait; dropped, the next one takes over |
| `LintCached`, `LintFile`, `LintGranted`, `LinterEnds`, `ReportLint` | `get_or_schedule`, `run_sync`, and `lint_file`'s flush of the results whose arguments name the file |
| `Edit`, `FlushTools`, `EvictAnalysis` | the disk; watcher, refresh and capacity, which `CacheCoherence` tells apart |
| `reported`, `slipped`, `overlaps` | history |

A result keeps only the version of its diagnostics: how fresh analyses are is the subject of
`CacheCoherence`. A timeout ends the call but not what it has started: a blocking thread
goes on reading, a linter runs on without its permit. The binary's loop has one call in
flight; two and more are for the library. External linters are enabled: disabled, the pool
neither waits nor caches.

### The analysis tools

What the tools compute is pure: each has a module of operators that carry the names of the
functions they translate.

| module | code | an input is |
|---|---|---|
| `DepsGraph` | `tools/deps_graph/`, `state/resolver.rs` | indexed files, what is on disk, imports by style and names |
| `Linters` | `linter/level1.rs`, `level2.rs`, excerpt of `tools/lint.rs` | lines as characters, the outcome and messages of each linter's process |
| `SecurityAudit` | `tools/audit.rs`, `analyzer/audit.rs` | files with lines labelled by what they hold |
| `ProjectTree` | `indexer.rs` | a walk, the lines of `.mcpignore` |
| `FileTools` | `tools/outline.rs`, `symbol.rs`, `summary.rs`, `query_ast.rs`, `config_file.rs`, `patterns.rs`, `analyzer/functions.rs` | function nodes with their ancestors, configuration lines |
| `ProjectDocs` | `tools/project_docs/`, `analyzer/entrypoints.rs`, `use_cases.rs` | the files in the order of the walk, an analysis of each |
| `Privacy` | `privacy_gateway.rs`, `sanitizer.rs` | texts as lines of labelled pieces, JSON values as the leaf at each path, settings |
| `Predictor` | `analyzer/predictor.rs` | trees as their nodes in the order of the visit, each with its kind and parent |

A label says what a regular expression or tree-sitter query matches; how they match is
not modelled, what the code does with a match is. A piece of text also says which patterns
a notice in its place would match, alone or with what is around it. A glob of `.mcpignore` is
the set of paths it matches, in which `*` and `?` may stand for `/`, as they do with `Glob::new`
(`indexer.rs:256`). Nodes and edges of a graph have sizes in bytes, and the response budget is one
of bytes. None of these modules has a RECURSIVE
operator, so that all can be proved about: nested data is indexed by path or by place, and
what the code does step by step is a function over the steps, or a fold. What the tools filter,
map and sort is written with the operators of `Listing`, which a proof can unfold.

`AnalysisTools` puts them into a system. A behaviour is of the calls of one tool, as what
they keep is not shared: `Ask`, `Answer`, `Return` for all; `NextPage` with `RefreshIndex` in
between for the documentation; `InspectListed` for a symbol taken from an outline;
`BeginPass`, `LoadOverrides`, `ApplyRules`, `GiveResult` for two callers of
`apply_final_privacy_pass` that read the settings for each text, with `ChangeSettings` at
any time; `ObserveTree` and `Restart` for the predictor. `AnalysisProperties` states what
the answers must be over the input of the call: `Named`, `CodeColumns`, `Places`, `Telling`
and the like are written anew, from what the answer is for; of the code's operators they use
those that name or compare things, and, for the reversal, the outbound graph.

### ProjectRegistry and ProjectService

`ProjectRegistry` has the map and the default id behind a lock each, and one `pc` per
client. An acquisition is an action unless the lock is released before anything else is
acquired, in which case the whole critical section is one. `std::sync::RwLock` makes a
reader wait for the writers already waiting (`CanRead`); this is what would turn a
recursive read into a deadlock. The order of a `HashMap` is unspecified, so "the first
key" is any key, fixed when the project is removed, since the map is not modified between.
A root may have several ids, ids may be registered again with another root, roots may be
nested (`Covers`, `Depth`: `longest_root_match`).

The cacheable tool call names no project: `BeginTool`, then the resolution for the cache
key, `CacheHit` or `CacheMiss`, the second resolution, `StoreResult`. The result stands
for the project it was computed from. A tool that fails also looks up the project of its
own root in order to invalidate results that mention it: that lookup is `BeginPath` as far
as the locks go, and it removes nothing from `tools`, whose calls have no argument.

`ProjectService` is the registry without locks. The refinement takes effect at the
insertion into, or the removal from, the map: `SettledDefault` is the default id as the
operation that holds the map is about to leave it.

### Transport, AuditLog and Server

`Transport` is `read_message` as a function: `ReadMessage(input, lineMode)` says what the
code makes of the lines that have arrived (a message, an error, or wait for more), how many
of them it uses and which mode it is in afterwards. A line is one element, and so is the
body of a frame; a header is told apart by what the code asks of it. `AuditLog` is
`log_audit_event`: `prevHash` stands for `PREV_AUDIT_HASH`, a hash is a number that no other
event has, `breaks` remembers before which lines an append failed or a process started.

`Server` is one process with one connection, `main.rs` and `server.rs` around the two.

| TLA+ | code |
|---|---|
| `Read`, `Stop` | `transport.read_message()` and the three arms of `main`'s match |
| `RejectMessage` | not JSON-RPC 2.0: answered in `main` |
| `Unauthorized` | the gate at the head of `handle_request` |
| `AcceptClient`, `RefuseClient`, `Refuse` | `handle_initialize`; the back-off lies between the last two |
| `Notified`, `AnswerPlain`, `AnswerLogged` | methods answered at once, or not at all |
| `CallTool`, `ToolReturns` | `handle_tool_call` up to, and after, `dispatch_tool` |
| `Write`, `WriteFails` | `write_message`, in the mode of the moment |
| `Send`, `SendGarbage`, `Close` | the client: ahead of the answers, in frames or lines |
| `Die`, `Restart` | the process is killed, and started again on the same log file |
| `accepted`, `pending` | history: what the messages sent so far call for |

`pending` is computed when a message is sent, from the messages sent before it, and the
handlers compute the answers when they run; `AnswersAsPromised` compares the two. Requests
that differ in their wording only are one kind (`plain`: ping, an unknown method, a call
without a name). An audit log is configured; a tool is taken to return, as
`dispatch_tool` puts a timeout on it.

## Runs

| run | what it asks | instance | states |
|---|---|---|---|
| `watch_refresh` | no lost request, monotonic index, catches up, refinement of `RefreshService`, with sequentially consistent flags | 3 tasks, 3 changes, 1 failing build | 23 000 |
| `watch_refresh_faults` | one owner of `running`, no unexplained gap between index and disk, the loop stops, with store buffers and `refresh_index` alongside | 3 tasks, 3 changes, 1 failing build, 1 tool call | 425 000 |
| `close_race` (violation) | no lost request, with store buffers | 2 tasks, 2 changes | |
| `cache_coherence` | every stale entry explained, caches settle, no time travel | 1 file, 2 tools, 4 contents, 1 replacement, 1 failing pass, reads that fail | 1 746 000 |
| `refresh_index_flush` (violation) | `refresh_index` leaves a fresh AST cache | 1 file, 1 edit | |
| `project_registry` | default registered, no lock-up, refinement of `ProjectService` | 2 clients, 2 ids, 2 nested roots, 3 files, 4 calls | 466 000 |
| `project_tag` (violation) | a result names the project the call resolved to | 1 client, 4 calls | |
| `server` | answers as promised and in order, none missing, tool calls bracketed in the log, the chain tells of losses | 3 messages, 2 ahead of the answers, 1 restart, 1 failed append, 1 header | 168 000 |
| `audit_chain` (violation) | the log file is one chain | as `server` | |
| `tool_dispatch` | no permit lost or left idle, diagnostics follow `lint_file`, every call ends | 2 calls, 1 permit of each kind, `lint_file` and `inspect_symbol`, 2 argument sets, 1 edit, 2 timeouts | 327 000 |
| `analysis_tools` | what the tools answer accounts for their input | the requests, indexes, settings and trees of `MCAnalysisTools` | 121 000 |
| `dependency_cycles` (violation) | two files that import each other are reported as a cycle | the graph requests of `MCAnalysisTools` | |

**Bounds.** `Tasks = 3`: one task in the debounce window, one between post and claim and
one in the loop is the most that one project has at once before a fourth would repeat the
role of one of them; the theorems hold for any set. `MaxChanges = 3` covers a change
before, during and after a pass. `MaxEdits = 3` gives an old value in flight, a
newer one cached and a newer one still on disk. One file is enough, since the caches treat
keys independently apart from the flush of all; two tools, one of each kind, share it.
`MaxCalls = 4` reaches register, register, tool call, unregister, in any overlap of two
clients, and every mutant lock-up. `MaxRequests = 3` is a refused login, a login and a call,
or three refusals and the first back-off, spread over two processes or not; two messages
ahead put one behind another in every pair of framings. `MaxHeaders = 1` makes a second
header one too many. `tool_dispatch` has one permit of each kind so that a second call queues
behind the first; the code has two for linters (`linter/pool.rs:38`), and the theorems hold
for any number of calls and permits. One edit tells older diagnostics from newer ones, and
two timeouts drop a call that waits and the one it waits for. The inputs of `analysis_tools`
are chosen so that the cases the code tells apart occur: three allowed files in two
directories and a hidden one, imports of every style, each outcome of a linter, functions
with and without owners and ones that an outline redacts, patterns that match at a root, below
it, across directories and not at all, notices that match again, graphs and
trees over their limits; a limit that the code has as a number of its own is a constant, and small.
Bounds sit in the guards of `Change`, `ManualBuild`,
`BuildFails`, `NewContent`, `Begin`, `Send`, `Restart`, `LogEvent`, `Edit`, `Timeout` and
`ObserveTree`.

**Deadlock.** The bounded disk and the bounded calls make these systems stop, so
`CHECK_DEADLOCK FALSE` where they do; lock-ups are the invariant `NoDeadlock`.
`CacheCoherence` and `AnalysisTools` never stop and are checked for deadlock.

**Symmetry** is used in runs without liveness properties, over names only (`Tasks`,
`Clients`); `ImplementsRegistry` has no fairness.

**Fairness.** `WatchRefresh!Spec`: weak fairness of the watcher thread (a blocking
`recv` in a loop of its own), of each task (tokio polls a task that is ready) and of the
draining of a store. The disk, the client and the failing of builds have none.
`CacheCoherence!Spec`: the watcher thread, the spawned flushes and the refresh loop; the
client's call is not fair, so a call may never end. `Server!Spec`: the main loop, a single
task that blocks on nothing but its input and the timed steps; the client sends or closes
as it likes, appends fail and processes die and start when they like. `ToolDispatch!Spec`:
each call's own steps and the end of the linter it waits for: tokio polls a task that is
ready, a parse ends, the pool's timeout ends the wait for a linter. The tool timeout, the
30 s of the permit, edits and flushes have none. `AnalysisTools` has none. `LoopStops` needs the bound on
changes: a tree that changes for ever can keep one loop busy for ever, by design.

### Properties worth a comment

* `NoLostRequest`: a raised `pending` always has a task that will still look at a flag.
* `NoForgottenChange`: if the index is behind the disk, an event, a request or a pass is
  on its way, or the last build failed, or `refresh_index` overwrote a newer index with
  one it had built earlier. It counts a raised `pending` as a signal even when, with
  store buffers, no task attends to it until the next event; that case is `close_race`.
* `StaleAstExplained`, `StaleToolExplained`: the code can leave stale entries; the
  properties say exactly how: the eviction or flush is still coming, the file was replaced
  rather than edited, or the value was stored behind the invalidation. Which of these
  applies is recorded in the history variables at the step at which it happens.
* `NoTimeTravel`: despite all that, no tool ever answers with an older content of a file
  than it answered with before.
* `AnswersAsPromised` is the gate, the order of answers and the framing in one: no sequence
  of good and bad logins, notifications and broken messages lets a request in that should
  be refused, shuts out a client that has logged in, answers what wants no answer, or
  answers a line with a frame.
* `ChainTellsLosses`: what the chain is worth: a line that does not carry the hash of the
  line before it tells of a failed append or a restart, and each of these leaves such a
  line if another one follows. The file cannot tell which of the two it was, nor of losses
  at its end.
* `ImplementsRegistry`: readers never see the registry between the two halves of a
  registration or removal.
* `PermitsKept`, `NoIdlePermit`: the sum of free, granted and held permits, over calls that
  are dropped in the queue, between the grant and their next poll, at work, or beside a
  linter; and a returned permit reaches a waiter.
* `LintResultsFollow`: why it is enough that `lint_file` alone replaces the entry of the
  lint cache. Once it has answered, no cache has older diagnostics for a later call, but
  where a call beside it put them (recorded as `slipped` at that step), or where the
  arguments spell the path in a way the argument scan does not know.
* `CallsEnd`: no call waits for ever for a permit, a parse or a linter, also when the one it
  waits for is dropped.
* `EdgesAreImports`, `InboundIsTranspose`, `GraphFitsBudget`: resolution, reversal, budget and
  redaction each rewrite the graph; no edge is invented, lost but to a limit, or left without
  a node. An answer says whether the budget cut it (`truncated`, `render.rs:250`); the limits of
  files and of edges per file (`mod.rs:92`) cut silently, so that `EdgesAreImports` compares with
  them what is missing (`Uncut`). What it says of an edge that is there holds for every answer,
  but for names that are redacted, and for imports by an alias or without a name at their end,
  which may lead to a file of any name.
* `GraphFitsBudget` speaks of what `ensure_budget` measures, the bytes of the answer without its
  metrics, which come after the cut. That may exceed the budget, but only with no node left.
* `LintAnswersComplete`: no silent pass but the two it excuses, which are the code's: a linter
  ended by a signal counts as done, and eslint's messages are read only from output
  that parses as a whole.
* `AuditAccounts`: the production group leaves a finding out only for what its path is called.
  The code looks for its marks anywhere in the path (`audit.rs:87`), so that a directory
  `test_utils`, or one that ends in `tests` with one called `fixtures` in it, does it too.
* `CountsMatchTrees` is about what the predictor counts. What it answers from the counts
  (`predict_next`, `should_prune_subtree`) compares them with a threshold and is left out.
* `RulesReadCode` compares the code's state machine for strings and comments with a
  definition of literals by their closing quote.
* `PagesTellAll` and `OutlineLeadsToSymbol` are about conversations: offsets and identifiers
  given by one call and used in another. An identifier that the outline has redacted is the
  exception: it leads nowhere (see [below](#findings)).
* `HiddenStaysHidden` says what the code hides and no more: in the source of a function it looks for
  sensitive words behind `//` only, so that comments of other kinds come out with theirs, and of
  a configuration value that goes on below its key it redacts the first line.
* `OnlyNoticesMatch`: the compiled rules are shared and keyed by the settings they came
  from; a caller that reads new settings never cleans with rules of older ones. A notice may match
  itself: `pwd=a.lan!x` becomes `pwd=[REDACTED_BY_MCP]!x` by the last pattern, which
  `GENERIC_SECRET`, tried before it, would match; no second pass is made. Hence *only notices*.

## Proofs

For every value of the constants satisfying the modules' ASSUMEs; `tlapm` checks every leaf.

`WatchRefreshProofs` (assumption: the bounds are naturals, `StoreBuffered` a Boolean)

* `TypeCorrect`.
* `OneOwner`: `RunningHasOneOwner`. The property is nearly inductive: `OwnerInv`
  adds that a task whose store is still buffered has left the loop, and that stores are
  buffered only if `StoreBuffered` allows it.
* `RequestsLostLate`: store buffers or not, there is one step that can leave a request without
  a task that will look at it: a claim that fails on the flag of a loop that has ended, whose store
  of `running` is still in its buffer (`LateRelease`). No other step of a task, the watcher or
  `refresh_index` does. From `OwnerInv`: the loser of any other claim may leave because the owner of
  `running` is in the loop, before its next look at `pending`. The run `close_race` takes that one
  step. With sequentially consistent flags nothing is in a buffer, and `NoLostRequest` is
  an invariant (`RequestsAreAttended`).
* `NoChangeForgotten`: `NoForgottenChange`, made inductive by three facts: no
  version in flight is newer than the disk, a pass that has read an older version has a
  signal behind it, and an open debounce window has a sleeper.
* `NoRegression`: without `refresh_index` calls, `IndexNeverRegresses`; what is built and
  not installed is never older than the index.
* `RefreshImplementsService`: without `refresh_index` calls, every step is a step of
  `RefreshService` or a stutter.

`ProjectRegistryProofs` (assumptions: ids, roots and the markers are distinct)

* `Invariant`: `IInv == TypeOK /\ LocksHeld /\ Exclusive /\ Carried /\ Changing /\ DefaultKept`.
  `LocksHeld` says which points hold which guards, `Exclusive` that a writer excludes
  everyone, `Carried` that a goal is carried with an argument it fits, `Changing` what an
  operation that holds the map has still to do, `DefaultKept` that the default is
  registered but for that operation. The last needs the others: it holds between the two
  halves only because the writer's lock keeps everyone else out.
* `TypeCorrect`, `DefaultAlwaysRegistered`, and `NeverLockedUp`: whoever holds the
  default lock can go on, whoever holds only the map waits at most for such a one, and if
  no one holds a lock a waiting writer can go.
* `RegistryImplementsService`: with `SettledDefault`, whose `CHOOSE` is determined by
  `Exclusive`.

`ServerProofs` (assumptions: bounds are naturals, at least one header is allowed, `Messages`
are the requests with their numbers)

* `PipelinedFrame`, `PipelinedLine`: for everything that may lie behind a message in the
  buffer, a read takes that message and leaves the rest. The run uses it: garbage is only
  sent to a loop that waits.
* `BackoffBounded`: for any number of failures the wait grows to two seconds and no
  further. The run sees three.
* `WritesAuditLog`: the server implements `AuditLog`. With `ChainTellsLossesTheorem` about
  `AuditLog` alone, whose `AuditInv` adds that hashes are not used twice and that what is
  left for the next event is the hash of the last line exactly if nothing broke since, it
  gives `ServerChain`.
* `AuditBracketsTheorem`: `BracketInv` adds to `AuditInv` that the last line opens a tool
  call only while one runs, or the process is down.
* `ServerTypes`, which needs that a message read is a message (`ReadType`).

`CacheCoherenceProofs` (assumption: the bounds are naturals)

* `TypeCorrect`.
* `StaleAst`, `StaleTool`: `StaleAstExplained` and `StaleToolExplained`. Each is inductive
  with the invariant of types: the histories are kept so that a step that makes an entry stale without
  a coming eviction or flush records it.
* `NeverBack`: `NoTimeTravel`, from `Onward == DiskFollows /\ ToolsRepeat /\ AstFollows /\
  FillFollows /\ InsertFollows /\ ByTool`. The disk is no older than anything served, a cached result
  repeats what was served under its key, and what the AST cache or the call in flight
  carries is no older than what its tools have served of its file.

`ToolDispatchProofs` (assumptions: finitely many calls, at least one permit of each kind, bounds are
naturals)

* Lemmas about the semaphore: `Sound`, a conjunction of the sum, of distinct waiters and of
  an idle permit meaning an empty queue, is kept by each operation, among them the
  acquisition that is dropped (`AbandonSound`), whichever of its three cases it is in.
* `TypeCorrect`, by frames: `Frame` and `SameBut` say what a step leaves of the other calls.
* `NoPermitLost`, `NoneWaitsInVain`: `PermitsKept` and `NoIdlePermit`. `PermitInv` says that
  both semaphores are sound for the calls that wait for them and hold them, and that only
  expensive tools queue.
* `ResultsFollow`: `LintResultsFollow`. `LintInv` adds what it rests on: diagnostics in a
  call are not from the future and as new as any reported unless the call overlaps one of
  `lint_file` (`Carried`), two such calls know of each other (`Beside`), and what `lint_file`
  is about to report is in the lint cache (`Reporting`).

`ServerProofs` further proves `AnswersKeepPromise`: `AnswersAsPromised` for any number of
messages, before and behind each other in any framing. `pending` is computed forwards, from
the messages as they are sent, and the handlers use the buffer from its front, so an
invariant must say that every read to come finds a message. It does so without induction over
the buffer: `AnswersInv` has a set of *views*, each what the main loop finds at some read
(`input` and mode) with what the client still waits for and whether it is let in then. The
set holds the view of the next read; each view is settled (no message before the read and
nothing promised after it) or leads, by one message at its front, to another of the set
(`Leads`). A message that is sent extends every view behind its end (`ExtendedLeads`); a read
moves on by one (`ReadLeads`, from the two lemmas about one read); garbage and the end of the
input leave the views before them.

`GatewayProofs` (assumptions: patterns are strings, texts are texts)

* `OnlyNoticesLeft`: `OnlyNoticesMatch`. `GatewayInv` says that the compiled rules are those of
  the overrides kept beside them, whichever caller compiled them, that what a caller has read
  for a text is what its rules came from, and that a result given out was cleaned text by text
  with these (`PassRight`). That in a cleaned text only notices match is about passes one after the
  other, where a later one sees what an earlier one has put in: `RedactEachIsWithout` shows
  that they come to one replacement of all, as a notice that is replaced is a notice again
  (`NoticeInPlace`).
* `Stepwise` and `RecursionExists` replace the induction theorems of the library, which take
  an operator: a set of places that holds 0 and the successor of each of its members holds all
  of `0 .. n`, and a function given by its first value and its step exists. With them functions
  over the steps of a loop can be reasoned about.
* Lemmas about `Listing`: `At` gives each of the chosen places once and in order, `FlattenSeq`
  what its parts hold, and a sequence in the order of a key is a permutation of the one it
  came from.
* Counting: `AtCounts` says that as many places are kept as were chosen, `Parts` that the sizes
  of the parts of a finite set add up to its size (`SumUp`, `ThreeParts` for the sums of a
  table). These lemmas and those about `Listing` carry the proofs of `ReportsProofs`.

`AnalysisProofs` (assumptions: what a request to a file tool has for a file, and of a graph
request: its names are among those `Order` lists, the notice is no secret, limits are naturals,
and the files of the project are below its root, each allowed or restricted and not both, with
".." in none of them)

* `FilesStayHidden`: `HiddenStaysHidden`. `FilesInv` says that the answer is the one to the
  request, and that what was heard before is the outline the request came from. The rest is
  about the tools: only an outline, a configuration file and an inspected symbol give
  anything of a file's text (`OnlyInspectGives`, `HiddenGetsNotice`, `ConfigAnswerHides`), the source of
  a function is cleaned (`FunctionSource`), and a comment is cut from its first marker to its
  last sensitive word (`StripLineStrips`).
* `OutlineLeads`: `OutlineLeadsToSymbol`. A canonical identifier is the chain of owners with
  the name; `CanonicalIsFound` shows that matching by name, owner or suffix never misses the
  function it was made from, whatever its language and owners, and `SourceGiven` that a body that is
  stripped is not in the source. `NoticeIsNotFound` is that a redacted identifier, the notice, finds
  nothing, as no function is called that.
* `GraphsFit`: `GraphFitsBudget`, for any sizes. `ensure_budget` pops edges, then nodes, until the answer
  fits or both lists are empty; redaction may merge names but not add any.
* `InboundTurned`: `InboundIsTranspose`. `Turned` tells the edges of the reversed and the merged
  table by those of the table, `WholeGraph` that an answer that is not cut has all of them.
* `EdgesAreOfImports`: `EdgesAreImports`. A path is normalised name by name: `NameIsKept` says
  that its last name stays, `ClimbsFirst` that leading ".." climb and the rest follows, so that a
  path that is named is the first one tried (`NamedIsResolved`). Each way of resolution, relative,
  by name or by alias, leads to a file with the last name of the import (`ImportLeads`);
  extensions are put on and taken off behind its first piece (`ExtensionKeepsName`,
  `StemKeeps`). A list of the table holds targets of imports and, up to the limit, all of them
  (`ListsOfFile`); a depth leaves files out and changes none (`DepthKeeps`); what is shown of an edge
  is the edge, unless a name is redacted (`ShownLinks`).

`ReportsProofs` (assumptions: a documented project has sequences of files and folders with
counts for limits; a lint request names files, and its external linters answer with sequences;
an audited project is a sequence of files, each a sequence of lines with secrets of the types
that are looked for; the files that are searched for patterns are parsed into sequences, and
their ranks tell them apart)

* `CallInv`: the answer is the one to the request. What remains for each theorem is what a tool
  computes, for every project.
* `PagesTell`: `PagesTellAll`. `PagesInv` says that what the client was told of the folders is
  what the pages before this one hold; a page goes on where the one before it has stopped
  (`PageContinues`), so that the last leaves no folder out and none was told twice. A limit cuts a
  list from its front, and only then is the answer marked as cut (`ApiLists`).
* `RulesRead`: `RulesReadCode`. The scanner of `built_in_lint` is a function over the characters
  of a line, the property speaks of literals by their closing quotes. `ScansLine`,
  `LiteralGoesOn` and `CommentGoesOn` carry the scanner's state from one character to the next
  between the two, and `CodeIsRead` joins them. The violations are those of the rules on the
  columns so read, in the order of lines.
* `LintersAnswer`: `LintAnswersComplete`. `Reports` says what one level answers, `Tells` that each
  diagnostic of it is in the merged answer, `IsMerged` that nothing else is. `ExternalTells`
  takes the ways in which an external linter ends, one by one: only the ones named in the
  property end without a diagnostic and without a note.
* `AuditTells`: `AuditAccounts`. `HitsCounted` gives the lines that a detector reports, and
  `FileFound` joins the detectors of a file: the rules found on a line are those it breaks. The
  deduplication keeps the first finding of each fingerprint (`DedupKeepsFirst`), so that as many
  are kept as there are places (`DedupParts`). A finding has one context and one severity, so
  that the groups of the report are parts of what was kept (`ReportGives`) and the cells of the
  table add up to it (`TableAdds`); `ContextIsOne` is that only the names of a path lead out of the
  production group, and `tests` among its directories always does.
* `PatternsTell`: `PatternsAccount`. `TalliesAdd` is about sums over a set: the number of places
  whose key is in a part of the set solves the equation that `FoldSet` is defined by, and
  every solution of it is the same by the size of the part. `KeysOrder` makes the order of keys
  of any length a total one, so that what is sorted comes in the order of keys (`KeysPermute`),
  and `PatternsCollected` follows each match back to a file that may be read. The proof showed that an
  earlier form of the property was wrong: a summary gives 100 matches at most, whatever the
  caller's limit, and does not say so.

Only model-checked:

* liveness and everything that speaks of ENABLED (`CatchesUp`, `LoopStops`, `CachesSettle`,
  `EveryRequestAnswered`, `CallsEnd`, the fairness part of `ImplementsService`);
* `CountsMatchTrees` and `TreeAccounts` compare sums over bags and over trees of any depth. The
  operators that make them (`FoldSet`, `FoldLeft`, bags) are defined by recursion in the
  community modules, with no theorems about them in reach.

## Findings

Details and quotations are in `PROJECT.json`.

1. **Close race** (`close_race`): `running.store(false, Release)` followed by
   `pending.load(Acquire)` may take effect in the other order. The loop leaves with
   `pending` up and the requester has left because it saw `running` up. Nothing is
   rebuilt until the next topological event. SeqCst on these operations excludes it
   (`watch_refresh`).
2. **refresh_index does not clear the AST cache** (`refresh_index_flush`): the closure-based
   invalidation fails, because the cache is built without support for it. Edits are covered
   by the eviction, files replaced by a rename are not. For the same reason unregistering a
   project leaves its AST entries (README.md:79 says they are purged).
3. **A cached result may name another id of its root** (`project_tag`).
4. **The audit log is not one chain** (`audit_chain`): it starts anew with every process,
   and a failed append leaves a gap. What it still shows is `ChainTellsLosses`.
5. **Dependency cycles are never reported** (`dependency_cycles`): `cycles.rs:31` looks the
   targets of the table up among its keys, but targets are absolute and keys relative to
   the root. README.md:125 and docs/API.md:72 promise them.

Noticed in reading, without a run of their own:

* Projects and requests: only projects given on the command line are watched (`main.rs:78`),
  while README.md:89 gives every project its own watcher; a request with malformed JSON ends
  the process (`main.rs:130`), although a parse error response exists and docs/API.md:701
  promises it; a cacheable call resolves its project twice, so that with two clients on one
  `ServerState` a result may be kept for the root of one project and come from another.
* Caches: a failed read stays in the AST cache as an empty analysis until it is evicted; with
  two lint permits a slower, older linter may overwrite `lint_cache` after a newer one.
* Dependency graph: for the same reason as finding 5 a depth limit has no effect and a file is
  two nodes; a scope turns imports that leave it into unresolved ones; `resolution_coverage` is 1.0 for
  inbound graphs; `./hero.service` resolves to `hero.ts` when that exists, as the last piece
  counts as an extension; metrics are added after the response was cut to its budget, and the budget
  is exceeded when nothing is left to cut.
* Linters: a linter ended by a signal (exit code -1) is reported as clean, and so is an eslint
  that prints anything besides its messages.
* Outline: `outline.rs:172` tells the client to inspect a symbol by the identifier before the "|", but the
  whole outline is redacted after it is written (`outline.rs:203`): a method whose identifier a
  pattern matches (`net.local` is an `INTERNAL_HOSTNAME`) cannot be inspected by it.
* Audit: the deduplication merges two kinds of secret on one line; the query for panics,
  "reserved for future use", is used, and reported as an unsafe block.
* Documentation: the API section says that it is cut when it has exactly as many entries as it
  may have; a short sentence ends the search for a verb of use.
* Design patterns: `max_files` 0 answers that no file could be analysed; `truncated` speaks
  of bytes only, not of the limit of matches.
* Sanitizer: `sanitize_text` is not idempotent; `#` and `/* */` comments keep their sensitive words,
  and a sensitive value keeps the lines after its first. Predictor: `should_prune` divides counts of
  descendants by totals of children and siblings, unlike `predictor.rs:91-92`, and nothing
  calls it.

## Plan

Done: the index refresh, the caches, the registry, the server with its transport and log,
tool dispatch with its permits and the lint pool, the tools' computations.
Left, most important first:

1. `Server` extended by the project that `initialize` selects and the start of watchers in
   `main.rs`; a single-client `ResultsStayInProject` for `ProjectRegistry`.
2. `analyze_angular_component` with `relations.rs`.
3. Two processes on one audit log.

### Not modelled

* Tree-sitter grammars and queries, the analysers of HTML and CSS, doc comments: what they
  find is the input of the modules.
* Regular expressions of sanitizer, audit and linter output: labels and parts of a message.
* Wording and layout: Markdown, labels of `project_docs/i18n.rs`, `unresolved_reason`, the
  2 MiB cut of a page (`project_docs/render.rs:37`), metrics and `imports_total`.
* Metrics and statistics: they are reported and feed nothing back.
* Environment variables, token digests, path canonicalisation on case-insensitive systems:
  read once, without a protocol.
* What an external linter does after its call was dropped: it holds no permit and its output
  goes nowhere.
