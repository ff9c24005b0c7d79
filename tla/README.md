# Slimference in TLA+

Slimference is a proxy between coding agents and model providers. It shortens
what an agent sends, caches answers, and on the Codex route sits inside a
WebSocket session whose compressed messages it inspects and rewrites. To get
there it changes the host it runs on: a redirection in the hosts file, a CA, a
launchd job, hooks of the agents. This directory holds TLA+ models of the parts
where several goroutines, processes, peers or caches have to agree, or where a
crash between two steps matters; TLC configurations that check them on small
instances; and theorems that TLAPS checks for all values of the constants.

    tlc -workers 2 -config MCTraffic.cfg MCTraffic         # any run below
    tlapm WsSession_proofs.tla                             # the proofs

`PROJECT.json` maps every definition to the lines it models and lists the runs,
the hazards, the findings and, for each property, mutants of the model that
violate it. Mutants are ordinary operators that stand before the definition they
would replace, under a comment that calls them a mutant; nothing else uses them.

## 1. The system

### 1.1 Components

| component | state | operations | modelled |
|---|---|---|---|
| WebSocket session, `proxy/wsmitm/session.go`, `wscompact` | per direction: buffered frames, `blocked`, `forceReencode`, inflate and deflate dictionaries; `Degraded`; `errs`; close initiator | two pumps, `handleCompressedFrame`, `handleContinuationFrame`, `finishCompressedMessage`, `Serve`, `classifySessionClose` | `WsSession` |
| Writers to the upstream, `sessionLockedWriter`, `lockedWriteConn`, `wscompact/write.go` | two nested mutexes, one connection | pump, keepalive ping, recovery retry | `UpstreamWriter`, `FrameStream` |
| Response chains and recovery, `wss_recovery.go`, `wss_stateless_chain_store.go` | chain maps (per adapter and shared), pending chain, output and candidate, `activeRecovery`, `historyStatelessMode`, `degraded` | prepare, remember, observe, retry, fail, expand | `WssRecovery`, partly |
| Phase-F pipeline, `wsmitm_phasef.go` | the adapter | rewrite request and response envelopes | partly: its effect on chains |
| WSS dispatcher, `wsmitm_dispatcher.go` | active sessions, totals, ring of recent sockets | route, bridge, finish, `Snapshot` | `Dispatcher`, `Relay`, partly: no resolving of names |
| Shutdown and analytics, `handler_shutdown.go`, `handler_workers.go`, `proxy.go`, `analytics/` | `shutdownOnce`, in-flight requests, event queue and counters, log of snapshots | serve, send an event, drain, stop workers, flush | `ProxyShutdown`, partly: no collector arithmetic, no log rotation |
| Health monitor, `health_monitor.go` | ring of twenty outcomes per provider | record, status | `HealthMonitor` |
| Response cache and file watcher, `caching/` | entries, LRU order, Stage A pointers; tracked directories, debounce timers | `Get`, `GetByOriginal`, `Set`, `Invalidate`, `Cleanup`, `Flush`; `Watch`, event loop, `pruneStale` | `ResponseCache`, `FileWatcher`, `CacheInvalidation`, partly |
| Read cache, `readcache/` | per session and path what the model was given; memory per process, a file per session, delayed flushes | load, evaluate (hook and observed), save behind, flush, clear | `ReadCache`, partly: one path, no ranges |
| Content archive, `contentarchive/` | payload and metadata file per block, statistics file, shared by processes without a lock | put, get, enforce limits, reconcile | `ContentArchive`, but for the re-injection counters |
| Chunk store, `chunkdedup/` | per session the chunks the model has been given and a budget of references | observe, encode | `ChunkDedup` |
| Tool-use cache, `toolusecache/` | per session what each tool call was; memory, a file per session, delayed flushes | load, merge, flush, clear, prune | `ToolUseCache` |
| Reversible host changes, `control/reversibility/`, `install/` | hosts file and its backup, CA files, keychain, launchd job, hooks | apply, roll back, reverse | `HostsPatch`, `Install`, partly |
| Certificates, `tlsca/ca.go` | CA key and certificate files | load, generate, set aside | `Install`, partly: no leaf certificates |
| Daemon, `cmd/slimference` | PID file, socket, job | start, stop, reload | partly: what its exits leave in the hosts file |
| Turn state of the hooks, `sessions/hook_state.go` | a state file per session, its lock file and its temporary file | start a turn, observe, close | `HookState` |
| Recertification, `codex_recert.go` | lock file, state file with a back-off | start by hand or automatically, take over, record | `Recert`, partly: not the codex run it triggers |
| HTTP request path, `handler.go`, `toolprune/`, `server_state.go`, `openai_prompt_cache.go`, `streaming.go` | tools and their use per session, the id of each session's last answer, refused cache hints | prune and bring back tools, add hints, replace the history by an id, forward, retry, deliver | `RequestPath`, the cache lookups in `CacheInvalidation`, partly: no compression of messages |
| Front end, `raw_wss_listener.go`, `transparent/listener.go`, `connect.go`, `ws.go` | accept loops, slots; per connection what was read ahead, two copying goroutines | accept, shake hands, sniff, replay, upgrade, pipe | `FrontEnd`, `Relay`, partly: no plain requests inside a tunnel |
| Output-stop counters, server mirror, compaction signals | bounded maps and counters | put, get, prune | no |
| Session logs | logs | append, persist | no |
| Desktop shim and sidecar | pipes between child and client | copy, rewrite | no |
| Filters, CLI, configuration, TUI, installers | none of their own | pure functions and screens | no |

### 1.2 How they interact

A connection reaches the proxy over the raw listener, which answers for some and
passes the others to the HTTP server, inside a CONNECT tunnel, as an upgrade the
HTTP server hands over, or over the transparent engine (`FrontEnd`). Whoever
takes it reads a head, dials, forwards, reads an answer and then copies, each
from what the one before it has left in a buffer (`Relay`).

A Codex connection is dialled by the dispatcher, which creates an adapter
(`wsPhaseFAdapter`) and a `Session` and calls `Serve`. `Serve` starts two pumps.
The client-to-server pump passes each request envelope to the adapter, which may
replace it (pipeline, expansion) and records a recovery candidate; the
server-to-client pump passes each response frame to the same adapter, which
remembers chains, and, on an upstream error, may consume the frame and write a
retry to the upstream itself, from the wrong side as it were. A keepalive
goroutine writes to the same connection. So three goroutines write to the
upstream (`UpstreamWriter`), two work on the adapter (`WssRecovery`), and two
share `Degraded`, `errs` and the two connections (`WsSession`). Chains go to a
store that all adapters share and that a restart empties. When `Serve` returns,
the dispatcher folds the session's counts into its own, beside observers that
add up what is live (`Dispatcher`); `codex recertify`, in a process of its own,
judges the difference of two such snapshots (`Recert`, `Dispatcher`).

On the HTTP route a request loses the definitions of tools its session has not
used for a while, gets cache hints, and has its history replaced by the id of the
session's last answer; when the upstream refuses one of the three it is sent
again without it (`RequestPath`). Before that it is looked up by its original body (Stage A), then,
compressed, by its key (Stage B). A complete answer is stored after every file
the body mentions is watched; the watcher's event loop, its timers, its pruning
ticker, a janitor and an operator's flush work on the cache meanwhile. Requests
and sessions send one analytics event each to a bounded queue, whose worker
`Shutdown` stops last (`ProxyShutdown`).

The pipeline, the hooks of an agent and command wrappers put the originals of
what they cut out into the content archive and hand out a URI instead
(`ContentArchive`). The read cache refers to those URIs when it answers
"unchanged"; the daemon and each hook or wrapper process have a memory of their
own over the same file per session (`ReadCache`). A tool output that repeats chunks
of earlier ones refers to them, by way of the archive (`ChunkDedup`). What a
tool call was is remembered for its output, which arrives in a later request,
perhaps over another socket (`ToolUseCache`). The hooks of one session, each a
process, share the record of its turns (`HookState`).

`install` and `uninstall` apply and reverse a plan of steps, beside a proxy that
loads, or generates, the same CA (`Install`). The hosts redirection comes and
goes with the proxy process (`HostsPatch`).

### 1.3 What is hard

* Rolling compression dictionaries: four copies (source, inflate, deflate,
  target) that must agree although messages are rewritten, consumed, capped or
  forwarded raw.
* Fragmentation: a message may be buffered, released in its middle by the size
  cap, and interleaved with control frames.
* A lock per `Write` around a stream whose frames take two `Write`s.
* A retry that uses state recorded by the other pump, and errors that arrive
  late, twice, or for no request at all.
* Chains that vanish (restart, eviction, other sessions) between the turns of
  one conversation.
* Cancellation that is noticed only between frames; unwinding two goroutines
  blocked in reads.
* Invalidation that depends on a chain of event, timer and callback, and a
  table of watches that the operating system does not have to agree with.
* Files that several processes write without a lock, truncating before they
  fill: a reader finds them empty, garbled, or one of a pair without the other.
* Memory saved behind its back: flushes that overtake each other, processes that
  end before theirs.
* A lock file that may be taken over, removed by name.
* Bytes read too far on the way to whoever handles a connection; copying that
  ends with one direction here and with both there; loops that wait for clients.
* Steps that outlive the process which has to undo them.
* Counters read while they move from one place to another; a shutdown among
  workers that may hang.

The full list, line by line, is `hazards` in `PROJECT.json`, with the properties
that cover each; the one no property covers says why.

## 2. The modules

### 2.1 WsSession: one session

State per direction: `pc` (top of the loop, in `ReadFrame`, done), the message
being read and how many of its frames were read, the source's dictionary,
`codec` (`compressedMessageState`), and `recv`, what the target received. Shared:
`degraded`, `gone` (closed connections), `ctx`, `errs`, `serve`, `closed`. The
scenario is what `Serve` was called with and what the peers may do.

A message is what decides its path: its kind (`envelope`, `malformed`, `other`
for text that is no JSON object, `huge` for a bomb that inflates past its limit),
RSV1, its number of frames, the frame at which the 16 MiB cap is passed, and how
far back its compressed form refers (`share`). A dictionary (32 KiB of text) is
the sequence of the last `Window` texts; a text inflates when the texts it
refers back to are the same on both sides.

Each action is one iteration of `pump`, along one path: `HandleCompressed`
(buffering, cap, and all of `finishCompressedMessage`), `ForwardContinuation`,
`ForwardControl`, `PassThrough`, `PlainParseFails`, `HandlePlain`, `ReadFails`,
and `CheckContext` at the top of the loop. Frame reads are atomic with their
handling because a pump shares nothing with the other pump that it reads twice.
`Write` may fail once the target is gone. `ServeRecordsClose`, `ServeReturns`
and `CallerCloses` are the rest of `Serve` and its caller in the dispatcher.

Assumed: a peer that cuts a plain message into frames cuts it where its first
part is no JSON value yet, so that `Parse` fails on it. The code does not look
at `Fin` there (session.go:393): a first frame that holds the whole object would
be handled, and perhaps consumed, without its continuation frames.

Left out: compressed binary messages, which pass or block like `other` ones;
the envelope's marshalling error, which ends a session as the verdict `fail`
does; byte counters.

### 2.2 UpstreamWriter and FrameStream: who writes when

`UpstreamWriter` has the queue of `Write`s each writer still has to make for its
current message, the two locks, and the upstream's parser. A raw frame is one
`Write`, an encoded one a header and a payload. `FrameStream` is the abstract
specification: per writer, messages arrive whole, in order, once, until the
stream breaks. `ImplementsFrameStream` is the refinement, with
`arrived <- peer.arrived` and `broken <- ~peer.ok`.

### 2.3 WssRecovery: chains and the retry

State: the current adapter, the shared store, the client, the bodies and frames
in flight, what the server answered in which context (`ctx`), and for each
response the conversation as the client sees it (`history`). Response ids are
numbers in the order of the server's answers; those of other sessions are
negative, so that they are nobody's here. `HandleRequest` is the whole
request handler; `HandleItem`, `HandleCompleted`, `FailRecovery`,
`RetryRequest` and `SurfaceError` are the paths of the response handler. Only
the first response to a request exports its chain to the shared store
(`pendingExport`). The server accepts, rejects, forgets or fails in mid-stream; the connection may be
replaced, the daemon restarted, the store filled by other sessions.

The client has one request at a time, so sending and handling it are one step.
Not modelled: a body that has both its full history and a
`previous_response_id` (wsmitm_phasef.go:862, a hazard without a property), a request without input (which clears the pending
state), and the guarded set of response ids, which only narrows when the
pipeline rewrites (the model lets it rewrite whenever the code could).

### 2.4 ResponseCache, FileWatcher, CacheInvalidation

`ResponseCache` gives each method as a function of the whole cache, since each
runs under one mutex; an entry carries, besides its dependencies and age, the
files `written` since it was stored, which only properties look at.
`FileWatcher` separates `trackedDirs` (`tracked`) from the watches the operating
system really has (`armed`), and the life of a debounce timer: running, fired
(its function waits for the lock), gone from the map but still running
(`orphans`, when it was reset after it fired), about to call `onChange`.
`CacheInvalidation` adds requests, each critical section a step of its own, and
files: `WriteFile`, and `ReplaceDir`, in which a directory is removed and
created anew, fsnotify reports the removal and drops the watch.
`Files` only declares the paths and directories that both modules speak of.

`Watch` and `IsWatching` of one path are one step: what `Watch` just refreshed
cannot be pruned ten minutes old in between. For the same reason `Tick`, which
stands for minutes, does not happen between a request's first `Watch` and its
`Set`. Left out: `Unwatch`, which nothing calls, `Close`, a proxy without a
watcher (it stores no dependent answer) and requests that are not safe to cache
(they bypass the cache).

### 2.5 RequestPath: what is left out of a request, and put back

`way` is a handler's request: what its client asked (`own`), what was last sent
(`sent`), the tools with what was brought back (`full`), those dropped, how far
through the retries it is (`stage`). `tracker` is `UsageTracker`, `anchor`
`ResponseStateStore`, each with the order in which it evicts; `known` is what
the upstream stores. Every call of the tracker takes its lock by itself and is a
step: `Mention`, `Peek`, `ForgetDefs`, `ObserveTurn`, `ConsumeCooldown`,
`JudgeTool` for each tool, `KeepOne`, `RememberDef`. `Send` is one attempt of
`doUpstreamRequest`, which tries again on its own when the upstream is busy or
its context overflows; `RetryWithoutHints`, `RetryWithAllTools` and
`RetryUnanchored` are the handler's three retries, `Deliver` and `StoreId` the
rest. A request either lists the whole history or, with the id of the client's
last answer, what is new.

Assumed: an OpenAI request with a session key; a question without an answer is
dropped by its client; dropping a tool always saves tokens. Left out: the
compression of the messages, stop sequences and terse hints, which change the
body and no state that the retries depend on, and a key taken from
`previous_response_id`.

### 2.6 HostsPatch: the redirection

The hosts file is the set of its lines outside the fence and whether it holds a
block; `backup` is `hosts.slimference.bak`. `gate` is the process: `ReadHosts`,
`WriteBackup` and `WritePatched` are the three file accesses of `Apply`,
`WriteBack` the one of `Reverse`; `Start`, `ListenerUp`, `ListenerFails`,
`Reload`, `Terminate`, `UndoFails`, `Leave` are the ways through
`hosts_lifecycle.go`, `headless.go` and the daemon. Around it `Kill` at any
step, `Edit` by somebody else, `Flip` of the configuration (`enable`,
`disable`), `RemoveBackups`. `mishaps` records what a property has to except;
each kind is one thing that happened, named where it happens.

### 2.7 Install: plan, rollback, reverse, and the CA

`cli` is the running command: its plan, the step it is at, whether it applies,
rolls back or reverses. The CA step works file by file, in `loader`, which a
starting proxy also goes through (`ProxyLoads`): look, set aside what has
expired or does not parse, write the key, write the certificate. A write that
fails is no error there (ca.go:240): the loader goes on with what it has in
memory, and the file does not parse. Each step may
fail after it has done its work in part (`TrustFails`, `InstallJobFails`,
`InstallHooksFails`, `LoadFails` with what `CutShort` leaves), and the command
may be killed anywhere. `site` is what is on the machine.

### 2.8 Recert: the lock file

Each process asks (by hand, with or without `--force`, or automatically),
creates the lock with O_EXCL, signs it with its process id, works, records the
outcome, unlocks. If the lock exists it is inspected, and removed by name when
it is stale. Creation and signing are two steps, as are inspection and removal.
`creator` and `seen` are history: whose file the lock is, and who has found the
present file stale. A lock ages (`LockAges`, thirty minutes) however slow its
owner; a process may die anywhere.

### 2.9 HealthMonitor: the ring

`Record` and the status computed from the ring, one provider (the code keeps one
ring per provider), with `outcomes`, the whole history, as the reference.

### 2.10 Dispatcher: sockets and snapshots

`stage` is a socket's way through `finishActiveWSMITMSession`: its counts are
read, it is removed from the active ones, its frames are added, it enters the
ring, its requests are added. `Snapshot` is two steps under `activeMu`: counters
first, live sockets later; sockets go on counting in between, since they do not
take that lock. The second pump of a session may outlive `Serve` (`Handle` in a
late stage). Counters do not affect each other, so a behaviour follows one:
`frames`, added before the ring, or `requests`, added after it.

### 2.11 ProxyShutdown: the queue and the end

`sender` is each request's place in `trySendAnalytics`, whose second try for an
event of proof priority drains one event, records it and tries again. `worker`
and `flusher` are the goroutines; the worker's `select` may take either case.
`CallShutdown`, `ServerStops`, `CloseQuit`, `WaitForWorkers`, `TakeFinal`,
`WriteFinal` are `doShutdown`; a second caller waits in `sync.Once`
(`WaiterReturns`). An event is named after its request; the collector is the set
of events recorded.

### 2.12 ContentArchive: two files per block, and no lock

A file is `none`, `empty` (truncated), `whole` or `garbled`; `OpenFile` and
`FillFile` are the two halves of `os.WriteFile`. `archiver` is one call of
`Put` or `Get`, in a goroutine or process: look up, write payload and metadata,
load the statistics (`StatsLoaded`, or `StatsUnreadable`), write them, list, sweep (`RemoveMeta`, `RemovePayload`), save the statistics,
perhaps `Reconcile`. A sweep may remove a file that another writes, whose bytes
then go to a file without a name (`FillLost`). `order` is the order of the
payloads' modification times, `OrderBut` the same without a payload that is
removed, or is about to be the newest. A block stands for its id, which is its hash.

### 2.13 ReadCache: what the model was given

One session, one file. `disk` is the session's file, `mem` each process's entry
of `readCacheMemory` (with `dirty`, `scheduled`, `version`), `sleepers` the
delayed flushes and `flight` those that have taken the state and write it
without the lock. `eval` is an evaluation: load (hit, or read the disk and
install), decide, reply. Evaluations of the daemon and of a wrapper take the
observed path (`FullPass`, `ReferUnchanged`, `ReferChanged`), which archives;
the hook that runs before a read takes `Evaluate` (`HookUnchanged`,
`HookChanged`), which goes by modification time. After it has saved, a decision
is counted, and if that fails the text goes out in full (`RecordFails`).
`Helper` is a process that lives for one evaluation: a hook, which exits without
a flush, or a wrapper, which flushes first. The daemon may crash, flush and exit,
or have its caches cleared. `PruneDisk` is `PruneSessions`, which every 64th save
of a process runs: it removes the session's file, whatever memories hold of it;
who is writing the file then writes on to one without a name (`FillUnlinked`).

Abstractions: one set `Large` for both size thresholds (64 KiB inline for the
hook, 256 KiB for an observed read); which turn it is, and which lines were
read, are nondeterministic; the outputs of tools go the same way as files.

### 2.14 HookState: the turns of a session

`hook` is one call of a hook command: take the lock file or inspect the one that
exists, load, change, open the temporary file, fill it, rename it, unlock. A
lock older than the limit is removed by its name (`FindOld`, `RemoveOld`), and
locks age however alive their owner is (`HookLockAges`). All hooks of a session
write the same temporary file, so an inode that two have open is modelled
(`Filled`). A hook may die anywhere, or give up on the lock. `due` is the
history: what the saved calls add up to.

### 2.15 ToolUseCache: metadata of tool calls

One session: `toolMem` its entry in memory, `useFile` its file, `adapter` the
call each socket's adapter is in, `flusher` the delayed flushes. A load that
misses reads the file without the lock; a merge looks for what to merge with,
reads the file if need be, and puts the result into memory, dirty; a flush takes
the entry, writes, and puts it back, clean. `Clear` forgets and removes;
`PruneFile` removes by age, and with it what only the file held; a flush that
fails after a `Clear` has nothing to schedule, and its keys are gone; a process
may end with entries unsaved.

### 2.16 ChunkDedup: references within a budget

`dialogs` is the store: per session when each chunk was last seen and its `seq`,
and the two sums the budget is made of. `Observe` is atomic.
`BeginEncode` is an Encode up to the unlocking, `FinishEncode` the rest: it
picks references, archives them, any of which may fail, and locks again to
spend the budget. How a text is cut is a constant: an output has a cut by
content and perhaps one by lines. The time is the number of calls, and the
cutoff for what has expired is any earlier time. The loops of the code are
stated by their results, which is what the proofs need: what pruning keeps are
those with too few later ones to be pruned (`Latest`), and `Selected` is the set
in which each candidate is exactly if it fits beside those tried before it.

### 2.17 Relay: the bytes of a connection

`conn` is the scenario: the way in, what the head asks for, whether the client
sends before it is answered. Streams are numbered, so that `got`, what a peer
has received, shows what was lost, doubled or overtaken. `held` is what has been
read and not used (the raw listener's prefix, the `bufio.Reader`s), `hand` what
a copying goroutine is about to write, `told` a half-closed side. The raw
listener and the dispatcher read a head byte by byte, the others whatever has
arrived. `relay` is how the handler ends: `pipeBytes`, `pipeWebSocketBytes` and
a session with the first direction, `bridge` with both or with the context.
Inside a tunnel each read has 120 seconds (`ReadTimesOut`), also after the
request has become a WebSocket, for nobody takes that deadline back
(connect.go:227). What a session does to the messages is `WsSession`'s; here its frames pass.
Resolve's `Reject`, which sniroute.go:43 reserves, a head over the limit, and the
`BridgeTimeout`, which nothing sets, are left out.

### 2.18 FrontEnd: who is let in

`loop` and `place` are the engine's Run and the goroutines it starts, `tally`
its counters: a connection whose handler returns an error is counted as failed
(`HandleFails`) and then as served, too (`FaultServed`). `backlog`, `sniffed` and `passed` are the raw listener as the HTTP
server's loop calls its `Accept`. An `Accept` that fails for another reason than
a closed listener ends the engine, too.

### 2.19 Modules that join components

`MCTraffic` joins 2.1, 2.4 and 2.11, `MCUpstream` 2.2, 2.3, 2.17 and 2.18,
`MCProcess` 2.5 to 2.10 and 2.14, `MCStorage` 2.12, 2.13, 2.15 and 2.16. The components in
them share no state with each other, so an interleaving of two would show
nothing that one alone does not: a variable `part`, which never changes, selects
the one a behaviour exercises, and the others keep one initial state. Every
action and every property is that of the component's own module.

## 3. What is checked

| run | bounds | states |
|---|---|---|
| `traffic` | session: 6 scenarios, up to 3 messages of up to 2 frames, window 2; cache: 2 requests at a time, 3 in all (one when a directory is replaced or a file written twice), 2 writes, one cache entry, one watched directory; shutdown: 3 loads, queue of 1 | 230 000 |
| `upstream` | writers: 2 pump messages of up to 2 frames, 1 ping, 1 retry, capacity 1, four crews; recovery: 9 scenarios, 3 turns, 2 chains; relay: 22 scenarios, heads of 2 units, 3 units each way; front end: 2 TLS and 2 raw connections, 1 slot | 224 000 |
| `process` | hosts: 1 line, 2 starts, 1 edit, 1 flip, 1 removal; install: 3 sets of flags, 2 certificates, 2 commands or starts; recert: 2 processes; health: window 4, 10 outcomes; dispatcher: 2 sockets, ring of 1, 1 count; hooks: 2 hooks, 2 items, 2 turns of 1 item, 3 calls, 1 upset; requests: 6 worlds of up to 2 handlers, 2 conversations, 2 tools, 5 requests, 2 faults, room for one session | 1 140 000 |
| `storage` | archive: 2 blocks, one of them over the limit of bytes, 2 archivers, 1 entry, 3 calls, 1 fault; read cache: 2 texts, 2 goroutines and a helper, 2 evaluations, 1 upset; tool uses: 2 adapters, 3 flushes, 3 keys with room for 2, 3 calls, 1 accident; chunks: 2 sessions with room for 1, 2 encoders, 5 chunks with room for 4, 4 calls | 1 670 000, symmetric in the goroutines |

**traffic, a session.** `ExactlyOnceInOrder`: nothing is lost, doubled or reordered,
through caps, failures and consumed messages. `InspectorTrusted`: the handler
judges what the source wrote (`InspectorInSync`), and with all its frames
(`HoldsAllOrNone`).
`DecodableUnlessRawAfterRewrite`, `NoTakeoverDecodable`: when the target can
decode everything. `ConsumedForcesReencode`, `BlockedEndsMutation`: the two
flags do what they are for. `BlameIsReal`: the recorded initiator did leave, in
spite of both pumps stopping at once. `Unwinds`: when one pump has stopped, the
session ends. Three messages are the least with which a reference skips over a
rewritten one, a window of two the least that is trimmed and still holds more
than one text, two frames the least with a middle.

**upstream, the writers.** `ImplementsFrameStream`, `BreaksOnlyOnOverlap` (the stream breaks
only when one writer writes while another is within a frame or a fragmented
message), `WritesFinish` (no writer waits for ever). Two messages show order, a
capacity of one lets every `Write` block. Deadlock is checked for all four
parts: the good ends, all messages written, the handler or Run returned, are the
step `Over`.

**upstream, the recovery.** `SentAtMostTwice`, `ConversationKept`, which is `ChainsExact` (a chain that reaches the start
of a conversation is that conversation) and `SameConversation` (the server answers
in the whole conversation as long as chains survive), `EveryRequestAnswered`.
Three turns and two chains: the chain of the first turn is evicted by the third.
Two preconditions are named. `Orderly` leaves out two combinations the code
does not survive: an error that answers no request after a completed response
makes a response nobody asked for, because completion does not clear the
candidate; and the output of a response that failed after streaming items
enters the next chain when that response lists no output.
So no property says that these two do not happen; that even then no request goes
out a third time, `SentAtMostTwice` does.
`ChainsSurvive` leaves out restarts, other sessions' chains and, without
ServerStateEnabled, reconnects; what happens then is the run
`recovery_truncated`.

**upstream, the relay.** `RelayFaithful`: a peer gets what the other sent, from
the start and without a gap, whoever read it first; a direction that came to its
end has carried everything; the bridge stays for both. `RelayEnds`: a client
that has ended is let go. Excepted is a head cut short by the raw listener's
deadline: its first lines may look like a whole one, it is sent on as it is, and
the server waits for the rest, which nobody reads before it has answered; no
timeout ends that, outside a tunnel. Heads of two units are cut in their middle, and three units
each way leave one beyond what was read too far.

**upstream, the front end.** `FrontEndGoesOn`: a slot is never held twice and
the counters add up (`TallyHonest`: what was accepted was served, failed its
handshake or is in hand, while errors count handshakes and handlers, so served
and failed together may be more than accepted); when the engine's context ends Run returns,
even while it waits for a slot, but not before clients that say nothing, whose
head is being read or who are in a session (`StopsUnlessSilent`); the raw
listener gets to everyone (`EveryoneIsTaken`). One slot for two connections makes
the loop wait, two raw connections queue.

**traffic, the cache.** `CacheConsistent`: entries, order and pointers agree.
`StaleIsPending`: with a lifetime shorter than the pruning age (the defaults are
5 and 10 minutes) a live entry is watched, and after a write an invalidation of
it is on its way, whatever timers, pruning and full tables do.
`StaleEntriesLeave`: that invalidation arrives. One entry and one directory put
both tables at their limits. TTL 1 and pruning age 2 are the smallest with
`0 < TTL < PruneAge`. Two writes to a file are what it takes to reset a timer
that has fired. The bound on requests is an ACTION_CONSTRAINT, whose cut steps
have no fairness.

**traffic, the shutdown.** `EventsKept`: every accepted event is counted and
recorded once; a proof event is dropped only to a rival; the last line of the
log has what was recorded. `ShutdownReturns`: whatever hangs. A queue of one is
full at once; three senders can take each other's place in it.

**process.** Two starts are the least with which a backup outlives the process
that took it, two commands an install and its uninstall, two certificates an
expired CA and its successor; two recertifying processes take over from a third
that died, which `DeadPid` stands for; ten outcomes wrap a window of four twice;
two sockets in a ring of one push each other out.

* `RedirectIsOwned`: a block in the hosts file has a live owner, or one of the
  named exits was taken. `LinesKeptUnlessEdited`: the other lines survive.
* `InstallReversible`: a failed install leaves nothing of the steps it
  completed, an uninstall that reports success has undone all of them, what
  stands after any command, or half of one, can still be found by a later
  uninstall, and the CA key is its certificate's.
* `RecertHonest`: the lock excludes (`OneRecertUnlessTakenOver`), and a state
  file at "running" does not outlive its process (`RunningHasRunner`), but for
  named cases.
* `StatusTellsLastOutcomes`: the status is that of the latest outcomes.
* `SnapshotHonest`: nothing is counted twice, what is missed is in a named gap,
  a socket is listed once, and the difference of two snapshots is the traffic
  between them.
* `QuestionsAnsweredInFull`: in a conversation of single questions, one at a
  time and not streamed, every answer is made from the client's whole history,
  although the proxy sends its end only: through lost answers, refusals,
  overflows and ids that proxy or upstream dropped. `RetriedInSecret`: the client
  never gets a refusal that is the proxy's doing, but for one named case, and
  the upstream accepts a request once unless an answer got lost.
  `MissedToolsStay`: a tool that was missed while the tracker remembered its
  definition stays until it has been idle once more, in spite of evictions and
  of what other requests use up; what happens without the definition is among
  the differences of section 3.1. Two handlers in one session, or two sessions with room for
  one, are the cases; four requests let a missed tool be kept for a turn and
  judged again, five let ids be stored, evicted and refused.
* `TurnStateHonest`, of two parts. `UpdatesKept`: the state file is always
  readable and is what the saved calls
  add up to, however hooks fail, die or take over the locks of dead ones; the
  exception is a lock taken from a hook that is alive. `TurnsHonest`: the turns
  are consecutive and end with the current one, and a marker that stands for a
  list refers to one that was sent, or was to be, in the same turn. Two turns of
  one item let both be trimmed.

**storage.** With one entry the second block always evicts the first, and the
larger one, alone above the limit of bytes, leaves with the Put that brought it.
Two archivers are the least that clash; three calls archive, evict and archive
again. A URI that was handed out can be expanded until the limits evict it, and the limits hold but for Puts that stopped
(`ArchiveHonest`). `ReadCacheHonest` has two parts.
`KeptBackIsKnown`: nothing is withheld from the model that it was not
given. `SavesReachDisk`: at rest, the disk holds the last save. The histories
`past` and `told` name the accidents after which these need not hold; for the
read cache: `reinstalled` (a load that missed replaced a save), `overtaken` (two
flushes of the daemon at a time), `foreign` (the helper wrote), `failed`, `cut`
(a process ended with unsaved state), `cleared`, `pruned` (the session's file was
removed by its age or for the number of files), `mixed` (the hook changed the
hash and kept the URI). Each of them is a way the code loses a save, or refers
to another text, and is there because TLC found it.

`KeptInOrder`: a key that was merged stays loadable, a clean entry is on disk,
and a dirty one has a flush to come. Its exceptions are named in the same way:
`overtaken` (two calls wrote what each had taken out before), `crowded` (the
oldest keys gave way), `unsaved` (a process ended, a save failed or the cache
was cleared) and `removed`. Nothing flushes this cache when the process ends,
and a process that dies between truncating and filling the file leaves one that
every later load and merge of the session fails on until it is pruned. Three
keys with room for two overflow; three flushes are the least with which one is
scheduled while two others write.

`ReferencesHonest`: the bytes replaced stay within the session's share, though
Encodes choose and spend in two steps and the store may drop the session between
them; no output refers to a chunk that only it has; the store stays within its
limits. Two encoders that both see the last of the budget, room for one of two
sessions and for four of five chunks are the cases. An Encode that ends when its
session was dropped spends without a record (`forgotten`), up to its own
output's limit. The chunks of an output count as given from the moment it is
cut, before it is sent: the store does not learn of requests that fail.

Deadlock is not checked where the system really comes to rest: all bounds used
up.

### 3.1 Disagreements between the code and its documentation

Each is a run that TLC ends with a counterexample (`findings` in `PROJECT.json`
quotes the lines).

* `session_takeover`, `AllTextsDecode`. Context takeover, one message rewritten,
  a later one forwarded byte-equal: it refers back to a text the target never
  saw. The deflate dictionary follows the target, but byte-equal forwarding does
  not use it.
* `session_degraded`, `DegradedIsByteCopy`. Compressed messages are inspected
  and rewritten after a parse failure set `Degraded`; only plain ones are not.
* `session_cancel`, `CancelEndsServe`. Cancelling the context does not end a
  session whose pumps both wait for a frame.
* `writer_overlap`, `FramesIntact`. A ping between the header and the payload of
  a re-encoded frame becomes part of the payload.
* `recovery_truncated`, `AnsweredInFullContext`. After a restart a continuation
  whose chain is unknown is recorded as if it were a whole conversation; the
  retry of the next one sends that.
* `cache_rearmed`, `WritesInvalidate`. `trackedDirs` outlives the watch of a
  directory that was removed and created anew; later entries are stored in the
  belief that they are watched, and writes leave them in the cache until they
  expire.
* `tooluse_reconnect`, `MergedIsLoaded`. A flush that was writing puts what it
  has written back into memory, over a key merged meanwhile, which a reconnected
  socket then does not find and no flush will save. The read cache compares a
  version at the same place.
* `request_truncated`, `AnsweredInFull`. With the id of the last answer only the
  last turn of the user is sent: the output of a tool after it, a second message
  of the user, or turns whose streamed answers left no id, are lost.

Other differences met while modelling, which are not runs; where a property
excepts one, the exception is named in its definition.

* documentation.md:828-833 describes the stateless rewriting of the next
  continuation, which the code skips while ServerStateEnabled is set;
  savings-ledger.md:93 records that as a decision.
* hosts_patch.go:19 says that lines outside the fence are never touched;
  `Reverse` (hosts_patch.go:99-104) restores the backup, which is the oldest
  one, over later edits ("edited" in `LinesKeptUnlessEdited`).
* The daemon's exit leaves the redirection in place (phase_g_wiring.go:45-49,
  install.go:208-211), which a headless exit does not ("kept" in
  `RedirectIsOwned`).
* A comment says that the archive's statistics are saved atomically
  (contentarchive.go:382); they go through `os.WriteFile`, and a reader in
  between ends its Put (`StatsUnreadable`).
* documentation.md:716-719 says that a write-behind flush cannot overwrite a
  newer save: in memory the version restarts after `Clear`, and on disk one
  flush may overtake another ("overtaken").
* A comment says that active sessions are safe from pruning because their files
  are never the oldest (store.go:116-118). The times are read before anything is
  removed, so a session that resumes in between loses its file; and one whose
  entry in memory is clean does not write it again ("pruned").
* documentation.md:754-758 says that content whose archive is missing is sent
  unchanged: an "unchanged" read does not look into the archive, and may refer
  to an evicted text.
* The read hook saves asynchronously and exits without a flush, so what it
  learnt is often lost ("cut"); it also leaves the URI of an older text beside a
  new hash ("mixed").
* `pipeBytes` says that it returns when both directions have terminated
  (connect.go:340) and returns after one; `bridge` says "until either side
  closes" (wsmitm_dispatcher.go:628) and waits for both.
* `MaxConcurrent` is called a cap on handshakes that 0 disables
  (listener.go:82): a slot is held until the connection's end, and 0 becomes 256
  (listener.go:137).
* The engine's counters overlap: a connection whose handler returned an error is
  among the errors and among the served ones (listener.go:257-261).
* The deadline that connect.go:227 sets for reading a request still holds when
  the request has become a WebSocket, and ends its client's direction.
* What has arrived behind the head of a direct upgrade, or behind a CONNECT, is
  dropped with the reader that `Hijack` returns (proxy.go:1235, connect.go:147);
  clients that wait for the answer have sent nothing.
* A second caller of `Shutdown` gets nil, whatever the first one got.
* documentation.md:1949-1953 says that tools brought back count as active: a
  tool that is mentioned and that the client lists itself is not brought back
  (handler.go:562), does not count, and is dropped again.
* documentation.md:1963-1965 says that the cooldown after a miss warms the
  just-pruned definitions as active. `MarkMiss` (toolprune.go:150) warms those
  the tracker still remembers: when a request names a tool between its pruning
  by another and the refusal, it takes the definition out (handler.go:563), and
  the missed tool stays idle and is pruned again once the one full schema is
  spent. Hence the exception in `MissedToolsStay`.
* documentation.md:1780-1782 says that after a refused id the user never sees a
  failure: that last retry sends the hints that were just refused, and the
  pruned tools, once more (handler.go:930; the exception in `RetriedInSecret`).
* A client's own `previous_response_id` is overridden by the proxy's, and the
  id is stored after the answer was written, also when the client has gone.
* The dispatcher's counters are called monotonic; a snapshot taken between a
  socket's removal and the addition of its counts shows less than the one
  before.

### 3.2 Fairness

* Session: a pump at the top of its loop goes on, a read of a closed connection
  returns, `Serve` and its caller go on. These are steps of running goroutines
  that wait for nothing. Nobody has to send, leave or cancel.
* Writer: whoever can take a lock or write does so, and the upstream reads.
  `sync.Mutex` hands over to a waiter after a millisecond, and each writer has
  finitely many messages.
* Recovery: the pump handles frames that arrived, the server answers what it
  received. Without the second nothing would be promised.
* Relay: handlers run, deadlines pass, a server answers a whole head and ends
  when it is told that the client has. Front end: loops run, deadlines pass; no
  client has to say anything. Nothing in these and in the writers happens twice,
  so one fairness condition for all their steps is one for each.
* Cache: the watcher's loop reads events and timers fire. Writes are finite:
  each one restarts the timer, so endless writes at short intervals postpone
  invalidation for ever, in the model as in the code. Requests, janitor, pruning
  and clock have no fairness, so `StaleEntriesLeave` does not lean on expiry.
* Shutdown: the first caller's deadline passes (every caller in the code sets
  one, or is given the drain timeout) and callers run on. Requests, sessions,
  worker and flush have none, they may hang. The log's mutex, which a flush
  holds during one write of a line, is not modelled.
* The other components have safety properties only: what they promise to happen
  eventually they promise to a person who runs the command again.

## 4. What is proved

`WsSession_proofs` proves, for every `MaxFrags`, `Window`, `Shares` and set of
scenarios, any number of messages included, from `SessionAssumption` alone:

* `TypeCorrect`: `Spec => []TypeOK`. `TypeOK` is inductive as it stands. It
  contains more than types: no dictionary outgrows its window, on any of the
  paths that trim it. The proof has a lemma per operator (`ReceivedType`,
  `WriteType`, `InflatedType`, ...) and a step per action.
* `InspectorAlwaysTrusted`: `Spec => []InspectorTrusted`, from
  `InspectorStaysInSync` and `BuffersHoldAllOrNone`, a part each. Neither is inductive
  alone: that the dictionaries agree after a message completes needs all of its
  frames to have been buffered, and that it is buffered to the end needs the
  direction to be in sync when the message inflates. The inductive invariant is
  their conjunction, stated per direction (`InspectorInv`); `InspectorInvEquiv`
  shows they are the same.
* `DeliveredExactlyOnce`: `Spec => []ExactlyOnceInOrder`. The three properties
  that follow need to know what a step delivers, on every path of a pump: it
  stops, or buffers, or sends the message raw, or sends it anew, or takes it out
  (`Effect`, a lemma per path that establishes it). The invariant (`OnceAt`) says
  which message a direction is in, that everything before it was received or
  consumed, and that nothing after it was.
* `ConsumingForcesReencoding`: `Spec => []ConsumedForcesReencode`. Once a
  compressed message was consumed the direction's `forceReencode` is set, and it
  stays (`ForceInv`).
* `DecodableWithoutRawAfterRewrite`: `Spec =>
  []DecodableUnlessRawAfterRewrite`. As long as no message went out byte-equal
  after a rewritten or a consumed one, the deflate dictionary is the target's,
  and until the first such message both are the source's (`DictInv`).
* `NoTakeoverAlwaysDecodes`: `Spec => []NoTakeoverDecodable`, from an invariant
  that without context takeover all dictionaries of the direction are empty
  (`NoTakeoverInv`), so every message refers back to nothing.
* `BlameAlwaysReal`: `Spec => []BlameIsReal`. Its invariant (`BlameInv`) says of
  every result in `errs`, not only of the first, that the peer it speaks of has
  left; one lemma per path of a pump (`WriteReports`, `FinishReports`,
  `PumpReports`).
* `BlockedAlwaysEndsMutation`: `Spec => BlockedEndsMutation`, an action property.
  A blocked direction holds no frames (`HoldsAllOrNone`), so no step of it
  reaches `finishCompressedMessage`, and every other path that delivers a
  compressed message delivers it raw.

`Upstream_proofs`, for every crew of writers, every message length and capacity,
and for every length of head and of stream:

* `WriterTypeCorrect`; `WritersImplementStream`: the writers implement
  `FrameStream`. The invariant (`StreamInv`) says that a queue is the rest of a
  message, in order (`Rest`), that all messages but the ones being written have
  arrived (`ArrivedButLast`), and that the upstream's parser is in the middle of
  a frame or message if and only if a writer is (`ParserFollows`), as long as
  the stream is whole. A `Write` then maps to `Deliver`, to `Break` or to a
  stutter.
* `BreaksNeedOverlap`: `WriterSpec => BreaksOnlyOnOverlap`, an action property: a
  chunk that comes when nobody else is within a frame or a message is one the
  parser expects (`AloneIsInPlace`).
* `RelayTypeCorrect`; `RelayAlwaysFaithful`: `RelaySpec => []RelayFaithful`. Of
  what was read from a peer, the other has a first part, the copying goroutine's
  hand the next and a buffer the rest (`Carried`), on every way in and through
  every change of handler; `Run` and its three lemmas (a run read, joined, split)
  take the place of reasoning about sequences.

`WssRecovery_proofs`, for every number of turns, chains, restarts, reconnects and
stray errors:

* `RecoveryTypeCorrect`; `OneRetryAtMost`: `RecoverySpec => []SentAtMostTwice`,
  since a candidate that is not used up was sent once (`OneRetry`).
* `ConversationIsKept`, from `ChainsStayExact` and `ServerSeesConversation`, which
  have conditions: the first holds while `Orderly` does, the second while
  `ChainsSurvive` does, too. Beyond them they are false, and the run
  `recovery_truncated` shows one way. Three invariants build on each other. Without stray errors the session is in one
  place of a request's life (`Pipeline`), whose chain the store does not have yet
  (`Unexported`), and the histories of all responses
  begin with an input and name each response once (`OneAtATime`). Hence every
  chain that a map, a candidate or the pending state holds is a tail of the
  history of the response it stands for (`Tails`), and a tail that begins where
  only a history begins is the whole (`TailFromTheStart`). As long as chains
  survive, the chain of the client's last response is whole, and so is the body
  that is sent or retried (`ViewKept`). The maps evict by position; `PutMap` is
  the lemma about what stays.

`Storage_proofs`, for every set of keys and blocks, all limits and any number of
accidents:

* `ToolUseTypeCorrect`; `ToolUseKeepsInOrder`: `ToolUseSpec => []KeptInOrder`.
  Goroutines are counted, so a merge finds a free one to schedule its flush on
  (`Counted`); what a call or a flush took out and nobody wrote since is what
  memory holds (`FreshFlushes`, `FreshCalls`); keys are owed that memory does
  not hold only after a restart (`Keeping`); a flush that is alone finds
  the file as it left it (`Saving`).
* `ArchiveTypeCorrect`; `ArchiveStaysHonest`: `ArchiveSpec => []ArchiveHonest`. Per
  block, and until two calls met on it: nobody removes while another archives,
  a payload is there before its metadata (`PayloadFirst`), and a URI that was
  handed out, or is about to be, has its files unless it was evicted
  (`MetaKept`). For the limit: what is in excess of it is what some call has
  still to sweep for (`Due`), or what a Put left that stopped (`Within`).
* `ChunkTypeCorrect`; `ReferencesAlwaysHonest`: `ChunkSpec =>
  []ReferencesHonest`, for every set of outputs and any number of sessions and
  goroutines. The invariant (`ChunkInv`) says that whatever the store knows was
  carried by an output and whatever an Encode at work may refer to by two
  (`CarriedBefore`), that no two chunks have one `seq` and no two sessions were
  last seen together, so that pruning ends at the limit (`StoreAt`,
  `LatestFew`), and how a session's account stands. Below 100 percent what the
  store does not remember of an earlier life of the session was within that
  life's budget (`EarlierInBudget`); at 100 percent nothing is checked when the
  budget is spent, and it is the bytes that the Encodes at work may still
  replace that keep it (`Reserved`). That the greedy choice exists and stays
  within its limit (`GreedyEnds`, `SelectedFacts`) is shown by the fewest
  candidates that can be left, and by the last one that was taken.

`Traffic_proofs`, for every set of files, keys, requests and callers, and all
limits:

* `InvalidationTypeCorrect`; `CacheStaysConsistent`: `InvalidationSpec =>
  []CacheConsistent`, from lemmas on the order of use (`KeysButFacts`,
  `KeysAppended`) and one per operation of the cache (`StoredFacts`,
  `LookedFacts`, ...).
* `StaleAlwaysPending`: `InvalidationSpec => []StaleIsPending`. The invariant
  (`InvalidationInv`) dates the watches. As long as entries expire before watches
  do, each directory of a live entry's files is tracked, with a watch refreshed
  no earlier than the entry is old, and a file of it written since has an event
  or a timer pending (`EntryGuarded`). A request between its first watch and its
  store refreshes them at that moment, so the entry it stores begins that way
  (`RequestGuarded`). Outside replaced directories a tracked directory is armed.
* `ShutdownTypeCorrect`; `EventsAlwaysKept`: `ShutdownSpec => []EventsKept`.
  Every accepted event is in one place, the queue, the record or the hands of
  one sender or of the worker (`Places`), and who has it in hand is about to
  record it (`Holding`), so the counts add up (`PlacesAddUp`, by the cardinality
  of disjoint sets and a bijection from hands to events). Who has made room and
  met no rival still finds it (`Room`). The first caller goes through its stages
  alone (`Stages`); once the server is drained only sessions touch the queue, so
  that what the worker leaves there is none of the requests' (`Kept`).

`Process_proofs`. The hosts file, for every set of lines and all bounds:

* `HostsTypeCorrect`; `RedirectAlwaysOwned`: `Spec => []RedirectIsOwned`, and
  `LinesAlwaysKept`: `Spec => []LinesKeptUnlessEdited`. The invariant behind
  them says what a process has at each of its steps (`GateFits`), that a backup
  never holds a block (`FencedBackup`) and that the copies in hand and on disk
  are current as long as nobody edited (`CopiesCurrent`): `Reverse` writes the
  backup back, so what it restores is only right if the backup is.

The health monitor, for every window and number of outcomes:

* `HealthTypeCorrect`; `StatusAlwaysTells`: the status is that of the latest
  outcomes. The invariant (`RingHoldsLatest`) places each of the last `Window`
  outcomes at its slot, modulo the window, which is arithmetic that Z3 is given
  in small lemmas.

Recertification, for every set of processes and all limits:

* `RecertTypeCorrect`; `RecertAlwaysHonest`, from `OneRecertAtATime` and
  `RunningAlwaysHasRunner`. The
  invariant ties the name in the lock to who created it (`SignedByCreator`),
  says that a lock of a dead process has no living owner (`DeadLockUnowned`),
  that what was found stale still is unless the named takeover happened
  (`SeenIsStale`), and that whoever works has created a lock
  (`HoldersCreated`).

Install, rollback and uninstall, for every set of certificates and any number of
commands, rotations and accidents:

* `InstallTypeCorrect`; `HostStaysReversible`: `InstallSpec =>
  []InstallReversible`. Each of its four parts needs the others at the steps
  before. The inductive invariant (`InstallInv`) says what a command has at the
  step of the plan it is at, the fingerprint it will want to distrust included
  (`CommandFits`, `Fingerprinted`); that proxy and command are on the CA files at
  the same time only in an overlap (`Apart`); what stands in the files halfway
  through a replacement (`FilesFit`); that until a named exit nothing is trusted
  but the certificate on disk, and nothing while that one is replaced
  (`TrustFits`); and that what an undisturbed command has walked back over is
  undone, and stays so until it ends (`UndoneSoFar`).

The dispatcher, for every set of sockets and all sizes of the ring and numbers of
frames:

* `DispatcherTypeCorrect`; `SnapshotsAlwaysHonest`: `DispatcherSpec =>
  []SnapshotHonest`. The invariant (`DispatcherInv`) says that the total is the
  sum of what the sockets that are over have folded in (`CountsFit`), that the
  ring holds each of them once and as many as it may (`Ring`), and what is known
  of a snapshot at each of its stages and ever after (`ViewFits`). `Sum` is the
  cardinality of a union of disjoint sets and no fold, so that `SumOfTwo`,
  `SumMonotone` and `SumOfOne` follow from the library's facts about finite sets
  and need no induction.

The hooks' turn state, for every set of hooks and items and all limits:

* `HookTypeCorrect`; `TurnStateAlwaysHonest`, from `UpdatesAlwaysKept` and
  `TurnsAlwaysHonest`. The invariant
  (`HookInv`) holds without exception that every state in a file, in hand or due
  is well ordered, and, as long as no lock was taken from a living hook, that
  the file is what is due, that one hook is past the lock (`Exclusive`), that
  what it is about to save is the due state with its change (`SavesDue`), and
  that markers are backed (`ListsBacked`).

`RequestPath_proofs`, for every set of worlds, goroutines, conversations and tools,
any number of requests and faults, and all limits:

* `RequestPathTypeCorrect`. The invariant (`TypesFit`) adds to the types that the
  two stores and their orders agree (`TrackerFits`, `AnchorFits`), that ids are
  numbers the upstream has given out (`UpstreamFits`, `Numbered`), and what the
  tools that were missed need (`Warmed`). `Moves` says of every step what it
  makes of the one request it touches and of the stores; the three proofs below
  are about moves and no longer about actions.
* `RefusalsStaySecret`: `RequestPathSpec => []RetriedInSecret`. The invariant
  (`RetriesFit`) ties what was sent last to the rewrites that are still in it at
  each stage (`OwnBody`, `SentBody`), a refusal to what of the body it can be
  about (`Reasons`), and how often the upstream has accepted to whether an answer
  was lost (`TakenOnce`).
* `MissedToolsAreKept`: `RequestPathSpec => MissedToolsStay`, an action property.
  A missed tool counts as used in a turn that is no earlier than the miss, as
  long as its session is tracked (`Warmed`), and a request drops a tool only by
  judging it with that in view (`DropsByJudging`).
* `AnswersStayWhole`: `RequestPathSpec => []QuestionsAnsweredInFull`. For a
  conversation of single questions (`OrderlyIn`) one request is under way, each
  of the bodies it may send stands for the whole history (`Question`), what the
  upstream stores under an answer's id is the history up to it (`EndsKnown`),
  and the id the proxy keeps is that of the last answer or none (`AnchorLast`).

`ReadCache_proofs`, for every set of texts and evaluators and any number of reads
and upsets:

* `ReadCacheTypeCorrect`; `ReadCacheIsHonest`: `ReadCacheSpec =>
  []ReadCacheHonest`. The part about what is kept back holds through every
  accident: whatever a memory, the disk, a flush on its way or an evaluation
  knows of the file was given, or is being given, to the model, and what it has
  a URI of was archived (`AllGood`), so that a decision made from it, and what is
  said later, is fair (`DecisionsAreFair`, `AllFair`). The part about saves is
  relative to the accidents. Without those that touch the memory or the disk,
  pruning included (`Calm`), at most one flush is under way (`Single`), what it writes is the
  daemon's last save or an older one that is dirty again (`Grounded`), and
  memory and a clean file hold the last save (`Remembered`); if none but `mixed`
  happened (`Quiet`), a dirty entry has a sleeper (`Scheduled`) and the disk is
  filled in the end (`Rested`). `ReadCacheAssumption` says that `NoEntry`, the
  missing key of the map, is no entry.

Proving found what TLC had not. `KeptInOrder` was true only because one accident
was allowed: pruning a file whose keys memory does not hold, and a failed flush
after a `Clear`, each lose keys without a name for it, and both have one now. The
ids of other sessions' responses could have met the numbers of this one's.
`SelectSeq` is a recursive definition the provers cannot see through, so a
payload is taken out of `order`, and a key out of the cache's `keys`, by its
position. `MissedToolsStay` was false: with three requests TLC could not see it,
with four it can, so the bound is larger now, the property says what the code
keeps, and what documentation.md promises beyond that is listed in section 3.1.

Checked by TLC only: the type invariants of the MC modules, which are
conjunctions of those proved here, and liveness (`Unwinds`, `WritesFinish`,
`EveryRequestAnswered`, `RelayEnds`, `FrontEndGoesOn`, `StaleEntriesLeave`,
`ShutdownReturns`), for the provers do not handle fairness and ENABLED. The library's induction theorems take an operator, which no
installed prover can instantiate, and what a fold computes for every sequence is
not proved: where an invariant only needs that the fold is applied, the proof
treats it as one of its values. Where induction could not be avoided, as for the
last of a sequence's items of a kind, `LeastNatural` (`RequestPath_proofs`) takes
its place: a set of numbers that is not empty has a least one, from the library's
theorem that `<` is well founded. For the chunk store it is `FirstOfSome`
(`Storage_proofs`): a finite set has a first element in any order.

## 5. What is not modelled, and the plan

Not planned: the text filters and compressors (pure functions of free text, the
larger part of the repository by far), the scripts that measure savings, the
certificate cache and the TLS library, configuration, command line, TUI and
installers' screens (one process, input and output), the arithmetic of the
analytics (counters nothing depends on), and the server mirror, which only
shadows what others decide.

Not modelled yet, in the order in which it would be worth it:

1. Output-stop counters and compaction signals: bounded maps with a file behind
   them, of the kind of the tool-use cache.
2. The session logs: append, rotation and reload.
3. The desktop shim: two pipes and a child that may end first.
4. The daemon's PID file and the launchd job between competing `start`s.
5. The remaining client shapes of `WssRecovery`, and the keys `RequestPath`
   leaves out.
