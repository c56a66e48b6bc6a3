# mdkb: TLA+ models, model checking and proofs

mdkb is a local knowledge base: a Rust program that indexes a project's documents, code,
sessions and memory into one SQLite store, `.mdkb/index.sqlite`, and serves it over MCP, from a
daemon that hooks and commands reach over a Unix socket, and from one-shot commands that open the
same store in process. This directory models the parts of it that are concurrent or fail, checks
them with TLC on small instances, and proves the properties that matter most with TLAPS.

Paths below are relative to the repository's root. In `PROJECT.json` the same files carry the
prefix `src/`, the directory the repository is unpacked in.

- `StoreHeal.tla` (checked through `MCStoreHeal.tla`, proved in `StoreHealProofs.tla`): opening,
  writing, verifying and quarantining one store from several threads of several processes.
- `DeferredWrites.tla` (`MCDeferredWrites.tla`, `DeferredWritesProofs.tla`): the write-behind
  queue of one context slot, its drain, its settlement and the startup reindex it meets.
- `CliMutate.tla` (`MCCliMutate.tla`, `CliMutateProofs.tla`): a mutation from a command or a hook to
  the daemon over its socket, the daemon's start, drain and succession, and the in-process fallback.
  It implements `MutationOutcome.tla`, the promise made to the caller.
- `Quarantine.tla` (`MCQuarantine.tla`, `QuarantineProofs.tla`): the files of one store through
  corruption: renames, the fresh database, salvage, report, sweep, with crashes in between.
- `Watcher.tla` (`MCWatcher.tla`, `WatcherProofs.tla`): from a change on disk to the indexes, over a
  bounded channel, flags, pending requests, failing passes and retries. It implements
  `ReindexPromise.tla`: what is stale stays due, except what a full document pass takes for unchanged.
- `MemorySync.tla` (`MCMemorySync.tla`, `MemorySyncProofs.tla`): the memory entries and their files,
  reconciled in both directions.
- `Registry.tla` (`MCRegistry.tla`, `RegistryProofs.tla`): the daemon's open repositories: opening,
  eviction, config reload, watchers.
- `CodeIndex.tla` (`MCCodeIndex.tla`, `CodeIndexProofs.tla`): the rows of `code.sqlite` beside the
  vectors of `vectors.bin`, through incremental and full mutations that fail half-way while people edit.

How to run, in this directory:

    tlc -workers 2 -config heal_two_processes.cfg MCStoreHeal
    tlapm StoreHealProofs.tla

## 1. Inventory

What each part keeps, what it does, whom it meets, what is hard about it, and what would make it
correct. "Modelled" names the module; the rest is covered by section 6.

### The store and who may write it

| Part | State | Operations | Hard behaviour | Correct when |
|---|---|---|---|---|
| Store locks, `src/store/mutation_lock.rs` | four lock files beside the database: `.writer.lock`, `.mutation.lock`, `.live.lock`, and the daemon's own | `acquire_writer`, `acquire_direct_cli`, `acquire`, `acquire_live_shared`, `try_acquire_live_exclusive` | `flock` between processes, released by the kernel when a holder dies; taken in a fixed order | one writer of any process; no rename under a connection; nobody waits in a circle. **StoreHeal** |
| Autoheal, `src/store/heal.rs` | the `.integrity-ok` marker (its mtime is the verdict's time), `PROCESS_VERIFIED`, the `INVALIDATIONS` counter, quarantined copies | `ensure_sound_locked`, `ensure_sound_at_locked`, `invalidate_marker`, `keep_process_probe_across`, `verify_and_mark_unadmitted`, `quarantine`, `salvage_memory`, `sweep` | a probe without any lock races writers, renames and other processes; a crash between two renames | an unfinished write is scanned, trust is bounded, a quarantine never renames under a connection, nothing salvageable is lost. **StoreHeal**; renames, salvage and sweep: **Quarantine** |
| Context, `src/core/mod.rs` | `Context`: the connection, the live lock, a generation | `open_impl`, `run_guarded_write`, `run_admitted_write`, `run_guarded_read`, `run_mutation_verify_after_release`, `close_over_corruption(_of)` | the verdict of a probe arrives after the slot was closed and reopened | only the context that wrote is closed; every operation returns. **StoreHeal**, **Quarantine** (the steps of an open) |
| Context slot, `src/mcp/dispatch.rs` | `Mutex<Option<Context>>`, the map of write-behind queues | `SlotOpener::open`, `run_handle_memory_mutation`, `admit_slot_writer`, `write_behind_slot`, `settle_deferred_writes`, `settle_prompt_writes` | detached tasks, cancellation at await points, a blocking closure that outlives its task, a handle published late | one drain, in order, no row left behind. **StoreHeal**, **DeferredWrites** |
| MCP server, `src/mcp/server.rs` | `doc_reindex_active`, the context taken out for a reindex, the watcher's pending request | `init_and_take_for_reindex`, the startup reindex, the file watcher's loop | the slot is empty while the reindex works | the context comes back; changes seen meanwhile are indexed. Reindex: **DeferredWrites**; watcher: **Watcher** |

### The daemon and its clients

| Part | State | Operations | Hard behaviour | Correct when |
|---|---|---|---|---|
| File watcher, `src/watcher/mod.rs`, `src/mcp/server.rs` | a bounded channel, the missed-events flag, one `FileUpdateRequest`, pending code paths, `RECOVERY_INTERVAL` | `deliver_change`, `run_file_watcher_inner`, `flush_doc_update`, `flush_code_batch`, `full_rebuild_from_heal` | a full channel, a failed flush put back over a newer request | every change is eventually covered by a batch or a rescan, and what a pass leaves is accounted for. **Watcher** |
| Repo registry, `src/daemon/registry.rs` | handles by root, an open gate, an LRU bound, watchers | `get_or_open`, `open_handle`, `evict_lru`, `spawn_watcher`, reload | two openers of one root, an eviction while a watcher starts | one store per root, the bound, every handle watched, no edit of its config missed. **Registry** |
| Repo map, scopes, listings, `src/daemon/{repo_map,scope,repo_listing,config}.rs` | one JSON file of repositories | add, remove, resolve a path | overlapping roots | the longest root wins |
| Singleton and spawn, `src/daemon/{singleton,spawn}.rs` | the advisory lock, the sockets | acquire, connect with back-off, spawn | two daemons start at once; a retiring daemon and its successor | one daemon serves; a client connects or reports that nothing started. **CliMutate** |
| IPC and work drain, `src/daemon/{ipc_server,hook_runtime}.rs` | connections, permits, `WorkGate` | accept, read a frame, enter the gate, dispatch, reply, quiesce | shutdown while requests are being read | a dispatched request is finished or its client told that it may have run. **CliMutate** |
| Hook client, `src/cli/hook_client.rs`, `src/core/{routing,cli_mutation}.rs` | `MutationFailure`: `Unstarted` or `Undetermined` | `call_connected`, `call_cli_mutation`, the in-process fallback | a timeout races a late answer | a mutation runs at most once. **CliMutate** |

### Knowledge

| Part | State | Operations | Hard behaviour | Correct when |
|---|---|---|---|---|
| Memory store, `src/{store,core}/memory.rs` | entries with revisions | create, update, archive, link | a stale revision | a version that a person wrote is kept when it is replaced. **MemorySync** |
| Memory sync and projection, `src/core/memory_sync.rs`, `src/store/memory_file.rs` | entries, their files, the base both came from | three-way reconciliation, archive circuit breaker | both sides changed; a directory that vanished | no side's change is silently lost; what was removed stays removed. **MemorySync** |
| Audit, graph, priors, recall ledger, sessions | rows | reports and promotions over one snapshot | thresholds | a promotion needs its evidence |
| Code index, `src/code/{indexing,storage}/**`, `src/code/semantic.rs` | `code.sqlite`: files with hash and mtime, symbols by rowid; `vectors.bin`, keyed by those rowids | `update`, `reindex_files`, `index_scope`, `reindex_scope` | two stores without a common transaction, rowids handed out again, a pass interrupted half-way, edits between diff, read and commit | a row has the symbols of its hash, a symbol its own vector, and a pass that ends well has caught up. **CodeIndex** |
| Document indexing, `src/core/{indexing,refresh}.rs` | documents, chunks | incremental passes, deletion of what disappeared | a pass interrupted half-way | a second pass converges to the tree; when it runs: **Watcher** |
| Search, ranking, graphs, duplication | none of their own | queries | floating point scores | stated by unit tests |
| Schema, evolution, statistics, metrics | the schema version, counters | a ladder of migrations | a crash between two steps | a rerun completes it |
| CLI, setup, doctor, journal, evaluation, models | files and output | wiring | none | out of scope |

How they interact: a hook or a command asks the daemon over its socket, and falls back to the
in-process path only when the daemon provably did not start the work; the daemon finds the handle
of the repository in its registry; the handle owns the context slot, the write-behind queue and the
watcher; each of them reaches the store through the guarded operations of `core/mod.rs`; and those
share the files beside the database with every other process on the machine.

## 2. Plan

1. **StoreHeal** (done): the store is what everything else rests on, and its protocol is the one
   that spans processes and crashes.
2. **DeferredWrites** (done): the only concurrent data structure in the path of every hook.
3. **CliMutate** (done): delivery, refusal, drain, succession and fallback, as a refinement of
   **MutationOutcome**, which says only who ran a mutation and what its caller may conclude.
4. **Quarantine** (done): splits the one-step rename and open of StoreHeal into the renames of the
   database and of its WAL, the fresh database, salvage, report and sweep, with a crash between any
   two. The theorem first planned, that no database opens beside the WAL of another generation, is
   false of the code (`quarantine_orphan_wal`); what holds, and is proved, is that no row is lost by it.
5. **Watcher** (done): the bounded channel, missed events, pending requests, retries, the recovery
   interval, as a refinement of **ReindexPromise**.
6. **Registry** (done): the gate, capacity, eviction, reload, the watchers of handles. It is not
   composed with Watcher: they meet only where a watcher starts or is aborted, which Registry has.
7. **MemorySync** (done): the decision table with the steps that carry it out, the circuit breaker,
   and the operations that retire an entry.
8. **CodeIndex** (done): what a code pass that Watcher runs does to the two stores. It is not composed
   with Watcher, which needs of it only that a pass can fail.
9. Left: the recall ledger and the promotion of priors (rules over rows), the repair of a quarantined
   `code.sqlite`, the repo map.

Every module writes recursion as functions or folds, names its assumptions and keeps one action per
operation, so that it can be proved about as well as checked.

## 3. How the models correspond to the code

### StoreHeal

An *actor* is a thread of control: a daemon task or a one-shot command. Actors of one process share
its context slots. One action is what the code does between two points at which another thread or
process can act: a lock acquisition, a file-system operation, an SQLite call.

| TLA+ | code |
|---|---|
| `path`, `nextFile`, `torn` | the inode at `db_path`, the inodes ever created there, the files `quick_check` would report |
| `mtime`, `now` | the latest mtime of the database and its WAL (`write_stamp`), the file system's clock |
| `marker`, `verdict` | `.integrity-ok` and `PROCESS_VERIFIED` |
| `disturbed` | the verifying actors whose `(write_stamp, invalidations)` no longer equals their first reading. A write may leave both mtime and size as they were, within one tick: then it does not disturb |
| `ctx`, `opens` | the `Option<Context>` of each slot, with `Context::generation` |
| `slotLock`, `writer`, `mutation` | the slot's mutex, `.writer.lock`, `.mutation.lock`; the live lock is held exactly by the open contexts (`LiveHolders`) |
| `pc`, `job`, `loc`, `held` | where the operation stands, which it is, its local variables, the verdict `keep_process_probe_across` puts back |
| `probed`, `broken` | history, read by no action's guard |

Operations: `TakeSlot`, `Admit`, `Lock` are the admissions; `SkipByVerdict` to `OpenFails` are
`Context::open` under its locks; `Announce` to `MutationWrite` are the guarded writes; `VerifySkips`
to `MutationReturns` the lock-free verification and what its verdict does to the slot; `ReadCorrupt`
and `DropContext` the other ways a context goes; `Crash`, `Damage` and `Tick` the environment.

Abstractions, each on the side of more behaviour unless said otherwise: the bytes of a file are
"torn or not"; `quick_check` is exact on its snapshot, or gives no verdict; the rename of the
database and of its sidecars is one step, and so are the announcement of a connection, its opening
and the schema set-up (the crashes in between are the subject of Quarantine); an open that fails leaves no file behind; a
mutation closure that itself takes the mutation lock is not told apart from one that does not;
reads are present only where they change state, that is when they report corruption.

### DeferredWrites

The steps are the critical sections of the queue map's mutex and the await points of the tasks. The
rows are numbered as they are queued, so that the queue is the interval `taken+1..rows`.

| TLA+ | code |
|---|---|
| `present`, `generation`, `waiting` | the slot's entry of the map: its reservation, its published `JoinHandle` |
| `stage`, `drains` | the drain tasks, each named by its generation |
| `batch`, `closure` | the blocking closure that owns the slot's guard and writes a batch |
| `slot`, `open`, `reindex` | the slot's guard, whether it holds a context, `doc_reindex_active` |
| `wpc`, `wgen` | a caller of `write_behind_slot` between reservation, spawn and publication |
| `spc`, `handle` | a caller of `settle_deferred_writes`, with the handle it took |
| `asked` | history |

`Enqueue`, `Spawn`, `SpawnRefused`, `Publish` are `write_behind_slot`; `WaitedOut` to `Leave` the
drain; `BatchOpens` to `RowFindsSlotEmpty` the closure; the `Settle` actions and `Cancel` the two
settlements; `SlotOpened` to `ReindexEnds` what other requests and the startup reindex do to the
slot. `DropReceipt` is `DeferredDrain::drop`, part of each of the steps that end a drain.
A task is cancelled only at an await point, as tokio does it; the guard it moved into the blocking
closure stays there. The admission poll may give up (the lock file does not open) or succeed; how
long the writer lock is held by others is StoreHeal's subject. `SlotOpened` and `SlotClosed` are all that the
queue sees of StoreHeal's opens and closes.

### CliMutate

A daemon is a process, numbered in the order of its spawning; a connection is named by its client.
The steps are the system calls and the await points of either side.

| TLA+ | code |
|---|---|
| `dpc` | where `run_daemon` and `serve` stand, from the spawn to the end of the process |
| `singleton` | who holds the lock of `daemon.pid` |
| `sock` | whose listener the path `daemon-hook.sock` names; a dead daemon's path stays until it is replaced |
| `gate` | `WorkGate`: open, a drain waiting in it (which stops new readers, tokio's lock prefers writers), or passed by the drain |
| `handler`, `peer` | the stage of each connection in the daemon: in the backlog, accepted without a permit, reading, before the gate, dispatched, running, answering, closed |
| `frame`, `answer` | what is on the wire: nothing, part of a request, a whole one, one that was read, an answer |
| `cpc`, `told` | where the client stands, and the result of `call_cli_mutation`: `Ok`, `Undetermined`, `Unstarted` |
| `ran` | who ran the mutation |
| `late` | history: the requests that entered a gate the drain had already passed |

`DaemonFound` to `NoDaemon` are `ensure_daemon_running`; `Connect` to `AnswerLost` are
`call_connected`, with the delivery boundary between `SendPart` and `Delivered`; `RunDirectly` is what `main::run`
and `run_hook` do with `Unstarted`. `Accept` and `TakePermit` are the accept loop, `ReadFrame` to
`ReplyFails` `handle_hook_conn`; `Acquire` to `RuntimeDrops` the life of `run_daemon`; `SecondSignal`
and `Crash` its other ends. `MAX_HOOK_CONNECTIONS` is the constant `Permits`.

Abstractions: the probe connection of `try_connect` is dropped at once and not kept; each client
sends one request (a handler that answered waits for a frame that never comes); what a mutation does
to the store, and the locks it takes there, are StoreHeal's subject, so that here it starts, ends well
or badly, or is refused. That a refusal wrote nothing is the contract of
`ErrorKind::is_validation_refusal`; its two kinds are raised before any store access. A blocking
write whose daemon ends may still finish, unanswered: `ran` is set when it starts. The MCP socket is
left out.

### Quarantine

A database is known by its generation, and its WAL with it; a file is at the path, a copy, or gone.

| TLA+ | code |
|---|---|
| `mainAt`, `walAt` | the files at `db_path` and beside it, and the `.corrupt-*` copies |
| `main`, `wal` | the rows of the salvaged tables in each file |
| `holders` | the processes with a context, that is with the live lock shared |
| `opener`, `pc`, `healing` | `open_impl` under the writer and mutation locks, and the file it put aside |
| `table`, `whole` | the loop of `salvage_memory` and `Salvage::complete` |
| `report`, `expired` | the report beside a copy, its age against `QUARANTINE_RETENTION` |
| `committed`, `torn`, `tail` | history |

`BeginOpen` and `Probe` are `ensure_sound_locked`; `NotRenamed` to `RenameWalFails` `quarantine`;
`Connect`, `OpenFails`, `SetUp` the rest of `open_impl`; `SalvageTable` to `Sweep` what follows a
quarantine. `Die` may come between any two. SQLite is external: its last connection checkpoints and
removes the WAL or, if it cannot, leaves it; a WAL beside no database is discarded when the database is
created. Which verdict is trusted is StoreHeal's subject: here a probe may trust, scan or give up.
The `-shm` file holds no rows and is left out.

### Watcher

Of a file and an index only one thing is kept: whether the index holds what the file contains.

| TLA+ | code |
|---|---|
| `stale` | per index (documents, code, memory), the files whose content it does not hold |
| `hidden`, `known` | documents whose file does not look newer than their row (`file_mtime > indexed_at` is false), and documents that have a row |
| `raw`, `dropping` | the debouncer thread: what it has yet to deliver, and the path whose `try_send` failed before `missed_events` is stored |
| `channel`, `missed`, `injected` | the bounded channel, the flag, `reindex_rx` |
| `batch`, `request`, `rescan` | `code_batch`, the two `FileUpdateRequest`s, `needs_rescan` |
| `cooling`, `docsCooling` | `recovery_not_before`, `doc_retry_not_before` |
| `pc`, `recovering` | where the loop stands, and whether this flush is a recovery |
| `healed`, `forsaken` | history: a store was replaced; what a pass that ended, well or not, left with nothing standing for it |

`Reject` to `StoreMissed` are `deliver_change`; `Receive`, `ReceiveInjected`, `ReceiveRebuild` the
branches of the loop's `select!`; `BeginFlush` to `MemoryPhase` a flush; `RebuildDocs` to
`RebuildCode` `full_rebuild_from_heal`; `Inject` and `Heal` what dispatch sends. A pass is one step:
the loop awaits it, and an edit comes before its read or after. Because an edit during a pass over the
same file is thereby ordered, a pass that reads half of an edit is not modelled; the edit's own event
follows it. Elapsed time is a Boolean: a deadline is in the future or not.

Document passes come in two kinds (`DocsRead`). A pass over named files (`handle_watcher_files_unverified`)
forces them: it reads each whatever its time. A full pass (`handle_update_unverified`: an overflow, a
recovery, a policy change, a heal) does not, and `index_single_file` takes a document for unchanged whose
mtime, in whole seconds, is not after its row's `indexed_at`. Every edit of a document that has a row may
therefore leave it `hidden`: a save in the second of the last pass, or a file put back with an older time. A
recovery replaces a pending list by a full request and so loses the forcing of that list. A full pass reads
everything but the hidden documents, ends well, and its request is cleared. A code mutation that ends well may
likewise leave files that it could not read (`CodeRead`).

### MemorySync

Every operation of the store runs under the mutation guard, so one job runs at a time, while people
and git change the files at any moment.

| TLA+ | code |
|---|---|
| `row`, `kept` | `memory_entries` with `projected_hash`, `memory_revisions` |
| `file`, `proven` | `entries/<id>.md`, the deletions git records |
| `job`, `plan`, `seen`, `target`, `phase` | the operation under the guard: its decisions, the files as it read them, the entry it works on |
| `changed` | `needs_memory_sync` of the watcher |
| `dropped`, `retired` | history |

`Decision` is the classification; `StartPass` the pass up to its first action, with the circuit
breaker (`Suspects`, `Cap`); `Project` to `Archive`, `Store`, `WriteFile`, `Record` are
`apply_sync_action`, step by step; `Expire` and `Dispose` the end of `run_document_update`;
`WriteMemory`, `Retire`, `RetireRow`, `Confirm` the operations on one entry; `Flush` and `OwnWrites`
the watcher's flush. Bytes stand for their hash. `superseded` behaves as `active` here. What parsing a
file loses of an entry (its triggers) is the constant `Fresh`.

### Registry

| TLA+ | code |
|---|---|
| `table`, `gate` | `handles`, `open_gate` |
| `of`, `store`, `stamp`, `config`, `watcher` | a handle: its root, its slots (shared with the handle it replaced), `config_identity`, the versions of the file its settings and its priors come from, its watcher task |
| `disk` | `config.toml` of each root: its stamp, and whether it is good, malformed, with removed keys, or absent |
| `pc`, `held`, `chosen` | a request between two statements, the clones it holds |
| `noted`, `read` | the identity it read, and the version it took the settings from |
| `evicted` | history |

`Look`, `Check`, `EnterReload` are `open_handle`; `EnterOpen` with `Evict` is `get_or_open` under the gate;
`Spawn` is `spawn_watcher_for_handle` behind the gate; `DropHandles` the `Drop` that aborts a watcher. A load is
several looks at a file that anybody may write, delete or create between them: `ReadStamp` is
`ConfigIdentity::of`, which sees nothing of an absent file; `TestExists` the `path.exists()` of `load_config`,
which sends the reload of an absent file the way of an open; `Load` the read by `Config::load` (`strict`) or
`load_for_repo` (`lenient`: defaults for a malformed or absent file); `Install` the second read, by
`raw_priors_layer`, and the insertion of the handle. `Config::load` tests for the file once more before it
reads it; the test and the read are one step, since either way an absent file is an error. A stamp stands for
length and mtime, and two versions of a file never share one. Which root is least recently used is left
open, since `last_access` is read while other requests write it. Roots are canonical and on the whitelist;
`repo_map.json` is left out, and so is a watcher that fails to start.

### CodeIndex

One mutation runs at a time, since the facade lives in a slot behind a mutex; people edit at any
moment. A text stands for its hash, a vector for the text it was computed from.

| TLA+ | code |
|---|---|
| `tree`, `stamped` | the files below the root, and those whose mtime in whole seconds is the one the index has |
| `hash`, `symbols` | `code_files` with its content hash, `code_symbols` with its rowid, file and text |
| `vectors` | `vectors.bin`, by symbol id |
| `pc`, `kind`, `scope`, `outcome` | where the mutation stands, which of the four it is, the files asked for, its result |
| `queue`, `half`, `taken`, `dropped`, `failed`, `after` | the loop of `delete_by_rel_paths`: what it still deletes, the file between its two `DELETE`s, the ids to remove from `vectors.bin`, what follows |
| `walk`, `changed`, `fresh`, `reuse`, `staged` | the diff, the branch of `index_scope`, `embeddings_by_text`, what READ handed down the pipeline |
| `excused`, `hollow`, `lost`, `wrong` | history: files edited or unreadable during the run, rows an interrupted delete emptied, a missed removal of vectors, and one that was followed by a missed embedding |

`Update`, `ReindexFiles`, `IndexScope`, `ReindexScope` begin the four; `DeleteSymbols` to
`RemoveVectors` are `delete_by_rel_paths`, used by the prunes and by the replacement of changed files;
`Sweep` is `sweep_orphan_vectors`; `Diff` and `Scan` choose by hash and by mtime; `Read`, `Stat`, `Commit`
are the stages of the pipeline, a batch one transaction; `Embed` writes the whole vector store;
`ClearSymbols` to `ClearVectors` are `reindex_scope`. A rowid is the largest live one plus one, as SQLite
gives without AUTOINCREMENT. Each step that the code lets fail may fail, logged or returned, and `Crash`
may come between any two.

Files are read in one step and stat'ed in one step, where the code pipelines them: nothing relates the
reading of one file to that of another. Text, symbols and skipped texts are constants; symbols with equal
text in one file count once. Imports, relationships and receiver types are in the transaction of the
symbols.

## 4. What each run checks

| Run | Instance | Shows |
|---|---|---|
| `heal_two_processes` | a daemon task and a command, each with its slot, all four operations, both may crash; two files, two opens | `OneGeneration`: no quarantine renames the file under an open context; `SoleWriter`; `NoCircularWait`: nobody waits in a circle for slot, writer and mutation locks |
| `heal_shared_slot` | opens and mutations of two daemon tasks on one slot, two files, crashes; fair | `ClosesOnlyTheDamaged`: a probe's verdict closes only a context over a damaged file, though the slot was closed and reopened meanwhile; `OperationsReturn`; `CorruptionReleasesSlot` |
| `heal_telemetry` | opens and small writes, no lock-free probe, crashes, a clock of four readings and `CHECK_INTERVAL` of two | `UnfinishedWriteIsProbed`, `TrustIsBounded` |
| `deferred_queue` | two writers, three rows, batches of two, three drains, one settlement that may run out of time, one reindex; fair | `TypeOK`, `SoleDrain`, `ReservationsAreLive`, `InOrder`, `RowsLeave`; `SettleObservesQueue`: the only settlement returns with what was queued before it gone from the queue, unless it ran out of time |
| `cli_mutation` | a command and a hook whose repository requires the daemon, two daemons, one permit; fair | `TypeOK`; `RunsAtMostOnce`, the refinement of MutationOutcome; `DrainWaitsForAnswers`; `SocketIsOwn`; `ShutdownEnds` |
| `watcher` | a document that is also source code, a plain document, a memory file, an ignore file, a build output; channels and lists of one place; three edits, injections or heals, each edit of a document looking newer than its row or not; fair | `TypeOK`; `NothingDropsOut`: what an index does not hold is with the debouncer, in a channel, behind a flag or in a request, or was left by the pass that took its request, which before a heal leaves no document but one that does not look newer; `KeepsPromise`, the refinement of ReindexPromise; `DocsCatchUp`: a document the loop knows of is indexed in the end, or a full pass took it for unchanged |
| `quarantine` | two processes, two rows in two tables, three databases | `TypeOK`; `NothingLost`: a row that reached a database and was not torn is in the store or in a copy that is shown |
| `quarantine_orphan_wal` | the same | *violated*: `NoOrphanWal`. A crash between the two renames leaves the WAL of the corrupt database at the path |
| `memory_sync` | two entries, two texts, one with a time to live and a revision history, two edits, two operations; fair | `EditsAreAsked`: with nothing running, an edit the store has not read is among what the watcher collected; `RetiredStays`; `LoserIsKept`: the losing side of a conflict is safe before it is overwritten; `EditsAreRead` |
| `memory_unreadable_archived` | the same | *violated*: `UnreadableIsNoDeletion`. A file left by a stopped merge is absent from the listing, and absence archives the entry |
| `registry` | two requests, two roots, one seat, three handles, two edits of config files that are good at first; fair | `WatchersMatch`: watchers live and die with the handles they serve; `Capacity`; `NoEditMissed`: a handle that does not stand for the file that is there looks changed; `OneStore`; `LastGoodServed`: a reload serves anything but a good config only where no file is, or where it still looks changed; `EveryRootIsWatched` |
| `code_index` | two files, three texts of which one is skipped and two share a symbol, one edit, two failures or crashes, any sequence of mutations | `VectorsAnswer`: a live rowid never has the vector of the symbol that had it before; `RowsAreWhole`: hash and symbols of a row are of one text; `CatchesUp`: a mutation by hash that ends well has caught up with the tree |

The two violations are disagreements between the code and its own comments; `findings` in
`PROJECT.json` quotes each comment. Section 7 lists others that were met while modelling.

### Bounds

- Two processes, or two tasks: every protocol here is between one actor that verifies, opens or
  renames and one that writes; locks are symmetric in everybody else. The proofs cover any number.
- `MaxFile = 2` is one quarantine with a replacement; `MaxOpens = 2` a close and a reopen, hence two
  generations. `heal_telemetry` keeps one file since its properties are about one.
- `MaxTime`: the clock stands still where the properties are not about time: all mtimes then fall in
  one tick, which is the worst case for stamps. `heal_telemetry` has four readings and an interval
  of two, so markers are fresh, aged out, and renewed.
- Three rows in batches of two give a full and a short batch; three drains give a cancelled one, its
  successor and one more; a writer whose reservation would exceed `MaxDrains` does not enqueue.
- Two clients over one permit: one can hold it while the accept loop waits with the other, the only way
  the loop can be deaf to shutdown. Two daemons are one and its successor, or one and its duplicate.
- `Capacity = InjectCapacity = MaxPending = 1` and three events: one fills a place, one overflows it, one
  comes after. The limits themselves (100, 64, 1024) only decide when the overflow comes. The document
  that is also code is in two indexes at once, which is where the routes can disagree.
- `MaxGen = 3`: a store, its replacement, and the replacement of that. Two processes are the one that
  opens and the one whose context vetoes the rename; two tables one salvaged and one not.
- Two entries are needed for the circuit breaker (`Cap = 1`), for duplicates and for a flush that mixes an
  own write with an edit; two edits and two operations for a conflict on an entry that was projected
  before.
- One seat and two roots: every second open evicts. Three handles are an open, an eviction and a reopening, or
  an open and two reloads. Two edits are a deletion and a new file, before, between or after the looks of one
  load, or one edit that is read and one that comes while it is. `FirstKinds` is what the files are before the
  first edit: good ones in the run, so that a deletion takes an edit; a run that begins with no files
  (`{"absent"}`) passes as well, and the proofs cover any beginning.
- `MaxFaults = 2`: what goes wrong between the rows and the vectors takes a missed removal and then a
  missed embedding. One edit in a run is enough to separate diff, read and commit; the initial tree is any,
  so that two mutations can meet an edit between them. Two edits were explored to fourteen million states
  without an error; that is too long for a run, and the proofs cover any number. A shared symbol makes
  vectors be carried over, and one text has two symbols so that rowids shift. Nothing bounds the number of
  mutations.

Deadlock checking is on in every run of StoreHeal, DeferredWrites and CodeIndex: somebody can always drop
a context, damage a file, ask for a settlement or begin a mutation. It is off in the others, whose instances end: clients
return and daemons stop in CliMutate, and the bounds on events, files, edits or handles are used up in
Watcher, Quarantine, MemorySync and Registry. What stands between an operation and its end is checked by
the liveness properties.

### Fairness

`FairSpec` of StoreHeal, used by `heal_shared_slot`, asks that a begun operation takes its next step (weak fairness: the thread
is scheduled and SQLite answers), and that a waiter for a lock that keeps coming free is served
(strong fairness: tokio's mutex is first in, first out; `admit_slot_writer` polls and the kernel
wakes `flock` waiters). Liveness is checked with the two actors in one process; between processes, that
nobody waits in a circle is `NoCircularWait` of `heal_two_processes`, proved as `LockOrder`. `FairSpec` of DeferredWrites asks that a spawned task is polled, a blocking
closure runs and a caller leaves its synchronous function. Nobody is obliged to start an operation,
to settle, to crash, to tick or to cancel. `RowsLeave` excludes what the code excludes: after a
cancellation or a refused spawn the queue waits for the next caller. `FairSpec` of CliMutate asks
that a client's deadline passes (one `timeout_at` covers both phases), that a handler that can go on
does, and that a shutdown goes on: its `select` sees the cancelled token, and both graces are timers.
Nobody has to send, spawn, stop or signal. `ShutdownEnds` rests on the clients: a permit is freed
because its holder answers, or because its peer gives up and `read_exact` fails.

`FairSpec` of Watcher: a flush that began goes on and both deadlines pass (weak fairness); each ready
branch of `select!` is taken again and again (strong fairness: tokio picks among ready branches at
random); and a document pass that is retried for ever succeeds once. Without the last nothing could be
promised of a disk that always fails. No event has to be delivered: `DocsCatchUp` begins at the channel.
`FairSpec` of MemorySync: the holder of the guard goes on and the loop flushes what is pending.
`FairSpec` of Registry: a request that entered goes on when it can. A root may be replaced again and again, each
time with a gap before its watcher starts, so `EveryRootIsWatched` says infinitely often and not always;
the gate is not assumed to be fair to any one request.

## 5. What is proved

All theorems hold for every value of the constants that satisfies the modules' named assumptions
(`ActorsAssumption`, `BoundsAssumption`, `QueueAssumption`, `ClientAssumption`,
`QuarantineAssumption`, `WatcherAssumption`, `MemorySyncAssumption`, `RegistryAssumption`,
`CodeIndexAssumption`): any number of processes, slots, actors,
files, opens, rows, drains, settlers, clients and daemons, any batch size, interval and number of
permits.

StoreHealProofs:

- `Typing`: `Spec => []TypeOK`.
- `Locking`: an invariant `LockInv` relating each actor's `pc` to the locks it holds and back. `SoleWriter` is not
  inductive, since a second actor's admission is excluded only by the holder recorded in
  `writer`; `LockInv` supplies that, and `WriterExclusion` follows from it.
- `QuarantineSafety`: `Spec => []OneGeneration`. The rename is guarded by an earlier step
  (`LockLive`), so the invariant must carry that no context exists while an actor stands at `rename`,
  and that no other actor can connect meanwhile, again by `LockInv`.
- `VerdictsCloseTheDamaged`: `Spec => ClosesOnlyTheDamaged`. The strengthening says what an actor
  has learned: if it holds a bad verdict about generation `g` and the slot still has generation `g`, the
  file of that context is torn. It needs `OneGeneration` (the probe scanned the file at the path) and
  that generations never come back (`ClosedForGood`, an action property).
- `NoLockLeftBehind` (`HoldInv`): every lock that is held is held by an actor that stands inside the
  operation that took it, the converse of `Locking`. With both, `LockOrder` (`Spec => []NoCircularWait`): slot,
  writer and mutation lock are taken in this order, so the holder of the last lock of a chain waits for none.
- `WritesThroughContexts` (`UseInv`): a guarded write goes through a context that is open and counted by
  the live lock. From it `BrokenFilesAreProbed`: with `BrokenInv` (a file in `broken` has neither a fresh
  marker nor a verdict, nor a probe under way that could give it one), `UnfinishedWriteIsProbed` follows.
- `TrustExpires`, from `TrustInv`: a marker or verdict is never trusted longer than the interval plus the
  time between a check and its recording; `TrustIsDated` is the exact bound, `TrustIsBounded`.
- These three have a premise on the lock-free probe, because of section 7: `SoundWhenRecorded` (a verdict is
  recorded only over a file that is still sound and not being written) and `PromptlyRecorded` (in the tick of its
  check, or `lag` later). `SmallWritesKeepTrust` needs neither: where actors only open and write, as in
  `heal_telemetry`, both properties hold as they stand, since every probe is under the writer lock.
- `ReturningReleasesSlot`: `Spec /\ OperationsReturn => CorruptionReleasesSlot`, see below.

DeferredWritesProofs:

- `QueueTyping`, then `QueueOwnership`: the entry names exactly the drain that works, and a caller
  about to spawn or publish owns a reservation nobody else has. `OneDrainAtATime` (`SoleDrain`) and
  `NoDeadReservation` (`ReservationsAreLive`) follow.
- `SlotHolding`: the slot is held by the drain or the closure that works under it, one closure at a
  time, and its rows are an interval that ends where the queue begins. `WrittenInOrder`
  (`Spec => InOrder`) follows, and `NoRowTwice`: what left the queue and the batches is in neither again.
- `HandlesAreKept` (`HandleInv`): the handle of a working drain is in the entry, with the writer that is about
  to publish it, or with a settlement that took it. With it `SettledRowsAreWritten`: `SettleObservesQueue`
  under the premise `[]Alone`, that settlements do not overlap (section 7 says why it is needed).
  `OneSettlerSeesItsRows` discharges it where there is one settler, the instance of the run.

CliMutateProofs:

- `ProtocolTyping`, then `MutationFate`: for each client, a relation `Fate` between what it concluded,
  what is on the wire, what its handler will do, and who ran the mutation. The promise "the caller
  runs it only if the daemon never does" speaks of the future; `Fate` makes it a fact of each state: a
  client that was told `Unstarted` has no whole frame on the wire and no handler before its dispatch.
- `ImplementsOutcome` (`RunsAtMostOnce`): under `Fate` every step of the protocol is a step of
  MutationOutcome or leaves `ran` and `told` alone.
- `AnswersAwaited` (`DrainWaitsForAnswers`), from `LateOnly`: behind a gate the drain has passed, only
  late requests execute.
- `OneDaemon`: a daemon stands between its lock and its release exactly when it is the holder;
  `SocketHandover` (`SocketIsOwn`) follows, since whoever binds or unlinks is that daemon.

QuarantineProofs:

- `FilesTyping`, then `NothingIsLost` (`Spec => []NothingLost`). By itself the property does not
  survive a sweep: a copy may be removed whose rows are elsewhere, and why they are is history. `Shape`
  says which files can be where, `SalvagedSoFar` that while the salvage calls itself whole, every readable
  row of the tables behind it is in the new store, and `Saved` that each row is in the store, in a copy
  that is still shown, or torn or in the tail; a copy is swept only after a report that said whole, and
  that was written only when `SalvagedSoFar` covered all tables.
- `OrphansOnlyBetweenRenames`, from `WalFollows`: a database opens beside the WAL of another generation only
  after a process died between the rename of the database and that of its WAL, or the second rename and the
  undoing of the first both failed (`LeftBetweenRenames`). It is what holds of the property that
  `quarantine_orphan_wal` violates.

WatcherProofs:

- `WatcherTyping`, then `NoChangeIsDropped` (`Spec => []NothingDropsOut`), with two conjuncts more: an
  index misses only files that are routed to it (otherwise a rejected path could be due), and a rebuild is
  under way only after a heal (otherwise it could give documents up). Before a heal what is left of the
  documents is `hidden`: the edit that makes it look newer makes it due again.
- `WatcherKeepsPromise` (`KeepsPromise`): every step of the watcher is a `Change`, a `Pass` or a `Heal` of
  ReindexPromise, or leaves `stale` and what is due alone.
- `DocsCatchUpInTheEnd` (`DocsCatchUp`), see below: a document leaves the channel only into a request that
  covers it, a rescan begins by requesting every document, and a request covers what it covered until a
  pass has read it, or passed over it.

MemorySyncProofs:

- `SyncTyping`, with `Planned`: what a pass decided stays possible until it is done, because only the
  holder of the guard changes rows.
- `RetiredEntryStays` (`RetiredStays`), from `Gone`: a retired entry has no file, no plan and an inactive
  row, so that the next classification finds nothing to revive or import.
- `TheLoserIsKept` (`LoserIsKept`), from `Safe`: between the snapshot and the last write the version about
  to be replaced is in the row or among the revisions. It needs `KeepKeeps`: the last two items survive
  the pruning, which is why `MaxRevisions` is assumed to be at least two.
- `EditsStayAsked` (`Spec => []EditsAreAsked`), from `Aimed` and `Asked`: while a job runs, an unread
  edit is collected or in the plan of that job; only an entry without a row is imported, and a file the store
  writes or moves is collected before its row follows, so that a flush never discounts an edit.
- `PassesReconcile`, an action property, from `Pursued`: a pass that ends leaves an entry and its file agreeing,
  or in one of the cases the code excludes. Its premise is that nobody touches the file of that entry while a
  pass runs; other entries may be edited, and earlier crashes and failures may have left anything behind.
- `EditsAreReadInTheEnd` (`EditsAreRead`), see below, from both.

RegistryProofs:

- one invariant, `IInv`: what a request knows at each statement (`Local`), that handles in the table
  belong to their root (`Handles`), that an identity is never newer than the file, and older where the config
  is not that of the file (`Stamps`), that live handles share the store of the one in the table (`Shared`), and
  `Capacity`. `Stamps` is carried through a load by `Readings`: at each look either what was read is still the
  file, or the identity read first is behind it (`Behind`); a reload that finds no file is behind from then on.
  `RegistryTyping`, `NeverOverCapacity`, `EditsAreNoticed`, `HandlesShareTheStore` and
  `LastGoodConfigServed` follow.
- `HandlesAreWatched` (`Spec => []WatchersMatch`), with `WatchInv`: a watcher runs only for a handle that is held,
  and a handle in the table has one, or the request that is about to start it; it needs which clones a request
  holds at each statement (`Clones`).
- `ServedHandlesGetWatchers` and `SettledRootsAreWatched` (`EveryRootIsWatched`), see below.

CodeIndexProofs (an invariant each, with one step per action):

- `Typing`: `Spec => []TypeOK`. That a batch gives finitely many rowids, so that there is always a largest one,
  rests on `RowsAreFinite`.
- `WholeRows` (`RowsAreWhole`). By itself it does not survive a batch, which could write beside symbols that
  are already there. `RowsInv` adds that a file without a row has no symbols, and in `Order` what the steps owe
  each other: nothing reaches READ or a batch while it still has a row, and an error leaves the delete loop empty.
- `OwnVectors` (`VectorsAnswer`). Within a mutation vectors are wrong for good reasons. `Owed`: unless a removal
  was missed, every id in the store is live or among those the loop still has to remove. `Answered`: a live id
  has its own vector, or the run has just written it and still has to embed it; and what is carried over
  is right, because it was taken from vectors that were.
- `MutationsCatchUp` (`CatchesUp`), from `CatchInv`: which steps each mutation takes (`Course`), and that at
  each of them a file of the scope that nobody touched is right, still to be deleted, still to be read, or read
  with the text it has now and not yet committed (`Tracked`).

Liveness, as far as it is within reach. Fairness and ENABLED are not, so what is proved is the step from
simple progress to the property that rests on it, a leads-to from safety facts and temporal logic:

| Theorem | From | Follows |
|---|---|---|
| `ReturningReleasesSlot` | `OperationsReturn` | `CorruptionReleasesSlot` |
| `RowsLeaveInTheEnd` | a working drain ends, cancelled or not | `RowsLeave` |
| `DocsCatchUpInTheEnd` | a path leaves the channel, a rescan begins, a document request is served | `DocsCatchUp` |
| `EditsAreReadInTheEnd` | jobs end, the flush empties what was collected, files are left alone during passes | `EditsAreRead` |
| `ServedHandlesGetWatchers` | a request before `spawn_watcher` goes on | a handle that goes on serving is watched |
| `SettledRootsAreWatched` | the same, and roots are not replaced for ever | `EveryRootIsWatched` |

The premises on progress speak of one stage each, and TLC finds them true of the fair specification of the
run's instance. The theorems say that nothing is lost between the stages, for every capacity, number of
entries, roots and requests. `EditsAreReadInTheEnd` has one premise the run does not need: an edit during
a pass is read by the next one, which the run covers and the proof does not.

Only model-checked: that progress itself follows from the fairness (`OperationsReturn` and the premises above;
that a drain ends is an induction over its batches); `ShutdownEnds`, whose stages hand nothing over: its substance is
the permit a silent client holds, hence the fairness itself; `UnfinishedWriteIsProbed`,
`TrustIsBounded` and `SettleObservesQueue` where the premises of their theorems fail are false of
the code (section 7), and no run claims them there; the two violations show that `NoOrphanWal` and
`UnreadableIsNoDeletion` are false. The type invariants of StoreHeal, MemorySync
and Registry are proved, and no run repeats them.

## 6. What is not modelled, and why

- Between the modules: StoreHeal opens in one step and Quarantine keeps no marker, so a crash inside the
  schema set-up that a marker then certifies is in neither; their product is too large for one run. The
  watcher's start-up and the session reindex. The watch is registered before the bootstrap of the code index
  (`src/mcp/server.rs:1786`, `:1811`), and what changes meanwhile waits in the channel.
- Sequential, and tested as such: the repo map, sessions, audits, priors, the recall ledger, the journal,
  setup, doctor. One statement or one transaction each; their hazards are of data, not of order.
- The schema ladder: it runs inside one `BEGIN IMMEDIATE`, with the version read after it.
- Of the code index: the migrations that blank hashes so that everything is parsed again, the quarantine and
  repair of `code.sqlite` (the protocol of StoreHeal without salvage: everything re-derives), the in-memory
  cache of vectors (invalidated by every rewrite), and a second process that writes the same index.
- The contents of documents, chunks, links, coupling, duplicates. What Watcher needs of an index is whether
  it holds what a file says.
- Numeric: ranking, duplication, embeddings, evaluation. Floating point is out of TLC's reach.
- Parsers: the shape of syntax trees.

## 7. Observed divergences without a run

Met while modelling, read in the code, each with the line where it starts. Those of StoreHeal,
DeferredWrites and CliMutate are behaviours of the models; their properties are stated so as to hold
beside them, as the hazards of `PROJECT.json` say.

Store and queue:

- The read-write connection of a lock-free probe holds no live lock (`src/store/heal.rs:312`), so a
  quarantine may rename the database under it; `src/store/mutation_lock.rs:43` says that the lock is held for
  the whole life of a connection.
- The comparison and the recording of a lock-free verdict are two steps, and the invalidation counter is per
  process (`src/store/heal.rs:406`): a write that another process announces in between is certified.
- `close_over_corruption` forgets the verdict of the process and not the shared marker
  (`src/core/mod.rs:210`): while the marker is fresh, the damaged file is reopened unprobed.
- Of two settlements of one slot the second finds no handle and returns at once
  (`src/mcp/dispatch.rs:1222`).
- Rows that meet an empty slot are dropped with a log line (`src/mcp/dispatch.rs:1173`).
- A request that enters the gate behind the drain executes while the sockets go
  (`src/daemon/ipc_server.rs:391`).

Quarantine:

- The salvage does not read the copy's WAL (`immutable=1`, `src/store/heal.rs:604`), and its report may call
  itself complete over rows that were only there. An open that fails between the quarantine and the salvage
  leaves that copy to no later salvage, and no rebuild is signalled for it.

Watcher:

- A missed event is recorded after the send failed (`src/watcher/mod.rs:199`), while the loop may have emptied
  the channel: the flag then waits for the next event, although `src/mcp/server.rs:1911` says that an event
  always follows. This is why `DocsCatchUp` begins at the channel.
- A rebuild signal is dropped on a full injection channel (`src/mcp/dispatch.rs:768`: a full channel means
  a rebuild is already queued), but the channel may be full of file paths.
- A full document pass takes for unchanged a document whose mtime, in whole seconds, is not after its row
  (`src/core/indexing.rs:1067`). `src/core/indexing.rs:853` forces the named files of the watcher "even for
  same-second saves"; a full pass, which stands in for events that were dropped and for lists that overflowed
  or met a recovery, does not. Such a document stays stale until its next event, with nothing due (`hidden`,
  `PassedOver`).
- A code mutation ends well although it could not read a file (`src/code/indexing/pipeline.rs:310`).
- A failed document pass of a rebuild, a failed code batch and a failed memory flush put nothing back; a
  full document pass clears the memory request although a failure of its memory part is only logged.
  `forsaken` records them. The rebuild also opens the code index where code indexing is off
  (`src/mcp/server.rs:2086`).

Memory:

- A returned file of an archived entry is overwritten without a snapshot; so is a foreign file under a row
  that was never projected. The original bytes of a file put back are taken for an own write.
- `confirm_entry` restores the row without its file, so the next pass archives it again.
- `run_document_update` archives expired rows before their files (`src/core/indexing.rs:385`), the other
  order than removal: a file that stays revives its entry.
- Files are classified once and written later: an edit in between is overwritten.
- A new file that duplicates an entry is skipped; triggers are lost when a file is adopted.

Registry:

- The re-check of `get_or_open` under the gate does not compare the config's identity
  (`src/daemon/registry.rs:388`): that request is served the older config, and the next one reloads.
- A malformed config is refused by a reload, which keeps the last good one, and replaced by defaults by
  the open after an eviction.
- A reload that finds no `config.toml` installs the defaults (`src/daemon/registry.rs:232`), after a deletion and
  in the middle of a save that deletes and creates; and since the test that the file exists and the read are two
  steps, a file created between them half-written gives defaults too. The identity was read before, so the
  next access reloads; `LastGoodServed` states exactly that.
- The settings and the priors come from two reads (`src/daemon/registry.rs:236`), and may be of two versions
  until the next access.
- A file that is created and deleted again between the reading of its identity and the end of the load leaves
  its settings behind with the identity of an absent file: the handle keeps them until the next edit.
  `NoEditMissed` speaks of files that are there.
- A handle that was evicted while a request holds it and its reopened successor have two stores and two
  watchers; `OneStore` excludes evicted handles. A reload aborts the old watcher with what it had batched.

Code index (behaviours of the model; `hollow`, `wrong`, `excused` mark them):

- `delete_by_file` (`src/code/storage/sqlite.rs:238`) and `clear()` (`:1002`) are separate autocommits. A crash
  or an error after the symbols are gone and before the row is leaves a row with its current hash and no
  symbols; `update` and `reindex_files` pass over it until the file is edited. After an interrupted
  `reindex` that is every row.
- A missed removal of vectors followed by a failed embedding leaves a symbol with the vector of another.
  No sweep finds it, since its id is live, and `embeddings_by_text` then carries it over by text
  (`src/code/indexing/mod.rs:837`), so that the next reparse keeps it.
- The comment of `index_directory` (`src/code/indexing/mod.rs:106`) says that content hashes decide; `index_scope`
  compares mtimes in whole seconds, and COLLECT takes the mtime after READ took the content
  (`src/code/indexing/pipeline.rs:620`). An edit in between, or within the second, is passed over by
  `index_scope`; the mutations by hash find it.
- Symbols whose embedding failed are not embedded again while the hash of their file stays
  (`src/code/indexing/mod.rs:919`), and a file whose read failed once is left out with a log line while the
  mutation ends well (`src/code/indexing/pipeline.rs:310`).
