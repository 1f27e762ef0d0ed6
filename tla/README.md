# Verification of ActionDock

TLA+ models of the concurrent and failure-prone parts of ActionDock
(`src/packages/`), the TLC configurations that check them, and proofs for TLAPS.
Paths below are relative to `src/packages/`; `service.ts` alone is
`core/src/execution/service.ts`.

## 1. The system

ActionDock runs typed *actions* that packages declare. A **host** opens a
project, prepares its packages and dispatches calls of actions from the command
line, an HTTP server, an MCP server or an IPC parent. Each prepared package has
an **execution service**, which records every call as a *run* in the SQLite
database of that package. Several host processes may share the database and the
data directory. Actions may call other actions, start **managed processes**, and
emit log and progress events that subscribers follow live.

### Components

| Component | State | Operations | What is hard about it | What makes it correct |
|---|---|---|---|---|
| Execution service (`execution/service.ts`, `runtime/run-persistence.ts`) | `reservedSlots`, `activeRuns`, `isClosed`; one controller, timer and finalizer per run | `start`, `cancel`, `close`, `invokeChildAction`, `get`/`list` | awaits between quota check, gate, row and race; timeout, cancel, signal, close and action all end a run | the quota is exact; a run ends once, with one status in row, result and event; close returns; nothing stays "running" unattended |
| Run and idempotency tables (`storage/sqlite-runs.ts`, `run-liveness.ts`) | rows of `runs`, `idempotency_keys` | create, guarded update, recovery, retention, clear, check-and-record | several processes; a holder dies between any two statements | the first terminal status stays; only the runs of the dead are interrupted; a key replays the run made for it |
| File lock (`storage/file-lock.ts`), data directory lock, registry lock | lock directory, metadata file, reclaim guard directory | acquire, refresh, reclaim, release, flush of child pids | no atomic test-and-set beyond `mkdir`/`rename`; stale holders, pid reuse, crashes | at most one holder that believes it holds the lock; a dead holder does not block for ever |
| Managed processes (`process/process-manager.ts`, `input-dispatcher.ts`, `reservation-table.ts`) | records, handles, timers, input queues, reservations | start, write, control, stop, shutdown, read; exit, error and timer callbacks | callbacks between awaits; shutdown against start; takeover of the input queue | no process outlives the manager; one terminal state per process; each write is answered once, in order |
| Process output (`process/output-log.ts`, `cursor.ts`) | bounded records, cursors, waiters | append, read, wait, close | eviction under readers; wake-ups | a reader sees every byte or a gap; no lost wake-up |
| Event sink (`runtime/events.ts`) | bounded buffer per run, subscribers | emit, subscribe from a cursor, finish, evict | replay overlaps live events; eviction | each subscriber sees each event once and in order, or is told of a gap |
| Host (`host/host.ts`, `package/runtime.ts`) | initialization state, prepared runtimes, storage handles | initialize, prepare, dispatch, close | rollback in the middle; close racing dispatch | a failed initialization leaves nothing open; no dispatch reaches a closed runtime |
| Invocation policy (`invocation/policy.ts`) | call chain, sub-run counters per root | depth, cycle and quota checks, acquire, release | nested calls that end in any order | no leak of places; recursion is bounded |
| Remote invocation and service (`invocation/remote.ts`, `service/remote*.ts`, `sse-*.ts`) | pending request, run id, cursor, deadline | start, recover, poll, stream, cancel | lost answers, broken streams, timeouts | the caller is told a result only if it is the run's; an unknown result is said to be unknown |
| Project transactions (`project/transactions.ts`) | journal, snapshots, project files | begin, commit, rollback, recover | a crash between any two file operations | files are those before or those after, and a pending journal is found |
| Config keys (`security/config-key.ts`) | key file, marker | load, generate, publish | several processes publish at once | all processes use one key for ever |
| IPC service (`ipc/service.ts`) | pending calls, child | call, abort, reply, exit, close | replies and exits in any order | each call is answered once |
| Registry, package graph, action catalog | index file; resolved graph | add, remove, scan, resolve | lost updates; cyclic and diamond dependencies | read-modify-write under the lock; resolution as documented |
| State and config storage, HTTP server, client, command line, builder, MCP, SDK, doctor, platform, contracts | rows, or nothing | one statement or one translation per call | little of their own | unit tests |

### How they interact

The host opens one storage handle per package runtime and gives it to the
execution service; opening the handle runs recovery and clean-up. `start()`
returns a ticket with a result promise; the service emits status events to the
event sink, writes the row through the finalizer, and calls back into the host
for nested actions. `close()` of the host closes the runtimes: first the service
(abort, await), then the managed processes, then the storage handle. Processes
that share a database meet only in its rows; processes that share a data
directory meet in the file lock.

## 2. Plan

Most important first. Done so far:

1. `ExecutionService` and its abstract specification `RunLifecycle`; the proofs
   in `ExecutionServiceProofs`.
2. `FileLock`, file-system steps of several processes with crashes and
   staleness; the proofs in `FileLockProofs`.
3. `ProcessManager` with reservations and quota, `InputDispatcher` for the input
   queue of one process, `ProcessOutput` for the way of its output to the readers and
   its abstract specification `OutputStream`.
4. `EventSink`: bounded buffers, replay and live queues, clients that resume.
5. `RemoteInvocation`: start, recovery, stream with polling fallback and bounded
   cancel over a network that loses and delays messages.
6. `ProjectTransaction`: journals, recovery and the commands that use them, with
   a death between any two steps.
7. `HostLifecycle`: initialisation with rollback, dispatch, nested calls under
   the invocation policy, close; it composes the host with its package runtimes.
8. Proofs by inductive invariants, each confirmed by TLC first: every safety property
   that a run checks, and both refinements, for every component that is modelled
   (section 5).

Next:

9. `ConfigKey` (several processes publish key file and marker), `IpcService`
    (request, abort and reply against the exit of the child), `Registry` as a user
    of `FileLock`, resolution of the package graph as a function.

## 3. What is modelled

### `ExecutionService`

Sessions (`Host`) are processes with one service and one storage handle on one
shared database. A `Call` is one `start()`. A call creates at most one run, with
a fresh uuid, so runs carry the name of their call.

| Variable | Code |
|---|---|
| `svc[h]` | life of the session: not yet opened, open, inside `close()`, closed (process still alive), dead |
| `reserved[h]`, `active[h]` | `reservedSlots`, keys of `activeRuns` |
| `pc[c]` | where the call stands: between two statements of the gate (`insert`, `check`, `replace`, `get`), after it (`resolving`, `rejected`, `duplicate`), in the race (`racing`), after the finalizer (`finalized`), or how it ended |
| `seen[c]` | the run named by the key row that the gate has read (`existing.run_id`) |
| `slot[c]` | `hasReservedSlot` of the once-only closure `releaseSlot` |
| `aborted`, `winner` | the controller's reason; how `Promise.race` settled |
| `timer`, `linked` | `finalizer.timeoutTimer`; the listener on the caller's signal |
| `unsaved`, `result`, `events` | `persistError`; the settled result; the status events emitted |
| `stored`, `key` | `runs.status`; rows of `idempotency_keys` by scope |

JavaScript runs to completion between awaits, so one action is the code between
two awaits. Each statement (or transaction) of `sqlite-runs.ts` is one atomic
change, and is part of the action that executes it. `start()` is `Start` (entry,
quota, and the first SELECT of the gate if there is a request id), the statements
of the gate, then one of `ThrowRejected`, `ReturnDuplicate`, `FailMissing`,
`ThrowUnregistered`, `FailInvalid`, `Register`. The gate
(`checkIdempotencyGate`, `checkAndRecordIdempotency`) awaits nothing, but its
SELECTs of key and run are outside any transaction and its write is in one of
its own, so other processes run in between: each statement is a step
(`GateInsert`, `GateStale`, `GateConflict`, `GateDuplicate`, `GateReplace`,
`GateGet`, or `GateWriteFails` for a UNIQUE error or a busy database), and `Idle`
keeps everything else of the same process out meanwhile. A run is `ActionSettles`,
`TimerFires`, `SignalAborts`, `Cancel` in any order, then `Settle` (the finalizer)
and `Conclude` (final event, removal). `CloseBegin` and `CloseEnd` are the two
halves of `close()`, `Open` is the storage constructor with recovery and
clean-up, `Die` a crash or exit at any point. `ClearRuns` and `ExpireKey` are the
housekeeping of any session. A store that refuses a write is a choice in
`ThrowUnregistered`, `FailInvalid` and `Settle`.

Abstractions, all of them named in the module:

- The retention policy is any subset of the terminal rows (`CleanExpired`); the
  code's age, count and pass limits pick one of them.
- DELETE and INSERT of `GateReplace` are one step: they share a transaction, which
  is deferred (`BEGIN`) but begins with a write and so holds the database from its
  first statement on.
- A digest is a value; a request without an id has the request `None`.
- The grace timer of `close()` never comes before the end of an aborted run: an
  aborted run ends in microtasks, which precede timers.
- Re-use of a pid, and rows of old versions without a host pid (judged by
  heartbeat), are left out: `ProcessAlive` is `kill(pid, 0)` of the right process.
- Nested calls are part of `HostLifecycle`, progress and log events of `EventSink`.

### `RunLifecycle`

What a reader of the run table may rely on: the moves of one row (`none`,
`running`, a terminal status, `deleted`) together with what the starter of the
run was told. `ExecutionService` implements it by reading `stored` as the record
and the result of every call that did not join another run as the outcome. One
step may move several runs, since recovery and clean-up do.

### `FileLock`

The generator `acquireLockMachine` and its helpers, run by `runSync` or `runAsync`.
A `Task` is a caller; tasks of one process share its pid and its
`activeLockPaths`. `pc[t]` names the file-system call that comes next, and each
call is one action: another process may act before it.

| Variable | Code |
|---|---|
| `lock` | what is at `lockPath`: nothing, a directory (token in `metadata.json`, tmp files), or the single file of an old version |
| `lockOld`, `guardOld` | whether the age from `stat` is beyond `staleMs` |
| `guard` | the directory `lockPath.reclaim` |
| `old[t]` | the local `lockAgeMs`, read before the metadata |
| `reclaiming[t]` | the task is inside the `try` whose `finally` removes the guard |
| `late[t]` | `clock.monotonic() >= deadline` |
| `outcome[t]` | how the acquisition will end, set before the `finally` runs |
| `activePath[p]`, `alive[p]` | `activeLockPaths.has(path)`; `kill(pid, 0)` |

The option sets of the code are constants: the registry lock is asynchronous with
`mtimeFirst`, the project lock and the data directory lock are synchronous
without it, and the data directory lock is kept until its process exits
(`Releasing` without its tasks).

Assumptions and abstractions:

- A live process is never suspended for `staleMs` between two of its calls, and
  its heartbeat is on time (`Touching`, the guards of `LockAges` and `GuardAges`).
  A suspended holder loses its lock by design.
- The check of a guard (read, then `stat`) and the removal of a guard (its file,
  then the directory) are one step each. The removal of the lock directory is two.
- `assertHolderReclaimable` throws for a live holder with child processes; such
  a caller fails like a synchronous one that meets an active lock. Re-use of a pid
  and metadata without a pid are left out.
- An acquisition that failed is not tried again by the same task.

### `InputDispatcher`

The input queue of one process: `dispatchNext`, `takeoverQueue`, the quarantine and
the handlers of `process-manager.ts` that share the record with them.

| Variable | Code |
|---|---|
| `state`, `control`, `handle`, `inputClosed`, `outputOpen`, `idleTimer` | fields of the process record |
| `queue`, `epoch`, `opEpoch[o]` | `inputQueue`, `cancelEpoch`, the epoch an operation was queued under |
| `receipt[o]` | the stored receipt, which is what `operation()` answers |
| `entering`, `wakes`, `at`, `current` | the awaits: receipts being stored, microtasks due, where the loop stands and with which operation |
| `pushed`, `delivered`, `freeCount` | history: the order of queueing, of delivery, and what was delivered when control was last lost |

`Enqueue`, `Push` and `Wake` are one call of `write` or `control`; `CallDriver`,
`DriverReturns`/`DriverFails`, `EofPersisted` and `Settled` are one turn of the loop,
cut at its awaits; `Stop`, `Spawned`, `Exit`, `OutputClosed`, `Fault`, `IdleTimeout` and the
quarantine come in between. Operations are those that passed the deduplication
by request id. Resize differs from the other controls in nothing the queue sees.

### `ProcessManager`

`start()`, `stop()` and `shutdown()` with the reservation table and the quota, over
the driver's spawn and terminate and the operating system's child. A `Call` is one
`start()` and names the process it creates.

| Variable | Code |
|---|---|
| `pc[c]` | the await at which `start()` stands |
| `reserved[r]`, `settled[c]`, `owner[c]` | the reservation table; how a reservation was settled; which one a joined call awaits |
| `recorded[r]` | the start receipt of the metadata store |
| `state`, `handle`, `timer` | the process record, its driver handle, idle and lifetime timer |
| `spawn`, `term`, `killed`, `os` | `driver.spawn`, the phases of `terminate`, SIGKILL, the child itself |
| `shutdown`, `targets`, `target` | the stages of `shutdown()` and what it picked |

One action is the code between two awaits: `Begin`, `Reserve`, `Lookup`, `Saved`,
`SpawnReturns`/`SpawnThrows`/`AbandonSpawn`, `Updated`, `Recorded` are the good path of
`start()`, `Terminated` and `Throw` the cancelled and failed ones. `ReapAbandoned` is the
continuation left behind by the race of spawn and signal.

Assumptions: the only metadata store is the one in memory, so a store answers
later and does not fail; it is asked for one thing at a time by each `start()`.
Idle and lifetime timer are one. A limit that is zero or negative arms no timer
(`process-manager.ts:916,948`) and nothing rejects such a limit, so only calls whose
payload is in `Limited` are bounded, and `RecordIsTrue` asks a timer of those alone.
Input and output are the other two modules.

### `ProcessOutput`

From the pipe to the reader. Bytes are counted: record `i` of process `p` ends behind
the first `sent[p][i]` bytes of its output, and a cursor is a record and an offset in it.
The ends, and not the sizes, so that the bytes between two cursors are a difference
(`Position`) and need no sum. The names of the specification itself carry a prefix
(`OutputInit`, `OutputNext`, `OutputSpec`): its proofs share a module with another one.

| Variable | Code |
|---|---|
| `sent`, `earliest`, `logClosed` | `ProcessOutputLog`: its records (those before `earliest` are trimmed) and its end |
| `state`, `infoClosed`, `queued`, `managerTimer`, `known` | the record of the manager and its drain timer; whether it is still in the table |
| `shutDown` | `shutdown()` of the manager has passed its last loop over the records |
| `exited`, `streamClosed`, `terminating`, `driverTimer` | the instance of `NodeProcessDriver` |
| `retained` | logs in the terminal cache |
| `cursor`, `phase` | a client: where it reads, whether it waits |
| `got`, `lost` | history: bytes received, bytes it was told are gone |

`Data` is `append` with trimming and wake-ups; `Read`, `Wait`, `WaitEnds`,
`ReadUnavailable` are `ProcessManager.read`; the rest are the events of the child, both
drain timers, `terminate`, an abandoned start, and `Shutdown`, the last loop of
`ProcessManager.shutdown()`: it clears the drain timer of every record, also of a process
that has exited with its log open (`process-manager.ts:304-318`). Such a log is closed
by the driver alone. The cache is something that may
forget any ended log (`Forget`): its size and time limits pick which and when. Of the
drivers this is `NodeProcessDriver`, the only one that starts real children.

### `OutputStream`

What a reader may rely on, without records and cursors: a process has written `total`
bytes, those from `kept` on are there, and a client has received `got` and was told that
`lost` are gone. Bytes are given up only when the limit is passed, and never the latest; a
client is told of a gap of exactly the bytes that were given up before it got them;
what it is answered is not empty unless it has come to the end. `ProcessOutput`
implements it (`RefinesStream`): `total` is where the last record ends, `kept` the position of
`earliestCursor`. One step may serve several clients, since an append wakes all that wait.

### `EventSink`

`runtime/events.ts`: events are their sequence numbers, and `globalEventSeq` counts those of all
runs for the event ids. `Emit` is `emit` with trimming,
eviction and delivery; `Clear` and `Close` are what the owner of the sink may do (bound:
once, and before an eviction); `Subscribe` runs the generator to its snapshot; `Replay`,
`Replayed`, `Follow`, `FollowEnds` are its turns; `Disconnect` and `Cleanup` the way out.
`setOf` keeps apart the listener set of a run and the new set of a run that was
evicted or cleared and came back: `cleanup` deletes the entry by run id, whichever
set it holds by then (`events.ts:205-211`), and a subscriber of the new set then
hears nothing more. `FollowedToTheEnd` excepts such runs. `Reconnect` is the client of `GET /runs/:id/events`.

The last access that eviction compares is a clock value, equal for accesses in one
millisecond, so any terminal run may go first. Log and progress events differ from
status events in nothing the sink sees. Documented limits that the code never
raises (`EVENT_CURSOR_EXPIRED`, `EVENT_BACKPRESSURE_LIMIT`, `http-api.md:446,448`) are not
part of the model: a client that fell behind is not told. Every id the sink gives is a
number; a cursor that is not one (`events.ts:171-176`) is behind no event, so who invents
one hears nothing until the run is over, and is not modelled.

### `RemoteInvocation`

The client side of a call of an action on another host. `pc[c]` is where the call
is, `post`/`answer`, `ask` are its two requests that change something remotely,
`run[c]` the remote run, `told[c]` what the caller hears. `id[c] = "made_up"` is the run id
the client invents for an answer without one, and `result[c]` what the wait returned.

The network and the remote host are external: a request is handled at any later
time or never, an answer is lost or cut short, the host starts one run or
rejects the call, with or without the row of a failed run, and runs end when they
like. A proxy that answers in the host's name is
excluded: a gateway's 5xx would be read as a rejection by the host. A run whose
202 lost its body gets the made-up id, and no cancel ever reaches the real one.

### `ProjectTransaction`

Each `Proc` is one command (`ad add`, `ad remove`, `ad run`) in a process of its own.
`files[f]` is the set of dependencies that tracked file names, `modules` that of
`node_modules`, `journal[p]` the entry with its snapshot, `torn` a `transaction.json` that a
death left half written. `good` and `kept` are history: the files after the last
commit, and the dependencies whose addition was reported.

`Check`, `LockToRecover`, `Scan`, `Restore`, `Reinstall`, `Discard` are the recovery before a
command, file by file; `Read`, `Begin`, `TakeSnapshot`, `Open`, `Install`/`Uninstall`, `Save`,
`SaveLockfile`, `Commit` the change; `Throw` and `Cancel` with `RollBack` the other ways
out; `Ensure`, `EnsureLocked` the first installation. `Crash` and `CrashTearing` come at any
step. The project lock is one step here, since `FileLock` has its details, and the
package manager is external: it changes `package.json` and its modules, or fails
after it has changed some, or never comes back. It dies with its command: a child
that outlives a killed `ad` and writes on after the next command has taken the lock over
is not modelled. `ad add` names one dependency.

### `HostLifecycle`

One owner host and its package runtimes. `task[t]` is one `performInitialization`,
`closing` the stages of `close()`, `runtime[r]` the storage, service and closer of a
runtime (package and initialisation it was registered by), `call[c]` a call with its
call stack and the root it counts for, `subRuns[root]` the counter of the policy.
`lazy` tells the deprecated constructor, which hands the host out uninitialised, from
the factory.

`BeginInit`, `Load`, `OpenStorage`, `Warmed`, `InitFails` and the rollback are
initialisation; `Start`, `Resume`, `Invoke`, `Prepared`, `BuildService`, `StartRun` a call;
`Close`, `ClosePreparations`, `CloseTargets`, `StopService`, `ShutStorage`, `CloseEnds` the close.
A run is running, or over with its signal aborted or not: what an action left behind
may still invoke others in the latter case. `ExecutionService` is its detail. Refusals by signal and
deadline are part of `PreparationFails`, remote targets are `RemoteInvocation`, and a
preparer is always there. `GlobalConfig`, a configuration call of the management port,
may open the global storage again after `close()`; the model keeps that in, and no
property rests on the contrary.

`Create` is the one initialisation of the factory. A lazy host makes another attempt
after a failed one, and `performInitialization` forgets `initPromise` before it rolls
back (`host.ts:543-548`): the new attempt then finds `dataDirLock` still set, and the
rollback of the old one releases the lock under it (`host.ts:618-624`). With two attempts
TLC finds storages open without the lock, so `UseIsCovered` speaks of the time
before a second attempt has begun (`NotRetried`), which for a host of the factory is always.
A lazy host breaks the rule of storages in its first attempt, too, when it is closed
meanwhile: `performInitialization` never looks at `isClosed` and goes on to open storages
after `close()` has given the lock back. So `StorageUnderLock` is about hosts of the
factory, and about lazy ones until `close()` begins; `RunsOnlyWhileOpen` is about both.

## 4. What is checked

| Run | Instance | Question and answer |
|---|---|---|
| `execution_recovery` | 2 sessions with one owner, 2 calls, both timed and signalled, 1 request, 2 digests, limit 1 | Do rows, results, events, quota and supervision agree under aborts, close, crash, recovery, clean-up and failing writes; does a duplicate only join or replay the run of its own request; do the runs follow `RunLifecycle`? Yes. Two sessions are needed for one to recover the rows of the other while its own run; with limit 1 the second call meets the full quota. |
| `execution_liveness` | 1 session, 2 calls | Do aborted runs end and does `close()` return though actions ignore their signal? Yes. |
| `lock_mutex` | registry lock, 2 processes with 2 tasks each, nobody dies | Is there one holder at a time and does the lock stay its own? Yes. Tasks of one process exercise `activeLockPaths`, tasks of two the pid. |
| `lock_progress` | 2 processes, a synchronous and an asynchronous task; one may die at any call; stale directory, file, guard | Do leftovers of the dead block the others? No. |
| `input_queue` | 2 writes and an end of input, 2 takeovers | Is the input one serial stream under stop, exit, fault and quarantine, do verdicts stand, is every operation answered? Yes. Three operations put one at the driver, one in the queue and one on its way into it. |
| `process_start` | 2 starts that share a request or not, with one payload or two, limit 1, one caller with a signal | Are quota and request ids exact while starts overlap; is no child forgotten by abort, stop and shutdown? Yes. |
| `output_readers` | 2 clients reading by 1 and by 2 bytes, chunks of 1 and 3 bytes, a log of 2 bytes, 1 place to wait | Does each client get every byte or hear that it is gone, is a gap no more than what the limit cost (`OutputStream`), and is nobody left waiting? Yes. A chunk larger than the log is split, and one larger than a read is resumed. |
| `event_subscribers` | 2 runs that share one buffer of 2 events, queues of 1, 2 clients with 2 subscriptions each | Are events in order, never doubled, skipped only where a bound dropped them, and is the finish reached? Yes. Every bound is passed, and an evicted run comes back. |
| `remote_calls` | 2 calls through one executor that closes | Is the caller's answer honest, does an abandoned run get its cancel, is every call answered? Yes. Two calls let `close()` find one while another begins. |
| `project_recovery` | 2 commands, 2 dependencies, one death | Are files those before or after a change, and are snapshots taken of good files only? Yes. |
| `host_close` | 2 packages, one explicit and one linked, 3 calls, 1 initialisation, 1 sub-run per root, depth 2 | Is everything in use held while initialisation, calls and close overlap; is the sub-run counter exact; does `close()` return? Yes. Three calls make a parent, its child and one refused by quota. |
| `project_lost_update` | 2 commands, nobody dies | Does a reported addition stay? No, see findings. |

Calls, commands, chunks and subscriptions are each used once, so state spaces are
finite. The bounds that cut something off are `MaxEpoch` (takeovers of the input
queue), `MaxChunks` (writes of a child), `FinishAt` and `LateEvents` (events of a run),
`MaxSubscriptions`, `MaxCrashes`, `MaxCalls` and `Tasks` (attempts to initialise). Symmetry is
used in `execution_recovery` only: calls have the same context there and sessions
share their owner. `CHECK_DEADLOCK FALSE` stands in every configuration because all
calls may have ended, and all processes may be dead.

`MaxCrashes` is 1 with two commands. A `transaction.json` torn by a death ends the search
for pending entries where it happens to be listed (the `catch` of
`hasPendingTransactions`, `transactions.ts:218-232`, returns false), and a command then begins on
files another one left mixed: from a torn journal on, `SnapshotsAreGood` fails with
three commands and one death, `AllOrNothing` with four (the fourth recovers an old
snapshot over a change committed in between). As long as no entry is torn both hold
for any number of commands and deaths, by the proofs of section 5.

**Fairness.**

- `ExecutionService`: `Settle`, `Conclude` and `CloseEnd`. They are continuations of
  settled promises, which the event loop of a live process runs. Nothing is
  assumed of actions, timers or callers.
- `FileLock`: the next call of a live task (the generator is driven to its end), a
  holder finishes its work, untouched locks and guards grow old. The deadline is
  not fair: progress does not rest on giving up.
- `InputDispatcher`: microtasks run, the store answers, the driver call returns or
  fails. Nothing of `stop()`, timers or the exit.
- `ProcessManager`: a `stop()` goes on when its store answered, the timer before
  SIGKILL fires, and a child that was sent SIGKILL exits. A child may ignore
  SIGTERM for ever.
- `ProcessOutput`: clients read on, drain timers that are armed fire, the manager's and the
  driver's, and a termination ends, which its grace time and SIGKILL see to. `Shutdown`
  takes the manager's timers away, so `ReadingEnds` rests on the driver's, too.
- `EventSink`: a client that follows asks for the next event, and a generator that was
  returned cleans up. Runs need not finish.
- `RemoteInvocation`: the timers of a call and the steps it takes by itself. Nothing of
  the network or of the remote host, not even that they fail.
- `ProjectTransaction`: what a live command does by itself (`OwnStep`). Nothing is assumed of a
  package manager: only the first installation gives it a limit (`dependencies.ts:713`);
  `ad add`, `ad remove` and the recovery give none (`add.ts:104-108`, `remove.ts:125-128`,
  `transactions.ts:178-182`) and `command-executor.ts:328` has no default. `LockIsReturned` therefore
  speaks of commands whose package manager comes back; one that hangs keeps the lock.
- `HostLifecycle`: awaits of host and storages end, preparations are told to stop, the
  grace time of a closing service passes. Nothing of users or of actions.

**Mutants.** Each property names an operator that changes the model as a plausible
bug would (the reservation goes before its receipt, a client is registered
without a second look at the end, a resume by event id, services closed before the
calls that cancel through them, a counter not given back); TLC finds the property
violated with it.

### Findings

- **A command undoes the change of another** (`project_lost_update`). `ad add` reads the
  manifest (`add.ts:63`) before it takes the project lock and writes that copy back
  under it; `ad remove` does the same. A dependency added in between is dropped from
  `actiondock.json` again, though its command reported success.

Disagreements between code and documents that a configuration shows when it is
run by hand (each checks one property, which TLC finds violated):

| Configuration, property | What happens |
|---|---|
| `ExecutionResend`, `AtMostOneExecution` | The gate records the key, then the action is resolved before its row exists. The request sent again in that window finds a key without a run, replaces it and executes as well (`http-api.md:250` promises a guard against that). |
| `ExecutionCancel`, `AlreadyFinishedIsTerminal` | `cancel()` takes every row that it does not hold in `activeRuns` for a terminal one, also that of a run another process executes (`http-api.md:385`). |
| `LockReclaimRace` and `LockDeadGuard`, `MutualExclusion` | Under the guard `ENOENT` sets `stillStale`, and a task that probed the guard earlier may have made the directory found next; two reclaimers that judge a guard dead both remake it (`file-lock.ts:383`). |
| `LockEarlyFailure`, `FailsOnlyLate` | A waiting task that gets the guard and finds the lock taken fails at once with a timeout (`registry/lock.ts:11,44`). |
| `InputTakeover`, `CompletedIsFinal` | `takeoverQueue` also fails the head that has completed and is not shifted yet (`input-dispatcher.ts:169-187`). |
| `ProcessShutdown`, `ShutdownStopsAll` | A `start()` past its check when `shutdown()` picks its targets spawns a process nobody stops (`process-manager.ts:277-302`). |
| `OutputEviction`, `EndedIsEvicted` | An abandoned start closes the log and leaves `info.outputClosed` unset, and input settled after the eviction was put off is not followed by another try (`process-manager.ts:1193-1206`). |
| `EventResume`, `ResumesBehindCursor` | `Last-Event-ID` carries the `eventId`, and the sink compares it with sequence numbers (`http-api.md:444-445`). |

The lock has a further limit: one without heartbeat and `mtimeFirst` that is held
beyond `staleMs` and then released (a long command under the project lock) looks
stale to a rival that read the old mtime before `rm` took the metadata away.
`MutualExclusion` fails there too, so no run has such holders release.

## 5. What is proved

Every theorem is of the form `Spec => []P`, `Spec => [][A]_vars` or a refinement, for all
values of the constants that the named assumptions of its module allow. Each proofs
module states an inductive invariant that implies its properties, with one lemma of
preservation per part and one step per action. TLC checked each invariant on
instances before its proof, larger ones than the runs where that was possible.

`ExecutionServiceProofs` holds for any sessions, calls, requests, digests and
owners and any positive limit. It assumes that `Call` is finite (the limit is
about cardinalities), that `None` is none of the values, and that every session
has an owner.

- `TypeCorrect`, `QuotaIsKept`, `RunsAreSupervised`, `ResultsAreRecorded`,
  `ReapingIsConservative`, `RunsEndOnce`, `ReplaysAreSound`: the types and every invariant of
  `execution_recovery`. `RunsFollowTheirLifecycle`: it implements `RunLifecycle`.
- `PlaceInv`: a call has a session exactly when it was made; calls in flight
  belong to live processes, lost calls to dead ones; a racing run is in
  `activeRuns` of a session whose storage is open. This is why a finalizer
  never meets closed storage.
- `SlotInv`, `ActiveInv`, `CountInv`: a slot is held in exactly three stages;
  `activeRuns` holds runs of that session that have not ended; while a session is
  open, `reservedSlots` is the number of holders. Without `SlotInv` nothing
  bounds the releases of a call, and without `ActiveInv` the entry a registration
  adds might be there already.
- `StoryInv`: for each stage of a call and each status of a row, what the caller
  may have been told. It is the relation recovery and clean-up must keep, it gives
  `ResultMatchesRecord` and `OnlyTheDeadAreInterrupted`, and it makes the refinement a
  matter of each step: recovery may move only rows whose starter was told nothing
  to the contrary.
- `EventInv` says what was emitted at each stage, for `OneFinalEvent`; `KeyInv` and `JoinInv`
  that a key names a run of its scope and request, and that a joined call was
  answered from the row or the result of such a run, for `ReplayIsSound`.

`FileLockProofs` makes no assumption for `LockIsWellFormed` (`[]TypeOK`) beyond those of
`FileLock`; it needs that only the task that holds the guard is in the stages behind it.
For exclusion it has two settings, and outside them the findings above show that
exclusion fails.

- `RegistryLockIsExclusive`, `RegistryLockNamesItsHolder` under `Calm`, the constants of
  `lock_mutex`: asynchronous tasks with `mtimeFirst` that release what they hold,
  nothing left over, no deaths. In `CalmInv`, `OwnerInv` says that the directory is there
  exactly while one task owns it, with what the owner has written so far; `QuietInv`
  that no reclaim has begun and nothing looks stale. Neither is inductive without
  the other: the owner keeps the lock fresh (`NeverOld`), and freshness keeps `StatLock`
  from sending anyone to the guard.
- `TakeoverIsExclusive`, `TakeoverNamesItsHolder` under `Takeover`: tasks of any kind meet what
  a dead holder left (a directory in any state, a lock file, or nothing), none of
  them dies or gives the lock back, and no guard was left. The invariant tells two
  times apart. Before anybody owns the lock (`UnownedInv`) the guard is a mutual exclusion
  of its own, and what is at the path is what was left, nothing, or the work of the
  one task that claims it. Afterwards (`OwnedInv`) the lock never looks stale under the guard,
  even to a task that broke in. All three hypotheses are needed: TLC finds two
  holders without any one of them.

`ClientProofs` is about what clients are told, in two parts. `RemoteInvocation`, for any calls: `CallersAreToldTheTruth` (`[]HonestOutcome`) and
`NoRunIsLeftBehind` (`[]AbandonedIsCancelled`). The invariant is per call: what the remote host has
done (`StartInv`), what a call has done by the place where it stands (`PlaceInv`), that
what it learnt is true and stays so (`NewsInv`), and what it has told (`ToldInv`). `NewsInv`
holds the reason why `close()` is safe: services are closed only when no call is left
that could take their refusal for an answer.

`ProcessOutput`, for any processes, clients, chunk sizes and limits: `EveryByteIsAccountedFor`
(`[]NothingLostSilently`), `WaitsAreNotMissed` (`[]NoLostWakeUp`), `TheLogIsAStream` (`RefinesStream`)
and `ReadersAreToldTheTruth` (the end of output is told from a closed log, its loss after
the process ended and its log was closed). Neither property is inductive: that a read
returns the bytes between two cursors needs every cursor to be a `Place`, before a byte
or at the tail, and records that are not empty (`Growing`), so that cursors and
positions have the same order. Trimming, appending and reading are lemmas about the
operators (`TrimmedPlace`, `AppendKeeps`, `ReadFromPlace`), which rest on least and greatest elements of
sets of numbers (`MinIs`, `MaxIs`). `AnswerKeeps` is the one step all readers share, whether an
append, the end of output or their own call answers them; it needs that everybody who
waits is answered whenever the log changes. `TableInv` says that a process leaves
the table only when it ended with its output closed, and that the manager of one that
ended has its drain timer, has closed the log, or was shut down; `DrainInv` that the driver
of one whose log is open has its own timer or a termination under way. `TheEndIsDue` states
both for clients: once a process has ended, nobody waits at its log without something
that will close it, and after `shutdown()` that is the driver. This is what `ReadingEnds`
rests on in every instance.

`ProcessManagerProofs`, for any finite set of starts, any requests and quota:
`RecordsAreTrue`, `NoChildIsForgotten`, `RequestsAreServedOnce`, `JoinedCallsAreServed`, `QuotaIsKept`, all
invariants of `process_start`. `ProcessInv` relates record, spawn, termination, timer and child of
a process at every await; `ReservedInv` says that one call works on a request until it settles
the reservation or `shutdown()` rejects all; `ReceiptInv` that a receipt is written once and
is what every answer says; `JoinInv` that who joined made the same request. Without
`ReservedInv` two starts could both find no receipt and each make a process.

`InputDispatcherProofs`, for any set of operations and any bound on the takeovers:
`InputIsSerial` (`[]SerialDelivery`) and two action properties, `NothingAfterUncertainInput` and
`FailureStands`. The queue is the end of what was pushed (`PushInv`, `QueueInv`), the operation in
hand is its head or has left it (`CurrentInv`), and what was delivered is before it
(`DeliveredInv`); `ControlInv`, `UnknownInv` and `ReceiptInv` say what losing control, an unknown outcome and
a final receipt exclude. `NothingIsForgotten` is what `Answered` rests on: while nobody takes control
away, an accepted operation waits for its receipt to be stored or is in the queue, and
a queue that is not empty has a turn of the loop under way or a microtask due (`ServedInv`).

`HostLifecycleProofs`, for any packages, actions, calls, limits and attempts to initialise:
`HostCoversUse` (`[]UseIsCovered`; its part on storages is about hosts of the factory, and lazy ones
until they are closed), `FactoryHostIsCovered` (for a host of the factory without the condition
on attempts) and `SlotsAreCounted` (`[]SubRunsCounted`). `Covered` ties the lock to the tasks of
initialisation, each runtime to whoever closes it, and each call in flight to a
runtime that is registered or being closed by a `close()` that waits for the run.

`EventSinkProofs`, for any finite set of runs, any subscribers and any limits: `LimitsHold`
(`[]TypeOK`) and `EventsComeInOrder` (`InOrderOnce`) for clients with either kind of cursor, and
`NoEventIsSkipped` (`[]NothingSkipped`) for clients that resume by sequence number; for the others
it is false, which `EventResume` shows. Order needs that what a subscriber has is not behind
its last sequence (`OrderInv`), and that an event id is at least as large as the place of
its event (`StampInv`), or a resume by id could go back. Completeness needs that there is no
gap before anything in the snapshot or the queue (`GapInv`), that whoever still listens
has or will get all (`LiveInv`), and that a cursor is an event the client has (`CursorInv`).
`ListenersMissNothing` states `LiveInv` by itself: nothing falls between the snapshot and the
registration of a subscriber, on which `FollowedToTheEnd` rests.

`ProjectTransactionProofs`, for any commands, dependencies and number of deaths:
`OneTransactionAtATime` (`[]TypeOK`), and, as long as no entry of the journal is torn,
`ChangesAreWhole` (`AllOrNothing`) and `SnapshotsAreWhole` (`SnapshotsAreGood`). `LockInv`: who works has the
lock, and who has it works or is dead. `JournalInv`: one entry at most is pending, it holds
the files of the last commit, and with none pending the files are those. `ProgressInv`:
who changes or restores files does so under a pending entry, and the files restored so
far are those of the snapshot. A step on the files would break `JournalInv` if
`ProgressInv` did not say that an entry is pending then.

Model-checked only:

- All liveness properties (`AbortedRunsEnd`, `CloseReturns`, `DeadDoNotBlock`, `Answered`, `StoppedDies`,
  `ReadingEnds`, `FollowedToTheEnd`, `CallsSettle`, `LockIsReturned`, `CallsAreAnswered`): fairness and `ENABLED`
  are beyond the prover. For three of them the invariant that leaves nobody waiting for
  nothing is proved: `TheEndIsDue`, `NothingIsForgotten`, `ListenersMissNothing`.
- What happens to a project once its journal is torn, and to a lock outside the two
  settings.

## 6. What is not modelled

- Pure translation and I/O: HTTP routes (other than streaming a run), client and
  profiles, command line parsing, MCP adapter, builder, doctor, schema validation
  and input parsing, platform adapters, SDK and test helpers. They keep no state
  between calls that two actors could disturb; most of the repository's lines
  are of this kind, which is why the map covers few of them.
- Cryptography of config values; the SQLite engine and the operating system's
  processes are external, and only what the code relies on is assumed.
- In modelled parts: child pids and session tokens of the data directory lock, reuse
  of pids, rows without a host pid, stored events (`sqlite-events.ts`), the
  drivers other than `NodeProcessDriver`, management ports and external runtimes of
  the host, visibility and bindings of the invocation policy.
- Planned (item 9 above): config key, IPC service, registry, migration of a storage
  and graph resolution. Their hazards are listed in `PROJECT.json`.
