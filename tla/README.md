# TLA+ models of the layered cognitive agent

This directory is a formal model of parts of the repository: TLA+ modules
translated from the Python source, TLC configurations that check them on small
instances, and theorems proved with TLAPS for every value of the constants.
Paths below are relative to the repository root; `W` stands for
`lca/plugins/transport/webserver`, `S` for
`lca/infrastructure/cli/services/kernel/supervisor` and `C` for
`lca/application/runtime/coordinator`.

## 1. Inventory of the system

| part | state it keeps | operations | talks to |
|---|---|---|---|
| run lifecycle carrier (`W/carrier/runs`, `W/handlers/runs/terminal`, `W/handlers/runs/session`) | one `RunSession` per run: status, task, pending question, resume cache, accepted answer keys | create, execute, pause, resume, cancel, terminalize, close | index, loop driver, disk artifacts, HTTP handlers |
| run session index (`W/.../session/index`) | sessions by run id, lease by request fingerprint | put, get, find in flight, clear, prune | commands, terminal hook |
| restart recovery (`W/carrier/runs/recovery.py`) | `resume_bundle.json` per run, one lock per run | write bundle, rebuild session | index, HTTP handlers |
| terminal artifacts (`W/read/runs`) | `journal.json`, `manifest.json` on disk | flush paused, materialize terminal | terminal hook |
| kernel supervisor (`S`) | program state, process, retry count, event queue, threads, state file | start, stop, restart, rehydrate | kernel process, CLI |
| gateway session pump (`C`, `lca/infrastructure/observability/stream`) | bounded observer queue, published sequence numbers, the translator's flags, which runs announced an end | register, replay, publish live, give up, synthesize terminal | run session, Redis stream, database |
| gateway socket and stream client (`W/.../streaming/agent_gateway.py`, `deploy/lobehub/patches/runtime/lcaGateway`) | position in the stream at both ends, frame queue, reconnect timer | resume, replay, go live, control frames, reconnect | Redis stream, run commands |
| live tail (`lca/infrastructure/observability/journal/stream`) | ring of frames, subscriber queues | publish, subscribe, close | journal, SSE clients |
| event bus and spine (`lca_kernel/events`) | subscriptions, append-only log | publish, persist, replay | every plugin |
| plugin host (`lca_kernel/boot`, `lca_kernel/runtime/hmr.py`) | active plugins, their services | activate, dispose, reload | event bus |
| runtime loop, plan graph (`lca/runtime`, `lca/framework/graph`) | traversal position, budgets, ports | step, branch, join | tools, models |
| write-behind (`lca/infrastructure/persistence`) | pending events, timer, write in progress, pause | enqueue, flush, dispose, fire | run session, disk |
| cron and routines (`lca/infrastructure/cron`, `lca/application/routine`) | jobs, last tick | tick, claim, run | run commands |
| sandbox pool, computer locks, device hub | leases and connections | acquire, release, reconnect | tools |
| MCP stdio, vault, memory consolidation, titles, blackboard | small local state | request/response, read/write | tools, runs |

Behaviours that are hard here:

* **asyncio interleaving.** Between two `await`s a handler or task runs alone;
  at every `await` anything else may run. A cancellation is delivered at the
  next `await` of its target, which may be one no handler surrounds.
* **two front ends, one run.** An answer, a second answer, and a cancel reach
  the same session in any order; the gates are plain status tests.
* **kernel restarts.** Memory is lost, `resume_bundle.json` and `journal.json`
  survive, and a run is rebuilt lazily by the next request.
* **partial failure.** Bundle writes and artifact flushes may fail.
* **threads.** The supervisor's caller, waiter, decider and readiness threads
  share a few fields; the kernel process outlives the CLI that started it. The
  write-behind buffers write on timer threads while the event loop flushes them.
* **telling what happens.** Events reach the browser through a log, a queue that
  drops, a stream that is trimmed and expires, and connections that break; each
  hop resumes from a position of its own. Publishes are retried and may have
  taken effect although they failed.

What makes each part correct: a run has one driver at a time, ends once, is
closed when it ended, and is never left "running" with nobody behind it; two
requests with one fingerprint share one run; a pause survives a restart; the
supervisor keeps one kernel of its own, notices its death, retries a bounded number of
times, and stops it for good. The stream of a run says what its log says, in
order and once, a tool result only when its state can be read, and tells the end;
a page gets all of it across reconnects. An event is on disk or still held by
somebody, and a successful flush says which. `PROJECT.json` lists the
hazards with their source lines and the properties that cover them.

## 2. Plan

| module | models | composed with |
|---|---|---|
| `RunLifecycle`, `RunLifecycleProperties` | lifecycle, index, commands and recovery in one module, since every hard behaviour of one involves the others | |
| `RunOwnership` | the abstract promise of the carrier: who works on a run | implemented by `RunLifecycle` |
| `KernelSupervisor` | the supervisor with its threads and the CLI | |
| `GatewayPump`, `GatewayPumpProperties` | driver log, registration, pump, translator, watchdog, Redis writes | the status changes of `RunLifecycle`, reduced to what the pump can see |
| `GatewaySocket` | the stream's readers: gateway session and browser client | the stream `GatewayPump` writes, reduced to ids and kinds |
| `WriteBehind` | the spine buffer of a run and its threads | |
| `MC*` | model values and symmetry for TLC | |
| `*Proofs` | theorems and their lemmas | |

Next, in this order: the live tail (ring, eviction, heartbeat; its hazards are
already listed); one module for a restart of the pump and the socket together;
the event bus with its persistence; cron; the sandbox pool. A theorem still worth
having: the supervisor's file as the next CLI finds it. New runs should replace
existing ones of the same kind, so that the number of runs stays small.

## 3. RunLifecycle

### State and code

A session `<<r, n>>` is one `RunSession` object of run `r`; `n = 0` is built by
`create_and_dispatch`, `n > 0` by `restore_waiting_run`. The questions a run asks
are numbered; the resume task for the answer to question `a` is task `a`, the
execute task is task 0, and `Closer` is the cancel handler when it terminalizes
by itself. `pc` says where each worker is suspended:

| `pc` | suspended in |
|---|---|
| `ready` | created, before its first step |
| `drive` | the loop driver (`driver.execute`, `runnable.resume`) |
| `pause` | `persist_waiting_projection` in `_finish_or_pause` |
| `final` | the run finalizers in `terminalize` |
| `closing` | the terminal projection and the export flush |
| `done`, `killed` | ended; `killed` without finishing the hook it was in |

| action | code |
|---|---|
| `Create`, `Coalesce` | `RegistryRunCommands.create_and_dispatch` with `prune` and `find_inflight_run` |
| `Start`, `Resume` | first steps of `RunLifecycleCoordinator.execute` and `resume` |
| `DriverAsks`, `DriverEnds`, `DriverCancelled`, `DriverAbsorbs` | the ways the driver's await ends, up to the next await |
| `TaskKilled` | a cancellation outside every handler |
| `PauseSettles` | the rest of `_finish_or_pause`: bundle, paused artifacts, lease |
| `Materialize`, `Close` | `terminalize` after its first and its last awaits |
| `Cancel`, `Answer` | `RegistryRunCommands.cancel`, `resume_approval` |
| `RestoreBegin`, `RestoreEnd`, `RestoreFails` | `restore_waiting_run` under its lock |
| `Crash` | the kernel process dies; only `bundle` and `artifact` survive |

Abstractions. The question stands for the bundle and the approval request. Which
answers carry the same idempotency key is a parameter, `KeyOf`: the resume handler
makes the key of run, tool and parent message (`command_endpoints.py:785`), so two
questions may share one, and the answer to the second is then told it was a repeat
and resumes nothing. The front end of the other route chooses its key. What
the driver computes is free: it may ask (with a request that has no snapshot, no
`approval_id`, or both), succeed, fail or raise, and be cancelled. Both
routes that answer require a key, so the branch of `resume_approval` without one
is left out. A run that is not in memory cannot be canceled: `cancel` answers
404 and changes nothing. Time in
`prune` is a free choice of the stamped sessions that have expired, and the
order of `closed_at` among stamped sessions is free. The two awaits at the end
of `terminalize` are one. The done callback of the execute task runs with the
end of the task. Loading the bundle and taking the recovery lock are one step.
Left out: branches no caller can reach (a task whose session is not indexed at
its first step, `resume` without a cache), `validate_durable_resume`, which does
nothing with the bindings the carrier builds, and receipts and log lines.

### The abstract specification

`RunOwnership` knows two things of a run: its state (none, working, waiting,
over) and the set of carriers that run its agent loop. `Begin`, `Ask`, `Answer`,
`End`, `Rebuild` and `Crash` change them together, so that a working run has
exactly one carrier and any other none. `OwnedByOne` is this specification under
the mapping `RunState`, `RunCarriers` of `RunLifecycleProperties`: a run is what
its best session is, and a task is a carrier unless a cancellation is about to
reach it. Checked by `RunAnswers`, proved in `RunOwnershipProofs`. `Rebuild`
starts from any run that is over, ended ones included: that is what the code
does (section 8).

### Properties and runs

Bounds and what each run shows:

| run | bounds | distinct states | question |
|---|---|---|---|
| `RunShared` | 2 runs with one fingerprint, 1 client, 1 question, 1 rebuild, 1 retained session, symmetric runs | 758 000 | the lease; the inductive invariant |
| `RunAnswers` | 1 run, 2 clients, one with one key for both questions, 2 questions, 1 rebuild, 1 restart, 0 retained | 117 000 | answers, cancels and restarts in every order; progress |
| `RunFaults` | 1 run, 1 client, 2 questions, 1 rebuild, 1 restart, all faults | 150 000 | what holds in spite of failing writes and absorbed cancellations |

Two questions are needed for an answer to be late and for a bundle to be stale,
two clients for answers to compete, one rebuild and one restart for recovery,
two runs for the lease, and a retention limit of 0 or 1 for eviction while the
terminal hook is running. More of each repeats these situations. `RunShared`
has no restart: `evicted, then rebuilt` already puts two sessions of a run in
memory, which a restart cannot.

* `SoleDriver` - at most one task drives a run, over all its sessions.
* `NoOrphanRun` - pending or running means a task will drive or drives it.
* `TerminalizedOnce` - the terminal hook runs in one worker, never after close.
* `EndedRunIsClosed`, `EndedRunCloses` - completed and failed runs are closed.
* `CancelWins` - a requested cancel is never followed by completed or failed.
* `TerminalIsFinal` - a terminal status is left only by the kernel's death.
* `AnsweredOnce` - a question resumes its session at most once: a second answer, late
  or under another key, never starts its task again.
* `SettledPauseHasBundle` - a settled pause is what a restart brings back.
* `SingleFlight` - one fingerprint, one run in flight before its first question,
  unless a rebuilt session has taken the fingerprint's lease.
* `OwnedByOne` - the refinement of `RunOwnership`.
* `InFlightSettles` - a run in flight asks, ends, or dies with the kernel.
* `IInv` - the inductive invariant of the proofs (section 9).

`EndedRunIsClosed`, `EndedRunCloses` and `SettledPauseHasBundle` are checked
without failing writes: a flush that raises leaves the terminal hook before
`close`, and a bundle write that fails leaves the previous bundle in place.
`SoleDriver` and `TerminalIsFinal` need that no driver absorbs a
`CancelledError`: an absorbed one lets a canceled run pause and be resumed.
`RunFaults` turns all three faults on and checks what is left.

Deadlock is not checked: when every run has ended, the bounds are used up and
nothing is left to do, which is a proper end.

### Fairness

`FairSpec` adds weak fairness of the steps the event loop takes by itself
(`Loop`), of the driver of each task, and of a recovery in progress. An asyncio
loop runs every ready task; the database, finalizer and exporter awaits end by
themselves or by an exception; a driver has a step budget and its model and tool
calls have timeouts. Requests and restarts are never fair: nobody has to answer.

## 4. KernelSupervisor

`script` holds the calls still to be made on the supervisor, by one CLI process
after another (`reopen` is the end of one and the begin of the next). `caller`
is the position of the calling thread in `start` or `stop`; `decider`,
`readiness` and `waiter[p]` are the positions of the other threads; `life` and
`code` describe the kernel processes in the order they were spawned; `foreign` are
those whose parent, an earlier CLI process, has ended: the supervisor knows such a
process by its `_PhantomProc` only, and the others are its children (`Children`).

| action | code |
|---|---|
| `StartSpawns`, `StartRefused`, `StartMarks`, `StartThreads` | `start`, `_spawn_threads` |
| `StopCalled` ... `StopClears` | `stop`, one action per statement group another thread can come between |
| `Sweep`, `Reopen` | `_kill_orphans`; exit of the CLI and `_hydrate_from_state_file` |
| `WaiterBegins`, `WaiterReports` | `_waiter_loop` |
| `DeciderChecks` ... `DeciderMarks` | `_decider_loop`, `decide_restart`, `_apply_decision`, `_respawn` |
| `ReadinessChecks`, `ReadinessProbes`, `ReadinessMarks` | `_readiness_loop` |
| `Exits` | the kernel process (external): it may exit at any time, with any code |

Abstractions. Events other than `died` are told apart from deaths only, and a
row of them counts once. `Popen` and the assignment of `_proc` in `start` are one
step. The state file is written with the transition. The decider's wait for an
event and its backoff end by themselves or by the stop event. The join in `stop`
does not time out, since each thread looks at the stop event more often than
its limit of two seconds. The health probe is answered by any living kernel,
because it asks the port and not the process. Threads of a CLI process end with
it. `wait_ready`, `status`, `events` and log files change nothing the
properties speak of.

| run | bounds | distinct states | question |
|---|---|---|---|
| `SupervisorUse` | 5 processes, 2 retries, `autorestart` off, `Popen` may fail; scripts `start, stop`; `cli_start, reopen, stop, sweep, reopen, cli_start`; and `cli_start, reopen, stop, start, reopen, stop, sweep`, where the second command is `restart` | 23 000 | everything below |

Five processes are more than a first spawn, two retries and a second start can
use; two retries reach each of retry, exhausted budget and clean exit.

* `OneChild` - never two living kernel processes among the children of one CLI
  process, its `restart` included. Over all processes there may be two: `stop` leaves
  an adopted kernel alive (section 8).
* `RetriesBounded` - the retry count stays within `startretries`.
* `StopEndsChild`, `StopReturns` - stop kills a child that ignores SIGTERM, and
  returns.
* `NoSpawnAfterStop` - after the join no thread spawns a process.
* `DeathIsHandled` - the death of a supervised child leads to a retry, a final
  state or a stop.

`FairSpec` assumes that threads are scheduled; nobody has to call and no kernel
has to exit. Deadlock is not checked because a script ends.

## 5. GatewayPump

How the events of a run's `Session` get on the Redis stream that browsers read.
All pumps and all drivers run on one event loop; an action is the code between
two suspension points. An event is named by what the translator makes of it:
`start`, `token`, `calls`, `end`, `error` of a streaming model call, `quiet` for
the begin of one that does not stream, `header` for the whole answer, `tool` for
a tool result, `began` for a tool that begins, `bare` for a result without a state to
write, and the checkpoints `pause`, `completed`, `failed`.

| variables | code |
|---|---|
| `log`, `queue`, `dropped` | `Session._log`, the pump's `asyncio.Queue`, what its observer suppressed |
| `pc`, `pos`, `end`, `seen` | where `_pump_gateway_session` is: replaying a copy of the log, waiting, draining, in its `finally` clause, synthesizing, done, or dead |
| `todo`, `tries`, `gaveUp` | the rest of one `handle_stamped`, the attempt of the publish in hand |
| `streamed`, `tools` | the flags of the one `EventTranslator` of all runs |
| `natural` | `_natural_terminal_published` |
| `stream` | the run's Redis stream |
| `turns`, `written` | history: the events the translator was given, in the order of their turns over all runs; the tool events whose state write returned |

| action | code |
|---|---|
| `Talks`, `Returns`, `Raises`, `Unwinds` | the driver: model adapter, runtime loop, error path, cancellation |
| `Settles`, `Cancels`, `Resumes` | the carrier, as `RunLifecycle` has it, reduced to status and error |
| `Post`, `Registers`, `RegisterFails` | `create_run` with `register_gateway_run`; a repeated post coalesces and registers again |
| `Begin`, `ReplayNext`, `ReplayEnds`, `Take`, `Timeout`, `Drained`, `FinallyDrained` | `_pump_gateway_session` |
| `Synthesize` | `synthesize_terminal_if_pending` |
| `Writes`, `Publishes`, `WriteFails`, `PublishFails` | the awaits of `handle_stamped` and the retries of `LcaStreamEventLog.publish`; a failed attempt may have added the entry |

Abstractions. The half second of `wait_for` may be over whenever the queue is
empty. The flags are folded when the handler begins, not after the tool state
write; an event that has a write neither reads nor changes them. A write says that
`write` of the tool state store returned, not that a row holds the state: its UPDATE
may match no row, and without a database the Noop store writes nothing. A result
whose projected state is empty, or that has no id, and a denied tool have no write
and are announced without one (`bare`). The checkpoint of a canceled run is left
out: `terminal_checkpoint_status` has a name for it, but nothing returns that status
to the loop, and a cancellation is raised again before the checkpoint
(`runtime_loop.py:568-577`). Also left out are a second pump of a rebuilt session
(there is none), the artifact closure, the metadata row and the tail fallback of
sessions without an event log. A call that ends with outcome `timeout` is an `end`, as in
the code, whose set of failure outcomes does not hold it. `_run_is_terminal`
looks at `_closed` too, which is set only when the status is terminal.

| run | bounds | distinct states | question |
|---|---|---|---|
| `PumpTells` | 1 run, 4 driver events of a streaming call, queue of 2, posted twice, nothing fails | 451 000 | what the stream says of the log, and that the end is told |
| `PumpFaults` | 1 run, 2 driver events of every kind, queue of 1, 2 attempts, 2 failures of Redis or the database | 437 000 | what retries and giving up leave intact |

Four events are a call with a delta, an end and a header, or two calls after each
other; a queue of two overflows during a replay of one. Two attempts and two
failures reach both a retry that succeeds and a publish that is given up.
`PumpTells` leaves `quiet` out: it has no envelopes, and the flags it resets show
only in an end or a header behind a call with deltas and the `quiet`, five events in
all. `PumpFaults` has it, as every other kind.

* `StreamIsFold` - every entry is one the translator makes of an event of the run in
  the fold of the events of all runs, none that belongs behind it came before it, and
  as long as no publish was given up none that belongs before it is missing: but for
  repeated attempts, the stream is then a prefix of the run's part of that fold.
* `TellsTheLog` - whatever fails, the stream says nothing but the run's part of the
  fold, and a pump that waits with nothing in hand has said all of it.
* `PureFold` - the same with the fold of the run's own log, as the translator's
  comment has it. It does not hold with two runs (section 8).
* `NoEventLost` - no event falls between the copied log and the observer.
* `ToolStateFirst` - what the stream says of a tool event that has a state is said
  after the write of the state returned.
* `EndIsToldOnce`, `EndIsTold` - the end is announced once, and announced.
* `PumpEnds` - the pump of a run that is over ends.

`EndIsTold` leaves out what the code does not do: a run that raises after a pause,
a canceled run, and an end the observer dropped. Fairness: the driver, the
registration and the pump of each run go on (one event loop, clients of Redis and
the database that answer or time out); nobody has to post, cancel or answer.

## 6. GatewaySocket

From the Redis stream to the page: one `LcaAgentStreamClient` and the sessions
`LcaAgentGateway` serves it one after the other. `stream` holds every entry ever
added, `first` the oldest Redis still has; `conn` is where the session is;
`last` is the client's `lastEventId`, `upto` the server's `replayed_upto`,
`cursor` the id of the next XREAD; `got` is what the page was sent.

| action | code |
|---|---|
| `Publish`, `Expire`, `Elsewhere` | what the run, time and HTTP requests do to the stream and the run |
| `NewClient`, `Reconnect`, `Drop`, `ZombieCloses`, `Deliver` | the client: constructor and `connect`, reconnect timer, broken socket or missed heartbeats, the late `onclose`, `handleFrame` |
| `ReadHistory`, `Replay`, `EndReplay` | `_run_session` after the resume frame |
| `Read`, `Forward` | the XREAD task and the live loop |
| `ToolResult`, `Interrupt` | `_handle_control_frame` |

Abstractions. An entry id is a pair of numbers; every millisecond has the same
number of digits, so that only the second part can be compared wrongly. The
trim of XADD may remove everything beyond the window or nothing. What the pump had
queued may be published after a cancel. A socket that a late close event closes has
a late close event of its own; at most `MaxLate` follow one another. A key expires
only when a session has read what there is, two hours after the last publish.
Authentication, the status of a canceled run (the watchdog makes up no end, section 8)
and two tabs on one run are left out; the client always asks for the status.

| run | bounds | distinct states | question |
|---|---|---|---|
| `SocketSessions` | 4 entries, 2 per millisecond, 2 client objects, 1 broken connection, 2 late close events, history of 3, frame queue of 2 | 1 674 000 | everything below |

Four entries against a window of three trim the oldest; two client objects are a
reload or a resumption; one broken connection with a late close event and the one
that follows from it reaches three reconnects.

* `NoRedelivery`, `NoGap` - the page is sent the stream in order, nothing twice,
  and nothing within the server's reach is skipped.
* `OverMeansTold` - the client ends a session only after an entry that ends it.
* `StatusIsTrue` - `resume_complete` says completed only of a run that ended.
* `EndIsSeen` - a client that has not ended its session comes to know the end.

Both ends exempt a stream that expired. Fairness: the gateway's tasks go on and
the reconnect timer fires; the page, the run and the network are free.

## 7. WriteBehind

How the events of a run reach `<run_id>.spine.jsonl`. Append, flush and dispose
happen on the thread of the event loop, one at a time (`owner`); every timer is
a thread (`timer`), at one of the places where it has let go of the buffer's
lock. `current` is the registry's entry for the run; a session rebuilt after
dispose makes a second buffer for the same file.

| action | code |
|---|---|
| `Enqueue` | `Session.append` up to `WriteBehindBuffer.enqueue` |
| `Flush`, `OwnerWrites`, `OwnerRefused`, `OwnerPutsBack` | `flush` and `_write_batch`; `vouched` changes when `Session.flush` reports success |
| `Dispose`, `CloseSink` | `dispose_run`, `dispose`, `JsonlFileSink.close` |
| `Fires`, `Takes`, `TimerWrites`, `TimerRefused`, `TimerPutsBack`, `Releases`, `Rearms` | `_on_timer_fired` |

Abstractions. One of the two buffers of a run; the exception lines use the same
class and another file. `append_batch` is one step, whose failure leaves all its
lines or none in the file. The registry sets no size limit, so the backpressure
policies never act. The timer's window may be over at any time. A timer cancelled
before it fires is gone; cancelling one that has fired does nothing, as with
`threading.Timer`.

| run | bounds | distinct states | question |
|---|---|---|---|
| `SpineWrites` | 2 buffers, 2 timer threads, 3 events, 2 refused writes | 393 000 | everything below |

Two timers write at once when a failed one clears the mark of another; three
events are one in each of two hands and one pending; two refusals hit a timer
and a flush, or the retry of a batch. An event is not appended when no timer
thread is free, which bounds the threads.

* `KeptUntilWritten` - an event is on disk, in a writer's hands or pending.
* `CheckpointHolds` - what a flush that reports success left off the disk is in a
  timer's hands, set back by a timer that failed, or of a closed session.
* `WrittenOnce` - until the disk refuses a write, no event has two lines in the
  file; a write that failed after reaching the disk is repeated by the retry.
* `EventuallyWritten` - without refusals, every event reaches the disk or its
  session is closed first.

Fairness: a call in progress goes on and timer threads are scheduled; nobody has
to append, flush or close.

## 8. Where the code and its comments disagree

Each of these has a run that finds the violation, with the shortest trace to it:

| run | disagreement |
|---|---|
| `BugLateAnswer` | the loser of a race for one question resumes the next one |
| `BugCanceledStream` | the watchdog does not know the status canceled, so the stream of a run canceled at work has no end |
| `BugSharedTranslator` | the "pure fold" keeps flags that all runs share |
| `BugFlushReturns` | flush does not wait for the write in progress it says it waits for |

Met while modelling, seen in traces of earlier or changed configurations, and
recorded as hazards with a note instead of a run:

* a cancel that reaches a task in `ready` or `pause` leaves a canceled run
  unclosed; a late pause flush overwrites a terminal `journal.json`;
* the resume bundle outlives the run, which can be rebuilt as a paused one, and
  recorded answer keys do not survive the restart the question survives;
* a rebuilt session's `put` takes the lease of a run in flight;
* `stop` neither waits for nor kills a process of an earlier CLI, although its
  docstring (`supervisor.py:167-172`) says that it falls back to SIGKILL and tolerates
  `_PhantomProc`: a kernel that is slow to end or ignores SIGTERM runs on beside the
  one `restart` starts. Two starts of one object in one process, which no command
  makes, leave two children. A late readiness mark overwrites `FATAL` or `BACKOFF`;
* an answer that shares the key of an earlier one is told it was accepted and is
  forgotten;
* a run that paused once and fails later gets no end from the watchdog;
* ids are compared as strings in the replay: with Radix 3, PerMs 4 and five
  entries `NoGap` fails;
* a page that reloads after a resumption meets the old pause and stops there; an
  expired stream is reported completed;
* dispose closes the sink under a timer that is writing, whose batch is lost.

## 9. Proofs

Eight modules hold the theorems, checked by `tlapm` with Z3, Zenon and LS4. Every
theorem is for all values of the constants, with every fault of its module as
often as its bound allows, except where the last column names a condition.

| theorem | says | assumes |
|---|---|---|
| `RunLifecycleProofs!TypeCorrect` | `[]TypeOK` | |
| `RunLifecycleProofs!OwnershipHolds` | `[]IInv` | `NoSwallow` |
| `RunLifecycleProofs!OneDriver` | `[]SoleDriver` | `NoSwallow` |
| `RunLifecycleProofs!NoOrphans` | `[]NoOrphanRun` | |
| `RunLifecycleProofs!OutcomeStays` | `TerminalIsFinal` | `NoSwallow` |
| `RunOwnershipProofs!CarrierImplementsOwnership` | `OwnedByOne` | `NoSwallow` |
| `RunFlightProofs!RequestInFlightOnce` | `[]SingleFlight` | |
| `RunEndingProofs!CancellationWins`, `HookRunsOnce`, `QuestionResumesOnce` | `[]CancelWins`, `[]TerminalizedOnce`, `AnsweredOnce` | |
| `RunEndingProofs!EndedIsClosed` | `[]EndedRunIsClosed` | `FlushHolds` |
| `RunEndingProofs!PauseSurvives` | `[]SettledPauseHasBundle` | `BundleHolds` |
| `KernelSupervisorProofs!TypeCorrect`, `RetryBudget`, `ChildEnds`, `StoppedStaysStopped` | `[]TypeOK`, `[]RetriesBounded`, `[]StopEndsChild`, `NoSpawnAfterStop` | |
| `KernelSupervisorProofs!OneChildAtATime` | `[]OneChild` | `UsedProperly` |
| `GatewayPumpProofs!TypeCorrect`, `NothingFallsBetween`, `StateBeforeAnnouncement`, `OneEndAnnounced` | `[]TypeOK`, `[]NoEventLost`, `[]ToolStateFirst`, `[]EndIsToldOnce` | |
| `GatewayPumpProofs!StreamFollowsLog`, `StreamTellsTheLog`, `StreamFoldsLog` | `[]ToldInOrder`, `[]TellsTheLog`, `[]StreamIsFold` | |
| `GatewaySocketProofs!TypeCorrect`, `StatusIsNeverWrong` | `[]TypeOK`, `[]StatusIsTrue` | |
| `GatewaySocketProofs!NothingIsRedelivered`, `NothingIsSkipped`, `OverOnlyWhenTold` | `[]NoRedelivery`, `[]NoGap`, `[]OverMeansTold` | `FewPerMs` |
| `WriteBehindProofs!TypeCorrect`, `NothingDropped`, `FlushVouches` | `[]TypeOK`, `[]KeptUntilWritten`, `CheckpointHolds` | |
| `WriteBehindProofs!NothingRepeated` | `[]WrittenOnce` | |

The conditions:

* `NoSwallow`: no driver absorbs a cancellation (`llm_stream_activity.py:70` can,
  and then `SoleDriver` and `TerminalIsFinal` fail).
* `FlushHolds`, `BundleHolds`: no flush of the artifacts, no write of the resume
  bundle fails. The code lets both fail and goes on (section 3).
* `UsedProperly`: a script starts each supervisor object at most once. Every command
  of the CLI does, since each runs in a process and with an object of its own;
  `restart` is a stop and a start of an object that adopted its kernel.
* `FewPerMs`: `PerMs <= Radix`, at most as many entries in a millisecond as one
  digit counts, since the replay compares ids as strings (section 8).

*Run lifecycle.* That at most one task drives a run depends on who may start
one: an answer needs the status `waiting_input`, which must exclude a task at
work (`Placed`: a task at work is the current one of a session that is in flight
or canceled). A canceled session may still have a task at work, but then a
cancellation is about to reach it (`Marked`, `Owned`), which is where absorbed
cancellations break the argument. Over several sessions of a run, a session that
is not over is in the index, the index has one session per run, and a run is
rebuilt only when it has none (`Single`). `IInv == Safe /\ Marked /\ Owned /\
Single`; `Safe` is inductive whatever the faults, the rest without absorbed
cancellations. `RunShared` checks `IInv` with TLC.

*No orphans.* `NoOrphanRun` survives absorbed cancellations, so `IInv` is not the
invariant that carries it. `Manned` is: a session in flight has its current task at
work; a current task a cancellation is about to reach belongs to a session that is
already `canceled`; and the task of a question still to come, or waited on, is
untouched (`ToCome`), so that an answer never starts a task with an old cancellation
on its way to it. The last needs that no session, bundle or recovery names a
question the run has not asked (`AskedBefore`). `SafeManned` is inductive with every
fault.

*Refinement.* A step changes the status of one session at most, in one of six
ways, or is a crash (`StepKinds`). With `IInv` a run has one session that is not
over and that session's current task is the one that drives it, so each way is a
step of the abstract run or none.

*Ending.* `CancelWins` is inductive with `Safe`. `TerminalizedOnce` follows from
`EndsOnce`: whoever is in the terminal hook of a session is there alone, and a
closed session stays over. `EndedRunIsClosed` follows from `Closes`: as long as a
session that completed or failed is not closed, a worker is in its hook or about to
enter it; a flush that fails is the one way out. `AnsweredOnce` follows from
`SafeManned`: an answer is the one step that makes a resume task ready, and the task
of the question a session waits on is untouched; the keys play no part in it.
`SettledPauseHasBundle` follows from `Backed`: the question a session waits on is
in the bundle, or the session has not come past its write, or another session of
the run is still there to overwrite it; and who is being rebuilt gets the question
the disk holds. None of these uses the absence of absorbed cancellations.

*One request, one run.* Until a run has asked its first question, and unless a
rebuilt session took the lease of its request, the lease names it (`Leased`,
`Asked`): each release of a lease is for a run that asked, ended or was rebuilt. A
prune keeps it because the run's first session is indexed and no other session of
the run is (`Entered`), and a canceled session does not come back into flight
through its execute task, which the cancellation reaches before its first step
(`Scheduled`). With `SafeManned` this needs nothing of the drivers.

*Supervisor.* `IInv == Shape /\ Budget /\ Child`. The budget needs that a decided
retry has room (`RetryLeft`) and that the state file is within the budget, since
the next CLI reads the count back (`FileInBudget`). The end of the child needs
that a process somebody refers to has been spawned, so that a fresh process is
never the one being stopped, and that a phantom never has a thread.
`NoSpawnAfterStop` follows from `Joined`: past the join the decider is gone.
`OneChild` needs to know who may cause the next spawn: `Sole` says that at most one
party is about to (a start in its middle, a respawned process without a waiter, a
decider at work, a waiter that will tell a death, a death in the queue), that no
process but the one this party is about may be alive, and `Remaining` that no call
still to come starts this object again.

*Pump.* `Shape` adds to the types that the queue names entries of the log. `Kept`
gives `NoEventLost`: a pump that has not begun has its whole log to replay.
`Paired` gives `ToolStateFirst`: what the handler has in hand of an event with a state
is written already, or its write stands right before it. `Ended` gives `EndIsToldOnce`:
a log has one concluding event and nothing behind it, its end marks the run, and
the watchdog asks for the mark. `Ordered` (queue and drops are behind what was
handled, the replay behind neither) makes the next event handled the next of the
log, from which `ToldInOrder` follows for every run. `Turned` ties the flags to
the turns: they are the fold of the events of all runs in the order in which the
translator was given them, and the turns of a run are the events it handled. So the
work of an event is its part of that fold, and later turns of any run leave it as it is
(`Renders`): what is on the stream or in hand is of the fold, and nothing of a handled
event is missing until a publish is given up, after which the pump does not wait
(`Gapless`, `Abandons`). For `StreamIsFold`, stream and work together are in the order
of the fold (`InOrder`) and complete up to each entry (`NoGap`): work is only ever
taken from its front, and the work of the next event comes when nothing is in hand.
None of this needs to know how many runs there are.

*Socket.* `Written`: the stream is in the order of its ids, no two alike, and
nothing follows the end of the run. `Position`: what waits in the history and then
in the frame queue continues what the page was sent, in the order of the stream and
with no hole but what was trimmed; the position each end resumes from is one of
these. Only `Skip`, in the replay, compares ids as strings; under `FewPerMs` that
is the order of the positions (`IdOrder`).

*Write-behind.* `Hands`: who holds a batch is in the middle of a write. `Entry`: a
buffer outside the registry is closed or not yet made. `Draining`: while the owner
writes a flushed batch, only a failed timer puts events back. `KeptUntilWritten`
is inductive with `Hands`; `CheckpointHolds` follows from all four at the two
steps where a flush reports success. `WrittenOnce` follows from `Once`: the file, the
event loop, the timers and the buffers are places that hold batches (`Holding`), and
no event is in two of them or twice in one. A step adds a new event to a buffer
(`Added`), moves one batch from a place to another (`Moved`) or leaves the rest as it
is (`Rest`).

Only model-checked: all liveness (`InFlightSettles`, `EndedRunCloses`,
`DeathIsHandled`, `StopReturns`, `EndIsTold`, `PumpEnds`, `EndIsSeen`,
`EventuallyWritten`), which needs fairness and `ENABLED`. Every other property of a
passing run is a theorem, under the condition in its row.

## 10. Not modelled

The rest of the inventory, for the reasons given with each component in
`PROJECT.json`: some have no module yet, some are pure input and output, some are
covered by the free outcome of the driver. The other TypeScript clients and
front-end patches, vendored packages, prompt assets and documents are outside
the model; they are most of the repository's lines.

## 11. Running

    tlc -workers 2 -config RunAnswers.cfg MCRunLifecycle.tla
    tlc -workers 2 -config SupervisorUse.cfg MCKernelSupervisor.tla
    tlc -workers 2 -config PumpTells.cfg MCGatewayPump.tla
    tlc -workers 2 -config SocketSessions.cfg MCGatewaySocket.tla
    tlc -workers 2 -config SpineWrites.cfg MCWriteBehind.tla
    tlapm RunLifecycleProofs.tla

and likewise for the other configurations and the other `*Proofs` modules.

Every operator whose comment begins with "Mutant" is a plausible defect of the
definition it precedes; substituting it makes TLC find the property that
`PROJECT.json` names violated.
