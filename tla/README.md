# luicode: a verification project

luicode is a local proxy between coding agents (Claude Code, Codex, Cursor and
others) and model providers, with chat bots (Telegram, Discord) and an own code
session service on top.  It is one asyncio process with a few threads.  This
directory holds TLA+ modules translated from its source, configurations for TLC
and proofs for TLAPS.  Paths below are relative to `src/src/luicode/`.

## 1. Inventory

One event loop runs everything unless a thread is named.  "Hard" says what makes
the component difficult; "correct" what has to hold.

| Component | State | Operations | Hard | Correct |
|---|---|---|---|---|
| Provider admission (`providers/admission.py`, `core/rate_limit.py`) | per provider: sliding window, semaphore, recovery episode (leader, waiters, probe flag, deadlines), executions with a retry budget | `open_attempt`, `accept`, `correct`, `fail`, `aclose`, `run_call` | many operations suspended between gate, quota and slot; cancellation at each await; late outcomes | one probe per episode, nobody sleeps forever, no slot lost, budget respected |
| Provider transports (`providers/openai_chat`, `anthropic_messages`, `openai_responses`, `openai_codex`, ...) | one logical operation: attempt scope, stream, holdback | open, correct, stream, retry, close | failures before and after the first byte, cleanup after cancellation | an operation ends exactly once, nothing is replayed after commitment |
| Stream recovery (`providers/stream_recovery.py`, `request_recovery.py`) | holdback buffer, commit flag, request adaptations tried | push, commit, discard, retry, continue | duplicate prefix, retry after commit | bytes once committed are never repeated; an adaptation is tried once |
| Fallback execution (`application/execution.py`) | chain of models, commitment, progress deadline | stream with fallback | failure before or after the first committed event | no switch after commitment, every candidate tried at most once |
| Provider generations (`runtime/provider_manager.py`, `providers/runtime/runtime.py`) | current generation, retiring generations with leases, close state | lease, release, replace, close | requests in flight while the configuration changes | a leased provider is never closed under its lease; every retired generation is closed |
| Code sessions (`application/code_sessions`, `runtime/code_sessions_sqlite.py`, `runtime/codex_app_server.py`, `runtime/codex_protocol.py`) | sessions with turn, epoch, receipts, event log; the harness process | prompt, interrupt, delete, reconcile, harness events | commands shielded from their caller, checks repeated after `await prepare`, events of older generations, storage failure | receipts are idempotent, no event of an old turn is applied, the log is what subscribers see |
| Session events (`application/session_events.py`) | subscribers' cursors over a bounded log | publish, subscribe, replay | slow subscribers, gaps | a subscriber sees a gapless suffix or is told to start again |
| Messaging conversation (`messaging/trees`, `messaging/workflow.py`, `turn_intake.py`, `node_runner.py`) | trees of prompts, queue and claim per tree, task slots, stop/clear generations, snapshots | receive, admit, run, stop, clear, close, restore | cancellation before a task starts, detached claims, drain timeout, snapshots saved late | one runner per tree, cancelled work stays cancelled, snapshots restorable and exact after close |
| Messaging delivery (`messaging/limiter.py`, `platforms/outbox.py`) | queue of deduplicated operations, worker, futures, flood pause | enqueue, fire-and-forget with retries, shutdown | compaction while the worker holds an older version, shutdown with waiting callers | every caller's future ends, updates of one message are delivered in order |
| Session persistence (`messaging/session/persistence.py`, `store.py`) | file, debounce timer, generation, dirty flag; timer threads | schedule, flush, authoritative write | timer thread against the event loop's thread; failure of a write; crash | the file never goes back to an older state, a clean flag means saved |
| Voice (`messaging/voice.py`, `platforms/voice_flow.py`) | pending transcriptions with claims | register, transcribe, cancel, deliver | cancellation against completion | a cancelled note is not delivered |
| Usage accounting (`application/usage`, `runtime/usage_sqlite.py`) | bounded queue, writer task, database | record, flush, close | overload, close during a batch | accepted records are written or counted as dropped |
| Request lifetime (`api/request_lifetime.py`, `application/readiness.py`) | count of active requests, draining flag | enter, leave, drain | drain against a new request | drain returns only when nothing is active |
| Application runtime (`runtime/application.py`, `runtime/bootstrap.py`) | services and their close state | start, restart, messaging cleanup, close | partial failure of start or close, retried close | resources are released in dependency order |
| Managed CLI (`cli/managed`) | pool of sessions and processes, temporary and real ids | get or create, register id, remove, stop all | process exit against stop | no process outlives its session |
| Browser tools (`runtime/browser_tools`, `application/browser_agent`) | CDP sessions, snapshots, staleness | actions, snapshot, reconnect | stale element references | an action never hits a stale element |
| Accounts (`providers/openai_codex/auth.py`, `providers/github_copilot/auth.py`, `core/interprocess_lock.py`) | tokens on disk, refresh in flight, lock file | login, refresh, disconnect | concurrent refresh by threads and processes | a refresh token is used once |
| Protocol conversion (`core/anthropic`, `core/openai_responses`, `core/history_replay.py`, provider profiles) | per stream: blocks, tool calls, indices | translate requests and events | interleaved blocks, truncated streams | a well-formed stream of events |
| Configuration, admin, harness integration (`config`, `api/admin_*`, `harnesses`) | settings files | load, validate, apply | atomic file replacement | no partial settings |

Interactions.  HTTP handlers in `api` route a request (`application/routing.py`),
lease a provider generation, and stream through fallback execution; each
candidate is one logical operation on the provider's admission controller.
Messaging platforms hand messages to the workflow, which admits prompts to trees;
a prompt's task drives a managed CLI process, which calls the proxy again.
Status messages leave through the delivery limiter; tree snapshots go to the
session store and from there, debounced, to a file.  `runtime/application.py`
starts and closes these in order: it quiesces ingress, closes the workflow (which
cancels and drains all work and flushes the store), then delivery, sessions and
providers.

## 2. Plan

Order: what can go wrong between tasks first, then what can go wrong in files and
threads, then sequential protocols, then conversions.

| Step | Modules | State |
|---|---|---|
| 1 | `Admission` with the abstract `CircuitBreaker` | checked; all safety and the refinement proved |
| 2 | `Conversation` | checked; all safety proved |
| 3 | `SessionFile` | checked; all safety proved |
| 4 | `Generations` | checked; all safety proved |
| 5 | `Delivery`, `VoiceNotes`, `ManagedCli` | checked; all safety proved |
| 6 | `RequestPath`, `Transport`, `EventFeed`, `AppServer` | checked; all safety proved |
| 7 | `CodeSessions` | checked; all safety proved |
| 8 | `UsageStore`, `ApplicationRuntime` | checked; all safety proved |
| 9 | `OpenAIAccount`, `CopilotAccount`, `CopilotRuntime`, `ServerSupervisor` | checked; all safety proved |
| 10 | `ChatOutput` (streams); `ChatWire` with `ChatHistory` and `ResponsesHistory`, `MessagesInput` (histories) | checked |
| 11 | `ModelCatalog` (catalog passes and the catalog file, which `Generations` leaves out), Browser tools | not begun |

What is left is step 11, and of the properties of step 10 the proofs: the histories
and the output of a stream are folds over sequences, whose theorems need induction
over data (section 5).

## 3. Modules

### Admission

`Admission.tla` models `ProviderAdmissionController` with all its executions.
`pc` is the await at which an execution's task is suspended; a step is the code up
to the next await that may suspend.  The condition's lock is only ever held
between such awaits, so each critical section is one step.

| Code | Model |
|---|---|
| `ProviderExecution._state`, `_attempts_started` | `execState`, `attempts` |
| `_GatePermit` (and `claimed_generation` while waiting) | `permit` |
| `_episode`: generation, leader, waiters, `probe_active`, `terminal_until` | `generation`, `leader`, `waiters`, `probeActive`, `phase` |
| `ready_at` / `terminal_until` against `time.monotonic()` | `due` |
| the sliding window's deque | `used` |
| `asyncio.Semaphore` | `free`, `queue` (FIFO hand-over, external) |
| tasks made by `asyncio.shield` in `aclose` | `shielded` |
| one pass of `_wait_for_gate` | `Gate` |
| quota, slot, second permit check, claim | `Admit` |
| `accept`, `correct`, `fail` | `Resolve` |
| `aclose`, cancellation at every await, the caller ending the operation | `Close`, `Cancel`, `AbandonProbe` |
| time passing | `Elapse`, `Slide` |

Three branches of the code are unreachable, which the invariants show: the leader
waiting on the condition while its own probe is active (`SingleProbe`,
`BackoffOwnsEpisode`), the recheck after the sleep failing (`BackoffOwnsEpisode`),
and a probe permit found stale after quota or slot (`SingleProbe`).

`CircuitBreaker.tla` says what the controller promises to the upstream: calls flow
while it is closed, one client at a time probes with one call, and only that
call's outcome closes or trips it.  `Admission!ImplementsBreaker` is the
refinement.

### Conversation

`Conversation.tla` models the trees of one chat scope, the processor's tasks and
the workflow's state lock.

| Code | Model |
|---|---|
| `MessageTreeGraph`, `MessageNode` | `node` (state, root, parent, whether the parent was addressed by its status message, status message present, session present) |
| `MessageNodeQueue` | `queue` |
| `MessageTree._active` | `active`: the claim a root's tree is run by, 0 for none |
| `NodeClaim` with its `_TaskSlot` | `tasks`, a function over `Claims` (place, node, root, cancelled, resume) |
| a message between receipt and admission | `turn` |
| `_stop_generation`, `_clear_generations[scope]` | `generation` |
| the holder of `_state_lock` and the result it will save | `wf` |
| `SessionStore` in memory | `store` |

The manager's lock and the tree's lock are never held across a suspension, so an
operation under them is one step (`EnqueueOrClaim`, `Complete`, `Fail`, `Finish`,
`CancelTrees`, ...).  The workflow's lock is held across the drain of cancelled
tasks, so stop and clear are three steps: transition, capture of snapshots, save.
Because the drain has a timeout, the second step does not wait for the tasks.
Cancelling a task that has not entered its body leads to the recovery task that
finishes the claim ("finishing").  A claim that is made
takes a number nobody had (`NextClaim`); a message leads to at most one, so that the
bound `MaxTurns` on messages always leaves an `Unclaimed` number.  `Restart` is a crash or a clean end at any
moment followed by `restore`; it assumes the store reached the disk.

Abstractions: which trees precede the one at which a stop raises is any subset of
the others; the runner's callbacks may suspend, as the processor allows, although
the workflow's own do not; after quiescence a turn may still be waiting for
admission, which the code excludes.

### SessionFile

`SessionFile.tla` models `SessionStore` over `DebouncedJsonPersistence` with real
threads: the event loop's thread (0) saves, clears and flushes, and the
`threading.Timer` of generation g is thread g.  A step is the code between two lock
operations; a lock held over several steps is a guard of the others
(`StoreIsFree`, `WriterIsFree`).

| Code | Model |
|---|---|
| `_conversation`, `_managed_messages` | `state`, a version number; every change is a newer one |
| the storage file | `file`, the version it holds |
| `_save_generation`, `_save_timer`, `_dirty` | `generation`, `saveTimer`, `dirty` |
| the stack of a thread and its `_PendingWrite` | `at`, `pending` |
| `schedule_save`, `write_data`, `flush` | `Begin` then `Schedule`, `Invalidate` or `ClaimForFlush` |
| `_save_from_timer` | `Fire`, `Claim`, `Snapshot`, `BeginWrite`, `Replace` or `FailWrite`, `LookIfCurrent`, `MarkClean`, `MarkDirty` |
| the process ends, `_load` | `Restart` |

`Restart` loads what is in the file: the replacement is atomic, so a reader never
finds half a document.  A snapshot only copies dictionaries and cannot fail;
encoding and writing it can, at any time.  `lost`, the newest version whose write
failed, is a history variable: nobody retries a failed write before the next
operation, and the properties say exactly that.

### Generations

`Generations.tla` models `ProviderRuntimeManager` over `ProviderRuntime`.  A step is
the code up to the next await that may suspend.

| Code | Model |
|---|---|
| `_current`, `_retired`, `active_leases`, `retired`, `closed` | `current`, `retired` and `closed` per generation, `leases` |
| `generation.initialized`, `catalog_tasks[provider]` | `initialized`, `discovery` with the await it is at, `cancelling` until the cancelled task has ended |
| `ProviderRuntime._providers`, `_creations`, `_closing` | `client`, `runtimeClosing` |
| `cleanup_task` | `cleanup`, the await it is at |
| `_replace_lock` and what its holder awaits | `lock`; `popped` is the discovery that `connected_provider_changed` has cancelled |
| `_closing`, the task in `close` | `closing`, `closer` |
| a lease and the task that holds it | `lease`, `pc` |
| `acquire`, `refresh_provider`, `resolve_provider`, `release` | `Acquire`, `RefreshProvider`, `Resolve` with `Discovered` and `Created`, `Release` |
| `_discover_provider`, `_construct` | `Discover`, `StartListing`, `FinishListing`, `Unwind`; `Construct`, `FailConstruct` |
| `_run_generation_cleanup` | `StartCleanup`, `CleanRuntime`, `CreationCancelled`, `CloseClient`, `FailClose` |
| `replace` | `BeginReplace`, `FailCommit` or `Publish`, `EndReplace` |
| `connected_provider_changed`, `refresh_model_list_cache` | `BeginConnect`, `EndConnect`; `RequestRefresh`, `RunRefresh` |
| `begin_shutdown`, `close` | `BeginShutdown`; `Close`, `CloseRetires`, `CloseCancels`, `CloseDrains`, `CloseReturns` |

A request may release its lease at any moment, which stands for its end, its
failure, its timeout and its cancellation.  `WithTask` is `_catalog_task`, so a
catalog pass is the discovery it starts; what a pass does with the results is left
to `ModelCatalog`.  One provider stands for all of them, since they share no state
but the generation's.  A candidate that is discarded because its commit failed has
no client and its cleanup changes nothing here.  At most one refresh waits for the
replace lock; asyncio's lock is fair, so it runs before the cleanup of `close`.
`_release` awaits the cleanup it starts; nothing depends on that wait.

### Delivery

`Delivery.tla` models `PlatformOutbox` over `MessagingRateLimiter` and the platform's
close.  A call's number is also the version of the text it writes.

| Code | Model |
|---|---|
| `_queue_list`, `_queue_map` (operation and futures per key) | `queue`, `func`, `futures` |
| what `_worker` has popped | `activeFunc`, `activeFutures`, `workerTask` |
| a caller: task of the limiter, task of the outbox, awaiting coroutine | `kind`, `callAt`, `retries` |
| `_enqueue_internal_multi`: a queued operation of the same key is replaced | `EnqueueUnder` with `Compacted`, `NewestFunc` |
| `queue_*` and `fire_and_forget`, the retry loop in `_wrapped` | `Call`, `Enqueue`, `Fail` |
| `_worker` | `Take`, `StartCall`, `Deliver`, `Fail`, `Cancelled`, `StopWorker` |
| `outbox.close`, `limiter.shutdown`, the end of `TelegramRuntime.close` | `shutting`, `CloseOutbox`, `Shutdown`, `CancelTasks`, `EndShutdown` |

The docstring of the limiter promises that only the latest version of an update is
processed.  `LatestIsProcessed` is that promise, for calls made in the same way, and the
code breaks it (finding 3): a retry is queued as if it were new, over a newer edit that
waits under its key.  `OnlyTasksOvertake` says how far this goes, and it is an action
property of every delivery without exception: a caller is told of the delivery of an
older text only if the operation made is a fire-and-forget one which is a retry, or
whose task started after a caller that enqueued at once.  Nothing else overtakes.

### VoiceNotes

`VoiceNotes.tla` models `VoiceNoteFlow.handle` over `PendingVoiceRegistry`.  The
registry's lock is never held over an await.

| Code | Model |
|---|---|
| the await of `handle` | `stage` |
| `_pending`, the claim of a voice message | `owner`, `bound`, `handedOff` |
| the status message | `status`, `released` once a cancellation has taken it over |
| the handoff's task, its cancellation and its end | `handoff`, `asked`, `failure` |
| `cancel`, `cancel_scope`, `cancel_all` and their drain | `cancellations`, `taken`, `CancelOne`, `CancelAll`, `Drained`, `EndCancellation` |
| the exclusion of the command's own note and of protected claims | `Excluded`, `MayCancel` |
| cancellation of the flow itself by a platform that stops | `CutFlow` |

### ManagedCli

`ManagedCli.tla` models `ManagedClaudeSessionManager`, its sessions, the registry of
processes, and what a turn does with them.  A process is named by its turn.

| Code | Model |
|---|---|
| the await of a turn | `place`; its session `mine`, its resumed conversation `parent` |
| `_pending_sessions`, `_sessions` | `pool`: temporary, real, forgotten |
| `_cli_lock`, `_lifecycle_lock`, `_closed`, `process` | `cliLock`, `lifeLock`, `sessionClosed`, `latest` |
| `stop`, called by a cancelled generator (shielded) or by the pool | `stoppers`, `BeginStop`, `EndStop` |
| the pool's `_lock`, `_closing_sessions`, `stop_all` | `poolLock`, `sessionClosing`, `poolSweep` |
| `register_pid` and `unregister_pid` | `registered` |
| `get_or_create_session`, `start_task`, `register_real_session_id`, `remove_session` | `GetSession`, `StartTask` with `Spawned`, `Register`, `BeginRemove` with `Answer` |

The turns that resume one conversation run one after the other, which
`Conversation` establishes (`QueueIsInOrder`).

### RequestPath and Transport

`RequestPath.tla` follows one streamed request from the middleware to the usage
observer; `Transport.tla` is one provider execution below it.

| Code | Model |
|---|---|
| `ClientRequestLifetimeMiddleware` and the application task it awaits | `middleware`, `app`, `CancelApp`, `CutMiddleware`, `Disconnect` |
| the route's lease, `bind_response_lifetime`, `ManagedStreamingResponse._cleanup` | `lease`, `releases`, `CloseBody`, `Release` |
| one pass of `_stream_candidates` | `candidate`, `stream`, `read`, `served`, `late`, `OpenStream`, `Chunk`, `StreamEnds`, `TimeOut`, `CloseCandidate`, `Decide` |
| `UsageObserver.observe`, `_finalize` | `observer`, `outcome`, `FinalizeObserver` |
| `ProviderAttemptScope`, the attempt's state | `attempt`, `upstream`, `execution`, `attempts` |
| `RecoveryHoldbackBuffer` | `held`, `committed`, `Push`, `Flushed`, `Discard` |
| `RequestRecovery`, `RequestCorrections` | `refreshed`, `used`, `Resend` |
| `RecoveryController.advance_failure` | `Judge`, then `RetryGeneration`, `Recover`, `GiveUp` |
| the text or tool recovery of the Chat transport | `purpose`, `RetryRecovery`, `ReadRecovery`, `EndRecovered` |
| terminal frame and raised error | `frame`, `result` |

An epoch is one generation attempt's output; buffered and delivered output is known
by its epoch.  How the transports differ (what is held back, who sends a terminal
frame, who recovers) is `protocol`, chosen at the start.

### EventFeed, CodeSessions, AppServer

`EventFeed.tla` is `EventPublisher` with the subscriptions of its handlers.
`CodeSessions.tla` is one session of `CodeService` with `SessionState` over the
transactions of `SQLiteCodeStore`; `AppServer.tla` is one Codex process with its
reader, dispatcher, reaper and `close`, which `CodeSessions` uses as a process that
announces events and can be closed.

| Code | Model |
|---|---|
| `_sequence`, subscriber queues, `_Closed`, `_Overflow` | `sequence`, `inbox`, `Ended`, `Overflow` |
| rows and `SessionState` (saved before installed) | `session`, `current`, `runs`, `prompt`, `sends` |
| `_SessionRuntime.connection`, `loaded_thread_id`, events of its process | `connection`, `loaded`, `events` |
| the harness processes and conversations | `process`, `native` |
| `_work`, `_interrupt`, `_delete_native`, `_halt_storage`, `_deliver_answer` | `job`, `interrupter`, `deleter`, `halter`, `answerer`: the await each is at |
| a connection detached for its close | `hand` |
| `begin_shutdown`, `_close`; crash and `_initialize_schema` | `closer`, `BeginShutdown` to `StoreCloses`; `Crash`, `Restarted` |
| `rpc`, `_packet`, `respond` | `Rpc`, `PacketAnswers`, `PacketAsks`, `PacketSettles`, `PacketTells`, `Respond` |
| `_read`, `_reap`, `_dispatch`, `close` | `ReaderEnds`, `Reaped`, `TakeEvent`, `LookedUp`, `SinkReturns`, `Close`, `CloseInside` |

A section that holds the session's lock is one step.  The lock is given in the order
in which it was asked for: an answer that was accepted before a run's task asks for
the lock to replace its connection is sent before (the guard of `Answer`).  Only a
process in which a turn began has subagents that ask (`begun`).  The `_work` task of
a run that ended while it replaced its connection opens a process all the same
(`service.py:565`), which may take the place of another run's; `late` marks such a
job (`Expected` says which jobs are not), and the properties about owned processes
are stated for behaviours without one (`NobodyIsLate`).

Where the model is a little more orderly than the code.  `Attach` asks that the job's
process is still the owner's connection, at which `service.py:582-604` does not look
again: a closed process is taken away by its event under the session's lock, and that
lock is given in the order of the requests, after the answer the job has got; only
`close` takes it away without the lock, and the code then saves the conversation and
interrupts the run, where the model fails the job, which interrupts the run as well.
`TasksRest` waits for every job, where `service.py:183-184` gathers those it finds; a job
that begins later can only be the halt of a failed save, whose process is closed by then.
`Reap` takes for granted that the pipes of a process that has ended are read to their
end (`codex_app_server.py:293-294`, `547-548`); a grandchild that keeps one open would
delay it for as long as it lives.

### UsageStore and ApplicationRuntime

`UsageStore.tla` is the buffering sink, the database singleton, its writer task with
its threads, retention, and their shutdown.  `ApplicationRuntime.tla` is the owner
of the process: startup jobs, shutdown in the order of `Stages` with retries, and
configuration updates.

| Code | Model |
|---|---|
| `_pending_requests`, the flush loop, a batch between drain and delivery | `unflushed`, `flusher`, `inFlight` |
| `get_usage_database`, migration | `database`, `opener`, `BeginOpen`, `Migrated` |
| the queue, the batch taken, a thread whose task was cancelled | `batches`, `writing`, `abandoned` |
| rows; what failed, what the shutdown gave up | `rows`, `failed`, `dropped` |
| `_lifecycle_lock`, `start`, `close`, `_close_owned_resources`, `_cleanup_messaging` | `lifecycle`, `hostCall`, `releasing`, `cleaning`, `open`, `released` |
| startup tasks | `startupJob` |
| `_config_lock`, `_apply_config_update`, `_finalize_admin_update` | `config`, `update`, `prepared`, `cancelled` |
| the managed file, the provider settings, `_pending_fields` | `disk`, `live`, `accepted`, `elsewhere`, `pendingFields`, `restarting` |

### OpenAIAccount, CopilotAccount, CopilotRuntime, ServerSupervisor

`OpenAIAccount.tla` has several processes on one credentials file under an
interprocess lock; `CopilotAccount.tla` the manager with its brokers, leases, login
and state file; `CopilotRuntime.tla` the SDK process of one broker, its sessions and
the records they leave; `ServerSupervisor.tla` the supervisor between the tray's
thread, the server's thread and the browser threads.

| Code | Model |
|---|---|
| the file, the tokens the service accepts, the lock file | `authFile`, `usable`, `ageing`, `fileLock` |
| `_credentials`, `_state_lock`, `_operation_lock`, login task | `memory`, `held`, `admin`, `login` with `granted`, `stopping`, `listener` |
| a worker thread whose task was cancelled | `abandoned` |
| `_enabled`, `_revision`, `_broker`, `_owners` | `account`, `owners`, `broker` |
| a lease, `_broker_lock`, login, `_operation_lock`, close, cleanup task | `lease`, `brokerLock`, `signIn`, `office`, `closure`, `sweep` |
| `_sessions`, `_pending_session_ids`, records, the close task | `opened`, `unknown`, `records`, `late`, `ending` |
| `_run_scheduled`, `_running`, `_server`, `stop_event`, `_restart_generation` | `runScheduled`, `running`, `server`, `stopEvent`, `restartGeneration` |

The branch of the cleanup that spares the broker in use (`Spared`) is in
`SweepCloses`; no run reaches it, since a published broker is never retired.
`OnStarted` opens the browser for a click that waited and, once in a run, if the
settings ask for it; a run ends without looking for restarts when its settings cannot
be loaded or its server raises (`LoadSettings`, `Unpublish`).

### Conversions

`ChatOutput.tla` is the output of one epoch of a Chat stream: assembler, tool
assembler, text-tool parsers, output writers for either protocol, completion,
interruption, repair and salvage.  `assembly` is the writer with the assembler's
buffers; the operators on it are translated method by method.  Pieces of text are
numbers and arguments are sequences of fragments, so that order and loss can be
told.  What a piece of text does to the parsers is its kind (`Content`): plain text,
text with the beginning of a control token at its end, the end of one, a bullet, text
longer than may stand between a bullet and its call, a call, a web tool call in JSON
with text before it or without, a "<", and the tag of the other parser.

The properties of the output are about every stream but those in which the parsers go
wrong, and these are told by what the provider sent alone, never by the state of the
program: `IndexIsShared` (a call in the text, and a native call that begins behind it),
`TagOvertakes` (a tag behind something that is held, then a native call), `NameIsMissing`
(arguments of an interrupted call whose name never came).  `TextInOrder` says that what is
shown is shown once and in order, and that all text is shown except what the code drops:
what stands behind a bullet before a call or the end of the stream (`BehindBullet`), what
stands behind a "<" within a call (`BehindAngle`), an envelope of a call with its text
(`InEnvelope`), an unclosed "<|" at the end, and what is told before a JSON call.  These
losses are findings of section 6.  `RecoveredAreWhole` says of a stream that was
interrupted that no call is run with half its arguments or with those of two calls; that
the arguments of `Task` are not prepared any more is finding 5.

`ChatWire.tla` says what a Chat message is and how `history_replay.py` prepares
earlier reasoning for a connection: opaque state returns to where it came from, and
what it says and is not told by that goes into the provider's field or into the text;
a summary only ever goes into the text.  `ChatHistory.tla` (the ledger of
`core/anthropic/conversion.py`) and `ResponsesHistory.tla` (the builder of
`core/openai_responses/chat_request.py`) take a client's blocks one by one and
share `setting`, `conversion` and `wire`; `MessagesInput.tla` is the builder for a
Messages provider.  System messages between the others become the user's
(`ChatHistory`), and a carrier that cannot be read makes all three refuse the history.
Two of the properties are about clients that send what a
harness sends: `Coherent` (calls have distinct ids, each result follows its call and
is the only one) and `WellGrouped` (calls and outputs come in groups).  For other
inputs the converters refuse or do their best, which the other properties cover.

`FieldOnlyInContinuation` and `ContinuationKeepsReasoning` need to say when the user's
turn began.  Words behind a result with images join the message to which the images
were moved, and begin no turn (`BehindImages`), as
`test_image_tool_result_does_not_start_a_new_user_turn` wants it of the images; this is
decided by the client's messages, not by what became of them.  `RolesAlternate` is about
the messages that are sent, after emptied ones were dropped: two of the user's may stand
next to each other only if all that was between them is reasoning that another connection
made and nobody else can read.

## 4. Runs

A run whose table row names several modules checks them one after the other: they
share no state, a variable `part` says at the start which of them behaves, and the
others keep their initial states, in which there is no step that fairness would ask
for.  One run for all of them asks one question of a whole side of the system, and its
liveness property is one for all: for ever again comes a moment in which everything
that the part has begun is at rest, which the parts that do not run always are.
`MCGenerations`, `MCEdges`, `MCHistories` and `MCSessions` compose the modules so;
`MCAccounts` (the accounts, the session file, the supervisor) and `MCRequests` (the
request, the execution, the host) are two halves of such a composition that theorems
are about as well, and `Parts` declares the variable.

| Run | Instance | What it shows |
|---|---|---|
| `admission` | 3 executions, 2 attempts each, 2 slots, 1 call per window; 829 609 states | all safety, action and refinement properties of the controller; an execution that waits is admitted or fails, unless the leader ended between attempts |
| `admission_owner` | 2 executions | finding 1 below |
| `conversation` | 2 prompts, 3 turns, 1 chat-wide stop or clear per process; 695 839 states | scheduling, cancellation, store and close; every admitted prompt settles |
| `conversation_stop` | 2 prompts | finding 2 below |
| `histories` | `Conversation` (3 prompts, 3 turns, replies to prompts, no chat-wide operation; 692 138 states), `ChatOutput` (8 streams), the conversions (34 conversations of 3 to 5 blocks, and 4 items for a Messages provider); 1 708 176 states | queue order, parents, sessions, restorable snapshots; the answer a client is shown; what a provider is sent of a history |
| `generations` | `Generations` (1 request, 2 generations; 437 815 states), `Delivery` (3 calls, 1 retry; 80 772); 518 587 states | nothing is closed in use, leaked or forgotten; every replaced generation is closed unless its cleanup fails, and `close` always ends; no caller of the limiter is stranded, and only a retry or a late task overtakes |
| `delivery_order` | 2 calls, 2 retries | finding 3 below |
| `edges` | `VoiceNotes` (2 flows, 2 notes, 1 command), `ManagedCli` (2 turns, 2 sessions; 424 431 states), `SessionFile` (3 saves or clears per process, 3 versions; 152 286), `OpenAIAccount` (2 processes; 89 587 and 262 442), `CopilotAccount` (1 lease, 3 brokers; 183 677), `CopilotRuntime` (2 sessions), `ServerSupervisor` (2 restarts); 1 254 062 states | what is shared with platforms, processes, threads and other programs is neither lost, undone nor left to nobody, and whatever is waited for ends |
| `sessions` | `CodeSessions` (2 sends, 2 processes, 1 crash; 626 154 states), `EventFeed` (2 observers, queues of 2), `AppServer` (3 events), `RequestPath` (3 candidates), `Transport` (3 attempts; 136 912), `UsageStore` (3 records), `ApplicationRuntime` (2 updates, 1 fault; 220 058); 1 024 251 states | a coding session from Send to deletion, its feed and its process, one request from the client to the usage file, and the process around them; everything comes to rest |
| `retention` | `UsageStore` | finding 4 below |
| `task_foreground` | `ChatOutput` (8 streams) | finding 5 below |
| `code_prompts` | 1 send, 1 process | finding 6 below |

Why the bounds are enough.  In `Admission` three executions are a leader, a
follower and a call admitted earlier; two attempts give a failing and a last
attempt; two slots with three executions make somebody queue for a slot; the
generation needs no bound because every new episode costs an attempt.  In
`Conversation` two prompts and three turns re-admit a cleared root while its old
claim is finishing; three prompts give every tree shape with a middle, so removals
hit the middle of queue and tree.  `OrderedSpec` lets the first message be the first
prompt's, which is a renaming.  `MaxTurns` bounds received messages,
`MaxGenerations` the stops and clears of one process.  In `SessionFile` three
generations are three timer threads besides the event loop: one writing, one holding
an older snapshot and one armed, overtaken by a clear or flush.  In `Generations` two
generations are a retired and a current one.  `Delivery` has three calls, one with the
worker, one queued and one that replaces it; `VoiceNotes` two flows that may be of one
note, each able to cancel the other; `ManagedCli` two turns that may share a session.
`FirstIsFirst` in `MCEdges` lets the first voice note be v1 and the first flow f1, which
is a renaming: nothing tells flows or notes apart but their names.

The rest are bounded by the events that make their hard cases.  `UsageStore`: three
records in batches of one are one written, one in flight and one pending.
`ApplicationRuntime` runs twice, once without updates (`NoUpdates`) and once with two
updates but without messaging (`NoMessaging`): startup jobs and updates meet only in
locks, which both have.  `OpenAIAccount` runs without mishaps and ageing ("logins")
and without logins ("upsets").  The safety theorems of all these modules hold for any
number of each and for every combination that the runs take apart; what the bounds
decide is liveness, the streams and the histories.  A behaviour of `CodeSessions` meets the adversities of
one member of `Adversities` and no others; the pairs are those in which one makes the
other worse.  `ChatOutput` streams eight combinations of two tool calls, so that every
way in which a provider splits a call is met in either position; the conversions work
on `SomeSettings`: with every profile of reasoning, the shapes of carriers it can tell
apart (`ShapePairs`, summaries and malformed ones among them), and without reasoning,
longer conversations of calls and results; system messages come in conversations of
their own.  A stream of `ChatOutput` brings two or three pieces of text of any kind.  Deadlock is not checked in these runs because the systems stop when
everything is over and the bounds are used up.

Fairness.  `Admission`: the loop runs every ready task, sleeps end, the window
slides, an upstream call ends (transports set read timeouts), the caller of a
failed attempt with budget left tries again or not, and one without budget ends.
`Conversation`: a created task is run, a CLI run ends or is killed by its
cancellation, a finishing task gets its locks.  Nothing is assumed of users.
`SessionFile`: threads run, the debounce time ends, and a thread waiting for a lock
gets it when it is free from then on; writes may fail for ever.  `Generations`: the
loop runs every task; creations, listings, commits, cleanups and requests end (each
has a timeout or is cancelled by its caller); a server that begins its shutdown
closes the manager.  Nobody has to retry a close that raised, and creations, commits
and cleanups may always fail.  The other modules have one operator of all steps that
the program or an awaited call with a timeout makes by itself (`DeliveryWork`,
`RequestWork`, `CodeWork`, `SupervisorWork`, ...), and assume that while such a step is
enabled one is taken, whether it succeeds or fails; what users, administrators and the
environment do, cancellations and crashes are never in it (`OpenAIAccount` and
`CodeSessions` have one condition per process and per kind of task).  That is less
than the event loop and the operating system give, since it does not say which of the
enabled steps is taken.  In a composition each condition is about the part that behaves.

Every property of a passing run has a mutant: an operator next to the definition
it replaces, with a plausible bug of that code, that makes TLC report the
property violated.

## 5. Proofs

`AdmissionProofs` proves, for any finite or infinite budget of time and any
values of the constants, the inductive invariant `IInv`.  The checked invariants
are not inductive alone.  `ProbeTokenHeld` needs to know where each holder of a
probe permit can be (`SingleProbe`), that a sleeping leader keeps its episode
(`BackoffOwnsEpisode`) and that shielded abandonments are of executions that no
longer wait (conjuncts on `shielded`); `FollowersAreLed` needs the registration of
every follower in `waiters`; `ClaimIsLegal` needs that waiters of an episode that
are failed are never past the gate.  `IInv` is the conjunction of these named
parts; there is one lemma per action of `Next`, each with one step per conjunct
the action can disturb, and the theorem `Invariance` combines them.

The module adds slot conservation (by cardinalities of `Holders`), full type
correctness, and the three action properties.  It ends with the refinement,
`Spec => ImplementsBreaker`: initial states map to initial states, and each action
maps to an action of the breaker or a stutter, from `IInv` in both states.

`GenerationsProofs` proves every safety property of `Generations`, for any finite
set of requests and any number of configurations.  That a client in use is open is
not inductive: the cleanup that would close it must be known to belong to a
retired generation without leases (`CleanupIsDue`), whose discovery has been
cancelled and awaited (`CleanupCancels`, `QuietRuntime`).  Nothing may start again on
such a generation: requests would need a lease (`LeasesCounted` relates the counter to
the requests that hold one), and everything else works on the current generation,
which retires only in `close`, when the replace lock is free and the manager
refuses new operations (`CurrentServes`).  The exception is a refresh that has
looked before and waits for the lock; it runs before the first cleanup
(`RefreshIsEarly`).  `FutureIsFresh` says that a new generation starts with nothing.

`ConversationProofs` proves every safety property of `Conversation`, for any set of
prompts, finite or not, and any number of messages, stops, clears, crashes and
restarts.  The inductive invariant `ConversationInv` has three parts.

- `TreesInv`.  What the runs check of runners, queues and resumed sessions becomes
  inductive once it is known that every prompt hangs from its root (`TreesFit`), that a
  prompt waits behind what it replies to (`ParentsFirst`), and that a task works in the
  tree it was claimed in (`ClaimsFit`).  Most actions only remove prompts, settle them
  and end tasks: they are instances of `TreesShrink`, for which the invariant is proved
  once (`ShrinkKeeps`).  The others are a claim that starts (`ClaimStarts`, used by
  admission and by the successor that `Finish` picks), a queued admission
  (`PromptQueued`) and a restart (`Restarts`, from what snapshots satisfy).
- `StoreFits`.  A tree of the store is not always as published: between the
  transition and the save of a stop or clear it may be stale, or gone.  What is stale is
  in the hands of the holder of the workflow's lock, who will drop it or save it
  (`Waits`); this, and that captured snapshots can be restored (`SnapshotFits`), makes
  `StoreFollowsTrees` and `StoreIsRestorable` inductive.
- `TurnsFit` and `CloseFits`.  From the stop that begins the close on, no turn is
  current, no task works and nothing is runnable, so that what was captured is what
  the trees are, and the store is exact when the close returns.

`CancelledStaysCancelled` is an action property, proved from `TreesInv` of the state
before: a step that brings a prompt back would need a claim that works on it and is
still honoured, or a restart.

Queues and trees are data of any size.  That the prompts left in a queue keep
their order needs what would be an induction over its length, and it is argued with a
smallest counterexample (`SmallestOf`, `RestExists`); that a cleared tree leaves no
orphan, with the sets that are closed under replying (`Hangs`, `Subtree`).

`MessagingProofs` proves the safety of `Delivery`, `VoiceNotes` and `ManagedCli`.

- `DeliveryInv`: calls are made in order (`CallsFit`), whoever waits under a key was
  queued under it and is not with the worker (`QueueFits`), the operation that is run is
  at least as new as everyone who waits for it, or is a retry or a task that started
  late (`NewestRuns`, `Answers`), and what each stage of the close leaves (`CloseFits`).
  From it `DeliveryIsHonest`, which is `OnlyTasksOvertake` for any number of calls, keys
  and retries.
- `VoiceInv`: a claim belongs to a flow under way (`ClaimsFit`), a note that a
  cancellation took is never owned again (`TakenIsLost`), and what the stage of a flow
  says of its handoff task and of its status message (`HandoffFits`, `StatusFits`).
- `ManagedInv`: what is not made is fresh (`SessionFresh`), who holds a session's locks
  and who stops it (`SessionFits`), what the place of a turn says of its session
  (`TurnFits`) and of its process (`ProcessFits`).

`RequestsProofs` proves the safety of `RequestPath`, `Transport`, `UsageStore` and
`ApplicationRuntime`, and `HostCorrectness` of their composition `MCRequests`.

- `RequestInv` says that candidates before the one in use failed unheard and those
  after it are untouched (`OthersAreOver`), what the application's place says of the one
  in use (`CandidateFits`) and of the lease (`LeaseFits`).
- `TransportInv` says that all frames, held back or delivered, are of one epoch, which
  is new only if nothing was delivered (`EpochFits`), and that attempts are made by an
  active execution (`ExecutionFits`).
- `UsageInv`: only a flush under way holds a batch (`SinkFits`); the writer is there
  with its database, and a database that is being closed is left by everyone
  (`DatabaseFits`); records grow old in their order (`AgedFits`).  So every record is
  somewhere: pending, on its way, written, failed or given up.
- `RuntimeInv`: who holds the two locks and what the calls know of the shutdown
  (`CallsFit`), from when to when startup tasks are there (`JobsFit`), that a cleanup has
  left behind only what it has not reached (`ResourcesFit`, which makes the order of
  release inductive), and that what is written and not yet running is about to be
  published or signalled (`UpdatesFit`).

`AccountsProofs` proves the safety of `SessionFile`, `OpenAIAccount`, `CopilotRuntime`
and `ServerSupervisor`, and with `CopilotProofs` that of their composition `MCAccounts`
(`AccountsCorrectness`).

- The session file's order is not inductive: a writer must be known to hold a snapshot
  at least as new as the file for as long as it holds the writer's lock
  (`WritersAreNewer`), which follows when it takes the lock because a snapshot of the
  current generation is the newest one (`SnapshotsAreOld`) and the file is never newer
  than the state (`FileIsOld`).  `Base` accounts for the moment in which a save or clear
  has changed the state and not yet bumped the generation.  Durability needs `Settled`:
  after a flush or clear only writers of the same generation, hence the same version,
  are left.
- `AccountInv`: whoever is about to write new credentials has the file's lock
  (`WritersAreAlone`), a grant belongs to a login under way (`LoginIsOwned`), and the
  steps of a disconnection belong to its administration (`AdministrationFits`).  As long
  as nothing was upset, credentials that are yet to be written are in one place, are
  accepted by the service and are used by nobody (`SecretsFit`), and what the file says
  can be renewed or is about to be replaced under its lock (`FileFits`).
- `SdkInv` and `SupervisorInv`: an answer that comes late finds a session that is
  opened or unknown (`CreationsFit`), a close in which nothing failed leaves nothing
  behind (`LosslessFits`), and where the thread is says whether it has started its server
  (`RunFits`).
- `CopilotInv`: a broker that somebody holds, creates in or owns is not closed
  (`HeldIsOpen`, `CreatingIsOpen`, `OwnedIsMade`, `LeasesFit`); who makes one has the lock
  (`MakersFit`), and a login's is its own until it is published (`SignInFits`); what a
  disconnection or close has waited for does not come back (`OfficeFits`, `GoneFits`).

`ServerProofs` proves the safety of `EventFeed` (which is inductive by itself),
`AppServer` (with `EndsInOrder`: reaped, then the reader over, then the dispatcher, then
closed) and `CodeSessions`, for any number of Sends, processes, conversations and
crashes.  The sections of `CodeSessions` under the session's lock are atomic, and its
safety is about what a task may still believe when it comes back for the lock.
`CodeInv` says so, in parts:

- what a stage has done: until it gives input away a job has not (`JobsFit`, `Unfed`),
  one with a process has a started one, and only started processes are held
  (`ProcessesFit`, `HandsFit`); what had input has a conversation (`FedFits`);
- what is announced: a process announces the turns that its runs began, the end
  of a turn only when it is over, and last its own end (`EventsAreTrue`, `TurnsFit`);
- who may act on it: input is given to the owner's connection only for the active run
  (`StartsAreActive`), a run that opens its process has none in which a turn could ask
  (`OpeningIsUnasked`), and a run that fails for its answer has lost its connection
  (`AnswererFits`).  From these `InputNeverResent`, `OneActiveRun` and
  `CompletedIsOver`;
- the place of a connection is free when somebody takes it (`PlaceIsFree`), so that no
  process is left to nobody (`ProcessesAreOwned`);
- the end: what is saved after the shutdown took the connection (`ServiceFits`,
  `ShutFits`), and that a conversation that is being given up does not come back
  (`GoneStays`), by which what is deleted is gone.

`EndsOnce`, that a run which has ended stays as it ended (`FinishedStays`), is an
action property from the same invariant: every step that writes a run's status finds it
active, except recovery, which may only learn its turn.

Before they were proved, the inductive invariants were model-checked, each from the
initial states of an instance: `DeliveryInv` (1 711 242 states), `ManagedInv` (431 113),
`ConversationInv` (818 052 and 692 138 in the instances of the two runs), `RuntimeInv`
(1 711 892), `UsageInv` (7 815), `CopilotInv` (183 677), `AccountInv` (7 242 706 when the
search was cut off) and `CodeInv` (eight
combinations of adversities: seven to the end, the largest of 5 621 406 states, and one
cut off after 6 800 690).  For `CodeInv` that found two states of the model which the
code excludes, an answer that overtakes the lock and a subagent in a process in which no
turn began; the model excludes them now.

Assumptions used: `ExecutionsAssumption` (a finite set without `NoOne`),
`LimitsAssumption` (positive limits, which `__init__` enforces), `BoundsAssumption` of
each module (the bounds are numbers, positive ones where the code needs it; the
requests of `Generations` are finitely many), `NodesAssumption` (`NoNode` is no
prompt), `DeliveryAssumption`, `VoiceAssumption` (there is a voice message; flows and
commands are different things), `ManagedAssumption` (the names for nobody are nobody's),
`FeedAssumption`, `AppAssumption`, `RequestAssumption` (a route has a candidate),
`TransportAssumption` (an execution has an attempt), `UsageAssumption` (a batch has a
record), `RuntimeAssumption` (an update is no call and no job), `AccountAssumption` (there
is a credential to begin with), `CopilotAssumption` ("nobody" is no request),
`SdkAssumption`, `SupervisorAssumption` and `CodeAssumption` (bounds are numbers).

Only model-checked:

- liveness (`FirstAdmitted`, `EveryPromptSettles`, `CleanupEnds`, `CallersAreTold`,
  `EverythingEnds`, `EverythingRests`): the prover has neither fairness nor
  `ENABLED`;
- `ChatSafety` and `HistoriesSafety`: they say what folds over a whole stream or history
  produce, which needs induction over data.

Every other property of a passing run is the conclusion of a theorem about the module
or the half of a composition it belongs to.

## 6. Findings

1. `admission_owner`: an execution that ends between two attempts keeps leading
   its recovery episode (`abandon`/`fail` do not tell the controller), so callers
   of that provider wait for an owner that is gone.
2. `conversation_stop`: a standalone `/stop` raises half way when it meets a
   cancelled claim whose status message a reply-`/clear` removed.
3. `delivery_order`: "only the latest version of a message update is processed"
   (`messaging/limiter.py:20-22`), but a retry of a failed edit is queued after a newer
   edit of the same message (`limiter.py:297`), replaces it and takes over its futures.
   The message shows the older text, and the newer edit is reported as delivered.
4. `retention`: the retention of the usage file never deletes anything by number of
   rows, since both placeholders of its statement are bound to the cutoff time
   (`runtime/usage_sqlite.py:253`).
5. `task_foreground`: the contract `subagent_task_control` (`smoke/capabilities.py:284-293`)
   wants `run_in_background=false` of every `Task` that reaches a client.  After an
   interruption the arguments that were held back are emitted as the model wrote them
   (`providers/openai_chat/transport.py:1567-1569`, `1610-1614`).
6. `code_prompts`: a subagent's prompt that is open when an interrupted run's process is
   closed by force stays open until the next restart; meanwhile the session can neither
   be sent to nor deleted (`application/code_sessions/service.py:687`).

What else was seen while translating.  No run is spent on these: the properties that
come near them name the inputs they leave out, and say so in the comment.

Against a docstring, a contract or a test of the repository:

- Chat output: a call in the text may take the index of a native call that begins
  after it, whose deltas then go to a block that is closed (`IndexIsShared`);
  `core/anthropic/stream_contracts.py:97-166` asserts that there are none.
- Chat output: text held back by the parsers is lost, behind a bullet, behind a "<" within
  a call, behind an unclosed "<|", and before a web tool call in JSON
  (`BehindBullet`, `BehindAngle`, `TextOf`; `core/anthropic/tools.py:360`, `365-375`,
  `469-493`).  The contract `heuristic_tools` (`smoke/capabilities.py:270-283`) names "text
  fallback when malformed".
- Chat output: aliased arguments that are repaired after an interruption keep the names
  of the provider, as those of `Task` keep their flag (finding 5).
- Histories for a Messages provider: `finish()` refuses a history without messages
  ("Messages upstream requires conversational input.",
  `core/openai_responses/messages_request.py:503`), but looks before `prepare_history`
  drops emptied messages, so that a request with no message at all may be sent.
- OpenAI account: "Best-effort revoke, then always remove LUICODE-owned credentials."
  (`providers/openai_codex/auth.py:284`), but a disconnection that is cancelled while it
  revokes leaves the file.
- Supervisor: "Reload an active generation or coalesce into a scheduled fresh run."
  (`cli/commands.py:180`), but a restart that is accepted while a server ends by itself
  is dropped with it.

Not contradicted by a document we know of:

- `SessionFile`: an older timer thread may clear the dirty flag after a newer clear
  failed to write; nothing reads the flag.
- Usage: closing the sink drains one batch only; what is left is dropped without being
  counted.  The observer records a success for some streams that the client left.
- OpenAI account: credentials in the file which are themselves about to expire are not
  taken over, and when the older ones in memory are rejected the newer ones are deleted
  (`auth.py:457`).
- Copilot: a broker whose start failed is not started again before a reconnection.
- Code sessions: the job of a run that ended while it replaced its connection opens a
  process all the same (`service.py:565`).
- Chat output: a call recovered after an interruption may have early arguments in front
  (`NameIsMissing`); text held by one parser may be overtaken by what the other releases
  (`TagOvertakes`); a streamed name without aliases opens its block under its first part.
- Histories: words that follow an image result are merged into the message the images
  move to, so that they do not count as the last user message and earlier reasoning is
  replayed natively (`BehindImages`); two calls of one id in a message raise a
  `KeyError`; the id of a call that is left out is not reserved; reasoning pending
  before an assistant message with empty content is dropped in two modes.
- Browser tools (not modelled): a task that timed out leaves its thread driving the
  browser while another may start; a reply that mixes `browse_web` with a client's
  tool is sent back with a call that has no result.

## 7. Not modelled, and why

- Catalog passes and the catalog file (`ModelCatalog` in the plan).
- Provider profiles, renderers and the building of request bodies: tables and
  rewriting without state of their own; their tests are dense.  The translators of
  Responses and Messages streams, and names and schemas of tools: not yet.
- Configuration, admin pages, launchers, the drawing of the tray, harness files:
  input and output; what is concurrent about configuration updates is in
  `ApplicationRuntime`, and about restarts in `ServerSupervisor`.
- Browser tools: they drive an external browser; their staleness protocol is late in
  the plan.
- Downloading and transcribing a voice note is one step that may fail; rate limits and
  flood pauses of the delivery are one delay; sizes and time windows of the holdback
  buffer are a choice.
- Transcripts, reviews and lists of code sessions, usage queries, traces and logs.
- Tests, scripts, smoke and e2e suites are not the product.
