# Verification of chatwca

TLA+ models of chatwca, the browser front end to the Pi coding agent: one Node.js
process that owns Pi runtimes, runs scheduled jobs, and speaks to browsers over
WebSockets. Paths below are relative to the repository (`src/server/...` is the
repository's `src/server` directory).

Run a model with `tlc -config <cfg> <module>`, check the proofs of a component with
`tlapm <module>Proofs.tla` (`DeliveryProofs` has those of `OutboundFlow`, `LiveConversation` and
`ConversationSync`, `WorkspacesProofs` those of `Workspaces` and `SearchIndex`).
`PROJECT.json` lists the runs, the lines each definition stands for, the mutants that
show each property has teeth, and the hazards.

## The system

Everything runs in one JavaScript thread. Concurrency comes from `await`: between two
awaits a handler is atomic, and at each await any other handler may run. An action of a
model is therefore "the code between two awaits", never more and never less. The one
exception is a synchronous loop with one SQLite transaction per iteration (the
scheduler's claims): the process can die between the transactions, so each is a step and
nothing else runs in between.

| Component | State it keeps | Operations | Talks to | What makes it correct |
|---|---|---|---|---|
| Conversation registry (`conversation-registry.ts`) | records by id and by file, capacity lock and reservations, fork holds, temporary runtimes, pending opens/closes/aborts | create, open, fork, prompt, abort, close, job conversations, eviction, failure, shutdown | Pi runtime, job runner, protocol | live limit, one writer per file, nothing leaked, no lost failure, every call returns |
| Pi runtime (`pi-runtime.ts`) | session, sandbox controller, network | prompt, abort, fork, dispose; events | registry, sandbox | events in order, `agent_end` held back while a worker is replaced |
| Job repository (`job-repository.ts`) | tables `jobs`, `job_runs` | CRUD, claims, run transitions, interruption | scheduler, runner | results final, an occurrence claimed once |
| Job scheduler (`job-scheduler.ts`) | timer, generation | start with recovery and catch-up, wake, run now | repository, runner | the timer never fires after the nearest occurrence |
| Job runner (`job-runner.ts`) | active runs, stop reasons, seal | dispatch, execute, abort, shutdown | repository, registry, hooks | one execution per job, an abort is honoured, no write after the seal |
| Job schedule (`job-schedule.ts`) | none | next occurrence | repository | strictly later, no drift |
| Runtime coordinator, graceful shutdown (`runtime-coordinator.ts`, `shutdown.ts`) | started flag, promises | begin, abort, dispose, deadline | all of the above | admission closes before anything is torn down; bounded |
| WebSocket protocol (`protocol.ts`, `websocket-boundary.ts`) | flows and subscriptions per socket | decode, dispatch in order, broadcast | registry, jobs, workspaces | replies correlated, no command after shutdown |
| Outbound flow (`outbound-flow.ts`) | queue, bytes, pressure timer | send, pump, close slow client | socket | bounded memory, no reordering, only cumulative messages dropped |
| Client synchronisation (`shared/revisions.ts`, `web/src/api`) | projection, revision | apply, ignore, resync, reconnect | protocol | the projection converges to the server's state |
| Sandbox worker controller (`sandbox/worker-controller.ts`) | state, worker, transition | tool calls, exec deadline, planned restart, fatal failure, close | worker client, Pi | one namespace at a time, none outlives its conversation, runs end |
| Worker client and worker (`sandbox/worker-client.ts`, `worker-entry.ts`, `worker-fs.ts`, `worker-process.ts`) | pending requests; active requests, mutation and process queues | request, data, cancel, terminal frames, faults, kill escalation | each other, over two pipes | neither end faults the other, no edit lost, cleanup hits its own processes only |
| Managed network (`network/`, `native/network-helper`) | sockets directory, proxies, admission, relays | start, launch, connect, decide, resolve, dial, relay, close | sandbox, destinations | only permitted destinations, nothing after close, slots return |
| Job hooks (`job-hook-runner.ts`, `job-hook-path.ts`) | process group, timers | run, output limit, timeout, abort, kill escalation | runner | bounded, no process left behind |
| Workspaces and database (`workspace-repository.ts`, `database.ts`) | schema version, `workspaces`, mounts | migrate, create, update, delete, evaluate policy | protocol, registry, admission | only acknowledged authority, a workspace in use does not change under its users |
| Search (`search/`) | PostgreSQL tables, pending requests, pass | refresh, discover, snapshot, embed, publish, prune, paged read | session files, embedding provider | whole documents, whole readings, convergence |
| Server assembly (`index.ts`) | startup steps, transports, signal handlers | start, unwind, signal, exit | everything | SQLite is not used after it closed, the process ends |
| Timeline (`normalize-events.ts`, `serialize.ts`, `web/src/api/state.ts`, `MessageTimeline.tsx`) | entry and stream identities, projection | events, snapshots, reducer, rendering | Pi, registry, browser | events and snapshots lead to the same view |

The hard behaviours are: calls that interleave at awaits around shared counters and
indexes (registry); crash and restart between transactions (jobs); shutdown racing
everything; continuations that run after the state they read has moved on (job runner,
aborts, late Pi events); lost or coalesced events (outbound flow and clients); timeouts
racing answers (sandbox, hooks, dials); a file or table that changes while it is read
(search, workspaces). `PROJECT.json` lists them as hazards, each at its line.

## The modules

### ConversationRegistry

`conversation-registry.ts`, with the part of `JobRunner.#execute` that uses it. An
element of `Ops` is one call in flight; its `pc` names the await it is suspended at
(the list `PCs`). An element of `Sessions` is a Pi session: its id and canonical file,
which the registry always indexes together.

| Variable | In the code |
|---|---|
| `live`, `rec` | `#byId` / `#bySessionFile` and the `ConversationRecord`; `rec[s].closing` is membership in `#pendingCloses`, `rec[s].abort` in `#pendingAborts` |
| `rec[s].pi` | what Pi does in the session: preflight, running, `agent_end` delivered but still streaming, streaming over but `agent_end` held back |
| `older` | the order of `lastActiveAt`, as a relation, so that no clock is needed |
| `queue` | `#capacityTail`, the chain of promises that serialises capacity decisions |
| `reserved` | `#capacityReservations`, as the set of calls whose closure has not yet decremented it |
| `forkHold`, `temporary` | `#forkSourceReservations` and `#temporaryRuntimes`, by owning fork |
| `disk` | the JSONL files that exist |
| `shutdown` | `#shuttingDown`, and whether `dispose()` has run |

`create`, `open` (with its three waits), `fork`, the job-only methods, prompt, abort,
close, eviction, runtime failure and shutdown are actions; every admission test and
every error path is where the code has it. Payload data (titles, images, workspaces,
network policies) is left out; validation failures that reject before any state changes
are the same as the call not arriving.

Three error paths deserve a word. A duplicate of a registered session awaits the disposal of
its runtime (`"superseded"`), which may reject. After a fork has registered its record,
`getState` awaits the durability check (`"checking"`, `"missing"`): it may find the file gone or meet
another file system error, and `fork()`'s catch block then disposes the record (`Retract`,
`"retracting"`). And a fork that finds its source gone once its slot is granted rejects outside
its `try` block (line 1004): the slot and the hold are never given back, so the call stays
`"stranded"`, holding both.

Not in this module: session replacement within a record, image and history lookups;
titles, rename and durability checks are in `LiveConversation`.

### JobSchedule, JobRuns

`JobSchedule` is the interval arithmetic of `job-schedule.ts`. `JobRuns` is the
repository, scheduler, runner and the coordinator's shutdown. `job` and `row` are the
SQLite tables and survive `ProcessEnds`; everything else is memory. Each await of
`#execute` is a value of `exec[r].pc`, each continuation an action that tests the seal
and the stop request where the code does, and carries the revision its `ActiveRun` holds
so that an optimistic-concurrency refusal can happen. `RuntimeCoordinator.beginShutdown`
is one step, with and without the interruption transaction succeeding. Hook output,
phases, error codes and workspace policies are left out: no property reads them.

A run identity is inserted once; deleted rows keep their identity and their job, so that
`OccurrenceOnce` still speaks about them and an `ActiveRun` whose job was deleted while its
conversation is being released keeps the job id it holds in the code.

### OutboundChannel, OutboundFlow

`OutboundChannel` is what one browser socket is promised: an ordered channel that may
lose cumulative messages (each superseded by a later one of its kind), loses no other,
and may break off. `OutboundFlow` is `outbound-flow.ts`, shown to implement it with the
mapping `pending <- queue`, `delivered <- written`, `up <- ~disposed`.

`queue`, `queuedBytes`, `timer` and `disposed` are the fields of the controller;
`pressure` is the time since `#pressureStartedAt`; `open` and `buffered` are what it
reads of the socket. A message has a size and, when it is a cumulative one, a coalesce
key. `send()` is one action with the code's outcomes: written at once, replacing an
adjacent update, dropped, queued after discarding updates, or closing the client. The
socket and the clock are external: the peer reads any amount at any time or nothing at
all, callbacks come late or never, and the socket may close before its close event.

### ConversationSync

How one browser follows one conversation, across `conversation-registry.ts` (revisions,
registrations), `protocol.ts` (commands in order, responses, broadcasts, the history
subscription and its refresh loop), `client.ts` and `state.ts` (pending requests,
recovery, resynchronisation, the reducer). The socket is `OutboundChannel`: it keeps its
order and loses cumulative messages, which here is the fault `"drop"`.

| Variable | In the code |
|---|---|
| `live`, `epoch`, `rev` | whether the registry has a record, which registration it is, and each registration's `record.revision` |
| `inbox`, `serving` | the socket's `tail` of commands and the one being handled; `serving.stage` separates building an answer from sending it |
| `refresh`, `subscribed` | the entry of `#historyRefreshes` and the socket's entry of `#historySubscriptions` |
| `down` | messages sent and not yet handled by the browser |
| `page` | the browser: connection, projection, `resyncConversationIds`, `#resyncing`, the listed status, `#pending` |

The content of a projection is the set of the events it reflects, tagged with their
registration: enough to tell a hole, a mixture of two registrations, and a step back. A
request made by several awaits (`#recover`) is a pending request with a purpose; what
follows its await is `Resolved` or `Rejected`. `#recover` begins here with the workspace's
history list: the workspace and job lists before it touch nothing that is modelled.

### SandboxRuntime

One sandboxed runtime, from `PiRuntimeFactory.#createRuntime` to its disposal. `boot` is
how far construction has come, with the unwinding of every later failure; `c` is
`SandboxController` with the life of each worker it started (spawned, ready,
invalidated, dead), `c.restart` the await its planned restart is suspended at; `pi` is
the run and its one tool call; `wrap` is `PiConversationRuntime`: the `agent_end` it holds
back, whether it is disposed, whether teardown is complete. Pi is external: it ends a run
after an abort once the tool call has settled.

### WorkerPipe

The protocol between `SandboxWorkerClient` and the worker inside the namespace, over two
ordered pipes. `pending` and `active` are the tables of the two ends; `mutations` and
`processes` are `withMutationQueue` and `withProcessOperation`, queues whose head holds
the target or the process slot. The content of the one file is the set of the operations
it shows, so a lost update is visible. `fault` tells why a worker was given up: `"frame"`, an
end received what it must refuse, or `"overflow"`, a queue of the client was full. `Send` is
`#send`: the frame is queued, or the client fails if the frames ahead of it may leave no room
(`QueueFits` is the number that always fit; sizes are abstracted, so beyond it either happens).
Output beyond `MaxTasks` pending callbacks is an overflow too, and a callback that throws fails
the client. The byte limit of pending output is not a case of its own: the stream is paused at
3 MiB, a frame has at most 1 MiB, and the limit is 4 MiB.
`UpFrames` and `DownFrames` are what travels each way, `Delivered` what a frame does to the
pending request it belongs to, `Released` the passing on of a queue's gate.

### ManagedEgress

`ManagedNetworkRuntime` (`rt`), the native helper's processes (`helper`), the guest's
connections through bridge, proxy, policy, admission, resolution, dial and relay
(`conn`), and `ConnectionAdmission.#active`. A host is the sequence of its labels, so the
pattern modes (exact, subdomains, apex and subdomains, all) are translated as the code
matches them, and `EgressPermitted` states their languages independently. `SlotsCounted`
says that the admission counter is the number of connections dialled or relayed; each path
on which a dial fails, comes too late or loses its client must give its slot back once
(proved, not run). A server crash
leaves the private directory, which the next start cleans up.

### Workspaces

The migrations of `database.ts` one transaction each, `WorkspaceRepository` with its
acknowledgements and its policy evaluation, and the way of a conversation command through
`requireUsable`, admission, history and the runtime factory to a live record. `consent`
is the history of what the user chose or acknowledged. A restart may bring other server
modes, policy sets and directories.

### SearchIndex

Every await of `SearchIndexer.drain` is a value of `pc`; `pass` holds its locals. Files,
registrations and the served embedding space change without notice. A transaction may
fail, or fail at its client and commit later (`late`). `reader` is a client that follows
cursors. A text is named by the fingerprint it was read under, and a document's id and
generation are one version.

### Lifecycle

The process: startup in dependency order and its unwinding, signal handlers, the calls of
`GracefulShutdown` in their order, the coordinator, hooks with their process groups, the
command queues, subscriptions and refreshes of two browsers. A command is the sequence of
its synchronous segments, told apart by whether they query SQLite; `late` records a query
issued when the connection is not open. The closing of storage and `process.exit` are one
step: the exit follows the closing through promise reactions only, and the model assumes that
no reaction queued by then queries SQLite. `proc` tells how the process ended: `"exited"` after a
complete shutdown, `"expired"` by the deadline, `"failed"` after an unwound startup, `"killed"`.
`GraceIsLong` says whether the configured grace period exceeds the 250 ms of a hook's escalation.

### LiveConversation

One conversation from Pi's session to the screen: `PiEventNormalizer` (with the completion
it defers to a microtask), the serialisers, the registry's title, durability and status,
the browser's reducer, and what `MessageTimeline` shows. Delivery is `ConversationSync`'s
business: here events and snapshots arrive in revision order. The timeline of the
projection that events built is compared with that of a fresh snapshot. Reading a snapshot or
renaming has the awaits of `#refreshDurability`: `access()` fixes what it finds (`Begin`) and uses
it later (`Refreshed`), a change is told before `#refreshHistory` is awaited and the snapshot is taken
after it (`HistoryRefreshed`), and `access()` may reject (`AccessFails`). Two things are assumed of Pi:
the deferred completion of one event has run when it emits the next (`Yielded`), and a
message is in the branch when its deferred completion looks for it, so that the fallback of
`normalize-events.ts` line 185 to the temporary identity is not taken.

### How the modules fit together

`OutboundFlow` implements `OutboundChannel`, which is the channel `ConversationSync`
assumes; `ConversationSync` delivers in order what `LiveConversation` applies.
`SandboxRuntime` promises `ConversationRegistry` that disposals settle and runs end, and
rests on `WorkerPipe` (a worker is not lost to a protocol fault) and `ManagedEgress`.
`Lifecycle` has the shutdown around `JobRuns` and `ConversationRegistry`, and what
`Workspaces` commands do to SQLite in time. Each module takes the others' promises as
its environment; they are not composed into one state space.

## Runs

| Run | Instance | States | What it shows |
|---|---|---|---|
| `registry` | 2 calls, 3 sessions, limit 2; open, fork, job | 2.5 M | live limit, single writer, only a failing fork closes another fork's source, nothing leaked, nothing outlives dispose, no open waits for one that ended |
| `jobs` | 1 job, 2 runs, interval 2, time 0..3, fair | 0.6 M | rows and executions agree over crashes, no overlap, an occurrence is claimed once and eventually, executions end |
| `outbound` | 4 messages, sizes 1 and 2, two keys, high-water mark 2, limit 3, fair | 0.56 M | byte limit, retained messages are polled, implements `OutboundChannel`, a queue drains or its client is closed |
| `sync_one` | 1 registration, 2 revisions, all faults, fair | 0.16 M | the browser shows a state the conversation had and never goes back; a noticed gap is healed or an error shown |
| `sync_told` | 2 registrations, 1 revision, closes, fair | 0.6 M | a change during a history list is listed again |
| `sandbox` | 3 workers, managed network, fair | 2.1 k | one namespace, none after teardown or failed construction, runs end |
| `pipe` | 3 requests, table of 2, 1 pending output, queues that fill up | 0.27 M | the ends agree, no lost edit, cleanup meets no other process |
| `egress` | 2 connections, 1 slot, 1 crash, fair | 0.13 M | nothing outlives close, only permitted destinations, slots return |
| `spaces` | 1 workspace, 1 command, 5 directories, 4 server configurations, 2 writes, 1 restart | | schema and version agree, only acknowledged authority, a live runtime has its workspace's policy |
| `search` | 1 workspace, 2 stores, 2 files, 2 embedding spaces, 2 events, fair | | whole documents, whole readings, convergence |
| `lifecycle` | 1 hook, 2 browsers, 3 events, fair | 0.81 M | hooks reaped, no late query, refreshes owed are requested, the process ends |
| `live` | 2 tool calls, 5 entries, 2 reads | 1.4 M | each stored message once and in order; at rest events and snapshot show the same |

Seven more configurations end in a violation, each within seconds: they check what a document or
a comment of the repository says, without the exception that the property of the passing run
makes, and TLC finds the steps by which the code does otherwise. They are not runs of
`PROJECT.json`, where the hazards refer to them, and nothing proved rests on them. They are
discussed under "Where the code and its documents disagree".

| Configuration (module) | Instance | Property | Said at |
|---|---|---|---|
| `ForkSource.cfg` (`MCConversationRegistry`) | as `registry`, open and fork | `SourceKept` | `conversation-registry.ts` line 942 |
| `JobEvicted.cfg` (`MCConversationRegistry`) | 2 job calls, 2 sessions, limit 1 | `JobRunsNotEvicted` | `docs/jobs-design.md` line 132 |
| `SyncMixed.cfg` (`MCConversationSync`) | 2 registrations, 2 revisions, closes | `ProjectionFaithful` | `docs/revision-semantics.md` line 26 |
| `SyncBehind.cfg` (`MCConversationSync`) | 1 registration, 2 revisions, no fault | `GapsAskedFor` | `docs/revision-semantics.md` line 34 |
| `ToolWaits.cfg` (`MCSandboxRuntime`) | 2 workers | `NoCircularWait` | `docs/design.md` line 948 |
| `PolicyRaced.cfg` (`MCWorkspaces`) | as `spaces` | `LiveHasItsWorkspace` | `docs/design.md` line 236 |
| `HookGrace.cfg` (`MCLifecycle`) | 1 hook, short grace period | `Escalated` | `docs/jobs-design.md` line 324 |

Bounds and why they are enough:

* `registry`: two calls give every pairwise race and are reused, so sequences are
  unbounded; the limit itself is proved for any number of calls. Forking needs the
  source, the fork and a third session that competes for the slot; with limit 2 both
  "must evict" and "may not evict" occur. `create` takes the path of `RequestNew`, which
  job conversations take too, and then that of `open` without its lookup. A browser prompts
  only while no conversation is busy (`MaxPrompted` 1); jobs prompt at any time, so two busy
  ones still occur.
* `jobs`: two rows are the smallest number about which overlap and repetition can be
  said. The timer's cap is smaller than the interval, so capped delays occur; time 3 is
  past one whole period, so an overdue start skips. One manual run comes before, during
  or after a scheduled one.
* `outbound`: a full queue, an update before and after an essential message, and a
  replacement that outgrows the limit all occur; a second key gives "adjacent but of
  another kind"; `Patience` 1 separates "not yet" from "too slow".
* `sync_*`: `MaxRev` 2 gives a projection, a lost update and an event behind the gap; two
  registrations in `sync_told` reopen. `Ids` exceeds the requests the browser has in flight of
  its own accord. `sync_told` leaves out drops and failed lists, since neither is sent again.
* `sandbox`: three workers are two replacements, so a replacement can itself be replaced.
* `pipe`: a table of two with three requests is full; two are enough for two edits, for an
  edit and a write, and for a command beside a search. `MaxTasks` 1 and `QueueFits` 1 let both
  queues of the client overflow and also be full without overflowing.
* `egress`: with one slot a slot not returned starves the second connection. The policy has
  each pattern mode but "all", a denial below an allowed domain, a wrong port and an
  allowed literal address that is not public.
* `spaces`: migration starts from every version. Two writes are the least for a request
  stored first and activated later; mounts overlap, lie in protected directories, or not.
* `search`: two files may carry the same session id, so a session moves between files; two
  events give a change during the pass that the previous change caused. The two chunks of
  the layout overlap.
* `lifecycle`: one hook, since hooks do not interact; two browsers, so that a refresh for one meets
  the departure of the other.
* `live`: five entries are a prompt, an answer with two calls, their results, and a last
  answer.

Deadlock is checked in `registry`, `jobs`, `sync_one` and `lifecycle`. The others may
really stop: nothing is left to send, the conversation stays closed, the runtime is
disposed, or the bounded events are spent. Symmetry is used over interchangeable
identities, and only in runs without liveness.

### Fairness

Weak fairness of a continuation means that the event loop runs what has settled.
`jobs`: due timers fire, claims go on, executions continue (a hook, a prompt and a release
settle: hooks are bounded by their timeout, prompts by provider or abort). `outbound`:
only the poll timer and the clock, not the peer and not the callbacks. `sync_*`: the
server's and the browser's continuations, delivery on an open socket, and reconnecting
(`#scheduleReconnect` never gives up). `sandbox`: construction, restart, failure and
close continue, handshakes end (they have a timeout), a killed process stops, tool calls
settle, and Pi's run ends if it can do so again and again (strong, since a tool call may
intervene). `egress`: the dial's deadline and the relay's idle timer. `search`: the
indexer's awaits, the refresh timer and PostgreSQL's late commit. `lifecycle`: only the grace deadline
and the hook's escalation timer: nothing is assumed of runtimes, hooks, prompts or
browsers. Nothing anywhere is promised of clients, failures or restarts.

## Proofs

Eight modules prove, for every value of the constants, every invariant and every safety action
property that the runs check. Each follows one argument: an inductive invariant, checked by TLC on the
run's instance before it was proved, is shown to hold initially and to be kept by each action, and
implies the properties. Bounds of the runs (`MaxTime`, `MaxOutput`, `MaxRestarts`, ...) stay
parameters. The assumptions are the named `ASSUME`s of the component's module: limits are natural
numbers (those that the configuration requires to be positive, positive), null values are no
members of the sets they stand beside, and the sets that are counted are finite.

`DeliveryProofs` and `WorkspacesProofs` extend several components at once, so the names that every
specification has are prefixed in all but the first of them: `LiveSpec`, `SyncSpec`, `SearchSpec`,
and likewise `Init`, `Next`, `vars` and `TypeOK`. The components share no variable.

**`ConversationRegistryProofs`** (`FiniteAssumption`, `MaxLiveAssumption`, `NullAssumption`,
`CallsAssumption`).

* `TypeCorrect`, `CapacityRespected` (`RuntimesBounded`). The limit alone is not inductive: a
  call about to build might hold no slot. `Inv` is `TypeOK /\ SlotsHeld /\ SlotsBounded`.
  `SlotsHeld` says that a call keeps its slot from the grant until its runtime is registered or
  gone; `SlotsBounded` counts the records together with the slots of calls that have not
  registered, since `create` and `open` keep their slot for one more await after their record is
  inserted, and for that while occupy two. Every action is "quiet" (takes no slot, registers
  nothing) except `ReserveSlot`, whose guard is the limit, and `Register`, which turns one slot
  into one record.
* `OneWriterPerFile` (`SingleWriter`), `ForkSourcesProtected`, `HoldingsReturned`
  (`NothingLeaks`), `DisposeTakesAll` (`NoneOutlivesDispose`), `NoWakeupLost` (`WaitersServed`),
  all from `Ownership`. `ForkSourcesProtected` is about steps: only `dispose()` and the error path
  of the fork that made it take away the source of a fork under way. `NothingLeaks` excepts the
  stranded fork's slot and hold. `OwnershipInv` is `TypeOK /\ SlotsHeld /\ Holdings /\ Waiting /\ Writers`.
  `Holdings` gives every slot, fork hold and temporary runtime an owner that will return it, and
  ties the awaits a call may be suspended at to its kind. `Waiting` says that a session has one
  opener and the capacity chain no call twice; without it an open could wait for one that was
  replaced. `Writers` says that a session being created is known to no other call, and that an
  open finds its session registered before itself only by a fork.

**`JobRunsProofs`** (`IntervalAssumption`, `MaxTimerAssumption`, `BoundAssumption`,
`NeverAssumption`, `NoJobAssumption`, `FiniteAssumption`).

* `FirstOccurrenceCorrect`, `AdvancePassesBoth`: for every anchor, interval and instant the next
  occurrence is the first grid point strictly after the instant, and a claim moves past both the
  claimed occurrence and now.
* `JobsTypeCorrect`, `RunsOwned` (`RunningIsExecuted`), `JobsNeverOverlap` (`NoOverlap`),
  `OccurrencesClaimedOnce` (`OccurrenceOnce`). `JobsInv` adds that memory is empty while the
  server is down (`MemoryEmpty`), that what is to be dispatched is queued until persistence is
  sealed (`DispatchQueued`), that only enabled jobs have a next occurrence and what the claim loop
  has listed is still due (`NextPlanned`), and `ClaimsPassed`: a claimed occurrence lies before
  the job's next one. `ClaimsPassed` is why nothing is claimed twice, and `AdvancePassesBoth`
  keeps it. `RowsSuffice` is about the bound on run identities only.

**`DeliveryProofs`, `OutboundFlow`** (`SizesAssumption`, `LimitsAssumption`, `KeyAssumption`), for
every set of sizes and keys, all limits and any number of messages.

* `RetainedPolled` (`RetainedIsPolled`). `PollInv` adds that a disposed controller has an empty
  queue and no timer. `#updatePressure` is the last thing every entry point does (`SendPolls`,
  `PumpPolls`), and it leaves the timer set whenever it leaves anything queued.
* `FlowTypeCorrect`, `SlowClientBounded` (`MemoryBounded`). `FlowInv` adds that the running total
  `#queuedBytes`, which `send` tests, is the true size of the queue; so a total that drifted by
  one replacement, discard or pump would break the proof. It rests on what `Bytes` counts
  (`BytesCount`, `BytesSplit`) and on the loop of `#discardDroppableUntil` (`DiscardCounts`).
* `FlowImplementsChannel` (`ImplementsChannel`): every step maps to a step of `OutboundChannel` or
  to none (`StepImplements`). `send` is an `Offer` whose lost messages are named case by case:
  none, the message itself, the one it replaces, both, or those the loop discards
  (`SendOffers`, `ThinEnds`, `DiscardThins`); `#pump` and `dispose` are a `Drain`.

`Bytes`, `Discard` and `Thin` are recursive functions. What they compute is proved by induction
over the naturals in the form "a set that contains 0 and successors is everything" (`Induction`,
from the least missing number), which needs no operator parameter; `Stepwise` gives the
existence of a function that is defined step by step.

**`DeliveryProofs`, `LiveConversation`** (`LiveAssumption`), for any number of tool calls,
entries, parts, deltas and snapshots.

* `LiveInvariance`: `LiveInv` is `LiveTypeOK /\ PiInv /\ ShownInv /\ FieldsInv`. `PiInv` is what Pi
  keeps to: a call is asked for once and answered at most once, afterwards (`OnceInBranch`); an
  open call is in the latest answer, while the agent runs (`CallsInBranch`); and what the message
  being produced and the entry whose completion is deferred may be (`Producing`, `Deferred`).
  `ShownInv` says what the screen holds at every moment between Pi's events: the stored entries in
  order, each shown by its message (`Shows`), and then nothing, the message being produced, or
  the stored one whose completion is still to come. In a shown answer its parts come first and at
  their positions, and what follows is output of calls it asks for (`ShowsParts`); the status of a
  call agrees with how far Pi is with it, unless a snapshot overlooked its end (`Told`).
* `EntriesAreInOrder` (`EntriesInOrder`) is `ShownInv` without the contents. That a completion
  finds the streaming message, or none because a snapshot has replaced it, is `CompletionPlaced`.
* `ViewsAgreeAtRest` (`ViewsAgree`). At rest no call is open, so the messages of the projection and
  those of a fresh snapshot both show every entry (`RestShown`), although they are not equal: the
  projection keeps tool output inside the answer, the snapshot has it in the stored results only.
  Whatever messages show the branch, the cards are those of the calls it asks for (`RestCalls`),
  the result on a card is the stored one since it comes after all output of the call
  (`RestOutput`, `RestResult`), and every entry is drawn alike (`RestMessageDrawn`,
  `SameTimeline`).

**`DeliveryProofs`, `ConversationSync`** (`BoundsAssumption`), for any number of
revisions, requests and faults.

* `SyncInvariance`: `SyncInv` says that answers and messages in flight name registrations and
  revisions that the registry has given (`Answering`, `Underway`) and that the browser shows each
  revision up to its own once, by the event of one registration (`RevisionsOnce`). This holds for
  any number of registrations; it is what is left of `ProjectionFaithful` when a browser mixes two
  (see below).
* `NothingTakenBack` (`NeverBackwards`), for any number of registrations: the revision shown never
  decreases, and something shown disappears only when the snapshot of one registration replaces
  what another contributed. `ProjectionsFaithful` (`ProjectionFaithful`), in every state with one
  registration. The browser's step is followed through
  the reducer: only an event and a snapshot touch the projection, the first by the next revision,
  the second by the content of its own (`OnEventExtends`, `OnSnapshotReplaces`, `AcceptProjects`).

**`SandboxRuntimeProofs`** (`SandboxAssumption`), for any number of worker replacements.
`RuntimeTypeCorrect`, `NamespaceExclusive` (`OneNamespace`), `NoWorkerSurvives`
(`TeardownOwnsNothing`). `RuntimeInv` says which workers exist (`Census`: all but the newest are
dead), what each await of a planned restart, of a close and of construction knows of the newest
one (`Transition`, `Replacing`, `Closing`, `BootInv`), and that the controller exists from the
adoption of its first worker (`Adopted`). The properties speak of the worker's process; only
these stages tell that a restart that lost its race with a close leaves none behind.

**`WorkerPipeProofs`** (`PipeAssumption`, `NoOpAssumption`), for any number of requests and any table
size.

* `PipeTypeCorrect`, `EditsSerialised` (`NoLostUpdate`), `CleanupAlone` (`CleanupMeetsNoOther`) from
  `WorkerInv`: whoever is past a queue is its head (`LocksHeld`).
* `EndsAgree` (`PeersAgree`): neither end ever receives a frame it must refuse, while the client is
  open, whatever overflows or throws on the way. `PipeInv` adds `Agreement`, the contents of both pipes against both tables: a request
  precedes its data and its answers (`RequestsFirst`, `DataExpected`), what the worker has the
  client awaits (`ActiveAwaited`), output arrives without gap and a response is last
  (`AnswersAwaited`), an unused id is unknown everywhere, and the table is within its limit.

**`ManagedEgressProofs`** (`EgressAssumption`; `PolicyAssumption`, what the normalisation of hosts and
patterns lets pass).

* `PolicySound`: `decide` allows a destination only if it lies in the language of an allowed
  pattern and of no denied one, for every policy and every host; each pattern mode is compared
  with its language (`MatchesLanguage`).
* `EgressTypeCorrect`, `NoRelayAfterClose` (`NothingOutlivesClose`), `EgressOnlyPermitted`
  (`EgressPermitted`), and `SlotsExact` (`SlotsCounted`, which no run checks). `EgressInv` adds
  `Decided`: what is being dialled has passed the policy, and what is relayed has a public
  address.

**`LifecycleProofs`** (`LifecycleAssumption`), for any number of hooks, browsers and commands.
`LifecycleTypeCorrect`, `StorageOutlivesItsUsers` (`NoLateQuery`), `NoRefreshLost` (`RefreshOwed`),
`HookGroupsReaped` (`HooksReaped`), for every grace period: what the deadline may leave of a hook
depends on `GraceIsLong`, that it was told to terminate does not. `LifecycleInv` says which phases of startup and shutdown occur together and that
the connection is open in all but the first and the last (`Phases`), that a shutdown has sealed the
runs and told the hooks (`RunsInv`), that a hook that was told ends only by `SIGKILL` of its group
(`HooksInv`), and that only connected browsers of a serving process are owed anything
(`ClientsInv`).

**`WorkspacesProofs`, `Workspaces`** (`ConstantsAssumption`, `NullAssumption`), for any number of
workspaces and commands, any policy sets, directories and configurations. `WorkspacesTypeCorrect`,
`SchemaComplete` (`SchemaMatchesVersion`), `RuntimesConsented` (`AuthorityAcknowledged`),
`RuntimesCurrent` (`LiveIsCurrent`). The properties speak of live runtimes; `WorkspacesInv` also has
`SchemaInv` (the version names the committed migrations and a start's plan is the rest),
`RowsConsented` (every authority a stored row would give was acknowledged, also one that the
present mode does not put into effect: a later start may), and `CallsInv` (the same of every command
past `requireUsable`). Two lemmas carry it: `#evaluatePolicy` narrows a row under every
configuration (`PolicyNarrows`), and `update`'s acknowledgements cover all that a new row has over the
old one (`UpdatesAcknowledged`).

**`WorkspacesProofs`, `SearchIndex`** (`SearchAssumption`), for any finite set of workspaces,
stores, files and embedding spaces and any number of events.

* `DocumentsWhole` (`Whole`). `PassInv` says that from the snapshot to the
  publication the pass holds the text of the candidate's own fingerprint, and that its deletions
  are deletions; `StoreInv` says the same of every document and of the transaction whose commit may
  still come.
* `PagesAreWhole` (`PagesWhole`), for every layout of chunks that `chunkMessages` makes
  (`WellLaid`). `Reading` says that what a client has read, from its first page to its cursor, is
  one page of the version it began with. Three things carry it: pages that meet at a cursor join
  to one page (`PageJoin`, `PageAfter`); the page over a whole entry is the entry's text, each
  overlap counted once (`PageIsCuts`, `PageIsAll`); and a version that is replaced never comes
  back (`FreshIsNew`), so a cursor into it is refused and not continued in another text.
  `FlattenSeq` is recursive; its last step is proved from the function that its definition chooses
  (`JoinExists`, `JoinUnique`, `FlattenLast`).

The proofs led to corrections of the models: a deleted run's row had to keep its job, as the
`ActiveRun` in memory does; the cases of the pattern match had to be disjoint, as the code's
early returns make them; and the shape of a layout, which `chunkMessages` makes and
`validateWindow` tests, had to be stated (`WellLaid`).

Only model-checked:

* liveness (`DueIsClaimed`, `ExecutionsEnd`, `QueueDrains`, `GapsHealed`, `SubscribersTold`,
  `RunsSettle`, `SlotsReturn`, `Converges`, `ShutdownEnds`): reasoning under fairness is beyond
  the prover.

## Where the code and its documents disagree

These behaviours are in the models. Where a document or a comment says otherwise, a configuration of
its own has the counterexample; the properties of the runs except these cases by name, and the
hazards in `PROJECT.json` record them.

* `ForkSource.cfg`: the comment on `reserveFork` (line 942) says that a reservation protects the source
  from closing. When `getState` rejects for a freshly registered fork, `fork()`'s catch block disposes
  that record although a second fork may have reserved it as its source.
* `JobEvicted.cfg`: `#leastRecentlyUsedIdle` does not look at a record's owner or at a prompt in Pi's
  preflight: the conversation of an active job run can be evicted while it is idle, against
  `docs/jobs-design.md` lines 132 and 138.
* `SyncMixed.cfg`: revisions restart with each registration and events do not name theirs: a browser
  that still holds a closed registration may apply an event of the next one
  (`docs/revision-semantics.md` line 26).
* `SyncBehind.cfg`: an event sent between the building of a requested snapshot and its arrival is
  discarded, and the snapshot ends the resynchronisation (`docs/revision-semantics.md` line 34,
  `docs/design.md` line 528). `GapsHealed` counts such a gap as healed.
* `ToolWaits.cfg`: a tool call that begins while a restart invalidates its worker waits for the restart,
  which waits for Pi, which waits for the tool; `docs/design.md` lines 399 and 948 say this wait is
  avoided. `RunsSettle` excepts `CircularWait`.
* `PolicyRaced.cfg`: a workspace updated between `requireUsable` and the insertion of the record leaves a
  runtime under the old policy (`docs/design.md` line 236). `LiveIsCurrent` excepts `raced`.
* `HookGrace.cfg`: a grace period below 250 ms ends the process before a hook's `SIGKILL`
  (`docs/jobs-design.md` line 324).

Without such a configuration, since no document is plainly against them:

* A run claimed after the previous run's result is recorded but before its conversation is
  released is refused by the runner and stays queued until the next restart
  (`docs/jobs-design.md` line 214). `NoOverlap` shows the refusal is right; nobody retries.
* A fork whose source has gone when its slot is granted keeps the slot and the hold for good:
  `NothingLeaks` excepts it as `"stranded"`.
* `#refreshDurability` uses an `ENOENT` from before the first message was stored after the
  record has become durable and declares the file missing for good.
* A snapshot between `tool_execution_end` and the storing of its result leaves the call
  pending at the browser until the next snapshot: `ViewsAgree` excepts `overlooked`.
* A `history.list` that settles after its socket closed leaves a subscription behind, and a
  change between the reading of a list and its subscription is not reported.
* A client whose caller sends faster than the worker reads fails by the overflow of its own
  queue; `docs/bubblewrap-design.md` line 415 says so, and `PeersAgree` is not about it.

## Not modelled, and the plan

Out of reach or not worth a model: bubblewrap arguments, descriptors and namespace
set-up; the bytes of HTTP, SOCKS5 and the frame encoding; address ranges; SQL text,
search ranking, where a text is cut into chunks, and text extraction; rendering other than the timeline; static
files; HTTP tools, web search and image validation (requests without shared state);
configuration parsing; and the calendar arithmetic of daily schedules, which is the
time-zone database's.

Left out of modelled components: rewind (replacement of the session inside a record),
steering queues, the browser's job revisions and drafts, database failures other than the
shutdown transaction, a wall clock that is set back, the two concurrent starts that clean the
same stale network directory, and a bridge that dies after it was ready.

Next would be rewind in `ConversationRegistry` and `LiveConversation`, and job revisions in
`ConversationSync`.
