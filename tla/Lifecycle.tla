----------------------------- MODULE Lifecycle -----------------------------
(***************************************************************************)
(* The server process from its first line to its exit:                     *)
(*   index.ts                startup in dependency order, its unwinding,   *)
(*                           the signal handlers and the transports,       *)
(*   shutdown.ts             the bounded graceful shutdown,                *)
(*   runtime-coordinator.ts  the shutdown of scheduler, hooks and runs,    *)
(*   job-hook-runner.ts      the process groups of trusted Bash hooks,     *)
(*   job-hook-path.ts        the admission of a hook script,               *)
(*   protocol.ts             the command queue of a socket, the history    *)
(*                           subscriptions and their refreshes.            *)
(* The run of a job is its hook followed by its prompt; JobRuns has the    *)
(* rest of it, ConversationRegistry what happens to runtimes, and          *)
(* Workspaces what the commands do.  Here a command is the sequence of its *)
(* synchronous segments, told apart only by whether they use SQLite.       *)
(* There is one workspace.  Error codes, diagnostics, message payloads and *)
(* the routes that only read (health, configuration, images) are left out. *)
(***************************************************************************)
EXTENDS Integers, Sequences, FiniteSets

CONSTANTS
    Hooks,          \* job runs, each with one hook
    Sockets,        \* browser connections
    Commands,       \* the commands that they send
    MaxOutput,      \* hookMaxOutputBytes
    MaxEvents,      \* bound on commands and conversation events
    GraceIsLong,    \* gracePeriodMs exceeds JOB_HOOK_TERMINATION_GRACE_MS
    None

ASSUME LifecycleAssumption ==
    /\ MaxOutput \in Nat \ {0}
    /\ MaxEvents \in Nat
    /\ GraceIsLong \in BOOLEAN

VARIABLES
    boot,       \* how far startChatWcaServer has come
    stage,      \* how far the shutdown has come
    proc,       \* "up", or how the process ended: "expired" is by the deadline
    db,         \* the SQLite connection
    late,       \* history: a query was issued while it was not open
    sealed,     \* #persistenceSealed of the job runner
    admitting,  \* the scheduler, the job runner and the hook runner are not closed
    run,        \* the execution of each job run
    stop,       \* the runs with a stopReason
    hook,       \* the hook runner's state and the process group of each hook
    script,     \* the file that the jobs name as their hook
    accepting,  \* HTTP upgrades are accepted
    disposed,   \* the protocol is shutting down and disposed
    socket,     \* the state of each connection
    queue,      \* received commands not yet begun, in order
    busy,       \* remaining segments of the command in progress, or None
    subs,       \* #historySubscriptions
    refresh,    \* the entry of #historyRefreshes
    owed,       \* history: subscribers that a change concerns and no listing yet
    spent

process == <<boot, stage, proc>>
storage == <<db, late, sealed>>
jobs == <<admitting, run, stop, hook, script>>
clients == <<accepting, disposed, socket, queue, busy, subs, refresh, owed>>
vars == <<process, storage, jobs, clients, spent>>

Up == proc = "up"

\* A query: it is late when the connection is not open.
Query == late' = (late \/ db # "open")

\* A hook: the runner's state of it, its process group and retained output.
HookStates == [st : {"none", "run", "term", "done"}, group : {"none", "live", "mute", "dead"},
               out : 0..MaxOutput, told : BOOLEAN, ok : BOOLEAN, closed : BOOLEAN]
NoHook == [st |-> "none", group |-> "none", out |-> 0, told |-> FALSE, ok |-> FALSE,
           closed |-> FALSE]
Refreshes == [running : BOOLEAN, requested : BOOLEAN]
Idle == [running |-> FALSE, requested |-> FALSE]
Scripts == [kind : {"file", "link", "gone"}, roots : 0..2, exposed : BOOLEAN]

Init ==
    /\ boot = "config" /\ stage = "no" /\ proc = "up"
    /\ db = "none" /\ late = FALSE /\ sealed = FALSE
    /\ admitting = FALSE
    /\ run = [h \in Hooks |-> "none"] /\ stop = {}
    /\ hook = [h \in Hooks |-> NoHook]
    /\ script = [kind |-> "file", roots |-> 1, exposed |-> FALSE]
    /\ accepting = FALSE /\ disposed = FALSE
    /\ socket = [s \in Sockets |-> "none"]
    /\ queue = [s \in Sockets |-> <<>>]
    /\ busy = [s \in Sockets |-> None]
    /\ subs = {} /\ refresh = Idle /\ owed = {}
    /\ spent = 0

-----------------------------------------------------------------------------
(* Hooks.                                                                  *)

\* terminate: the first reason signals the group and arms the escalation.
\* A group whose processes all obey SIGTERM ends by itself (GroupShrinks).
Terminate(k) == IF k.st = "run" THEN [k EXCEPT !.st = "term", !.told = TRUE] ELSE k

\* JobHookPathAdmission.validate: a regular file beneath exactly one root that
\* nothing the agent controls overlaps.
Admissible(f) == f.kind = "file" /\ f.roots = 1 /\ ~f.exposed

\* The administrator, or the agent in a directory it may write, changes the file.
ScriptChanges ==
    /\ Up /\ Admissible(script) /\ \E h \in Hooks : run[h] = "ready"
    /\ script' \in {[script EXCEPT !.kind = "link"], [script EXCEPT !.exposed = TRUE]}
    /\ UNCHANGED <<process, storage, admitting, run, stop, hook, clients, spent>>

\* The policy and the capacity of a run have been awaited.  Unless the runner
\* is sealed or the run is stopped, the phase is stored, the script is checked
\* once more and Bash is spawned in a process group of its own.
RunProceeds(h) ==
    /\ Up /\ run[h] = "ready"
    /\ IF sealed
       THEN run' = [run EXCEPT ![h] = "done"] /\ UNCHANGED <<late, hook>>
       ELSE /\ Query
            /\ IF h \in stop \/ ~Admissible(script)
               THEN run' = [run EXCEPT ![h] = "done"] /\ UNCHANGED hook
               ELSE \/ /\ admitting
                       /\ hook' = [hook EXCEPT ![h].st = "run", ![h].group = "live"]
                       /\ run' = [run EXCEPT ![h] = "hook"]
                    \/ \* closed, or the spawn failed: an empty failure
                       run' = [run EXCEPT ![h] = "done"] /\ UNCHANGED hook
    /\ UNCHANGED <<process, db, sealed, admitting, stop, script, clients, spent>>

\* Outside: the shell ends, leaving nothing or descendants that hold no pipe.
GroupShrinks(h) ==
    /\ hook[h].group \in {"live", "mute"}
    /\ \E g \in {"mute", "dead"} \ {hook[h].group} : hook' = [hook EXCEPT ![h].group = g]
    /\ UNCHANGED <<process, storage, admitting, run, stop, script, clients, spent>>

\* Output within the limit is retained; the chunk that crosses it terminates.
Output(h) ==
    /\ Up /\ hook[h].st = "run" /\ hook[h].group = "live"
    /\ hook' = IF hook[h].out < MaxOutput
               THEN [hook EXCEPT ![h].out = hook[h].out + 1]
               ELSE [hook EXCEPT ![h] = Terminate(hook[h])]
    /\ UNCHANGED <<process, storage, admitting, run, stop, script, clients, spent>>

\* The timeout, a stream error or an error of the child.
HookTerminates(h) ==
    /\ Up /\ hook[h].st = "run"
    /\ hook' = [hook EXCEPT ![h] = Terminate(hook[h])]
    /\ UNCHANGED <<process, storage, admitting, run, stop, script, clients, spent>>

(* Mutant: the close of a terminating child ends the hook.                 *)
ChildClosesFinish(h) ==
    /\ Up /\ hook[h].st \in {"run", "term"} /\ ~hook[h].closed /\ hook[h].group # "live"
    /\ \E ok \in BOOLEAN : hook' = [hook EXCEPT ![h].closed = TRUE, ![h].st = "done", ![h].ok = ok]
    /\ UNCHANGED <<process, storage, admitting, run, stop, script, clients, spent>>

\* onClose: both pipes are closed.  A hook told to terminate still waits for
\* the escalation, which reaches the descendants that let go of the pipes.
ChildCloses(h) ==
    /\ Up /\ hook[h].st \in {"run", "term"} /\ ~hook[h].closed /\ hook[h].group # "live"
    /\ IF hook[h].st = "term"
       THEN hook' = [hook EXCEPT ![h].closed = TRUE]
       ELSE \E ok \in BOOLEAN :
              hook' = [hook EXCEPT ![h].closed = TRUE, ![h].st = "done", ![h].ok = ok]
    /\ UNCHANGED <<process, storage, admitting, run, stop, script, clients, spent>>

\* SIGKILL to the whole group, then the hook is finished.
Escalate(h) ==
    /\ Up /\ hook[h].st = "term"
    /\ hook' = [hook EXCEPT ![h].st = "done", ![h].group = "dead"]
    /\ UNCHANGED <<process, storage, admitting, run, stop, script, clients, spent>>

\* The run continues after its hook, records the result and prompts, or ends.
RunResumes(h) ==
    /\ Up /\ run[h] = "hook" /\ hook[h].st = "done"
    /\ run' = [run EXCEPT ![h] =
           IF ~sealed /\ hook[h].ok /\ h \notin stop THEN "prompt" ELSE "done"]
    /\ IF sealed THEN UNCHANGED late ELSE Query
    /\ UNCHANGED <<process, db, sealed, admitting, stop, hook, script, clients, spent>>

\* The prompt settles, if it ever does, and the run is finished.
PromptEnds(h) ==
    /\ Up /\ run[h] = "prompt"
    /\ run' = [run EXCEPT ![h] = "done"]
    /\ IF sealed THEN UNCHANGED late ELSE Query
    /\ UNCHANGED <<process, db, sealed, admitting, stop, hook, script, clients, spent>>

\* A due or manual run is claimed, started and dispatched.
Dispatch(h) ==
    /\ Up /\ boot \in {"bind", "serving"} /\ admitting /\ run[h] = "none"
    /\ run' = [run EXCEPT ![h] = "ready"]
    /\ Query
    /\ UNCHANGED <<process, db, sealed, admitting, stop, hook, script, clients, spent>>

\* job.abort: the run is told to stop, and its hook with it.
Abort(h) ==
    /\ Up /\ boot = "serving" /\ stage = "no" /\ run[h] \in {"ready", "hook", "prompt"}
    /\ h \notin stop
    /\ stop' = stop \cup {h}
    /\ hook' = [hook EXCEPT ![h] = Terminate(hook[h])]
    /\ UNCHANGED <<process, storage, admitting, run, script, clients, spent>>

-----------------------------------------------------------------------------
(* Shutdown of what the process owns.                                      *)

Active == {h \in Hooks : run[h] \notin {"none", "done"}}

(* Mutant: a failed interruption leaves the runner unsealed.               *)
CoordinatorBeginsSealedIfStored ==
    /\ admitting' = FALSE
    /\ stop' = stop \cup Active
    /\ hook' = [h \in Hooks |-> Terminate(hook[h])]
    /\ Query
    /\ sealed' \in BOOLEAN

\* RuntimeCoordinator.beginShutdown, in one turn: admission closes, every run is
\* stopped and every group signalled, the rows are marked interrupted, and the
\* runner is sealed whether or not that succeeded.
CoordinatorBegins ==
    /\ admitting' = FALSE
    /\ stop' = stop \cup Active
    /\ hook' = [h \in Hooks |-> Terminate(hook[h])]
    /\ Query
    /\ sealed' = TRUE

\* GracefulShutdown.#run up to its first await: the coordinator begins, upgrades
\* are refused, clients are told and closed, the protocol lets go of its listeners.
ShutdownBegins ==
    /\ CoordinatorBegins
    /\ accepting' = FALSE
    /\ disposed' = TRUE
    /\ socket' = [s \in Sockets |-> IF socket[s] = "open" THEN "closing" ELSE socket[s]]
    /\ subs' = {} /\ owed' = {}
    /\ refresh' = [refresh EXCEPT !.requested = FALSE]
    /\ stage' = "aborting"
    /\ UNCHANGED <<db, run, script, queue, busy>>

\* SIGINT or SIGTERM once the handlers are installed.  A second one is coalesced.
Signal ==
    /\ Up /\ boot = "serving" /\ stage = "no"
    /\ ShutdownBegins
    /\ UNCHANGED <<boot, proc, spent>>

\* abortActive settles: the search pool and every aborted run.
AbortsSettle ==
    /\ Up /\ stage \in {"aborting", "unwinding"}
    /\ stage' = IF stage = "aborting" THEN "disposing" ELSE "unwound"
    /\ UNCHANGED <<boot, proc, storage, jobs, clients, spent>>

\* Every dispose settles: hooks, executions and runtimes.
Disposed == \A h \in Hooks : hook[h].st \notin {"run", "term"} /\ run[h] \in {"none", "done"}

DisposeSettles ==
    /\ Up /\ stage = "disposing" /\ Disposed
    /\ stage' = "draining"
    /\ UNCHANGED <<boot, proc, storage, jobs, clients, spent>>

\* closeStorage.  After a signal the process exits in the same turn; a failed
\* startup only sets the exit code.
CloseStorage(exit) ==
    /\ db' = "closed"
    /\ stage' = "done"
    /\ proc' = IF boot = "serving" THEN exit ELSE proc

\* The transports are closed too: shutdown completes before its deadline.
Completes ==
    /\ Up /\ stage = "draining" /\ \A s \in Sockets : socket[s] \in {"none", "gone"}
    /\ CloseStorage("exited")
    /\ UNCHANGED <<boot, late, sealed, jobs, clients, spent>>

(* Mutant: the deadline waits for the runtimes it has told to dispose.     *)
DeadlineAwaits ==
    /\ Up /\ stage \in {"aborting", "disposing", "draining"} /\ Disposed
    /\ socket' = [s \in Sockets |-> IF socket[s] = "closing" THEN "gone" ELSE socket[s]]
    /\ CloseStorage("expired")
    /\ UNCHANGED <<boot, late, sealed, jobs, accepting, disposed, queue, busy, subs, refresh,
                   owed, spent>>

\* The grace period ends first: dispose is invoked and not awaited, connections
\* are destroyed and storage is closed.  Both timers start in the turn that
\* begins the shutdown, so a long grace period outlasts every escalation.
Deadline ==
    /\ Up /\ stage \in {"aborting", "disposing", "draining"}
    /\ GraceIsLong => \A h \in Hooks : hook[h].st # "term"
    /\ socket' = [s \in Sockets |-> IF socket[s] = "closing" THEN "gone" ELSE socket[s]]
    /\ CloseStorage("expired")
    /\ UNCHANGED <<boot, late, sealed, jobs, accepting, disposed, queue, busy, subs, refresh,
                   owed, spent>>

-----------------------------------------------------------------------------
(* Startup.                                                                *)

\* Configuration is read and SQLite is opened.
OpenStorage ==
    /\ Up /\ boot = "config"
    /\ boot' = "probe" /\ db' = "open"
    /\ UNCHANGED <<stage, proc, late, sealed, jobs, clients, spent>>

\* The network helper and the sandbox worker are validated and probed.
Probe ==
    /\ Up /\ boot = "probe"
    /\ boot' = "factory"
    /\ UNCHANGED <<stage, proc, storage, jobs, clients, spent>>

\* Repositories, search, the runtime factory, the registry and the job services.
Construct ==
    /\ Up /\ boot = "factory"
    /\ boot' = "recover" /\ admitting' = TRUE
    /\ UNCHANGED <<stage, proc, storage, run, stop, hook, script, clients, spent>>

\* scheduler.start: old runs are recovered and missed ones claimed and dispatched.
Recover ==
    /\ Up /\ boot = "recover"
    /\ boot' = "bind"
    /\ Query
    /\ \E missed \in SUBSET Hooks :
         run' = [h \in Hooks |-> IF h \in missed THEN "ready" ELSE run[h]]
    /\ UNCHANGED <<stage, proc, db, sealed, admitting, stop, hook, script, clients, spent>>

\* The listener is bound, search starts and the signal handlers are installed.
Bind ==
    /\ Up /\ boot = "bind"
    /\ boot' = "serving" /\ accepting' = TRUE
    /\ UNCHANGED <<stage, proc, storage, jobs, disposed, socket, queue, busy, subs, refresh,
                   owed, spent>>

\* Any step throws.  With a server its shutdown unwinds; with a coordinator its
\* aborts and disposals are awaited without a deadline; before that only
\* storage is owned.
StartupFails ==
    /\ Up /\ boot \in {"config", "probe", "factory", "recover", "bind"}
    /\ boot' = "failed"
    /\ \/ /\ boot = "bind"
          /\ ShutdownBegins
       \/ /\ boot \in {"recover", "bind"}
          /\ CoordinatorBegins
          /\ stage' = "unwinding"
          /\ UNCHANGED <<db, run, script, clients>>
       \/ /\ boot \in {"config", "probe", "factory"}
          /\ db' = IF db = "open" THEN "closed" ELSE db
          /\ stage' = "done"
          /\ UNCHANGED <<late, sealed, jobs, clients>>
    /\ UNCHANGED <<proc, spent>>

\* The unwinding without a server has awaited its disposals.
Unwinds ==
    /\ Up /\ stage = "unwound" /\ Disposed
    /\ CloseStorage("exited")
    /\ UNCHANGED <<boot, late, sealed, jobs, clients, spent>>

\* After a failed startup the process ends when nothing is left to wait for.
Drains ==
    /\ Up /\ boot = "failed" /\ stage = "done" /\ Disposed
    /\ proc' = "failed"
    /\ UNCHANGED <<boot, stage, storage, jobs, clients, spent>>

\* A signal before the handlers are installed ends the process at once.
EarlySignal ==
    /\ Up /\ boot # "serving"
    /\ proc' = "killed"
    /\ UNCHANGED <<boot, stage, storage, jobs, clients, spent>>

-----------------------------------------------------------------------------
(* Commands.                                                               *)

\* The segments of a command between its awaits: "db" uses SQLite.  Its reply
\* is sent at the end of the last one.
WorkspaceSteps(c) == <<"db">>

ConversationSteps(c) ==
    CASE c = "history.list" -> <<"db", "free">>
      [] c = "conversation.create" -> <<"db", "free", "free", "free">>
      [] c = "conversation.open" -> <<"db", "db", "free", "free", "free">>
      [] c = "conversation.delete" -> <<"db", "free">>
      [] c = "conversation.close" -> <<"free", "free", "free">>
      [] c = "conversation.fork" -> <<"free", "db", "free", "free">>
      [] c = "conversation.rewind" -> <<"free", "db", "db", "free", "free", "free">>
      [] OTHER -> <<"free", "free">>    \* state, rename, prompts and abort

JobSteps(c) ==
    CASE c \in {"job.run", "job.run.state"} -> <<"db", "free">>
      [] c = "job.abort" -> <<"free", "free">>
      [] OTHER -> <<"db">>              \* list, create, update, delete, runs

Steps(c) ==
    CASE c \in {"workspace.list", "workspace.create", "workspace.update", "workspace.delete"}
           -> WorkspaceSteps(c)
      [] c \in {"job.list", "job.create", "job.update", "job.delete", "job.run", "job.abort",
                "job.runs", "job.run.state"} -> JobSteps(c)
      [] OTHER -> ConversationSteps(c)

\* A command in progress: the segments that are left of it.
Work == [cmd : Commands, rest : Seq({"db", "free"}) \ {<<>>}]

\* Commands with an affectedWorkspaceId whose result carries no listing.
Affecting == {"conversation.create", "conversation.open", "conversation.rename",
              "conversation.close", "conversation.fork"}

\* An upgrade: the connection gets a flow and a command queue.
Connect(s) ==
    /\ Up /\ accepting /\ socket[s] = "none"
    /\ socket' = [socket EXCEPT ![s] = "open"]
    /\ UNCHANGED <<process, storage, jobs, accepting, disposed, queue, busy, subs, refresh,
                   owed, spent>>

\* The browser goes away, or answers the close: its flow and subscription go.
SocketCloses(s) ==
    /\ Up /\ socket[s] \in {"open", "closing"}
    /\ socket' = [socket EXCEPT ![s] = "gone"]
    /\ subs' = subs \ {s}
    /\ owed' = owed \ {s}
    /\ UNCHANGED <<process, storage, jobs, accepting, disposed, queue, busy, refresh, spent>>

\* A message joins the socket's tail.
Receive(s, c) ==
    /\ Up /\ socket[s] \in {"open", "closing"} /\ spent < MaxEvents
    /\ queue' = [queue EXCEPT ![s] = Append(@, c)]
    /\ spent' = spent + 1
    /\ UNCHANGED <<process, storage, jobs, accepting, disposed, socket, busy, subs, refresh,
                   owed>>

\* A change of the listing concerns everyone subscribed.  A refresh in progress
\* is asked for another round; otherwise one begins: it reads the workspace row
\* and starts to list, or fails at the row.
ScheduleRefresh(current) ==
    IF disposed \/ current = {}
    THEN UNCHANGED <<late, refresh, owed>>
    ELSE IF refresh.running
    THEN /\ refresh' = [refresh EXCEPT !.requested = TRUE]
         /\ owed' = owed \cup current
         /\ UNCHANGED late
    ELSE /\ Query
         /\ owed' = {}
         /\ refresh' \in {Idle, [running |-> TRUE, requested |-> FALSE]}

\* What follows a command's last segment: the subscription, then the refresh.
Reply(s, c) ==
    /\ busy' = [busy EXCEPT ![s] = None]
    /\ subs' = IF c = "history.list" THEN subs \cup {s} ELSE subs
    /\ IF c \in Affecting THEN ScheduleRefresh(subs')
       ELSE UNCHANGED <<refresh, owed>>

\* #handleMessage begins: a command queued when shutdown has begun is dropped.
Begin(s) ==
    /\ Up /\ busy[s] = None /\ queue[s] # <<>>
    /\ queue' = [queue EXCEPT ![s] = Tail(@)]
    /\ LET c == Head(queue[s])
           steps == Steps(c)
       IN  IF disposed THEN UNCHANGED <<late, busy, subs, refresh, owed>>
           ELSE /\ IF Head(steps) = "db" THEN Query ELSE UNCHANGED late
                /\ IF Len(steps) = 1
                   THEN Reply(s, c)
                   ELSE /\ busy' = [busy EXCEPT ![s] = [cmd |-> c, rest |-> Tail(steps)]]
                        /\ UNCHANGED <<subs, refresh, owed>>
    /\ UNCHANGED <<process, db, sealed, jobs, accepting, disposed, socket, spent>>

\* An await of the command settles and its next segment runs.
Resume(s) ==
    /\ Up /\ busy[s] # None
    /\ LET rest == busy[s].rest
       IN  IF Len(rest) = 1
           THEN /\ Reply(s, busy[s].cmd)
                /\ IF busy[s].cmd \in Affecting THEN TRUE ELSE UNCHANGED late
           ELSE /\ busy' = [busy EXCEPT ![s].rest = Tail(@)]
                /\ IF Head(rest) = "db" THEN Query ELSE UNCHANGED late
                /\ UNCHANGED <<subs, refresh, owed>>
    /\ UNCHANGED <<process, db, sealed, jobs, accepting, disposed, socket, queue, spent>>

\* An await of the command rejects: an error response ends it.
Reject(s) ==
    /\ Up /\ busy[s] # None
    /\ busy' = [busy EXCEPT ![s] = None]
    /\ UNCHANGED <<process, storage, jobs, accepting, disposed, socket, queue, subs, refresh,
                   owed, spent>>

\* A conversation changes its status or its metadata.
RegistryEvent ==
    /\ Up /\ boot = "serving" /\ spent < MaxEvents
    /\ spent' = spent + 1
    /\ ScheduleRefresh(subs)
    /\ UNCHANGED <<process, db, sealed, jobs, accepting, disposed, socket, queue, busy, subs>>

(* Mutant: the request is cleared when the listing settles.                *)
RefreshSettlesCleared ==
    /\ Up /\ refresh.running
    /\ refresh' = Idle
    /\ UNCHANGED <<process, storage, jobs, accepting, disposed, socket, queue, busy, subs, owed,
                   spent>>

\* The listing settles and is broadcast, or fails.  If another was requested
\* meanwhile (and, after a failure, somebody is subscribed), it begins with the
\* workspace row.
RefreshSettles ==
    /\ Up /\ refresh.running
    /\ \E listed \in BOOLEAN :
         IF refresh.requested /\ ~disposed /\ (listed \/ subs # {})
         THEN /\ Query
              /\ owed' = {}
              /\ refresh' \in {Idle, [running |-> TRUE, requested |-> FALSE]}
         ELSE /\ refresh' = Idle
              /\ UNCHANGED <<late, owed>>
    /\ UNCHANGED <<process, db, sealed, jobs, accepting, disposed, socket, queue, busy, subs,
                   spent>>

-----------------------------------------------------------------------------
Ended == ~Up /\ UNCHANGED vars

Next ==
    \/ OpenStorage \/ Probe \/ Construct \/ Recover \/ Bind
    \/ StartupFails \/ Unwinds \/ Drains \/ EarlySignal
    \/ Signal \/ AbortsSettle \/ DisposeSettles \/ Completes \/ Deadline
    \/ ScriptChanges \/ RegistryEvent \/ RefreshSettles
    \/ \E h \in Hooks :
         \/ RunProceeds(h) \/ GroupShrinks(h) \/ Output(h) \/ HookTerminates(h)
         \/ ChildCloses(h) \/ Escalate(h) \/ RunResumes(h) \/ PromptEnds(h)
         \/ Dispatch(h) \/ Abort(h)
    \/ \E s \in Sockets :
         \/ Connect(s) \/ SocketCloses(s) \/ Begin(s) \/ Resume(s) \/ Reject(s)
         \/ \E c \in Commands : Receive(s, c)
    \/ Ended

Spec == Init /\ [][Next]_vars

\* The timers fire.  Nothing is assumed of runtimes, hooks, prompts or browsers.
Fairness ==
    /\ WF_vars(Deadline)
    /\ \A h \in Hooks : WF_vars(Escalate(h))

FairSpec == Spec /\ Fairness

-----------------------------------------------------------------------------
(* Properties.                                                             *)

TypeOK ==
    /\ boot \in {"config", "probe", "factory", "recover", "bind", "serving", "failed"}
    /\ stage \in {"no", "aborting", "disposing", "draining", "unwinding", "unwound", "done"}
    /\ proc \in {"up", "exited", "expired", "failed", "killed"}
    /\ db \in {"none", "open", "closed"}
    /\ late \in BOOLEAN /\ sealed \in BOOLEAN /\ admitting \in BOOLEAN
    /\ run \in [Hooks -> {"none", "ready", "hook", "prompt", "done"}]
    /\ stop \subseteq Hooks
    /\ hook \in [Hooks -> HookStates]
    /\ script \in Scripts
    /\ accepting \in BOOLEAN /\ disposed \in BOOLEAN
    /\ socket \in [Sockets -> {"none", "open", "closing", "gone"}]
    /\ subs \subseteq Sockets /\ owed \subseteq Sockets
    /\ refresh \in Refreshes
    /\ queue \in [Sockets -> Seq(Commands)]
    /\ busy \in [Sockets -> {None} \cup Work]
    /\ spent \in 0..MaxEvents

\* A hook that was told to terminate (timeout, output limit, abort or shutdown)
\* leaves no process of its group behind when it is finished.  No hook is
\* unfinished when a shutdown, or the unwinding of a failed startup, has ended
\* the process; when the deadline has, every hook has been told to terminate,
\* and is finished if the grace period exceeds that of the hooks.
HooksReaped ==
    \A h \in Hooks :
       /\ hook[h].st = "done" /\ hook[h].told => hook[h].group = "dead"
       /\ proc \in {"exited", "failed"} => hook[h].st \in {"none", "done"}
       /\ proc = "expired" => hook[h].st # "run" /\ (GraceIsLong => hook[h].st # "term")

\* docs/jobs-design.md, 8.5: at shutdown the hook's process group is signalled
\* and, after a short bounded interval, what remains of it is killed: no process
\* that a signal ended leaves a hook between the two.
Escalated ==
    proc \in {"exited", "expired"} => \A h \in Hooks : hook[h].told => hook[h].st = "done"

\* No continuation of a run, a command or a refresh queries SQLite after the
\* shutdown or the unwinding has closed it, whatever was still in progress.
NoLateQuery == ~late

\* A change of the conversations that happens while a listing is in progress is
\* never lost on a connected subscriber: another listing has been requested.
RefreshOwed ==
    \A s \in owed : ~disposed /\ socket[s] = "open" => refresh.running /\ refresh.requested

\* A signal ends the process, whatever runtimes, hooks, prompts and browsers do.
ShutdownEnds == (boot = "serving" /\ stage # "no") ~> ~Up

=============================================================================
