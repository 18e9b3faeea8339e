---------------------------- MODULE SandboxRuntime ----------------------------
(***************************************************************************)
(* One sandboxed conversation runtime: its construction                    *)
(* (PiRuntimeFactory.#createRuntime), the wrapper PiConversationRuntime,   *)
(* SandboxController, which owns a replaceable worker namespace, and the   *)
(* life of each worker as SandboxWorkerClient runs it.                     *)
(*                                                                         *)
(* Pi, the model provider's agent loop, is external: a run is busy between *)
(* a prompt and its agent_end, calls one tool at a time, and after an      *)
(* abort signal calls no further tool; session.abort() and waitForIdle()   *)
(* resolve when the run has ended, and the former may reject.              *)
(***************************************************************************)
EXTENDS Naturals

CONSTANTS
    MaxWorkers, \* bound: workers a runtime starts, the first included
    Managed     \* the workspace's network policy is managed-egress

ASSUME SandboxAssumption == MaxWorkers \in Nat \ {0} /\ Managed \in BOOLEAN

VARIABLES
    boot,   \* how far #createRuntime has come
    net,    \* the ManagedNetworkRuntime
    c,      \* the SandboxController and its workers
    pi,     \* Pi's run and its tool call
    wrap    \* PiConversationRuntime: what it holds back, what the registry was told

vars == <<boot, net, c, pi, wrap>>

Workers == 1..MaxWorkers

(* A worker is starting until its handshake, live, closing while it is     *)
(* asked to shut down, stopping while its process group is signalled, and  *)
(* dead once #terminateOnce has finished.                                  *)
WorkerStates == {"none", "starting", "live", "closing", "stopping", "dead"}

(* The type invariant.  The field restart is the stage of the transition   *)
(* of #plannedRestart, term that of #terminalFailure, closing that of      *)
(* #closeOnce; a tool call is at #current, running, or (exec) at the       *)
(* workerInvalidated milestone.                                            *)
TypeOK ==
    /\ boot \in {"network", "worker", "sdk", "ready", "unwinding", "failed"}
    /\ net \in {"absent", "up", "failed", "closing", "closed"}
    /\ c \in [state : {"none", "healthy", "restarting", "error", "closed"},
              worker : 0..MaxWorkers, made : 0..MaxWorkers, wk : [Workers -> WorkerStates],
              restart : {"none", "invalidating", "settling", "creating", "discarding"},
              term : {"none", "invalidating", "settling", "done"}, fatal : BOOLEAN,
              closing : {"no", "worker", "restart", "done"}]
    /\ pi \in [busy : BOOLEAN, tool : {"none", "current", "file", "exec", "milestone"},
               signal : BOOLEAN]
    /\ wrap \in [held : BOOLEAN, status : {"idle", "streaming", "error"},
                 disposed : BOOLEAN, teardownComplete : BOOLEAN]

Init ==
    /\ boot = IF Managed THEN "network" ELSE "worker"
    /\ net = "absent"
    /\ c = [state |-> "none", worker |-> 0, made |-> 0, wk |-> [w \in Workers |-> "none"],
            restart |-> "none", term |-> "none", fatal |-> FALSE, closing |-> "no"]
    /\ pi = [busy |-> FALSE, tool |-> "none", signal |-> FALSE]
    /\ wrap = [held |-> FALSE, status |-> "idle", disposed |-> FALSE, teardownComplete |-> FALSE]
-----------------------------------------------------------------------------
(* Transformers of the controller's state d.                               *)

Pending(d) == d.term \in {"invalidating", "settling"}

Spawned(d) == [d EXCEPT !.made = @ + 1, !.wk[d.made + 1] = "starting"]

(* SandboxWorkerClient.invalidate                                          *)
Invalidated(d, w) ==
    IF w # 0 /\ d.wk[w] \in {"starting", "live", "closing"} THEN [d EXCEPT !.wk[w] = "stopping"] ELSE d

(* SandboxWorkerClient.close                                               *)
ClientClosed(d, w) == IF w # 0 /\ d.wk[w] = "live" THEN [d EXCEPT !.wk[w] = "closing"] ELSE d

(* #plannedRestart: one transition at a time, none once closed or failed.  *)
PlannedRestart(d) ==
    IF d.state # "healthy" THEN d
    ELSE Invalidated([d EXCEPT !.state = "restarting", !.restart = "invalidating"], d.worker)

(* #terminalFailure: admission and replacement are locked at once.         *)
TerminalFailure(d) ==
    IF d.state \in {"none", "closed"} \/ Pending(d) \/ d.fatal THEN d
    ELSE Invalidated([d EXCEPT !.state = "error", !.term = "invalidating"], d.worker)

(* close: admission closes before the first await.                         *)
Closed(d) ==
    IF d.state = "none" \/ d.closing # "no" THEN d
    ELSE ClientClosed([d EXCEPT !.state = "closed", !.closing = "worker"], d.worker)

(* #rejectPending settles the tool call of a worker that stops.  A bash    *)
(* call that finds a restart under way waits for its milestone; any other  *)
(* call, and bash otherwise, rejects and Pi's run goes on.                 *)
Rejecting(d) ==
    IF d.worker = 0 \/ d.wk[d.worker] \in {"starting", "live"} \/ pi.tool \notin {"file", "exec"} THEN pi
    ELSE IF pi.tool = "exec" /\ d.restart = "invalidating" /\ d.state = "restarting"
         THEN [pi EXCEPT !.tool = "milestone"]
         ELSE [pi EXCEPT !.tool = "none"]

Controller(d) == c' = d /\ pi' = Rejecting(d)

(* session.abort: the signal reaches a run that is in progress.            *)
Aborting(p) == [p EXCEPT !.signal = p.busy]

(* #notifyFatal and the wrapper's #notifyFatalFailure.                     *)
NotifiesFatal(d) ==
    IF d.state = "closed" THEN c' = d /\ UNCHANGED wrap
    ELSE /\ c' = [d EXCEPT !.fatal = TRUE]
         /\ wrap' = IF boot = "ready" /\ ~wrap.disposed THEN [wrap EXCEPT !.status = "error", !.held = FALSE]
                    ELSE wrap
-----------------------------------------------------------------------------
(* #createRuntime                                                          *)

(* The catch block: everything already made is closed, all at once.        *)
Unwind ==
    /\ boot' = "unwinding"
    /\ Controller(Closed(c))
    /\ net' = IF net = "up" THEN "closing" ELSE net
    /\ UNCHANGED wrap

StartNetwork ==
    /\ boot = "network"
    /\ \/ boot' = "worker" /\ net' = "up"
       \/ boot' = "failed" /\ net' = net
    /\ UNCHANGED <<c, pi, wrap>>

(* SandboxController.start calls createWorker; it throws if the proxy has  *)
(* failed, or if the launch cannot be built.                               *)
LaunchFirst ==
    /\ boot = "worker" /\ c.made = 0
    /\ \/ /\ net # "failed"
          /\ c' = Spawned(c)
          /\ UNCHANGED <<boot, net, pi, wrap>>
       \/ Unwind

(* createWorker settles: a worker that reported a fatal failure is torn    *)
(* down before start rejects; a proxy failure meanwhile is terminal.       *)
ControllerStarted ==
    /\ boot = "worker" /\ c.made = 1
    /\ \/ /\ c.wk[1] = "live"
          /\ LET d == [c EXCEPT !.state = "healthy", !.worker = 1] IN
             IF net = "failed"
             THEN /\ boot' = "unwinding"
                  /\ Controller(Closed(TerminalFailure(d)))
                  /\ UNCHANGED <<net, wrap>>
             ELSE /\ boot' = "sdk"
                  /\ c' = d
                  /\ UNCHANGED <<net, pi, wrap>>
       \/ c.wk[1] = "dead" /\ Unwind

(* createAgentSessionRuntime returns or fails; the wrapper subscribes to   *)
(* both owners' failures before the startup observer is removed.           *)
RuntimeCreated ==
    /\ boot = "sdk"
    /\ \/ /\ net # "failed" /\ c.state = "healthy"
          /\ boot' = "ready"
          /\ UNCHANGED <<net, c, pi, wrap>>
       \/ Unwind

Unwound ==
    /\ boot = "unwinding"
    /\ c.state = "none" \/ c.closing = "done"
    /\ net \in {"absent", "failed", "closed"}
    /\ boot' = "failed"
    /\ UNCHANGED <<net, c, pi, wrap>>
-----------------------------------------------------------------------------
(* The worker client.                                                      *)

(* The ready frame is accepted.                                            *)
WorkerReady(w) ==
    /\ c.wk[w] = "starting"
    /\ c' = [c EXCEPT !.wk[w] = "live"]
    /\ UNCHANGED <<boot, net, pi, wrap>>

(* #fail: a protocol violation, a pipe error, an exit, or the handshake's  *)
(* timeout.  The controller is told before the process group is gone.      *)
WorkerFails(w) ==
    /\ c.wk[w] \in {"starting", "live"}
    /\ Controller(TerminalFailure([c EXCEPT !.wk[w] = "stopping"]))
    /\ UNCHANGED <<boot, net, wrap>>

(* Shutdown was answered, or the grace period is over; then SIGTERM and    *)
(* SIGKILL end the namespace.                                              *)
WorkerStops(w) ==
    /\ \/ c.wk[w] = "closing" /\ c' = [c EXCEPT !.wk[w] = "stopping"]
       \/ c.wk[w] = "stopping" /\ c' = [c EXCEPT !.wk[w] = "dead"]
    /\ UNCHANGED <<boot, net, pi, wrap>>
-----------------------------------------------------------------------------
(* The controller's transition.                                            *)

(* Mutant: the milestone and the abort without the invalidation.           *)
RestartWithoutTeardown ==
    /\ c.restart = "invalidating"
    /\ c' = [c EXCEPT !.restart = "settling"]
    /\ pi' = Aborting(pi)
    /\ UNCHANGED <<boot, net, wrap>>

(* previous.invalidate() has resolved: the milestone, then Pi's abort.     *)
RestartInvalidated ==
    /\ c.restart = "invalidating" /\ c.wk[c.worker] = "dead"
    /\ c' = [c EXCEPT !.restart = "settling"]
    /\ pi' = Aborting(pi)
    /\ UNCHANGED <<boot, net, wrap>>

(* Pi is idle: the transition ends if the controller has been closed or    *)
(* has failed; otherwise it creates the replacement, or fails to.          *)
RestartSettled ==
    /\ c.restart = "settling" /\ ~pi.busy
    /\ \/ /\ c.state # "restarting"
          /\ c' = [c EXCEPT !.restart = "none"]
          /\ UNCHANGED wrap
       \/ /\ c.state = "restarting"
          /\ c' = [Spawned(c) EXCEPT !.restart = "creating"]
          /\ UNCHANGED wrap
       \/ /\ c.state = "restarting"
          /\ NotifiesFatal([c EXCEPT !.restart = "none", !.state = "error"])
    /\ UNCHANGED <<boot, net, pi>>

(* Pi's abort rejects, with its run possibly still going on: the catch     *)
(* block.                                                                  *)
RestartRejected ==
    /\ c.restart = "settling"
    /\ IF c.state = "restarting"
       THEN NotifiesFatal([c EXCEPT !.restart = "none", !.state = "error"])
       ELSE c' = [c EXCEPT !.restart = "none"] /\ UNCHANGED wrap
    /\ UNCHANGED <<boot, net, pi>>

(* Mutant: the held agent_end is forgotten.                                *)
ReplacementAdoptedSilently ==
    /\ c.restart = "creating" /\ c.wk[c.made] = "live" /\ c.state = "restarting"
    /\ c' = [c EXCEPT !.restart = "none", !.state = "healthy", !.worker = c.made]
    /\ wrap' = [wrap EXCEPT !.held = FALSE]
    /\ UNCHANGED <<boot, net, pi>>

(* The replacement is adopted; whoever waits in waitUntilReady continues   *)
(* before any other event, so a held agent_end is published here.          *)
ReplacementAdopted ==
    /\ c.restart = "creating" /\ c.wk[c.made] = "live" /\ c.state = "restarting"
    /\ c' = [c EXCEPT !.restart = "none", !.state = "healthy", !.worker = c.made]
    /\ wrap' = [wrap EXCEPT !.held = FALSE,
                            !.status = IF wrap.held /\ ~wrap.disposed THEN "idle" ELSE @]
    /\ UNCHANGED <<boot, net, pi>>

(* It is not wanted any more, or has failed: torn down, then the catch     *)
(* block ends the transition.  A held agent_end is dropped with it.        *)
ReplacementDiscarded ==
    /\ \/ /\ c.restart = "creating" /\ c.wk[c.made] = "live" /\ c.state # "restarting"
          /\ c' = [Invalidated(c, c.made) EXCEPT !.restart = "discarding"]
          /\ UNCHANGED wrap
       \/ /\ c.restart \in {"creating", "discarding"} /\ c.wk[c.made] = "dead"
          /\ c' = [c EXCEPT !.restart = "none"]
          /\ wrap' = [wrap EXCEPT !.held = FALSE]
    /\ UNCHANGED <<boot, net, pi>>

(* The asynchronous part of #terminalFailure.                              *)
FailureSettles ==
    /\ \/ /\ c.term = "invalidating" /\ c.wk[c.worker] = "dead"
          /\ c' = [c EXCEPT !.term = "settling"]
          /\ pi' = Aborting(pi)
          /\ UNCHANGED wrap
       \/ /\ c.term = "settling" /\ ~pi.busy
          /\ NotifiesFatal([c EXCEPT !.term = "done"])
          /\ UNCHANGED pi
    /\ UNCHANGED <<boot, net>>

(* Mutant: close does not wait for the transition.                         *)
CloseIgnoresRestart ==
    /\ \/ /\ c.closing = "worker" /\ c.wk[c.worker] = "dead"
          /\ c' = [c EXCEPT !.closing = "restart"]
       \/ /\ c.closing = "restart"
          /\ c' = [c EXCEPT !.closing = "done"]
    /\ UNCHANGED <<boot, net, pi, wrap>>

(* #closeOnce, after its first await.                                      *)
CloseProceeds ==
    /\ \/ /\ c.closing = "worker" /\ c.wk[c.worker] = "dead"
          /\ c' = [c EXCEPT !.closing = "restart"]
       \/ /\ c.closing = "restart" /\ c.restart = "none"
          /\ c' = [c EXCEPT !.closing = "done"]
    /\ UNCHANGED <<boot, net, pi, wrap>>
-----------------------------------------------------------------------------
(* Pi's run and its tools.                                                 *)

(* prompt, past #assertUsable.                                             *)
Prompt ==
    /\ boot = "ready" /\ ~wrap.disposed /\ c.state = "healthy"
    /\ ~pi.busy /\ wrap.status = "idle"
    /\ pi' = [pi EXCEPT !.busy = TRUE, !.signal = FALSE]
    /\ wrap' = [wrap EXCEPT !.status = "streaming"]
    /\ UNCHANGED <<boot, net, c>>

(* #current decides whether a tool call waits, runs or fails at once; a    *)
(* call that fails at once leaves the run as it was.                       *)
AfterCurrent ==
    CASE c.state = "healthy" -> {"file", "exec"}
      [] c.state = "restarting" -> {"current"}
      [] OTHER -> {"none"}

ToolCalled ==
    /\ pi.busy /\ pi.tool = "none" /\ ~pi.signal
    /\ \E t \in AfterCurrent : t # "none" /\ pi' = [pi EXCEPT !.tool = t]
    /\ UNCHANGED <<boot, net, c, wrap>>

ToolResumes ==
    /\ pi.tool = "current" /\ c.restart = "none"
    /\ \E t \in AfterCurrent : pi' = [pi EXCEPT !.tool = t]
    /\ UNCHANGED <<boot, net, c, wrap>>

(* The worker answers; or bash has reached its milestone and rejects.      *)
ToolSettles ==
    /\ pi.tool \in {"file", "exec"} \/ (pi.tool = "milestone" /\ c.restart # "invalidating")
    /\ pi' = [pi EXCEPT !.tool = "none"]
    /\ UNCHANGED <<boot, net, c, wrap>>

(* exec's own deadline, which precedes the worker's.                       *)
ExecTimesOut ==
    /\ pi.tool = "exec" /\ c.made < MaxWorkers
    /\ Controller(PlannedRestart(c))
    /\ UNCHANGED <<boot, net, wrap>>

(* agent_end.  Unless the worker is healthy it is held until               *)
(* waitUntilReady resolves, and dropped if that rejects.                   *)
RunEnds ==
    /\ pi.busy /\ pi.tool = "none"
    /\ pi' = [pi EXCEPT !.busy = FALSE]
    /\ wrap' = IF wrap.disposed \/ wrap.status # "streaming" THEN wrap
               ELSE CASE c.state = "healthy" -> [wrap EXCEPT !.status = "idle"]
                      [] c.state = "restarting" -> [wrap EXCEPT !.held = TRUE]
                      [] OTHER -> wrap
    /\ UNCHANGED <<boot, net, c>>
-----------------------------------------------------------------------------
(* The registry and the network act on the runtime.                        *)

Abort ==
    /\ boot = "ready" /\ ~wrap.disposed
    /\ c.state = "healthy" /\ c.made < MaxWorkers
    /\ Controller(PlannedRestart(c))
    /\ UNCHANGED <<boot, net, wrap>>

(* #disposeOnce: Pi, the controller and the network start their teardown   *)
(* in the same step; no event is published any more.                       *)
Dispose ==
    /\ boot = "ready" /\ ~wrap.disposed
    /\ wrap' = [wrap EXCEPT !.disposed = TRUE]
    /\ c' = Closed(c)
    /\ pi' = Aborting(Rejecting(Closed(c)))
    /\ net' = IF net = "up" THEN "closing" ELSE net
    /\ UNCHANGED boot

Disposed ==
    /\ wrap.disposed /\ ~wrap.teardownComplete
    /\ c.closing = "done" /\ net \in {"absent", "failed", "closed"}
    /\ wrap' = [wrap EXCEPT !.teardownComplete = TRUE]
    /\ UNCHANGED <<boot, net, c, pi>>

(* ManagedNetworkRuntime.#fatal reaches failTerminal through the startup   *)
(* observer and, once constructed, through the wrapper.                    *)
NetworkFails ==
    /\ net = "up"
    /\ net' = "failed"
    /\ Controller(TerminalFailure(c))
    /\ UNCHANGED <<boot, wrap>>

NetworkCloses ==
    /\ net = "closing"
    /\ net' = "closed"
    /\ UNCHANGED <<boot, c, pi, wrap>>
-----------------------------------------------------------------------------
Construct == StartNetwork \/ LaunchFirst \/ ControllerStarted \/ RuntimeCreated \/ Unwound

Restart == RestartInvalidated \/ RestartSettled \/ ReplacementAdopted \/ ReplacementDiscarded

Next ==
    \/ Construct \/ Restart \/ RestartRejected \/ FailureSettles \/ CloseProceeds
    \/ \E w \in Workers : WorkerReady(w) \/ WorkerFails(w) \/ WorkerStops(w)
    \/ Prompt \/ ToolCalled \/ ToolResumes \/ ToolSettles \/ ExecTimesOut \/ RunEnds
    \/ Abort \/ Dispose \/ Disposed \/ NetworkFails \/ NetworkCloses

HandshakeEnds(w) == c.wk[w] = "starting" /\ (WorkerReady(w) \/ WorkerFails(w))

(* Timers fire and processes end; a handshake succeeds or its timer fails  *)
(* it; a tool call ends or times out; a run that may end does, however     *)
(* many tools it calls first.                                              *)
Fairness ==
    /\ WF_vars(Construct) /\ WF_vars(Restart) /\ WF_vars(FailureSettles) /\ WF_vars(CloseProceeds)
    /\ \A w \in Workers : WF_vars(HandshakeEnds(w)) /\ WF_vars(WorkerStops(w))
    /\ WF_vars(ToolResumes) /\ WF_vars(ToolSettles) /\ SF_vars(RunEnds)
    /\ WF_vars(Disposed) /\ WF_vars(NetworkCloses)

Spec == Init /\ [][Next]_vars

FairSpec == Spec /\ Fairness
-----------------------------------------------------------------------------
Gone(w) == c.wk[w] \in {"none", "dead"}

(* A conversation has one namespace: a replacement is not even started     *)
(* before its predecessor's process group is gone.                         *)
OneNamespace ==
    \A v, w \in Workers : v < w /\ c.wk[w] # "none" => c.wk[v] = "dead"

(* When the runtime's teardown is complete, or its construction has        *)
(* failed, no worker is left: not the replacement of a restart that was    *)
(* under way, nor one whose handshake was still going on.                  *)
TeardownOwnsNothing ==
    wrap.teardownComplete \/ boot = "failed" => \A w \in Workers : Gone(w)

(* A tool call that came during a restart waits for it, and the restart    *)
(* for the run: nothing but Pi can end this.                               *)
CircularWait == pi.tool = "current" /\ c.restart # "none"

(* docs/design.md: an active tool's timeout or abort settles without a     *)
(* circular wait of Pi and tool.  #current makes a call that comes after   *)
(* the invalidation wait for the restart (worker-controller.ts 225-231).   *)
NoCircularWait == ~CircularWait

(* Every other run ends with an event: the conversation does not stay      *)
(* streaming after a timeout, an abort, a worker or a proxy that failed.   *)
RunsSettle ==
    (wrap.status = "streaming") ~> (wrap.status # "streaming" \/ wrap.disposed \/ CircularWait)

=============================================================================
