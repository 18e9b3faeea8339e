------------------------- MODULE SandboxRuntimeProofs -------------------------
(* One namespace at a time, and none after teardown, for every number of   *)
(* workers a runtime may start and with or without a managed network.      *)
(*                                                                         *)
(* Neither invariant is inductive: both need to know which of the workers  *)
(* made so far a transition, a failure or a close still waits for.  That   *)
(* is said of the controller's state alone (ControllerInv), so that it can *)
(* be shown of each transformer of that state once; BootInv then ties it   *)
(* to #createRuntime and to the wrapper.                                   *)
EXTENDS SandboxRuntime, TLAPS

Controllers ==
    [state : {"none", "healthy", "restarting", "error", "closed"},
     worker : 0..MaxWorkers, made : 0..MaxWorkers, wk : [Workers -> WorkerStates],
     restart : {"none", "invalidating", "settling", "creating", "discarding"},
     term : {"none", "invalidating", "settling", "done"}, fatal : BOOLEAN,
     closing : {"no", "worker", "restart", "done"}]

(* The workers made so far are the first ones, and all but the newest of   *)
(* them are gone.                                                          *)
Census(d) ==
    \A w \in Workers : /\ d.wk[w] = "none" <=> w > d.made
                       /\ w < d.made => d.wk[w] = "dead"

(* The controller exists once its first worker has been adopted.           *)
Adopted(d) ==
    /\ d.worker <= d.made
    /\ d.state = "none" <=> d.worker = 0
    /\ d.state = "none" => /\ d.made <= 1 /\ ~d.fatal
                           /\ d.restart = "none" /\ d.term = "none" /\ d.closing = "no"

(* What each stage of #plannedRestart knows of the newest worker.          *)
Transition(d) ==
    /\ d.state = "healthy" => d.restart = "none" /\ d.worker = d.made
    /\ d.state = "restarting" => d.restart \in {"invalidating", "settling", "creating"}
    /\ d.state \in {"healthy", "restarting"} => d.term = "none" /\ ~d.fatal
    /\ d.restart \in {"invalidating", "settling"} => d.worker = d.made /\ d.made < MaxWorkers
    /\ d.restart = "settling" => d.wk[d.worker] = "dead"
    /\ d.restart \in {"creating", "discarding"} => d.worker < d.made
    /\ d.restart = "none" /\ d.worker # 0 /\ d.worker # d.made => d.wk[d.made] = "dead"

(* A replacement that is still wanted has not failed.                      *)
Replacing(d) == d.restart = "creating" /\ d.state = "restarting" => d.wk[d.made] \in {"starting", "live"}

(* How far #closeOnce has come.                                            *)
Closing(d) ==
    /\ d.closing # "no" <=> d.state = "closed"
    /\ d.closing \in {"restart", "done"} => d.wk[d.worker] = "dead"
    /\ d.closing = "done" => d.restart = "none"

StagesInv(d) == d \in Controllers /\ Census(d) /\ Adopted(d) /\ Transition(d) /\ Closing(d)

ControllerInv(d) == StagesInv(d) /\ Replacing(d)

AllGone(d) == \A w \in Workers : d.wk[w] \in {"none", "dead"}

(* What #createRuntime and the wrapper's teardown know of the controller.  *)
BootInv ==
    /\ boot = "network" => c.made = 0
    /\ boot \in {"network", "worker"} => c.state = "none"
    /\ boot \in {"sdk", "ready"} => c.state # "none"
    /\ boot \in {"unwinding", "failed"} => c.state = "closed" \/ (c.state = "none" /\ AllGone(c))
    /\ boot = "failed" /\ c.state = "closed" => c.closing = "done"
    /\ wrap.teardownComplete => c.closing = "done"

(* Everything but the controller has its type.                             *)
OthersOK ==
    /\ boot \in {"network", "worker", "sdk", "ready", "unwinding", "failed"}
    /\ net \in {"absent", "up", "failed", "closing", "closed"}
    /\ pi \in [busy : BOOLEAN, tool : {"none", "current", "file", "exec", "milestone"},
               signal : BOOLEAN]
    /\ wrap \in [held : BOOLEAN, status : {"idle", "streaming", "error"},
                 disposed : BOOLEAN, teardownComplete : BOOLEAN]

RuntimeInv == OthersOK /\ ControllerInv(c) /\ BootInv
-----------------------------------------------------------------------------
(* The transformers.                                                       *)

(* A worker that is not gone is the newest one.                            *)
LEMMA OnlyNewestLives ==
  ASSUME NEW d, StagesInv(d), NEW w \in Workers, d.wk[w] \notin {"none", "dead"}
  PROVE  w = d.made
  BY SandboxAssumption DEF StagesInv, Controllers, Census, Workers

(* Moving the newest worker on towards its end disturbs no stage.          *)
LEMMA Ending ==
  ASSUME NEW d, StagesInv(d), NEW w \in Workers, d.wk[w] \notin {"none", "dead"},
         NEW s \in {"closing", "stopping", "dead"}
  PROVE  StagesInv([d EXCEPT !.wk[w] = s])
  <1> DEFINE e == [d EXCEPT !.wk[w] = s]
  <1>1. w = d.made
    BY OnlyNewestLives
  <1>2. e \in Controllers /\ e.wk = [d.wk EXCEPT ![w] = s]
    BY DEF StagesInv, Controllers, WorkerStates
  <1>3. /\ e.state = d.state /\ e.worker = d.worker /\ e.made = d.made /\ e.restart = d.restart
        /\ e.term = d.term /\ e.fatal = d.fatal /\ e.closing = d.closing
    BY DEF StagesInv, Controllers
  <1>4. d \in Controllers /\ d.wk \in [Workers -> WorkerStates] /\ d.made \in Nat /\ d.worker \in Nat
    BY SandboxAssumption DEF StagesInv, Controllers
  <1> HIDE DEF e
  <1>5. Census(e)
    BY <1>1, <1>2, <1>3, <1>4, SandboxAssumption DEF StagesInv, Census, Workers
  <1>6. Adopted(e)
    BY <1>3 DEF StagesInv, Adopted
  <1>7. \A v \in Workers : d.wk[v] = "dead" => e.wk[v] = "dead"
    BY <1>2, <1>4
  <1>8. d.worker # 0 => d.worker \in Workers /\ d.made \in Workers
    BY <1>4, SandboxAssumption DEF StagesInv, Controllers, Adopted, Workers
  <1>9. d.worker = 0 => d.restart = "none" /\ d.closing = "no"
    BY DEF StagesInv, Adopted
  <1>10. Transition(e)
    BY <1>3, <1>7, <1>8, <1>9 DEF StagesInv, Transition
  <1>11. Closing(e)
    BY <1>3, <1>7, <1>8, <1>9 DEF StagesInv, Closing
  <1> QED BY <1>2, <1>5, <1>6, <1>10, <1>11 DEF StagesInv, e

(* invalidate and close touch the given worker only, and at most end it.   *)
LEMMA InvalidatedKeeps ==
  ASSUME NEW d, StagesInv(d), NEW w \in 0..MaxWorkers
  PROVE  /\ StagesInv(Invalidated(d, w))
         /\ \E k : Invalidated(d, w) = [d EXCEPT !.wk = k]
  <1>1. CASE w # 0 /\ d.wk[w] \in {"starting", "live", "closing"}
    <2>1. w \in Workers
      BY <1>1, SandboxAssumption DEF Workers
    <2>2. Invalidated(d, w) = [d EXCEPT !.wk[w] = "stopping"]
      BY <1>1 DEF Invalidated
    <2> QED BY <1>1, <2>1, <2>2, Ending
  <1>2. CASE ~(w # 0 /\ d.wk[w] \in {"starting", "live", "closing"})
    <2>1. Invalidated(d, w) = d
      BY <1>2 DEF Invalidated
    <2>2. d = [d EXCEPT !.wk = d.wk]
      BY DEF StagesInv, Controllers
    <2> QED BY <2>1, <2>2
  <1> QED BY <1>1, <1>2

(* The closing of a worker client changes that worker and nothing else.    *)
LEMMA ClientClosedKeeps ==
  ASSUME NEW d, StagesInv(d), NEW w \in 0..MaxWorkers
  PROVE  /\ StagesInv(ClientClosed(d, w))
         /\ \E k : ClientClosed(d, w) = [d EXCEPT !.wk = k]
  <1>1. CASE w # 0 /\ d.wk[w] = "live"
    <2>1. w \in Workers
      BY <1>1, SandboxAssumption DEF Workers
    <2>2. ClientClosed(d, w) = [d EXCEPT !.wk[w] = "closing"]
      BY <1>1 DEF ClientClosed
    <2> QED BY <1>1, <2>1, <2>2, Ending
  <1>2. CASE ~(w # 0 /\ d.wk[w] = "live")
    <2>1. ClientClosed(d, w) = d
      BY <1>2 DEF ClientClosed
    <2>2. d = [d EXCEPT !.wk = d.wk]
      BY DEF StagesInv, Controllers
    <2> QED BY <2>1, <2>2
  <1> QED BY <1>1, <1>2

(* #plannedRestart, with a worker left to start.                           *)
LEMMA PlannedRestartKeeps ==
  ASSUME NEW d, ControllerInv(d), d.made < MaxWorkers
  PROVE  /\ ControllerInv(PlannedRestart(d))
         /\ d.state = "none" <=> PlannedRestart(d).state = "none"
         /\ d.state = "closed" => PlannedRestart(d) = d
  <1>1. CASE d.state # "healthy"
    BY <1>1 DEF PlannedRestart
  <1>2. CASE d.state = "healthy"
    <2> DEFINE e == [d EXCEPT !.state = "restarting", !.restart = "invalidating"]
    <2>1. StagesInv(e) /\ e.restart = "invalidating" /\ e.state = "restarting" /\ e.worker = d.worker
      BY <1>2 DEF ControllerInv, StagesInv, Controllers, Census, Adopted, Transition, Closing
    <2>2. PlannedRestart(d) = Invalidated(e, d.worker)
      BY <1>2 DEF PlannedRestart
    <2>3. d.worker \in 0..MaxWorkers /\ e \in Controllers
      BY <2>1 DEF ControllerInv, StagesInv, Controllers
    <2> HIDE DEF e
    <2>4. PICK k : Invalidated(e, d.worker) = [e EXCEPT !.wk = k]
      BY <2>1, <2>3, InvalidatedKeeps
    <2>5. [e EXCEPT !.wk = k].restart = "invalidating" /\ [e EXCEPT !.wk = k].state = "restarting"
      BY <2>1, <2>3 DEF Controllers
    <2> QED BY <1>2, <2>1, <2>2, <2>3, <2>4, <2>5, InvalidatedKeeps DEF ControllerInv, Replacing
  <1> QED BY <1>1, <1>2

(* #terminalFailure ends the transition's claim on the replacement, so it  *)
(* may run when that has just failed.                                      *)
LEMMA TerminalFailureKeeps ==
  ASSUME NEW d, StagesInv(d)
  PROVE  /\ ControllerInv(TerminalFailure(d))
         /\ d.state = "none" <=> TerminalFailure(d).state = "none"
         /\ d.state \in {"none", "closed"} => TerminalFailure(d) = d
  <1>1. CASE d.state \in {"none", "closed"} \/ Pending(d) \/ d.fatal
    <2>1. d.state # "restarting"
      BY <1>1 DEF StagesInv, Transition, Pending
    <2> QED BY <1>1, <2>1 DEF TerminalFailure, ControllerInv, Replacing
  <1>2. CASE ~(d.state \in {"none", "closed"} \/ Pending(d) \/ d.fatal)
    <2> DEFINE e == [d EXCEPT !.state = "error", !.term = "invalidating"]
    <2>1. StagesInv(e) /\ e.state = "error" /\ e.worker = d.worker
      BY <1>2 DEF StagesInv, Controllers, Census, Adopted, Transition, Closing
    <2>2. TerminalFailure(d) = Invalidated(e, d.worker)
      BY <1>2 DEF TerminalFailure
    <2>3. d.worker \in 0..MaxWorkers /\ e \in Controllers
      BY <2>1 DEF StagesInv, Controllers
    <2> HIDE DEF e
    <2>4. PICK k : Invalidated(e, d.worker) = [e EXCEPT !.wk = k]
      BY <2>1, <2>3, InvalidatedKeeps
    <2>5. [e EXCEPT !.wk = k].state = "error"
      BY <2>1, <2>3 DEF Controllers
    <2> QED BY <1>2, <2>1, <2>2, <2>3, <2>4, <2>5, InvalidatedKeeps DEF ControllerInv, Replacing
  <1> QED BY <1>1, <1>2

(* close: a controller that exists is closed from then on.                 *)
LEMMA ClosedKeeps ==
  ASSUME NEW d, ControllerInv(d)
  PROVE  /\ ControllerInv(Closed(d))
         /\ d.state = "none" => Closed(d) = d
         /\ d.state # "none" => Closed(d).state = "closed"
         /\ d.closing = "done" => Closed(d) = d
  <1>1. CASE d.state = "none" \/ d.closing # "no"
    <2>1. Closed(d) = d
      BY <1>1 DEF Closed
    <2> QED BY <1>1, <2>1 DEF ControllerInv, StagesInv, Closing
  <1>2. CASE ~(d.state = "none" \/ d.closing # "no")
    <2> DEFINE e == [d EXCEPT !.state = "closed", !.closing = "worker"]
    <2>1. StagesInv(e) /\ e.state = "closed" /\ e.worker = d.worker
      BY <1>2 DEF ControllerInv, StagesInv, Controllers, Census, Adopted, Transition, Closing
    <2>2. Closed(d) = ClientClosed(e, d.worker)
      BY <1>2 DEF Closed
    <2>3. d.worker \in 0..MaxWorkers /\ e \in Controllers
      BY <2>1 DEF ControllerInv, StagesInv, Controllers
    <2> HIDE DEF e
    <2>4. PICK k : ClientClosed(e, d.worker) = [e EXCEPT !.wk = k]
      BY <2>1, <2>3, ClientClosedKeeps
    <2>5. [e EXCEPT !.wk = k].state = "closed"
      BY <2>1, <2>3 DEF Controllers
    <2> QED BY <1>2, <2>1, <2>2, <2>3, <2>4, <2>5, ClientClosedKeeps DEF ControllerInv, Replacing
  <1> QED BY <1>1, <1>2

(* createWorker, once everything made before is gone.                      *)
LEMMA SpawnedCounts ==
  ASSUME NEW d \in Controllers, Census(d), d.made < MaxWorkers,
         d.made # 0 => d.wk[d.made] = "dead"
  PROVE  /\ Spawned(d) \in Controllers /\ Census(Spawned(d))
         /\ Spawned(d).made = d.made + 1 /\ Spawned(d).wk[d.made + 1] = "starting"
         /\ \A w \in Workers : w # d.made + 1 => Spawned(d).wk[w] = d.wk[w]
         /\ \E k : Spawned(d) = [d EXCEPT !.made = d.made + 1, !.wk = k]
  <1> DEFINE e == Spawned(d)
  <1>1. d.made \in Nat /\ d.made + 1 \in Workers /\ d.wk \in [Workers -> WorkerStates]
    BY SandboxAssumption DEF Controllers, Workers
  <1>2. e = [d EXCEPT !.made = d.made + 1, !.wk = [d.wk EXCEPT ![d.made + 1] = "starting"]]
    BY DEF Spawned, Controllers
  <1> DEFINE k == [d.wk EXCEPT ![d.made + 1] = "starting"]
  <1>k. k \in [Workers -> WorkerStates]
    BY <1>1 DEF WorkerStates
  <1>m. d.made + 1 \in 0..MaxWorkers
    BY <1>1, SandboxAssumption DEF Workers
  <1> HIDE DEF e, k
  <1>3. e \in Controllers /\ e.made = d.made + 1 /\ e.wk = k
    BY <1>2, <1>k, <1>m DEF Controllers, k
  <1> USE DEF k
  <1>4. Census(e)
    BY <1>1, <1>3, SandboxAssumption DEF Census, Workers
  <1> QED BY <1>1, <1>2, <1>3, <1>4 DEF e
-----------------------------------------------------------------------------
(* The actions.                                                            *)

(* #rejectPending and the abort signal leave Pi's state well formed.       *)
LEMMA PiStaysTyped ==
  ASSUME OthersOK, NEW d
  PROVE  /\ Rejecting(d) \in [busy : BOOLEAN, tool : {"none", "current", "file", "exec", "milestone"},
                               signal : BOOLEAN]
         /\ Aborting(pi) \in [busy : BOOLEAN, tool : {"none", "current", "file", "exec", "milestone"},
                               signal : BOOLEAN]
         /\ Aborting(Rejecting(d)) \in [busy : BOOLEAN, signal : BOOLEAN,
                                         tool : {"none", "current", "file", "exec", "milestone"}]
  <1>1. Rejecting(d) \in [busy : BOOLEAN, tool : {"none", "current", "file", "exec", "milestone"},
                          signal : BOOLEAN]
    BY DEF OthersOK, Rejecting
  <1> QED BY <1>1 DEF OthersOK, Aborting

(* BootInv sees of the controller only whether it exists, is closed, has   *)
(* finished closing, and owns a worker.                                    *)
LEMMA BootUnmoved ==
  ASSUME BootInv, UNCHANGED <<boot, wrap>>,
         c'.made = c.made, c.state = "none" <=> c'.state = "none",
         c.state = "closed" => c'.state = "closed",
         c.closing = "done" => c'.closing = "done",
         c.state = "none" /\ AllGone(c) => AllGone(c')
  PROVE  BootInv'
  BY DEF BootInv

(* The catch block of #createRuntime.                                      *)
LEMMA UnwindKeeps ==
  ASSUME RuntimeInv, boot \in {"worker", "sdk"}, c.state = "none" => AllGone(c), Unwind
  PROVE  RuntimeInv'
  <1>1. OthersOK'
    BY PiStaysTyped DEF RuntimeInv, OthersOK, Unwind, Controller
  <1>2. ControllerInv(c')
    BY ClosedKeeps DEF RuntimeInv, Unwind, Controller
  <1>3. BootInv'
    BY ClosedKeeps DEF RuntimeInv, BootInv, Unwind, Controller
  <1> QED BY <1>1, <1>2, <1>3 DEF RuntimeInv

(* Steps that leave the controller alone.                                  *)
LEMMA OutsideKeeps ==
  ASSUME RuntimeInv,
         StartNetwork \/ Unwound \/ Prompt \/ ToolCalled \/ ToolResumes \/ ToolSettles
           \/ RunEnds \/ Disposed \/ NetworkCloses \/ UNCHANGED vars
  PROVE  RuntimeInv'
  <1> USE DEF RuntimeInv
  <1>1. CASE StartNetwork
    <2>1. boot' = "failed" => AllGone(c)
      BY <1>1, SandboxAssumption
         DEF StartNetwork, BootInv, ControllerInv, StagesInv, Controllers, Census, Workers, AllGone
    <2> QED BY <1>1, <2>1 DEF StartNetwork, OthersOK, BootInv
  <1>2. CASE Unwound
    BY <1>2 DEF Unwound, OthersOK, BootInv
  <1>3. CASE Prompt
    BY <1>3 DEF Prompt, OthersOK, BootInv
  <1>4. CASE ToolCalled \/ ToolResumes \/ ToolSettles
    <2>1. \A t \in AfterCurrent : t \in {"none", "current", "file", "exec"}
      BY DEF AfterCurrent
    <2> QED BY <1>4, <2>1 DEF ToolCalled, ToolResumes, ToolSettles, OthersOK, BootInv
  <1>5. CASE RunEnds
    <2>1. wrap'.teardownComplete = wrap.teardownComplete /\ OthersOK'
      BY <1>5 DEF RunEnds, OthersOK
    <2> QED BY <1>5, <2>1 DEF RunEnds, BootInv
  <1>6. CASE Disposed
    BY <1>6 DEF Disposed, OthersOK, BootInv
  <1>7. CASE NetworkCloses
    BY <1>7 DEF NetworkCloses, OthersOK, BootInv
  <1>8. CASE UNCHANGED vars
    BY <1>8 DEF vars, OthersOK, BootInv
  <1> QED BY <1>1, <1>2, <1>3, <1>4, <1>5, <1>6, <1>7, <1>8

(* The construction of the controller and of Pi's session.                 *)
LEMMA ConstructKeeps ==
  ASSUME RuntimeInv, LaunchFirst \/ ControllerStarted \/ RuntimeCreated
  PROVE  RuntimeInv'
  <1>0. /\ ControllerInv(c) /\ StagesInv(c) /\ c \in Controllers /\ Census(c) /\ Adopted(c)
        /\ OthersOK /\ BootInv
    BY DEF RuntimeInv, ControllerInv, StagesInv
  <1>1. CASE LaunchFirst
    <2>1. boot = "worker" /\ c.made = 0 /\ c.state = "none"
      BY <1>0, <1>1 DEF LaunchFirst, BootInv
    <2>2. AllGone(c)
      BY <1>0, <2>1, SandboxAssumption DEF Census, AllGone, Workers
    <2>3. CASE Unwind
      BY <2>1, <2>2, <2>3, UnwindKeeps
    <2>4. CASE c' = Spawned(c) /\ UNCHANGED <<boot, net, pi, wrap>>
      <3>1. /\ c' \in Controllers /\ Census(c') /\ c'.made = 1
            /\ \E k : c' = [c EXCEPT !.made = c.made + 1, !.wk = k]
        <4>1. c.made < MaxWorkers /\ (c.made # 0 => c.wk[c.made] = "dead")
          BY <2>1, SandboxAssumption
        <4>2. /\ c' \in Controllers /\ Census(c') /\ c'.made = c.made + 1
              /\ \E k : c' = [c EXCEPT !.made = c.made + 1, !.wk = k]
          BY <1>0, <2>4, <4>1, SpawnedCounts
        <4>3. c.made + 1 = 1
          BY <2>1
        <4> QED BY <4>2, <4>3, Zenon
      <3>2. /\ c'.state = c.state /\ c'.worker = c.worker /\ c'.restart = c.restart
            /\ c'.term = c.term /\ c'.fatal = c.fatal /\ c'.closing = c.closing
        BY <1>0, <3>1 DEF Controllers
      <3>3. c.worker = 0 /\ c.restart = "none" /\ c.closing = "no" /\ c.term = "none" /\ ~c.fatal
        BY <1>0, <2>1 DEF Adopted
      <3>4. ControllerInv(c')
        BY <2>1, <3>1, <3>2, <3>3 DEF ControllerInv, StagesInv, Adopted, Transition, Closing, Replacing
      <3> QED BY <1>0, <2>1, <2>4, <3>2, <3>4 DEF RuntimeInv, OthersOK, BootInv
    <2> QED BY <1>1, <2>3, <2>4 DEF LaunchFirst
  <1>2. CASE ControllerStarted
    <2>1. boot = "worker" /\ c.made = 1 /\ c.state = "none" /\ 1 \in Workers
      BY <1>0, <1>2, SandboxAssumption DEF ControllerStarted, BootInv, Workers
    <2>2. CASE c.wk[1] = "dead" /\ Unwind
      <3>1. AllGone(c)
        BY <1>0, <2>1, <2>2, SandboxAssumption DEF Census, AllGone, Workers
      <3> QED BY <2>1, <2>2, <3>1, UnwindKeeps
    <2>3. CASE c.wk[1] = "live"
      <3> DEFINE d == [c EXCEPT !.state = "healthy", !.worker = 1]
      <3>1. /\ d \in Controllers /\ d.state = "healthy" /\ d.worker = 1 /\ d.made = 1 /\ d.wk = c.wk
            /\ d.restart = c.restart /\ d.term = c.term /\ d.fatal = c.fatal /\ d.closing = c.closing
        BY <1>0, <2>1, SandboxAssumption DEF Controllers
      <3>2. c.restart = "none" /\ c.closing = "no" /\ c.term = "none"
        BY <1>0, <2>1 DEF Adopted
      <3> HIDE DEF d
      <3>3. StagesInv(d) /\ ControllerInv(d)
        BY <1>0, <2>1, <3>1, <3>2
           DEF ControllerInv, StagesInv, Census, Adopted, Transition, Closing, Replacing
      <3>4. CASE net = "failed" /\ boot' = "unwinding" /\ Controller(Closed(TerminalFailure(d)))
                 /\ UNCHANGED <<net, wrap>>
        <4>1. ControllerInv(TerminalFailure(d)) /\ TerminalFailure(d).state # "none"
          BY <3>1, <3>3, TerminalFailureKeeps
        <4>2. c' = Closed(TerminalFailure(d)) /\ ControllerInv(c') /\ c'.state = "closed"
          BY <3>4, <4>1, ClosedKeeps DEF Controller
        <4>3. OthersOK'
          BY <1>0, <3>4, PiStaysTyped DEF OthersOK, Controller
        <4>4. ~wrap.teardownComplete
          BY <1>0, <3>2 DEF BootInv, OthersOK
        <4> QED BY <3>4, <4>2, <4>3, <4>4 DEF RuntimeInv, BootInv
      <3>5. CASE boot' = "sdk" /\ c' = d /\ UNCHANGED <<net, pi, wrap>>
        BY <1>0, <3>1, <3>3, <3>5 DEF RuntimeInv, OthersOK, BootInv
      <3> QED BY <1>2, <2>3, <3>4, <3>5 DEF ControllerStarted, d
    <2> QED BY <1>2, <2>2, <2>3 DEF ControllerStarted
  <1>3. CASE RuntimeCreated
    <2>1. CASE Unwind
      BY <1>3, <2>1, UnwindKeeps DEF RuntimeCreated, RuntimeInv, BootInv
    <2>2. CASE c.state = "healthy" /\ boot' = "ready" /\ UNCHANGED <<net, c, pi, wrap>>
      BY <1>0, <2>2 DEF RuntimeInv, OthersOK, BootInv
    <2> QED BY <1>3, <2>1, <2>2 DEF RuntimeCreated
  <1> QED BY <1>1, <1>2, <1>3

(* The life of a worker.                                                   *)
LEMMA WorkerKeeps ==
  ASSUME RuntimeInv, NEW w \in Workers, WorkerReady(w) \/ WorkerFails(w) \/ WorkerStops(w)
  PROVE  RuntimeInv'
  <1>0. /\ ControllerInv(c) /\ StagesInv(c) /\ c \in Controllers /\ OthersOK /\ BootInv
    BY DEF RuntimeInv, ControllerInv, StagesInv
  <1>1. CASE WorkerReady(w)
    <2>1. /\ w = c.made /\ c.made \in Nat /\ c.worker \in Nat /\ c.wk \in [Workers -> WorkerStates]
          /\ c.wk[w] = "starting"
      BY <1>0, <1>1, OnlyNewestLives, SandboxAssumption DEF WorkerReady, Controllers
    <2>2. /\ c' \in Controllers /\ c'.wk = [c.wk EXCEPT ![w] = "live"]
          /\ c'.state = c.state /\ c'.worker = c.worker /\ c'.made = c.made /\ c'.restart = c.restart
          /\ c'.term = c.term /\ c'.fatal = c.fatal /\ c'.closing = c.closing
      BY <1>0, <1>1 DEF WorkerReady, Controllers, WorkerStates
    <2>3. c'.wk[w] = "live" /\ \A v \in Workers : v # w => c'.wk[v] = c.wk[v]
      BY <2>1, <2>2
    <2>4. c.worker # 0 => c.worker \in Workers
      BY <1>0, SandboxAssumption DEF Controllers, Workers
    <2>5. StagesInv(c') /\ Replacing(c')
      BY <1>0, <2>1, <2>2, <2>3, <2>4
         DEF ControllerInv, StagesInv, Census, Adopted, Transition, Closing, Replacing
    <2>6. BootInv'
      BY <1>0, <1>1, <2>1, <2>2, BootUnmoved DEF WorkerReady, AllGone
    <2> QED BY <1>0, <1>1, <2>5, <2>6 DEF RuntimeInv, ControllerInv, OthersOK, WorkerReady
  <1>2. CASE WorkerFails(w)
    <2> DEFINE d == [c EXCEPT !.wk[w] = "stopping"]
    <2>1. StagesInv(d)
      BY <1>0, <1>2, Ending DEF WorkerFails
    <2>2. d.state = c.state /\ d.closing = c.closing /\ d.made = c.made
      BY <1>0 DEF Controllers
    <2> HIDE DEF d
    <2>3. c' = TerminalFailure(d) /\ UNCHANGED <<boot, net, wrap>>
      BY <1>2 DEF WorkerFails, Controller, d
    <2>4. ControllerInv(c') /\ (c.state = "none" <=> c'.state = "none")
      BY <2>1, <2>2, <2>3, TerminalFailureKeeps
    <2>5. c'.made = c.made
      <3>1. CASE TerminalFailure(d) = d
        BY <2>2, <2>3, <3>1
      <3>2. CASE TerminalFailure(d) = Invalidated([d EXCEPT !.state = "error", !.term = "invalidating"], d.worker)
        BY <2>1, <2>2, <2>3, <3>2 DEF Invalidated, StagesInv, Controllers
      <3> QED BY <3>1, <3>2 DEF TerminalFailure
    <2>6. /\ c.state = "closed" => c'.state = "closed"
          /\ c.closing = "done" => c'.closing = "done"
      BY <1>0, <2>1, <2>2, <2>3, TerminalFailureKeeps DEF StagesInv, Closing
    <2>7. ~AllGone(c)
      BY <1>2 DEF WorkerFails, AllGone
    <2>8. OthersOK'
      BY <1>0, <1>2, <2>3, PiStaysTyped DEF OthersOK, WorkerFails, Controller
    <2>9. BootInv'
      BY <1>0, <2>3, <2>4, <2>5, <2>6, <2>7, BootUnmoved
    <2> QED BY <2>4, <2>8, <2>9 DEF RuntimeInv
  <1>3. CASE WorkerStops(w)
    <2>1. PICK s \in {"stopping", "dead"} : c' = [c EXCEPT !.wk[w] = s]
      BY <1>3 DEF WorkerStops
    <2>2. StagesInv(c') /\ w = c.made
      BY <1>0, <1>3, <2>1, Ending, OnlyNewestLives DEF WorkerStops
    <2>3. /\ c'.state = c.state /\ c'.made = c.made /\ c'.restart = c.restart /\ c'.closing = c.closing
          /\ c'.wk = [c.wk EXCEPT ![w] = s] /\ c.wk \in [Workers -> WorkerStates]
      BY <1>0, <2>1 DEF Controllers
    <2>4. Replacing(c')
      BY <1>0, <1>3, <2>2, <2>3 DEF ControllerInv, Replacing, WorkerStops
    <2>5. ~AllGone(c)
      BY <1>3 DEF WorkerStops, AllGone
    <2>6. BootInv'
      BY <1>0, <1>3, <2>3, <2>5, BootUnmoved DEF WorkerStops
    <2> QED BY <1>0, <1>3, <2>2, <2>4, <2>6 DEF RuntimeInv, ControllerInv, OthersOK, WorkerStops
  <1> QED BY <1>1, <1>2, <1>3

(* #notifyFatal marks a controller that is not closed, and tells the       *)
(* wrapper, whose own teardown it does not touch.                          *)
LEMMA FatalNotified ==
  ASSUME OthersOK, NEW d, d \in Controllers, NotifiesFatal(d)
  PROVE  /\ c' = IF d.state = "closed" THEN d ELSE [d EXCEPT !.fatal = TRUE]
         /\ wrap' \in [held : BOOLEAN, status : {"idle", "streaming", "error"},
                       disposed : BOOLEAN, teardownComplete : BOOLEAN]
         /\ wrap'.teardownComplete = wrap.teardownComplete
  BY DEF OthersOK, NotifiesFatal

(* The stages of #plannedRestart, #terminalFailure and #closeOnce that     *)
(* start no worker: they leave every worker as it was.                     *)
LEMMA StagesKeep ==
  ASSUME RuntimeInv, RestartInvalidated \/ RestartRejected \/ ReplacementAdopted
                       \/ FailureSettles \/ CloseProceeds
  PROVE  RuntimeInv'
  <1>0. /\ ControllerInv(c) /\ StagesInv(c) /\ Replacing(c) /\ c \in Controllers /\ OthersOK /\ BootInv
        /\ Adopted(c) /\ Transition(c) /\ Closing(c)
    BY DEF RuntimeInv, ControllerInv, StagesInv
  <1>1. CASE RestartInvalidated
    <2>1. c' = [c EXCEPT !.restart = "settling"] /\ c.restart = "invalidating" /\ c.wk[c.worker] = "dead"
      BY <1>1 DEF RestartInvalidated
    <2>2. ControllerInv(c')
      BY <1>0, <2>1 DEF ControllerInv, StagesInv, Controllers, Census, Adopted, Transition, Closing, Replacing
    <2>3. OthersOK'
      BY <1>0, <1>1, PiStaysTyped DEF OthersOK, RestartInvalidated
    <2>4. BootInv'
      BY <1>0, <1>1, <2>1 DEF BootInv, AllGone, RestartInvalidated, Controllers
    <2> QED BY <2>2, <2>3, <2>4 DEF RuntimeInv
  <1>2. CASE RestartRejected
    <2>1. CASE c.state = "restarting"
      <3> DEFINE d == [c EXCEPT !.restart = "none", !.state = "error"]
      <3>1. d \in Controllers /\ d.state = "error"
        BY <1>0 DEF Controllers
      <3>2. NotifiesFatal(d) /\ UNCHANGED <<boot, net, pi>>
        BY <1>2, <2>1 DEF RestartRejected
      <3> HIDE DEF d
      <3>3. c' = [d EXCEPT !.fatal = TRUE] /\ OthersOK' /\ wrap'.teardownComplete = wrap.teardownComplete
        BY <1>0, <3>1, <3>2, FatalNotified DEF OthersOK
      <3>4. ControllerInv(c')
        BY <1>0, <1>2, <2>1, <3>3
           DEF d, RestartRejected, ControllerInv, StagesInv, Controllers, Census, Adopted, Transition, Closing, Replacing
      <3>5. BootInv'
        BY <1>0, <2>1, <3>2, <3>3 DEF d, BootInv, AllGone, Controllers, Closing
      <3> QED BY <3>3, <3>4, <3>5 DEF RuntimeInv
    <2>2. CASE c.state # "restarting"
      <3>1. c' = [c EXCEPT !.restart = "none"] /\ c.restart = "settling" /\ UNCHANGED <<boot, net, pi, wrap>>
        BY <1>2, <2>2 DEF RestartRejected
      <3>2. ControllerInv(c')
        BY <1>0, <2>2, <3>1 DEF ControllerInv, StagesInv, Controllers, Census, Adopted, Transition, Closing, Replacing
      <3> QED BY <1>0, <3>1, <3>2 DEF RuntimeInv, OthersOK, BootInv, AllGone, Controllers
    <2> QED BY <2>1, <2>2
  <1>3. CASE ReplacementAdopted
    <2>1. /\ c' = [c EXCEPT !.restart = "none", !.state = "healthy", !.worker = c.made]
          /\ c.restart = "creating" /\ c.state = "restarting" /\ UNCHANGED <<boot, net, pi>>
      BY <1>3 DEF ReplacementAdopted
    <2>a. /\ c' \in Controllers /\ c'.restart = "none" /\ c'.state = "healthy" /\ c'.worker = c.made
          /\ c'.made = c.made /\ c'.wk = c.wk /\ c'.term = c.term /\ c'.fatal = c.fatal
          /\ c'.closing = c.closing
      BY <1>0, <2>1 DEF Controllers
    <2>c. c.made \in Nat /\ c.worker \in Nat
      BY <1>0, SandboxAssumption DEF Controllers
    <2>b. c.worker < c.made /\ c.term = "none" /\ ~c.fatal /\ c.closing = "no"
      BY <1>0, <2>1 DEF Transition, Closing
    <2>2. ControllerInv(c')
      BY <1>0, <2>a, <2>b, <2>c
         DEF ControllerInv, StagesInv, Census, Adopted, Transition, Closing, Replacing
    <2>3. OthersOK' /\ wrap'.teardownComplete = wrap.teardownComplete
      BY <1>0, <1>3 DEF OthersOK, ReplacementAdopted
    <2>4. BootInv'
      BY <1>0, <2>1, <2>3 DEF BootInv, AllGone, Controllers, Closing
    <2> QED BY <2>2, <2>3, <2>4 DEF RuntimeInv
  <1>4. CASE FailureSettles
    <2>1. CASE /\ c.term = "invalidating" /\ c' = [c EXCEPT !.term = "settling"]
               /\ pi' = Aborting(pi) /\ UNCHANGED <<boot, net, wrap>>
      <3>1. ControllerInv(c')
        BY <1>0, <2>1 DEF ControllerInv, StagesInv, Controllers, Census, Adopted, Transition, Closing, Replacing
      <3>2. OthersOK'
        BY <1>0, <2>1, PiStaysTyped DEF OthersOK
      <3> QED BY <1>0, <2>1, <3>1, <3>2 DEF RuntimeInv, BootInv, AllGone, Controllers
    <2>2. CASE c.term = "settling" /\ NotifiesFatal([c EXCEPT !.term = "done"]) /\ UNCHANGED <<boot, net, pi>>
      <3> DEFINE d == [c EXCEPT !.term = "done"]
      <3>1. d \in Controllers /\ d.state = c.state
        BY <1>0 DEF Controllers
      <3> HIDE DEF d
      <3>2. NotifiesFatal(d)
        BY <2>2 DEF d
      <3>3. /\ c' = d \/ (c.state # "closed" /\ c' = [d EXCEPT !.fatal = TRUE])
            /\ OthersOK' /\ wrap'.teardownComplete = wrap.teardownComplete
        BY <1>0, <2>2, <3>1, <3>2, FatalNotified DEF OthersOK
      <3>a. /\ d.worker = c.worker /\ d.made = c.made /\ d.wk = c.wk /\ d.restart = c.restart
            /\ d.term = "done" /\ d.fatal = c.fatal /\ d.closing = c.closing
        BY <1>0 DEF d, Controllers
      <3>b. /\ c' \in Controllers /\ c'.state = c.state /\ c'.worker = c.worker /\ c'.made = c.made
            /\ c'.wk = c.wk /\ c'.restart = c.restart /\ c'.term = "done" /\ c'.closing = c.closing
        BY <3>1, <3>3, <3>a DEF Controllers
      <3>c. c.state \notin {"none", "healthy", "restarting"}
        BY <1>0, <2>2 DEF Adopted, Transition
      <3>4. ControllerInv(c')
        BY <1>0, <3>b, <3>c
           DEF ControllerInv, StagesInv, Census, Adopted, Transition, Closing, Replacing
      <3>5. BootInv'
        BY <1>0, <2>2, <3>3 DEF d, BootInv, AllGone, Controllers
      <3> QED BY <3>3, <3>4, <3>5 DEF RuntimeInv
    <2> QED BY <1>4, <2>1, <2>2 DEF FailureSettles
  <1>5. CASE CloseProceeds
    <2>1. ControllerInv(c')
      BY <1>0, <1>5 DEF CloseProceeds, ControllerInv, StagesInv, Controllers, Census, Adopted, Transition, Closing, Replacing
    <2>2. BootInv'
      BY <1>0, <1>5 DEF CloseProceeds, BootInv, AllGone, Controllers, Closing
    <2> QED BY <1>0, <1>5, <2>1, <2>2 DEF RuntimeInv, OthersOK, CloseProceeds
  <1> QED BY <1>1, <1>2, <1>3, <1>4, <1>5

(* The stages of #plannedRestart that start or discard the replacement.    *)
LEMMA ReplacementKeeps ==
  ASSUME RuntimeInv, RestartSettled \/ ReplacementDiscarded
  PROVE  RuntimeInv'
  <1>0. /\ ControllerInv(c) /\ StagesInv(c) /\ Replacing(c) /\ c \in Controllers /\ OthersOK /\ BootInv
        /\ Census(c) /\ Adopted(c) /\ Transition(c) /\ Closing(c)
    BY DEF RuntimeInv, ControllerInv, StagesInv
  <1>t. c.made \in Nat /\ c.worker \in Nat /\ c.made <= MaxWorkers /\ c.worker <= MaxWorkers
    BY <1>0, SandboxAssumption DEF Controllers
  <1>1. CASE RestartSettled
    <2>0. c.restart = "settling" /\ UNCHANGED <<boot, net, pi>>
      BY <1>1 DEF RestartSettled
    <2>1. CASE c.state # "restarting" /\ c' = [c EXCEPT !.restart = "none"] /\ UNCHANGED wrap
      <3>1. ControllerInv(c')
        BY <1>0, <2>0, <2>1 DEF ControllerInv, StagesInv, Controllers, Census, Adopted, Transition, Closing, Replacing
      <3> QED BY <1>0, <2>0, <2>1, <3>1 DEF RuntimeInv, OthersOK, BootInv, AllGone, Controllers
    <2>2. CASE c.state = "restarting" /\ NotifiesFatal([c EXCEPT !.restart = "none", !.state = "error"])
      <3>1. RestartRejected
        BY <2>0, <2>2 DEF RestartRejected
      <3> QED BY <3>1, StagesKeep
    <2>3. CASE c.state = "restarting" /\ c' = [Spawned(c) EXCEPT !.restart = "creating"] /\ UNCHANGED wrap
      <3> DEFINE d == Spawned(c)
      <3>1. c.worker = c.made /\ c.made # 0 /\ c.made < MaxWorkers /\ c.wk[c.made] = "dead"
        BY <1>0, <2>0, <2>3 DEF Adopted, Transition
      <3>2. /\ d \in Controllers /\ Census(d) /\ d.made = c.made + 1 /\ d.wk[c.made + 1] = "starting"
            /\ \A w \in Workers : w # c.made + 1 => d.wk[w] = c.wk[w]
        BY <1>0, <3>1, SpawnedCounts
      <3>3. /\ d.state = c.state /\ d.worker = c.worker /\ d.restart = c.restart
            /\ d.term = c.term /\ d.fatal = c.fatal /\ d.closing = c.closing
        <4>1. \E k : d = [c EXCEPT !.made = c.made + 1, !.wk = k]
          BY <1>0, <3>1, SpawnedCounts
        <4> QED BY <1>0, <4>1 DEF Controllers
      <3> HIDE DEF d
      <3>4. /\ c' \in Controllers /\ c'.restart = "creating" /\ c'.wk = d.wk /\ c'.made = d.made
            /\ c'.state = c.state /\ c'.worker = c.worker
            /\ c'.term = c.term /\ c'.fatal = c.fatal /\ c'.closing = c.closing
        BY <2>3, <3>2, <3>3 DEF Controllers, d
      <3>5. Census(c') /\ Adopted(c') /\ c'.worker < c'.made
        BY <1>0, <1>t, <2>3, <3>1, <3>2, <3>4 DEF Census, Adopted
      <3>6. Transition(c') /\ Closing(c') /\ Replacing(c')
        BY <1>0, <1>t, <2>0, <2>3, <3>1, <3>2, <3>4, <3>5 DEF Transition, Closing, Replacing
      <3>7. BootInv'
        BY <1>0, <2>0, <2>3, <3>4 DEF BootInv, Closing
      <3> QED BY <1>0, <2>0, <2>3, <3>4, <3>5, <3>6, <3>7 DEF RuntimeInv, ControllerInv, StagesInv, OthersOK
    <2> QED BY <1>1, <2>1, <2>2, <2>3 DEF RestartSettled
  <1>2. CASE ReplacementDiscarded
    <2>1. CASE /\ c.restart = "creating" /\ c.wk[c.made] = "live" /\ c.state # "restarting"
               /\ c' = [Invalidated(c, c.made) EXCEPT !.restart = "discarding"]
               /\ UNCHANGED <<boot, net, pi, wrap>>
      <3>1. c.made \in Workers /\ c.made # 0 /\ c.worker < c.made /\ c.worker # 0
        BY <1>0, <1>t, <2>1, SandboxAssumption DEF Adopted, Transition, Workers
      <3> DEFINE d == [c EXCEPT !.wk[c.made] = "stopping"]
      <3>2. StagesInv(d)
        BY <1>0, <2>1, <3>1, Ending
      <3>3. Invalidated(c, c.made) = d
        BY <2>1, <3>1 DEF Invalidated
      <3>4. /\ d.state = c.state /\ d.made = c.made /\ d.worker = c.worker /\ d.restart = c.restart
            /\ d.term = c.term /\ d.fatal = c.fatal /\ d.closing = c.closing
        BY <1>0 DEF Controllers
      <3> HIDE DEF d
      <3>5. c' = [d EXCEPT !.restart = "discarding"]
        BY <2>1, <3>3
      <3>6. ControllerInv(c') /\ c'.state = c.state /\ c'.made = c.made /\ c'.closing = c.closing
        BY <1>0, <2>1, <3>1, <3>2, <3>4, <3>5
           DEF ControllerInv, StagesInv, Controllers, Census, Adopted, Transition, Closing, Replacing
      <3>7. BootInv'
        BY <1>0, <2>1, <3>1, <3>6, BootUnmoved DEF Adopted
      <3> QED BY <1>0, <2>1, <3>6, <3>7 DEF RuntimeInv, OthersOK
    <2>2. CASE /\ c.restart \in {"creating", "discarding"} /\ c.wk[c.made] = "dead"
               /\ c' = [c EXCEPT !.restart = "none"] /\ wrap' = [wrap EXCEPT !.held = FALSE]
               /\ UNCHANGED <<boot, net, pi>>
      <3>1. c.state \notin {"restarting", "healthy"} /\ c.worker # 0
        BY <1>0, <2>2 DEF Transition, Replacing, Adopted
      <3>2. ControllerInv(c')
        BY <1>0, <2>2, <3>1
           DEF ControllerInv, StagesInv, Controllers, Census, Adopted, Transition, Closing, Replacing
      <3>3. OthersOK' /\ wrap'.teardownComplete = wrap.teardownComplete
        BY <1>0, <2>2 DEF OthersOK
      <3> QED BY <1>0, <2>2, <3>2, <3>3 DEF RuntimeInv, BootInv, AllGone, Controllers
    <2> QED BY <1>2, <2>1, <2>2 DEF ReplacementDiscarded
  <1> QED BY <1>1, <1>2

(* What the registry, a tool's deadline and the network do to the          *)
(* controller.                                                             *)
LEMMA RequestsKeep ==
  ASSUME RuntimeInv, ExecTimesOut \/ Abort \/ Dispose \/ NetworkFails
  PROVE  RuntimeInv'
  <1>0. /\ ControllerInv(c) /\ StagesInv(c) /\ c \in Controllers /\ OthersOK /\ BootInv /\ Closing(c)
    BY DEF RuntimeInv, ControllerInv, StagesInv
  <1>1. CASE ExecTimesOut \/ Abort
    <2>1. c.made < MaxWorkers /\ c' = PlannedRestart(c) /\ UNCHANGED <<boot, net, wrap>>
      BY <1>1 DEF ExecTimesOut, Abort, Controller
    <2>2. /\ ControllerInv(c') /\ (c.state = "none" <=> c'.state = "none")
          /\ c.state = "closed" => c' = c
      BY <1>0, <2>1, PlannedRestartKeeps
    <2>3. c.state = "none" => c' = c
      BY <2>1 DEF PlannedRestart
    <2>4. OthersOK'
      BY <1>0, <1>1, <2>1, PiStaysTyped DEF OthersOK, ExecTimesOut, Abort, Controller
    <2>5. BootInv'
      BY <1>0, <2>1, <2>2, <2>3 DEF BootInv, Closing
    <2> QED BY <2>2, <2>4, <2>5 DEF RuntimeInv
  <1>2. CASE Dispose
    <2>1. ControllerInv(c') /\ c'.state = "closed" /\ (c.closing = "done" => c' = c)
      BY <1>0, <1>2, ClosedKeeps DEF Dispose, BootInv
    <2>2. OthersOK' /\ wrap'.teardownComplete = wrap.teardownComplete
      BY <1>0, <1>2, PiStaysTyped DEF OthersOK, Dispose
    <2>3. BootInv'
      BY <1>0, <1>2, <2>1, <2>2 DEF BootInv, Dispose
    <2> QED BY <2>1, <2>2, <2>3 DEF RuntimeInv
  <1>3. CASE NetworkFails
    <2>1. /\ c' = TerminalFailure(c) /\ UNCHANGED <<boot, wrap>>
      BY <1>3 DEF NetworkFails, Controller
    <2>2. /\ ControllerInv(c') /\ (c.state = "none" <=> c'.state = "none")
          /\ c.state \in {"none", "closed"} => c' = c
      BY <1>0, <2>1, TerminalFailureKeeps
    <2>3. OthersOK'
      BY <1>0, <1>3, PiStaysTyped DEF OthersOK, NetworkFails, Controller
    <2>4. BootInv'
      BY <1>0, <2>1, <2>2 DEF BootInv, Closing
    <2> QED BY <2>2, <2>3, <2>4 DEF RuntimeInv
  <1> QED BY <1>1, <1>2, <1>3
-----------------------------------------------------------------------------
(* The theorems.                                                           *)

(* Every step of construction, restart, failure, close and the outside     *)
(* keeps the invariant.                                                    *)
LEMMA RuntimeInvInductive ==
  ASSUME RuntimeInv, [Next]_vars
  PROVE  RuntimeInv'
  BY OutsideKeeps, ConstructKeeps, WorkerKeeps, StagesKeep, ReplacementKeeps, RequestsKeep
     DEF Next, Construct, Restart

(* The invariant holds before construction.                                *)
LEMMA RuntimeInvInit == Init => RuntimeInv
  BY SandboxAssumption DEF Init, RuntimeInv, OthersOK, ControllerInv, StagesInv, Controllers, Census,
     Adopted, Transition, Closing, Replacing, BootInv, AllGone, Workers, WorkerStates

(* In every behaviour the runtime, its controller and its workers are in   *)
(* the states TypeOK names: no worker beyond the bound is ever made.       *)
THEOREM RuntimeTypeCorrect == Spec => []TypeOK
  <1>1. RuntimeInv => TypeOK
    BY DEF RuntimeInv, OthersOK, ControllerInv, StagesInv, Controllers, TypeOK
  <1> QED BY <1>1, RuntimeInvInit, RuntimeInvInductive, PTL DEF Spec

(* However many restarts, failures and closes interleave, no worker is     *)
(* started while the process group of an earlier one is there.             *)
THEOREM NamespaceExclusive == Spec => []OneNamespace
  <1>1. RuntimeInv => OneNamespace
    BY SandboxAssumption DEF RuntimeInv, ControllerInv, StagesInv, Controllers, Census, Workers, OneNamespace
  <1> QED BY <1>1, RuntimeInvInit, RuntimeInvInductive, PTL DEF Spec

(* A finished teardown, of a runtime or of a construction that failed,     *)
(* leaves no worker: #closeOnce has waited for the transition under way.   *)
THEOREM NoWorkerSurvives == Spec => []TeardownOwnsNothing
  <1>1. RuntimeInv => TeardownOwnsNothing
    <2> SUFFICES ASSUME RuntimeInv, wrap.teardownComplete \/ boot = "failed", NEW w \in Workers
                 PROVE  Gone(w)
      BY DEF TeardownOwnsNothing
    <2>0. /\ c \in Controllers /\ Census(c) /\ Adopted(c) /\ Transition(c) /\ Closing(c) /\ BootInv
      BY DEF RuntimeInv, ControllerInv, StagesInv
    <2>1. CASE c.state = "none" /\ AllGone(c)
      BY <2>1 DEF AllGone, Gone
    <2>2. CASE c.closing = "done"
      <3>1. c.restart = "none" /\ c.wk[c.worker] = "dead" /\ c.worker # 0
        BY <2>0, <2>2 DEF Closing, Adopted
      <3>2. c.wk[c.made] = "dead"
        BY <2>0, <3>1 DEF Transition
      <3> QED BY <2>0, <3>2, SandboxAssumption DEF Controllers, Census, Workers, Gone
    <2> QED BY <2>0, <2>1, <2>2 DEF BootInv
  <1> QED BY <1>1, RuntimeInvInit, RuntimeInvInductive, PTL DEF Spec
=============================================================================
