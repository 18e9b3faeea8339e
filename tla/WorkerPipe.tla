------------------------------ MODULE WorkerPipe ------------------------------
(***************************************************************************)
(* The two ends of a sandbox worker's protocol: SandboxWorkerClient in the *)
(* server (worker-client.ts) and the worker inside the namespace           *)
(* (worker-entry.ts, with its file operations of worker-fs.ts and its      *)
(* processes of worker-process.ts), joined by two pipes that keep order.   *)
(*                                                                         *)
(* The handshake is done (SandboxRuntime has the life of a worker).  A     *)
(* read stands for readFile, listDirectory and health, a search for grep   *)
(* and find.  All writes and edits are to one canonical target, whose      *)
(* content is the set of the operations it shows.                          *)
(***************************************************************************)
EXTENDS Naturals, Sequences, FiniteSets

CONSTANTS
    Ids,        \* request ids, each used once
    MaxActive,  \* SANDBOX_MAX_ACTIVE_OPERATIONS
    MaxOutput,  \* bound: output frames of a command
    MaxTasks,   \* SANDBOX_MAX_PENDING_OUTPUT_FRAMES
    QueueFits,  \* frames that may be queued ahead of one that still fits, whatever their sizes
    NoOp

ASSUME PipeAssumption ==
    /\ MaxActive \in Nat \ {0} /\ MaxOutput \in Nat
    /\ MaxTasks \in Nat \ {0} /\ QueueFits \in Nat

Kinds == {"read", "write", "edit", "search", "exec"}

VARIABLES
    client,     \* "open", "closing", "fatal", or "closed" after #terminateOnce
    pending,    \* the client's #pending
    used,       \* ids already taken
    up,         \* frames on their way to the worker
    down,       \* frames on their way to the client
    alive,      \* the worker process runs
    stopping,   \* the worker has taken a shutdown frame
    active,     \* the worker's active requests
    mutations,  \* withMutationQueue: the target's queue, its head the holder
    processes,  \* withProcessOperation: likewise
    file,       \* the target's content
    fault       \* "frame": an end rejected a frame of the other; "overflow": a queue of the client

clientVars == <<client, pending, used>>
workerVars == <<alive, stopping, active, mutations, processes, file>>
vars == <<clientVars, up, down, workerVars, fault>>

(* A pending operation: the frames still to be sent, whether its promise   *)
(* is settled, whether its terminal frame has come, and the output tasks   *)
(* and sequence number of a command.                                       *)
PendingOps ==
    [kind : Kinds, unsent : Seq({"chunk", "end"}), settled : BOOLEAN, terminal : BOOLEAN,
     tasks : 0..MaxOutput, next : 0..MaxOutput]

(* An active request: receiving a write's data, resolving its target,      *)
(* queued for a lock, running, with what it has read, or written.          *)
ActiveOps ==
    [kind : Kinds, stage : {"receiving", "resolving", "queued", "running", "cleaning", "read", "written"},
     cancelled : BOOLEAN, base : SUBSET Ids, outputs : 0..MaxOutput]

ASSUME NoOpAssumption == NoOp \notin PendingOps /\ NoOp \notin ActiveOps

UpFrames ==
    [t : {"request"}, id : Ids, kind : Kinds] \cup [t : {"chunk", "end", "cancel"}, id : Ids]
        \cup [t : {"shutdown"}, id : {0}]

DownFrames ==
    [t : {"response"}, id : Ids] \cup [t : {"output"}, id : Ids, n : 0..MaxOutput \ {MaxOutput}]
        \cup [t : {"complete"}, id : {0}]

(* The type invariant.                                                     *)
TypeOK ==
    /\ client \in {"open", "closing", "fatal", "closed"}
    /\ pending \in [Ids -> PendingOps \cup {NoOp}]
    /\ active \in [Ids -> ActiveOps \cup {NoOp}]
    /\ up \in Seq(UpFrames) /\ down \in Seq(DownFrames)
    /\ used \subseteq Ids /\ file \subseteq Ids
    /\ alive \in BOOLEAN /\ stopping \in BOOLEAN /\ fault \in {"none", "frame", "overflow"}
    /\ mutations \in Seq(Ids) /\ processes \in Seq(Ids)

Init ==
    /\ client = "open" /\ pending = [i \in Ids |-> NoOp] /\ used = {}
    /\ up = <<>> /\ down = <<>>
    /\ alive = TRUE /\ stopping = FALSE /\ active = [i \in Ids |-> NoOp]
    /\ mutations = <<>> /\ processes = <<>> /\ file = {}
    /\ fault = "none"

Frame(t, i) == [t |-> t, id |-> i]

PendingIds == {i \in Ids : pending[i] # NoOp}
ActiveIds == {i \in Ids : active[i] # NoOp}
-----------------------------------------------------------------------------
(* The client.                                                             *)

(* #rejectPending                                                          *)
Stop(state) ==
    /\ client' = state
    /\ pending' = [i \in Ids |-> NoOp]

(* #send, by which pending becomes p.  The frame joins the write queue; if *)
(* its bytes do not fit behind those that wait, the client fails.          *)
Send(m, p) ==
    \/ up' = Append(up, m) /\ pending' = p /\ UNCHANGED <<client, fault>>
    \/ Len(up) > QueueFits /\ Stop("fatal") /\ fault' = "overflow" /\ UNCHANGED up

(* #requestOperation: refused when the client is not open or the table is  *)
(* full; a write's data follows in frames of their own.                    *)
Request(i, k) ==
    /\ client = "open" /\ i \notin used
    /\ Cardinality(PendingIds) < MaxActive
    /\ used' = used \cup {i}
    /\ Send([t |-> "request", id |-> i, kind |-> k],
            [pending EXCEPT ![i] = [kind |-> k, unsent |-> IF k = "write" THEN <<"chunk", "end">> ELSE <<>>,
                                    settled |-> FALSE, terminal |-> FALSE, tasks |-> 0, next |-> 0]])
    /\ UNCHANGED <<down, workerVars>>

(* Each frame of a write is sent when the one before it has been written;  *)
(* frames of other operations come between.                                *)
SendData(i) ==
    /\ client = "open" /\ pending[i] # NoOp /\ pending[i].unsent # <<>>
    /\ Send(Frame(Head(pending[i].unsent), i), [pending EXCEPT ![i].unsent = Tail(@)])
    /\ UNCHANGED <<used, down, workerVars>>

(* Mutant: an aborted operation is forgotten at once.                      *)
AbortForgets(i) ==
    /\ client = "open" /\ pending[i] # NoOp
    /\ ~pending[i].settled /\ ~pending[i].terminal /\ pending[i].kind # "exec"
    /\ Send(Frame("cancel", i), [pending EXCEPT ![i] = NoOp])
    /\ UNCHANGED <<used, down, workerVars>>

(* The caller's signal: the promise rejects and a cancel frame goes out,   *)
(* but the entry stays until the worker's terminal frame.                  *)
Abort(i) ==
    /\ client = "open" /\ pending[i] # NoOp
    /\ ~pending[i].settled /\ ~pending[i].terminal /\ pending[i].kind # "exec"
    /\ Send(Frame("cancel", i), [pending EXCEPT ![i].settled = TRUE])
    /\ UNCHANGED <<used, down, workerVars>>

(* invalidate: also what the abort or the deadline of a command leads to.  *)
Invalidate ==
    /\ client = "open"
    /\ Stop("closing")
    /\ UNCHANGED <<used, up, down, workerVars, fault>>

(* #closeOnce asks the worker to shut down; a frame that does not fit the  *)
(* queue is not sent, and a client that closes no longer fails.            *)
Close ==
    /\ client = "open"
    /\ Stop("closing")
    /\ \/ up' = Append(up, Frame("shutdown", 0))
       \/ Len(up) > QueueFits /\ UNCHANGED up
    /\ UNCHANGED <<used, down, workerVars, fault>>

(* #terminateOnce: the process group is killed.                            *)
Terminate ==
    /\ client \in {"closing", "fatal"}
    /\ client' = "closed"
    /\ alive' = FALSE
    /\ UNCHANGED <<pending, used, up, down, stopping, active, mutations, processes, file, fault>>

(* The worker has exited: #fail unless the client is closing.              *)
SeeExit ==
    /\ client = "open" /\ ~alive
    /\ Stop("fatal")
    /\ UNCHANGED <<used, up, down, workerVars, fault>>

Violates(m) ==
    \/ m.t = "complete"
    \/ /\ m.t # "complete"
       /\ \/ pending[m.id] = NoOp
          \/ pending[m.id].terminal
          \/ m.t = "output" /\ (pending[m.id].kind # "exec" \/ m.n # pending[m.id].next)

(* The output tasks of all commands: their number is #pendingOutputFrames. *)
OutputTasks == {x \in Ids \X (1..MaxOutput) : pending[x[1]] # NoOp /\ x[2] <= pending[x[1]].tasks}

(* An output frame starts a task; the terminal frame is noted.             *)
Delivered(p, m) ==
    IF m.t = "output" THEN [p EXCEPT !.tasks = p.tasks + 1, !.next = p.next + 1]
    ELSE [p EXCEPT !.terminal = TRUE]

(* #receive and #handle: a violation is fatal, and so is output for which  *)
(* #queueOutput has no room; once the client is closing, frames only end   *)
(* the wait for the shutdown.  The stream may be paused at any time.       *)
Receive ==
    /\ client \in {"open", "closing"} /\ down # <<>>
    /\ down' = Tail(down)
    /\ LET m == Head(down) IN
       IF client = "closing" THEN UNCHANGED <<client, pending, fault>>
       ELSE IF Violates(m) THEN fault' = "frame" /\ Stop("fatal")
       ELSE IF m.t = "output" /\ Cardinality(OutputTasks) >= MaxTasks THEN fault' = "overflow" /\ Stop("fatal")
       ELSE /\ pending' = [pending EXCEPT ![m.id] = Delivered(pending[m.id], m)]
            /\ UNCHANGED <<client, fault>>
    /\ UNCHANGED <<used, up, workerVars>>

(* The task of #queueOutput: the caller's onOutput returns, or it throws   *)
(* and the client fails.                                                   *)
OutputTask(i) ==
    /\ pending[i] # NoOp /\ pending[i].tasks > 0
    /\ \/ pending' = [pending EXCEPT ![i].tasks = @ - 1] /\ UNCHANGED client
       \/ Stop("fatal")
    /\ UNCHANGED <<used, up, down, workerVars, fault>>

(* #terminal: after the output tasks the entry goes and the promise        *)
(* settles, unless it has.                                                 *)
Settle(i) ==
    /\ pending[i] # NoOp /\ pending[i].terminal /\ pending[i].tasks = 0
    /\ pending' = [pending EXCEPT ![i] = NoOp]
    /\ UNCHANGED <<client, used, up, down, workerVars, fault>>
-----------------------------------------------------------------------------
(* The worker.                                                             *)

Started(r) ==
    CASE r.kind = "read" -> [r EXCEPT !.stage = "running"]
      [] r.kind \in {"write", "edit"} -> [r EXCEPT !.stage = "resolving"]
      [] OTHER -> [r EXCEPT !.stage = "queued"]

(* start and the first steps of execute: a process operation joins its     *)
(* queue at once.                                                          *)
Starts(i, r) ==
    /\ active' = [active EXCEPT ![i] = Started(r)]
    /\ processes' = IF r.kind \in {"search", "exec"} THEN Append(processes, i) ELSE processes
    /\ UNCHANGED <<alive, stopping, mutations, file>>

WorkerFaults ==
    /\ fault' = IF client = "open" THEN "frame" ELSE fault
    /\ alive' = FALSE
    /\ UNCHANGED <<stopping, active, mutations, processes, file>>

(* The main loop: handle.  A shutdown cancels everything and the loop      *)
(* takes no further frame.                                                 *)
Handle ==
    /\ alive /\ ~stopping /\ up # <<>>
    /\ up' = Tail(up)
    /\ LET m == Head(up)
           new == [kind |-> m.kind, stage |-> "receiving", cancelled |-> FALSE, base |-> {}, outputs |-> 0]
       IN CASE m.t = "request" ->
                 IF active[m.id] # NoOp \/ Cardinality(ActiveIds) >= MaxActive THEN WorkerFaults
                 ELSE IF m.kind = "write"
                      THEN /\ active' = [active EXCEPT ![m.id] = new]
                           /\ UNCHANGED <<alive, stopping, mutations, processes, file, fault>>
                      ELSE Starts(m.id, new) /\ UNCHANGED fault
            [] m.t \in {"chunk", "end"} ->
                 IF active[m.id] = NoOp \/ active[m.id].stage # "receiving" THEN WorkerFaults
                 ELSE IF m.t = "end" THEN Starts(m.id, active[m.id]) /\ UNCHANGED fault
                      ELSE UNCHANGED <<workerVars, fault>>
            [] m.t = "cancel" ->
                 /\ active' = [active EXCEPT ![m.id] = IF @ = NoOp THEN @ ELSE [@ EXCEPT !.cancelled = TRUE]]
                 /\ UNCHANGED <<alive, stopping, mutations, processes, file, fault>>
            [] m.t = "shutdown" ->
                 /\ active' = [i \in Ids |-> IF active[i] = NoOp THEN NoOp
                                             ELSE [active[i] EXCEPT !.cancelled = TRUE]]
                 /\ stopping' = TRUE
                 /\ UNCHANGED <<alive, mutations, processes, file, fault>>
    /\ UNCHANGED <<clientVars, down>>

(* release opens the gate of the next in the queue.                        *)
Released(i, queue) == IF queue # <<>> /\ Head(queue) = i THEN Tail(queue) ELSE queue

(* The terminal frame is written and the request forgotten; a lock it held *)
(* passes to the next.                                                     *)
Answers(i) ==
    /\ down' = Append(down, Frame("response", i))
    /\ active' = [active EXCEPT ![i] = NoOp]
    /\ mutations' = Released(i, mutations)
    /\ processes' = Released(i, processes)
    /\ UNCHANGED <<clientVars, up, alive, stopping, file, fault>>

Proceeds(i, r) ==
    /\ active' = [active EXCEPT ![i] = r]
    /\ UNCHANGED <<clientVars, up, down, alive, stopping, processes, fault>>

(* Mutant: the target is not locked.                                       *)
HoldsNothing(i, queue) == TRUE

Holds(i, queue) == queue # <<>> /\ Head(queue) = i

(* workerReadFile and its like: one unlocked step, with a result or an     *)
(* error.                                                                  *)
ReadDone(i) ==
    /\ alive /\ active[i] # NoOp /\ active[i].kind = "read"
    /\ Answers(i)

(* canonicalMutationTarget has resolved (or fails): the operation joins    *)
(* the target's queue.                                                     *)
JoinMutations(i) ==
    /\ alive /\ active[i] # NoOp /\ active[i].stage = "resolving"
    /\ \/ Answers(i)
       \/ /\ mutations' = Append(mutations, i)
          /\ Proceeds(i, [active[i] EXCEPT !.stage = "queued"])
          /\ UNCHANGED file

(* The holder reads the file it edits; it gives up if it was cancelled or  *)
(* the edits do not match.                                                 *)
MutationReads(i) ==
    /\ alive /\ active[i] # NoOp /\ active[i].kind \in {"write", "edit"}
    /\ active[i].stage = "queued" /\ Holds(i, mutations)
    /\ \/ Answers(i)
       \/ /\ ~active[i].cancelled
          /\ Proceeds(i, [active[i] EXCEPT !.stage = "read", !.base = file])
          /\ UNCHANGED <<mutations, file>>

(* atomicWrite: the rename replaces the content, unless a step before it   *)
(* fails.                                                                  *)
MutationWrites(i) ==
    /\ alive /\ active[i] # NoOp /\ active[i].stage = "read"
    /\ \/ Answers(i)
       \/ /\ ~active[i].cancelled
          /\ file' = IF active[i].kind = "edit" THEN active[i].base \cup {i} ELSE {i}
          /\ Proceeds(i, [active[i] EXCEPT !.stage = "written"])
          /\ UNCHANGED mutations

MutationDone(i) == alive /\ active[i] # NoOp /\ active[i].stage = "written" /\ Answers(i)

(* Mutant: a search does not take the process queue's turn.                *)
ProcessRunsAtOnce(i) ==
    /\ alive /\ active[i] # NoOp /\ active[i].kind \in {"search", "exec"}
    /\ active[i].stage = "queued"
    /\ \/ active[i].cancelled /\ Answers(i)
       \/ /\ ~active[i].cancelled
          /\ Proceeds(i, [active[i] EXCEPT !.stage = "running"])
          /\ UNCHANGED <<mutations, file>>

(* The holder spawns rg or bash, unless it was cancelled.                  *)
ProcessRuns(i) ==
    /\ alive /\ active[i] # NoOp /\ active[i].kind \in {"search", "exec"}
    /\ active[i].stage = "queued" /\ Holds(i, processes)
    /\ \/ active[i].cancelled /\ Answers(i)
       \/ /\ ~active[i].cancelled
          /\ Proceeds(i, [active[i] EXCEPT !.stage = "running"])
          /\ UNCHANGED <<mutations, file>>

SearchDone(i) ==
    /\ alive /\ active[i] # NoOp /\ active[i].kind = "search" /\ active[i].stage = "running"
    /\ Answers(i)

CommandOutput(i) ==
    /\ alive /\ active[i] # NoOp /\ active[i].kind = "exec" /\ active[i].stage = "running"
    /\ active[i].outputs < MaxOutput
    /\ active' = [active EXCEPT ![i].outputs = @ + 1]
    /\ down' = Append(down, [t |-> "output", id |-> i, n |-> active[i].outputs])
    /\ UNCHANGED <<clientVars, up, alive, stopping, mutations, processes, file, fault>>

(* bash has exited; cleanCommandDescendants signals every other process of *)
(* the namespace, and the command answers when they are gone.              *)
CommandDone(i) ==
    /\ alive /\ active[i] # NoOp /\ active[i].kind = "exec"
    /\ \/ /\ active[i].stage = "running"
          /\ Proceeds(i, [active[i] EXCEPT !.stage = "cleaning"])
          /\ UNCHANGED <<mutations, file>>
       \/ active[i].stage = "cleaning" /\ Answers(i)

(* process.exit in workerExec: the output limit, the worker's own          *)
(* deadline, a cancelled command; or descendants that survive the cleanup. *)
CommandKillsWorker(i) ==
    /\ alive /\ active[i] # NoOp /\ active[i].kind = "exec" /\ active[i].stage \in {"running", "cleaning"}
    /\ alive' = FALSE
    /\ UNCHANGED <<clientVars, up, down, stopping, active, mutations, processes, file, fault>>

(* The tasks have settled: shutdown.complete, and the worker ends.  A      *)
(* write still receiving its data is no task.                              *)
ShutDown ==
    /\ alive /\ stopping
    /\ \A i \in ActiveIds : active[i].stage = "receiving"
    /\ down' = Append(down, Frame("complete", 0))
    /\ alive' = FALSE
    /\ UNCHANGED <<clientVars, up, stopping, active, mutations, processes, file, fault>>
-----------------------------------------------------------------------------
ClientStep(i) == SendData(i) \/ OutputTask(i) \/ Settle(i)

WorkerStep(i) ==
    \/ ReadDone(i) \/ JoinMutations(i) \/ MutationReads(i) \/ MutationWrites(i) \/ MutationDone(i)
    \/ ProcessRuns(i) \/ SearchDone(i) \/ CommandDone(i) \/ CommandKillsWorker(i)

Next ==
    \/ \E i \in Ids, k \in Kinds : Request(i, k)
    \/ \E i \in Ids : Abort(i) \/ ClientStep(i) \/ WorkerStep(i) \/ CommandOutput(i)
    \/ Invalidate \/ Close \/ Terminate \/ SeeExit \/ Receive \/ Handle \/ ShutDown

Spec == Init /\ [][Next]_vars
-----------------------------------------------------------------------------
(* Neither end, both as written, ever rejects a frame of the other: not    *)
(* when a cancel crosses a terminal frame, when the table is full, or when *)
(* the frames of several operations alternate.  A rejected frame costs the *)
(* conversation its worker.  (So does the overflow of one of the client's  *)
(* queues, which is no disagreement and can happen.)                       *)
PeersAgree == fault # "frame"

(* The cleanup after a command, which signals every process of the         *)
(* namespace, meets no process of another operation.                       *)
CleanupMeetsNoOther ==
    \A i, j \in ActiveIds :
        i # j /\ active[i].stage = "cleaning" /\ active[j].kind \in {"search", "exec"}
            => active[j].stage \notin {"running", "cleaning"}

(* No edit is lost: the content an edit was computed from is the content   *)
(* it replaces, however reads, writes and cancellations interleave.        *)
NoLostUpdate ==
    \A i \in ActiveIds : active[i].stage = "read" => active[i].base = file
=============================================================================
