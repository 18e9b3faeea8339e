--------------------------- MODULE WorkerPipeProofs ---------------------------
(* The promises of the worker protocol, for every set of request ids,      *)
(* every limit on active operations and any amount of output: the locks    *)
(* inside the worker (first part) and the agreement of its two ends        *)
(* (second part).                                                          *)
EXTENDS WorkerPipe, FiniteSetTheorems, TLAPS

OwnsProcess(r) == (r.kind \in {"search", "exec"} /\ r.stage = "running") \/ r.stage = "cleaning"

(* Whoever is past its queue is the head of that queue.                    *)
LocksHeld ==
    \A i \in Ids : active[i] # NoOp =>
        /\ active[i].stage = "read" => Holds(i, mutations)
        /\ OwnsProcess(active[i]) => Holds(i, processes)

Receiving(i) == active[i] # NoOp /\ active[i].stage = "receiving"

Waiting(i) == pending[i] # NoOp /\ ~pending[i].terminal

IsData(m) == m.t \in {"chunk", "end"}

(* A request on its way is the first frame of its operation: the worker    *)
(* does not know it yet and nothing has been answered.                     *)
RequestsFirst ==
    \A k \in DOMAIN up : up[k].t = "request" =>
        /\ Waiting(up[k].id) /\ active[up[k].id] = NoOp
        /\ up[k].kind = pending[up[k].id].kind /\ pending[up[k].id].next = 0
        /\ \A l \in DOMAIN up : up[l].id = up[k].id => l >= k /\ (l > k => up[l].t # "request")
        /\ \A l \in DOMAIN down : down[l].id # up[k].id

(* A write's data finds the request that expects it: with the worker, or   *)
(* ahead in the pipe; and nothing follows its end.                         *)
DataExpected ==
    /\ \A k \in DOMAIN up : IsData(up[k]) =>
         /\ Waiting(up[k].id) /\ pending[up[k].id].kind = "write"
         /\ \/ Receiving(up[k].id)
            \/ \E l \in DOMAIN up : l < k /\ up[l].t = "request" /\ up[l].id = up[k].id
         /\ up[k].t = "end" => /\ pending[up[k].id].unsent = <<>>
                               /\ \A l \in DOMAIN up : IsData(up[l]) /\ up[l].id = up[k].id => l <= k
    /\ \A i \in Ids : pending[i] # NoOp =>
         /\ pending[i].unsent \in {<<>>, <<"end">>, <<"chunk", "end">>}
         /\ pending[i].unsent # <<>> =>
              /\ pending[i].kind = "write" /\ ~pending[i].terminal
              /\ Receiving(i) \/ \E l \in DOMAIN up : up[l].t = "request" /\ up[l].id = i

(* What the worker works on, the client waits for; a command's output that *)
(* the client has not seen is in the pipe.                                 *)
ActiveAwaited ==
    \A i \in Ids : active[i] # NoOp =>
        /\ Waiting(i) /\ active[i].kind = pending[i].kind
        /\ active[i].stage = "receiving" => active[i].kind = "write"
        /\ \A l \in DOMAIN down : down[l].id = i => down[l].t = "output"
        /\ pending[i].next <= active[i].outputs
        /\ \A n \in 0..MaxOutput : pending[i].next <= n /\ n < active[i].outputs
             => \E l \in DOMAIN down : down[l].t = "output" /\ down[l].id = i /\ down[l].n = n

(* A frame on its way back belongs to an operation the client waits for;   *)
(* a response is its last frame, and output comes without a gap.           *)
AnswersAwaited ==
    \A k \in DOMAIN down :
        /\ down[k].t # "complete" /\ Waiting(down[k].id)
        /\ down[k].t = "response" =>
             active[down[k].id] = NoOp /\ \A l \in DOMAIN down : down[l].id = down[k].id => l <= k
        /\ down[k].t = "output" =>
             /\ pending[down[k].id].kind = "exec"
             /\ pending[down[k].id].next <= down[k].n
             /\ active[down[k].id] # NoOp => down[k].n < active[down[k].id].outputs
             /\ \A l \in DOMAIN down : l < k /\ down[l].id = down[k].id => down[l].n < down[k].n
             /\ \A n \in 0..MaxOutput : pending[down[k].id].next <= n /\ n < down[k].n
                  => \E l \in DOMAIN down : l < k /\ down[l].t = "output" /\ down[l].id = down[k].id /\ down[l].n = n

(* An id that has not been used is unknown everywhere.                     *)
FreshUnknown ==
    \A i \in Ids \ used :
        /\ pending[i] = NoOp /\ active[i] = NoOp
        /\ \A k \in DOMAIN up : up[k].id # i
        /\ \A k \in DOMAIN down : down[k].id # i

NotShutDown == ~stopping /\ \A k \in DOMAIN up : up[k].t # "shutdown"

TableBounded == IsFiniteSet(PendingIds) /\ Cardinality(PendingIds) <= MaxActive

Agreement ==
    /\ RequestsFirst /\ DataExpected /\ ActiveAwaited /\ AnswersAwaited
    /\ FreshUnknown /\ NotShutDown /\ TableBounded

TasksCounted == \A i \in Ids : pending[i] # NoOp => pending[i].tasks <= pending[i].next
-----------------------------------------------------------------------------
(* Types.                                                                  *)

TypesOK == TypeOK /\ TasksCounted

(* The sequence operators the model uses, on any sequence.                 *)
LEMMA TailElements ==
  ASSUME NEW S, NEW q \in Seq(S), q # <<>>
  PROVE  /\ Tail(q) \in Seq(S) /\ Head(q) \in S /\ 1 \in DOMAIN q /\ q[1] = Head(q)
         /\ \A k \in DOMAIN Tail(q) : k + 1 \in DOMAIN q /\ Tail(q)[k] = q[k + 1] /\ k \in Nat \ {0}
         /\ \A k \in DOMAIN q : k = 1 \/ (k - 1 \in DOMAIN Tail(q) /\ Tail(q)[k - 1] = q[k])
  OBVIOUS

(* What Append leaves in place and what it adds.                           *)
LEMMA AppendElements ==
  ASSUME NEW S, NEW q \in Seq(S), NEW x \in S
  PROVE  /\ Append(q, x) \in Seq(S) /\ Append(q, x) # <<>>
         /\ DOMAIN Append(q, x) = DOMAIN q \cup {Len(q) + 1}
         /\ \A k \in DOMAIN q : Append(q, x)[k] = q[k] /\ k < Len(q) + 1 /\ k \in Nat
         /\ Append(q, x)[Len(q) + 1] = x /\ Len(q) \in Nat
         /\ q # <<>> => Head(Append(q, x)) = Head(q)
         /\ q = <<>> => Head(Append(q, x)) = x
  OBVIOUS

(* The client's steps keep every type.                                     *)
LEMMA ClientTypes ==
  ASSUME TypesOK, NEW i \in Ids, NEW k \in Kinds,
         Request(i, k) \/ SendData(i) \/ Abort(i) \/ OutputTask(i) \/ Settle(i)
  PROVE  TypesOK'
  <1> USE DEF TypesOK, TypeOK
  <1>0. ASSUME Stop("fatal"), UNCHANGED <<up, down, workerVars>>, used' \subseteq Ids,
               fault' \in {"none", "frame", "overflow"}
        PROVE  TypesOK'
    BY <1>0 DEF Stop, workerVars, TasksCounted
  <1>1. CASE Request(i, k)
    <2> DEFINE p == [kind |-> k, unsent |-> IF k = "write" THEN <<"chunk", "end">> ELSE <<>>,
                     settled |-> FALSE, terminal |-> FALSE, tasks |-> 0, next |-> 0]
               m == [t |-> "request", id |-> i, kind |-> k]
    <2>a. 0 \in 0..MaxOutput /\ 0 <= 0
      BY PipeAssumption
    <2>b. <<"chunk", "end">> \in Seq({"chunk", "end"}) /\ <<>> \in Seq({"chunk", "end"})
      OBVIOUS
    <2>1. p \in PendingOps /\ p.tasks <= p.next
      BY <2>a, <2>b DEF PendingOps
    <2>2. m \in UpFrames
      BY DEF UpFrames
    <2> HIDE DEF p, m
    <2>3. Append(up, m) \in Seq(UpFrames)
      BY <2>2, AppendElements
    <2>4. Send(m, [pending EXCEPT ![i] = p]) /\ used' \subseteq Ids /\ UNCHANGED <<down, workerVars>>
      BY <1>1 DEF Request, p, m
    <2>5. CASE up' = Append(up, m) /\ pending' = [pending EXCEPT ![i] = p] /\ UNCHANGED <<client, fault>>
      BY <2>1, <2>3, <2>4, <2>5 DEF workerVars, TasksCounted
    <2> QED BY <1>0, <2>4, <2>5 DEF Send
  <1>2. CASE SendData(i)
    <2> DEFINE p == [pending[i] EXCEPT !.unsent = Tail(@)]
    <2>1. pending[i] \in PendingOps /\ pending[i].unsent \in Seq({"chunk", "end"}) /\ pending[i].unsent # <<>>
      BY <1>2 DEF SendData, PendingOps
    <2>2. Tail(pending[i].unsent) \in Seq({"chunk", "end"}) /\ Head(pending[i].unsent) \in {"chunk", "end"}
      BY <2>1, TailElements
    <2>3. p \in PendingOps /\ p.tasks = pending[i].tasks /\ p.next = pending[i].next
      BY <2>1, <2>2 DEF PendingOps
    <2>4. Frame(Head(pending[i].unsent), i) \in UpFrames
      BY <2>2 DEF Frame, UpFrames
    <2> DEFINE m == Frame(Head(pending[i].unsent), i)
    <2> HIDE DEF p
    <2>5. Append(up, m) \in Seq(UpFrames)
      BY <2>4, AppendElements
    <2>6. Send(m, [pending EXCEPT ![i] = p]) /\ UNCHANGED <<used, down, workerVars>> /\ pending[i] # NoOp
      BY <1>2 DEF SendData, p
    <2> HIDE DEF m
    <2>7. CASE up' = Append(up, m) /\ pending' = [pending EXCEPT ![i] = p] /\ UNCHANGED <<client, fault>>
      BY <2>1, <2>3, <2>5, <2>6, <2>7, NoOpAssumption DEF workerVars, TasksCounted
    <2> QED BY <1>0, <2>6, <2>7 DEF Send
  <1>3. CASE Abort(i)
    <2> DEFINE p == [pending[i] EXCEPT !.settled = TRUE]
    <2>1. pending[i] \in PendingOps
      BY <1>3 DEF Abort
    <2>2. p \in PendingOps /\ p.tasks = pending[i].tasks /\ p.next = pending[i].next
      BY <2>1 DEF PendingOps
    <2>3. Frame("cancel", i) \in UpFrames
      BY DEF Frame, UpFrames
    <2> DEFINE m == Frame("cancel", i)
    <2> HIDE DEF p
    <2>4. Append(up, m) \in Seq(UpFrames)
      BY <2>3, AppendElements
    <2>5. Send(m, [pending EXCEPT ![i] = p]) /\ UNCHANGED <<used, down, workerVars>> /\ pending[i] # NoOp
      BY <1>3 DEF Abort, p
    <2> HIDE DEF m
    <2>6. CASE up' = Append(up, m) /\ pending' = [pending EXCEPT ![i] = p] /\ UNCHANGED <<client, fault>>
      BY <2>1, <2>2, <2>4, <2>5, <2>6, NoOpAssumption DEF workerVars, TasksCounted
    <2> QED BY <1>0, <2>5, <2>6 DEF Send
  <1>4. CASE OutputTask(i)
    <2> DEFINE p == [pending[i] EXCEPT !.tasks = @ - 1]
    <2>1. pending[i] \in PendingOps /\ pending[i].tasks > 0
      BY <1>4 DEF OutputTask
    <2>a. /\ pending[i].tasks \in Nat /\ pending[i].next \in Nat /\ pending[i].tasks - 1 \in 0..MaxOutput
          /\ pending[i].tasks - 1 <= pending[i].tasks
      BY <2>1, PipeAssumption DEF PendingOps
    <2>b. p \in PendingOps /\ p.tasks = pending[i].tasks - 1 /\ p.next = pending[i].next
      BY <2>1, <2>a DEF PendingOps
    <2> HIDE DEF p
    <2>2. p \in PendingOps /\ p.tasks <= p.next
      BY <2>1, <2>a, <2>b, NoOpAssumption DEF TasksCounted
    <2>3. CASE pending' = [pending EXCEPT ![i] = p] /\ UNCHANGED client
      BY <1>4, <2>1, <2>2, <2>3, NoOpAssumption DEF OutputTask, workerVars, TasksCounted
    <2> QED BY <1>0, <1>4, <2>3 DEF OutputTask, p
  <1>5. CASE Settle(i)
    BY <1>5 DEF Settle, workerVars, TasksCounted
  <1> QED BY <1>1, <1>2, <1>3, <1>4, <1>5

(* A frame in its turn keeps an entry well formed.                         *)
LEMMA DeliveredTypes ==
  ASSUME NEW o \in PendingOps, o.tasks <= o.next, NEW m,
         m.t = "output" => m.n = o.next /\ m.n \in 0..MaxOutput \ {MaxOutput}
  PROVE  Delivered(o, m) \in PendingOps /\ Delivered(o, m).tasks <= Delivered(o, m).next
  <1>1. CASE m.t = "output"
    <2>1. o.tasks + 1 \in 0..MaxOutput /\ o.next + 1 \in 0..MaxOutput /\ o.tasks + 1 <= o.next + 1
      BY <1>1, PipeAssumption DEF PendingOps
    <2> QED BY <1>1, <2>1 DEF PendingOps, Delivered
  <1>2. CASE m.t # "output"
    BY <1>2 DEF PendingOps, Delivered
  <1> QED BY <1>1, <1>2

(* So do the ends of the client, and a frame it receives.                  *)
LEMMA ClientEndTypes ==
  ASSUME TypesOK, Invalidate \/ Close \/ Terminate \/ SeeExit \/ Receive
  PROVE  TypesOK'
  <1> USE DEF TypesOK, TypeOK
  <1>1. CASE Invalidate \/ SeeExit \/ Terminate
    BY <1>1 DEF Invalidate, SeeExit, Terminate, Stop, workerVars, TasksCounted
  <1>2. CASE Close
    <2>1. Frame("shutdown", 0) \in UpFrames
      BY DEF Frame, UpFrames
    <2>2. up' \in Seq(UpFrames)
      <3>1. Append(up, Frame("shutdown", 0)) \in Seq(UpFrames)
        BY <2>1, AppendElements
      <3> QED BY <1>2, <3>1 DEF Close
    <2> QED BY <1>2, <2>2 DEF Close, Stop, workerVars, TasksCounted
  <1>3. CASE Receive
    <2> DEFINE m == Head(down)
    <2>1. down' \in Seq(DownFrames) /\ m \in DownFrames
      BY <1>3, TailElements DEF Receive
    <2>2. UNCHANGED <<used, up, workerVars>>
      BY <1>3 DEF Receive
    <2> HIDE DEF m
    <2>3. CASE UNCHANGED <<client, pending, fault>>
      BY <2>1, <2>2, <2>3 DEF workerVars, TasksCounted
    <2>4. CASE fault' \in {"frame", "overflow"} /\ Stop("fatal")
      BY <2>1, <2>2, <2>4 DEF workerVars, TasksCounted, Stop
    <2>5. CASE /\ ~Violates(m) /\ UNCHANGED <<client, fault>>
               /\ pending' = [pending EXCEPT ![m.id] = Delivered(pending[m.id], m)]
      <3> DEFINE o == pending[m.id]
                 p == Delivered(o, m)
      <3>1. m.t # "complete" /\ o # NoOp /\ (m.t = "output" => m.n = o.next)
        BY <2>5 DEF Violates
      <3>2. m.id \in Ids /\ (m.t = "output" => m.n \in 0..MaxOutput \ {MaxOutput})
        BY <2>1, <3>1 DEF DownFrames
      <3>3. o \in PendingOps /\ o.tasks <= o.next
        BY <3>1, <3>2 DEF TasksCounted
      <3> HIDE DEF o
      <3>4. p \in PendingOps /\ p.tasks <= p.next
        BY <3>1, <3>2, <3>3, DeliveredTypes
      <3> HIDE DEF p
      <3>5. pending' = [pending EXCEPT ![m.id] = p]
        BY <2>5 DEF p, o
      <3> QED BY <2>1, <2>2, <2>5, <3>2, <3>4, <3>5 DEF workerVars, TasksCounted
    <2> QED BY <1>3, <2>3, <2>4, <2>5 DEF Receive, m
  <1> QED BY <1>1, <1>2, <1>3

(* release takes the head off the queue or leaves it alone.                *)
LEMMA ReleasedKeeps ==
  ASSUME NEW i, NEW q \in Seq(Ids)
  PROVE  /\ Released(i, q) \in Seq(Ids)
         /\ \A j : j # i /\ Holds(j, q) => Holds(j, Released(i, q))
  BY DEF Released, Holds

(* A new request, and one that starts, are active requests.                *)
LEMMA StartedTypes ==
  ASSUME NEW r \in ActiveOps
  PROVE  /\ Started(r) \in ActiveOps /\ Started(r).kind = r.kind /\ Started(r).outputs = r.outputs
         /\ Started(r).stage = IF r.kind = "read" THEN "running"
                               ELSE IF r.kind \in {"write", "edit"} THEN "resolving" ELSE "queued"
  BY DEF Started, ActiveOps

(* What the main loop does with the frame m.                               *)
New(m) == [kind |-> m.kind, stage |-> "receiving", cancelled |-> FALSE, base |-> {}, outputs |-> 0]

Cancelled(i) == IF active[i] = NoOp THEN NoOp ELSE [active[i] EXCEPT !.cancelled = TRUE]

(* The worker's frame handler, as the cases it distinguishes.              *)
LEMMA HandleCases ==
  ASSUME TypeOK, Handle
  PROVE  LET m == Head(up) IN
         /\ up # <<>> /\ alive /\ ~stopping /\ up' = Tail(up) /\ UNCHANGED <<clientVars, down>>
         /\ \/ /\ m.t = "request" /\ active[m.id] = NoOp /\ m.kind = "write"
               /\ active' = [active EXCEPT ![m.id] = New(m)]
               /\ UNCHANGED <<alive, stopping, mutations, processes, file, fault>>
            \/ m.t = "request" /\ active[m.id] = NoOp /\ m.kind # "write" /\ Starts(m.id, New(m)) /\ UNCHANGED fault
            \/ m.t = "request" /\ (active[m.id] # NoOp \/ Cardinality(ActiveIds) >= MaxActive) /\ WorkerFaults
            \/ IsData(m) /\ ~Receiving(m.id) /\ WorkerFaults
            \/ m.t = "end" /\ Receiving(m.id) /\ Starts(m.id, active[m.id]) /\ UNCHANGED fault
            \/ m.t = "chunk" /\ Receiving(m.id) /\ UNCHANGED <<workerVars, fault>>
            \/ /\ m.t = "cancel" /\ active' = [active EXCEPT ![m.id] = Cancelled(m.id)]
               /\ UNCHANGED <<alive, stopping, mutations, processes, file, fault>>
            \/ /\ m.t = "shutdown" /\ active' = [i \in Ids |-> Cancelled(i)]
               /\ stopping' = TRUE /\ UNCHANGED <<alive, mutations, processes, file, fault>>
  <1> DEFINE m == Head(up)
  <1>1. m \in UpFrames /\ up # <<>>
    BY TailElements DEF TypeOK, Handle
  <1>2. m.t \in {"request", "chunk", "end", "cancel", "shutdown"}
    BY <1>1 DEF UpFrames
  <1>3. /\ alive /\ ~stopping /\ up' = Tail(up) /\ UNCHANGED <<clientVars, down>>
    BY DEF Handle
  <1> HIDE DEF m
  <1>4. CASE m.t = "request"
    BY <1>1, <1>3, <1>4 DEF Handle, m, New
  <1>5. CASE m.t \in {"chunk", "end"}
    BY <1>1, <1>3, <1>5 DEF Handle, m, IsData, Receiving
  <1>6. CASE m.t = "cancel"
    BY <1>1, <1>3, <1>6 DEF Handle, m, Cancelled
  <1>7. CASE m.t = "shutdown"
    BY <1>1, <1>3, <1>7 DEF Handle, m, Cancelled
  <1> QED BY <1>2, <1>4, <1>5, <1>6, <1>7 DEF m

(* What the worker owes: its types, its locks and what they protect.       *)
WorkerInv == TypesOK /\ LocksHeld /\ NoLostUpdate

(* A request that ends leaves the others as they were.                     *)
LEMMA AnswersKeep ==
  ASSUME WorkerInv, NEW i \in Ids, Answers(i)
  PROVE  WorkerInv'
  <1> USE DEF WorkerInv
  <1>1. Frame("response", i) \in DownFrames
    BY DEF Frame, DownFrames
  <1>2. down' \in Seq(DownFrames)
    BY <1>1, AppendElements DEF TypesOK, TypeOK, Answers
  <1>3. TypesOK'
    BY <1>2, ReleasedKeeps DEF TypesOK, TypeOK, TasksCounted, Answers, clientVars
  <1>4. LocksHeld'
    BY ReleasedKeeps DEF TypesOK, TypeOK, LocksHeld, Answers
  <1>5. NoLostUpdate'
    BY DEF TypesOK, TypeOK, NoLostUpdate, ActiveIds, Answers
  <1> QED BY <1>3, <1>4, <1>5

(* A request i that becomes r while the file stays.                        *)
LEMMA ProceedsKeeps ==
  ASSUME WorkerInv, NEW i \in Ids, NEW r \in ActiveOps, Proceeds(i, r),
         mutations' \in Seq(Ids), \A j : Holds(j, mutations) => Holds(j, mutations'), UNCHANGED file,
         r.stage = "read" => Holds(i, mutations) /\ r.base = file,
         OwnsProcess(r) => Holds(i, processes)
  PROVE  WorkerInv'
  <1> USE DEF WorkerInv
  <1>1. TypesOK'
    BY DEF TypesOK, TypeOK, TasksCounted, Proceeds, clientVars
  <1>2. LocksHeld'
    <2> SUFFICES ASSUME NEW j \in Ids, active'[j] # NoOp
                 PROVE  /\ active'[j].stage = "read" => Holds(j, mutations')
                        /\ OwnsProcess(active'[j]) => Holds(j, processes')
      BY DEF LocksHeld, Holds
    <2> QED BY DEF TypesOK, TypeOK, LocksHeld, Proceeds
  <1>3. NoLostUpdate'
    BY DEF TypesOK, TypeOK, NoLostUpdate, ActiveIds, Proceeds
  <1> QED BY <1>1, <1>2, <1>3

(* The worker's own steps.                                                 *)
LEMMA WorkerStepKeeps ==
  ASSUME WorkerInv, NEW i \in Ids, WorkerStep(i) \/ CommandOutput(i)
  PROVE  WorkerInv'
  <1> USE DEF WorkerInv
  <1>0. CASE Answers(i)
    BY <1>0, AnswersKeep
  <1>1. CASE ReadDone(i) \/ MutationDone(i) \/ SearchDone(i)
    BY <1>0, <1>1 DEF ReadDone, MutationDone, SearchDone
  <1>2. CASE JoinMutations(i) /\ ~Answers(i)
    <2> DEFINE r == [active[i] EXCEPT !.stage = "queued"]
    <2>1. mutations' = Append(mutations, i) /\ Proceeds(i, r) /\ UNCHANGED file /\ active[i] \in ActiveOps
      BY <1>2 DEF JoinMutations, TypesOK, TypeOK
    <2>2. r \in ActiveOps /\ r.stage = "queued"
      BY <2>1 DEF ActiveOps
    <2>3. mutations' \in Seq(Ids) /\ \A j : Holds(j, mutations) => Holds(j, mutations')
      BY <2>1, AppendElements DEF TypesOK, TypeOK, Holds
    <2> HIDE DEF r
    <2> QED BY <2>1, <2>2, <2>3, ProceedsKeeps DEF OwnsProcess
  <1>3. CASE MutationReads(i) /\ ~Answers(i)
    <2> DEFINE r == [active[i] EXCEPT !.stage = "read", !.base = file]
    <2>1. /\ UNCHANGED <<mutations, file>> /\ Proceeds(i, r) /\ active[i] \in ActiveOps /\ Holds(i, mutations)
          /\ file \in SUBSET Ids
      BY <1>3 DEF MutationReads, TypesOK, TypeOK
    <2>2. r \in ActiveOps /\ r.stage = "read" /\ r.base = file
      BY <2>1 DEF ActiveOps
    <2>3. mutations' \in Seq(Ids) /\ \A j : Holds(j, mutations) => Holds(j, mutations')
      BY <2>1 DEF TypesOK, TypeOK
    <2> HIDE DEF r
    <2> QED BY <2>1, <2>2, <2>3, ProceedsKeeps DEF OwnsProcess
  <1>4. CASE MutationWrites(i) /\ ~Answers(i)
    <2> DEFINE r == [active[i] EXCEPT !.stage = "written"]
    <2>1. /\ mutations' = mutations /\ Proceeds(i, r) /\ active[i] \in ActiveOps
          /\ active[i].stage = "read" /\ active[i] # NoOp
          /\ file' \in {active[i].base \cup {i}, {i}}
      BY <1>4 DEF MutationWrites, TypesOK, TypeOK
    <2>2. r \in ActiveOps /\ r.stage = "written" /\ active[i].base \subseteq Ids
      BY <2>1 DEF ActiveOps
    <2> HIDE DEF r
    <2>3. Holds(i, mutations)
      BY <2>1 DEF LocksHeld
    <2>4. \A j \in Ids : j # i /\ active[j] # NoOp => active[j].stage # "read"
      BY <2>3 DEF LocksHeld, Holds
    <2>5. TypesOK'
      BY <2>1, <2>2 DEF TypesOK, TypeOK, TasksCounted, Proceeds, clientVars
    <2>6. LocksHeld'
      BY <2>1, <2>2 DEF TypesOK, TypeOK, LocksHeld, OwnsProcess, Proceeds
    <2>7. NoLostUpdate'
      BY <2>1, <2>2, <2>4 DEF TypesOK, TypeOK, NoLostUpdate, ActiveIds, Proceeds
    <2> QED BY <2>5, <2>6, <2>7
  <1>5. CASE ProcessRuns(i) /\ ~Answers(i)
    <2> DEFINE r == [active[i] EXCEPT !.stage = "running"]
    <2>1. /\ UNCHANGED <<mutations, file>> /\ Proceeds(i, r) /\ active[i] \in ActiveOps /\ Holds(i, processes)
      BY <1>5 DEF ProcessRuns, TypesOK, TypeOK
    <2>2. r \in ActiveOps /\ r.stage = "running"
      BY <2>1 DEF ActiveOps
    <2>3. mutations' \in Seq(Ids) /\ \A j : Holds(j, mutations) => Holds(j, mutations')
      BY <2>1 DEF TypesOK, TypeOK
    <2> HIDE DEF r
    <2> QED BY <2>1, <2>2, <2>3, ProceedsKeeps
  <1>6. CASE CommandDone(i) /\ ~Answers(i)
    <2> DEFINE r == [active[i] EXCEPT !.stage = "cleaning"]
    <2>1. /\ UNCHANGED <<mutations, file>> /\ Proceeds(i, r) /\ active[i] \in ActiveOps /\ Holds(i, processes)
      BY <1>6 DEF CommandDone, TypesOK, TypeOK, LocksHeld, OwnsProcess
    <2>2. r \in ActiveOps /\ r.stage = "cleaning"
      BY <2>1 DEF ActiveOps
    <2>3. mutations' \in Seq(Ids) /\ \A j : Holds(j, mutations) => Holds(j, mutations')
      BY <2>1 DEF TypesOK, TypeOK
    <2> HIDE DEF r
    <2> QED BY <2>1, <2>2, <2>3, ProceedsKeeps
  <1>7. CASE CommandKillsWorker(i)
    BY <1>7 DEF CommandKillsWorker, TypesOK, TypeOK, TasksCounted, LocksHeld, OwnsProcess, NoLostUpdate, ActiveIds, clientVars
  <1>8. CASE CommandOutput(i)
    <2> DEFINE r == [active[i] EXCEPT !.outputs = @ + 1]
               m == [t |-> "output", id |-> i, n |-> active[i].outputs]
    <2>1. active[i] \in ActiveOps /\ active[i] # NoOp /\ active[i].outputs < MaxOutput
      BY <1>8 DEF CommandOutput, TypesOK, TypeOK
    <2>2. active[i].outputs \in Nat /\ active[i].outputs + 1 \in 0..MaxOutput
          /\ active[i].outputs \in 0..MaxOutput \ {MaxOutput}
      BY <2>1, PipeAssumption DEF ActiveOps
    <2>3. r \in ActiveOps /\ r.stage = active[i].stage /\ r.kind = active[i].kind /\ r.base = active[i].base
      BY <2>1, <2>2 DEF ActiveOps
    <2>4. m \in DownFrames
      BY <2>2 DEF DownFrames
    <2> HIDE DEF r, m
    <2>5. active' = [active EXCEPT ![i] = r] /\ down' = Append(down, m)
      BY <1>8 DEF CommandOutput, r, m
    <2>6. down' \in Seq(DownFrames)
      BY <2>4, <2>5, AppendElements DEF TypesOK, TypeOK
    <2>7. UNCHANGED <<clientVars, up, alive, stopping, mutations, processes, file, fault>>
      BY <1>8 DEF CommandOutput
    <2>8. TypesOK'
      BY <2>3, <2>5, <2>6, <2>7 DEF TypesOK, TypeOK, TasksCounted, clientVars
    <2>9. LocksHeld' /\ NoLostUpdate'
      BY <2>1, <2>3, <2>5, <2>7 DEF TypesOK, TypeOK, LocksHeld, OwnsProcess, NoLostUpdate, ActiveIds
    <2> QED BY <2>8, <2>9
  <1> QED BY <1>0, <1>1, <1>2, <1>3, <1>4, <1>5, <1>6, <1>7, <1>8 DEF WorkerStep

(* The worker's main loop.                                                 *)
LEMMA HandleKeeps ==
  ASSUME WorkerInv, Handle
  PROVE  WorkerInv'
  <1> USE DEF WorkerInv, TypesOK
  <1> DEFINE m == Head(up)
  <1>1. /\ m \in UpFrames /\ up' \in Seq(UpFrames) /\ UNCHANGED <<clientVars, down>>
    BY TailElements DEF TypeOK, Handle
  <1>2. m.t # "shutdown" => m.id \in Ids
    BY <1>1 DEF UpFrames
  <1>3. m.t = "request" => New(m) \in ActiveOps /\ New(m).stage = "receiving" /\ New(m).kind = m.kind
    BY <1>1, PipeAssumption DEF UpFrames, New, ActiveOps
  <1> HIDE DEF m
  \* Every kind of frame comes down to replacing some entries of active by
  \* ones that hold no lock, or that keep their kind, stage and base.
  <1>4. ASSUME active' \in [Ids -> ActiveOps \cup {NoOp}], UNCHANGED <<mutations, file>>,
               processes' \in Seq(Ids), \A j : Holds(j, processes) => Holds(j, processes'),
               alive' \in BOOLEAN, stopping' \in BOOLEAN, fault' \in {"none", "frame", "overflow"},
               \A j \in Ids : active'[j] # NoOp =>
                  \/ active'[j].stage \in {"receiving", "resolving", "queued"}
                  \/ active'[j].stage = "running" /\ active'[j].kind = "read"
                  \/ /\ active[j] # NoOp /\ active'[j].stage = active[j].stage
                     /\ active'[j].kind = active[j].kind /\ active'[j].base = active[j].base
        PROVE  WorkerInv'
    <2>1. TypesOK'
      BY <1>1, <1>4 DEF TypeOK, TasksCounted, clientVars
    <2>2. LocksHeld'
      <3> SUFFICES ASSUME NEW j \in Ids, active'[j] # NoOp
                   PROVE  /\ active'[j].stage = "read" => Holds(j, mutations')
                          /\ OwnsProcess(active'[j]) => Holds(j, processes')
        BY DEF LocksHeld, OwnsProcess, Holds
      <3> QED BY <1>4 DEF LocksHeld, OwnsProcess
    <2>3. NoLostUpdate'
      BY <1>4 DEF NoLostUpdate, ActiveIds
    <2> QED BY <2>1, <2>2, <2>3
  <1>5. CASE m.t = "request" /\ active' = [active EXCEPT ![m.id] = New(m)]
             /\ UNCHANGED <<alive, stopping, mutations, processes, file, fault>>
    BY <1>2, <1>3, <1>4, <1>5 DEF TypeOK
  <1>6. ASSUME NEW r \in ActiveOps, Starts(m.id, r), m.id \in Ids, UNCHANGED fault
        PROVE  WorkerInv'
    <2>1. Started(r) \in ActiveOps /\ Started(r).kind = r.kind
          /\ Started(r).stage = IF r.kind = "read" THEN "running"
                                ELSE IF r.kind \in {"write", "edit"} THEN "resolving" ELSE "queued"
      BY <1>6, StartedTypes
    <2>2. processes' \in Seq(Ids) /\ \A j : Holds(j, processes) => Holds(j, processes')
      <3>1. CASE processes' = processes
        BY <3>1 DEF TypeOK
      <3>2. CASE processes' = Append(processes, m.id)
        BY <1>6, <3>2, AppendElements DEF TypeOK, Holds
      <3> QED BY <1>6, <3>1, <3>2 DEF Starts
    <2>3. active' = [active EXCEPT ![m.id] = Started(r)] /\ UNCHANGED <<alive, stopping, mutations, file>>
      BY <1>6 DEF Starts
    <2> QED BY <1>4, <1>6, <2>1, <2>2, <2>3 DEF TypeOK
  <1>7. CASE WorkerFaults
    BY <1>4, <1>7 DEF WorkerFaults, TypeOK
  <1>8. CASE UNCHANGED <<workerVars, fault>>
    BY <1>4, <1>8 DEF workerVars, TypeOK
  <1>9. \A j \in Ids : /\ Cancelled(j) \in ActiveOps \cup {NoOp}
                       /\ Cancelled(j) # NoOp =>
                            /\ active[j] # NoOp /\ Cancelled(j).stage = active[j].stage
                            /\ Cancelled(j).kind = active[j].kind /\ Cancelled(j).base = active[j].base
    BY DEF Cancelled, TypeOK, ActiveOps
  <1>10. CASE m.t = "cancel" /\ active' = [active EXCEPT ![m.id] = Cancelled(m.id)]
              /\ UNCHANGED <<alive, stopping, mutations, processes, file, fault>>
    <2>1. \A j \in Ids : active'[j] = active[j] \/ active'[j] = Cancelled(j)
      BY <1>2, <1>10 DEF TypeOK
    <2>2. active' \in [Ids -> ActiveOps \cup {NoOp}]
      BY <1>2, <1>9, <1>10 DEF TypeOK
    <2> QED BY <1>4, <1>9, <1>10, <2>1, <2>2 DEF TypeOK
  <1>11. CASE active' = [i \in Ids |-> Cancelled(i)] /\ stopping' = TRUE
              /\ UNCHANGED <<alive, mutations, processes, file, fault>>
    BY <1>4, <1>9, <1>11 DEF TypeOK
  <1>12. m.t = "request" => m.id \in Ids /\ New(m) \in ActiveOps
    BY <1>2, <1>3
  <1>13. Receiving(m.id) /\ m.t = "end" => m.id \in Ids /\ active[m.id] \in ActiveOps
    BY <1>2 DEF Receiving, TypeOK
  <1> QED BY <1>5, <1>6, <1>7, <1>8, <1>10, <1>11, <1>12, <1>13, HandleCases DEF m

(* The client changes nothing in the worker, but may end it.               *)
LEMMA ClientKeeps ==
  ASSUME WorkerInv, TypesOK', UNCHANGED <<active, mutations, processes, file>>
  PROVE  WorkerInv'
  BY DEF WorkerInv, LocksHeld, NoLostUpdate, ActiveIds

(* Every step of either end keeps the worker's queues and locks            *)
(* consistent.                                                             *)
LEMMA WorkerInvInductive ==
  ASSUME WorkerInv, [Next]_vars
  PROVE  WorkerInv'
  <1>1. ASSUME NEW i \in Ids, NEW k \in Kinds,
               Request(i, k) \/ SendData(i) \/ Abort(i) \/ OutputTask(i) \/ Settle(i)
        PROVE  WorkerInv'
    <2>1. UNCHANGED <<active, mutations, processes, file>>
      BY <1>1 DEF Request, SendData, Abort, OutputTask, Settle, workerVars
    <2> QED BY <1>1, <2>1, ClientTypes, ClientKeeps DEF WorkerInv
  <1>2. CASE Invalidate \/ Close \/ Terminate \/ SeeExit \/ Receive
    <2>1. UNCHANGED <<active, mutations, processes, file>>
      BY <1>2 DEF Invalidate, Close, Terminate, SeeExit, Receive, workerVars
    <2> QED BY <1>2, <2>1, ClientEndTypes, ClientKeeps DEF WorkerInv
  <1>3. CASE ShutDown
    <2>1. Frame("complete", 0) \in DownFrames
      BY DEF Frame, DownFrames
    <2>2. down' \in Seq(DownFrames)
      BY <1>3, <2>1, AppendElements DEF WorkerInv, TypesOK, TypeOK, ShutDown
    <2>3. TypesOK' /\ UNCHANGED <<active, mutations, processes, file>>
      BY <1>3, <2>2 DEF WorkerInv, TypesOK, TypeOK, TasksCounted, ShutDown, clientVars
    <2> QED BY <2>3, ClientKeeps
  <1>4. CASE UNCHANGED vars
    BY <1>4 DEF vars, clientVars, workerVars, WorkerInv, TypesOK, TypeOK, TasksCounted, LocksHeld, NoLostUpdate, ActiveIds
  <1>5. "read" \in Kinds
    BY DEF Kinds
  <1> QED BY <1>1, <1>2, <1>3, <1>4, <1>5, HandleKeeps, WorkerStepKeeps DEF Next, ClientStep

(* The worker begins with no request and no lock.                          *)
LEMMA WorkerInvInit == Init => WorkerInv
  <1> SUFFICES ASSUME Init PROVE WorkerInv
    OBVIOUS
  <1>1. \A i \in Ids : pending[i] = NoOp /\ active[i] = NoOp
    BY DEF Init
  <1>2. up \in Seq(UpFrames) /\ down \in Seq(DownFrames) /\ mutations \in Seq(Ids) /\ processes \in Seq(Ids)
    BY DEF Init
  <1>3. TypeOK
    BY <1>2 DEF Init, TypeOK
  <1> QED BY <1>1, <1>3 DEF WorkerInv, TypesOK, TasksCounted, LocksHeld, NoLostUpdate, ActiveIds

(* In every behaviour the two ends, the pipes and the queues have their    *)
(* types.                                                                  *)
THEOREM PipeTypeCorrect == Spec => []TypeOK
  <1>1. WorkerInv => TypeOK
    BY DEF WorkerInv, TypesOK
  <1> QED BY <1>1, WorkerInvInit, WorkerInvInductive, PTL DEF Spec

(* withMutationQueue: between the read an edit is computed from and the    *)
(* rename, no other operation writes the target, whatever is cancelled.    *)
THEOREM EditsSerialised == Spec => []NoLostUpdate
  <1>1. WorkerInv => NoLostUpdate
    BY DEF WorkerInv
  <1> QED BY <1>1, WorkerInvInit, WorkerInvInductive, PTL DEF Spec

(* withProcessOperation: cleanCommandDescendants, which signals every      *)
(* process of the namespace, runs when no other operation has one.         *)
THEOREM CleanupAlone == Spec => []CleanupMeetsNoOther
  <1>1. WorkerInv => CleanupMeetsNoOther
    BY DEF WorkerInv, LocksHeld, OwnsProcess, CleanupMeetsNoOther, ActiveIds, Holds, TypesOK, TypeOK, ActiveOps
  <1> QED BY <1>1, WorkerInvInit, WorkerInvInductive, PTL DEF Spec
-----------------------------------------------------------------------------
(* The agreement of the two ends.                                          *)

(* Agreement does not see whether a promise is settled, the output tasks,  *)
(* or the stage of a request beyond "receiving".                           *)
LEMMA Quiet ==
  ASSUME Agreement, UNCHANGED <<up, down, used, stopping>>,
         \A i \in Ids : /\ pending'[i] = NoOp <=> pending[i] = NoOp
                        /\ pending[i] # NoOp =>
                             /\ pending'[i].kind = pending[i].kind /\ pending'[i].unsent = pending[i].unsent
                             /\ pending'[i].terminal = pending[i].terminal /\ pending'[i].next = pending[i].next,
         \A i \in Ids : /\ active'[i] = NoOp <=> active[i] = NoOp
                        /\ active[i] # NoOp =>
                             /\ active'[i].kind = active[i].kind /\ active'[i].outputs = active[i].outputs
                             /\ active'[i].stage = "receiving" <=> active[i].stage = "receiving",
         TypeOK
  PROVE  Agreement'
  <1> USE DEF Agreement
  <1>0. /\ \A k \in DOMAIN up : up[k].t # "shutdown" => up[k].id \in Ids
        /\ \A k \in DOMAIN down : down[k].t # "complete" => down[k].id \in Ids
    BY DEF TypeOK, UpFrames, DownFrames
  <1>1. \A i \in Ids : (Waiting(i))' = Waiting(i) /\ (Receiving(i))' = Receiving(i)
    BY DEF Waiting, Receiving
  <1>2. RequestsFirst'
    BY <1>0, <1>1 DEF RequestsFirst, Waiting
  <1>3. DataExpected'
    BY <1>0, <1>1 DEF DataExpected, Waiting, IsData
  <1>4. ActiveAwaited'
    BY <1>1 DEF ActiveAwaited, Waiting
  <1>5. AnswersAwaited'
    BY <1>0, <1>1 DEF AnswersAwaited, Waiting
  <1>6. FreshUnknown' /\ NotShutDown'
    BY DEF FreshUnknown, NotShutDown
  <1>7. PendingIds' = PendingIds
    BY DEF PendingIds
  <1>8. TableBounded'
    BY <1>7 DEF TableBounded
  <1> QED BY <1>2, <1>3, <1>4, <1>5, <1>6, <1>8

(* Every frame in a pipe but the last ones of a shutdown names an id.      *)
LEMMA FrameIds ==
  ASSUME TypeOK
  PROVE  /\ \A k \in DOMAIN up : up[k] \in UpFrames /\ (up[k].t # "shutdown" => up[k].id \in Ids)
         /\ \A k \in DOMAIN down : down[k] \in DownFrames /\ (down[k].t # "complete" => down[k].id \in Ids)
         /\ \A k \in DOMAIN down : down[k].t = "output" => down[k].n \in Nat /\ down[k].n < MaxOutput
         /\ \A k \in DOMAIN down : down[k].t \in {"output", "response", "complete"}
  BY PipeAssumption DEF TypeOK, UpFrames, DownFrames

(* #requestOperation: the id is new, so the request is its first frame.    *)
LEMMA RequestAgrees ==
  ASSUME TypesOK, Agreement, NEW i \in Ids, NEW k \in Kinds, Request(i, k), client' = "open"
  PROVE  Agreement'
  <1> USE DEF Agreement
  <1> DEFINE p == [kind |-> k, unsent |-> IF k = "write" THEN <<"chunk", "end">> ELSE <<>>,
                   settled |-> FALSE, terminal |-> FALSE, tasks |-> 0, next |-> 0]
             m == [t |-> "request", id |-> i, kind |-> k]
             e == Len(up) + 1
  <1>1. /\ pending[i] = NoOp /\ active[i] = NoOp /\ i \notin used
        /\ \A l \in DOMAIN up : up[l].id # i
        /\ \A l \in DOMAIN down : down[l].id # i
    BY DEF FreshUnknown, Request
  <1>2. /\ p.kind = k /\ p.next = 0 /\ ~p.terminal /\ p # NoOp
        /\ p.unsent = IF k = "write" THEN <<"chunk", "end">> ELSE <<>>
    <2>1. p \in PendingOps
      <3>1. 0 \in 0..MaxOutput
        BY PipeAssumption
      <3>2. <<"chunk", "end">> \in Seq({"chunk", "end"}) /\ <<>> \in Seq({"chunk", "end"})
        OBVIOUS
      <3> QED BY <3>1, <3>2 DEF PendingOps
    <2>2. p # NoOp
      BY <2>1, NoOpAssumption
    <2> QED BY <2>2
  <1>3. m \in UpFrames /\ m.t = "request" /\ m.id = i /\ m.kind = k
    BY DEF UpFrames
  <1> HIDE DEF p, m
  <1>4. /\ up' = Append(up, m) /\ pending' = [pending EXCEPT ![i] = p] /\ used' = used \cup {i}
        /\ UNCHANGED <<down, active, stopping>>
    BY DEF Request, Send, Stop, p, m, workerVars
  <1>5. /\ DOMAIN up' = DOMAIN up \cup {e} /\ up'[e] = m
        /\ \A l \in DOMAIN up : up'[l] = up[l] /\ l < e /\ l \in Nat
    BY <1>3, <1>4, AppendElements DEF TypesOK, TypeOK
  <1>6. /\ pending'[i] = p /\ \A j \in Ids : j # i => pending'[j] = pending[j]
    BY <1>4 DEF TypesOK, TypeOK
  <1>8. e \in Nat
    BY AppendElements, <1>3 DEF TypesOK, TypeOK
  <1> HIDE DEF e
  <1>9. RequestsFirst'
    BY <1>1, <1>2, <1>3, <1>4, <1>5, <1>6, <1>8, FrameIds DEF RequestsFirst, Waiting, TypesOK
  <1>10. DataExpected'
    <2>1. ASSUME NEW l \in DOMAIN up', IsData(up'[l])
          PROVE  /\ pending'[up'[l].id] # NoOp /\ ~pending'[up'[l].id].terminal
                 /\ pending'[up'[l].id].kind = "write"
                 /\ \/ active'[up'[l].id] # NoOp /\ active'[up'[l].id].stage = "receiving"
                    \/ \E h \in DOMAIN up' : h < l /\ up'[h].t = "request" /\ up'[h].id = up'[l].id
                 /\ up'[l].t = "end" => /\ pending'[up'[l].id].unsent = <<>>
                                        /\ \A h \in DOMAIN up' : IsData(up'[h]) /\ up'[h].id = up'[l].id => h <= l
      <3>1. l \in DOMAIN up /\ up'[l] = up[l] /\ IsData(up[l])
        BY <1>3, <1>5, <2>1 DEF IsData
      <3>2. up[l].id \in Ids /\ up[l].id # i
        BY <1>1, <3>1, FrameIds DEF IsData, TypesOK
      <3>3. pending'[up[l].id] = pending[up[l].id] /\ active' = active
        BY <1>4, <1>6, <3>2
      <3> QED BY <1>3, <1>5, <3>1, <3>2, <3>3 DEF DataExpected, IsData, Waiting, Receiving
    <2>2. ASSUME NEW j \in Ids, pending'[j] # NoOp
          PROVE  /\ pending'[j].unsent \in {<<>>, <<"end">>, <<"chunk", "end">>}
                 /\ pending'[j].unsent # <<>> =>
                      /\ pending'[j].kind = "write" /\ ~pending'[j].terminal
                      /\ \/ active'[j] # NoOp /\ active'[j].stage = "receiving"
                         \/ \E l \in DOMAIN up' : up'[l].t = "request" /\ up'[l].id = j
      <3>1. CASE j = i
        BY <1>2, <1>3, <1>5, <1>6, <3>1
      <3>2. CASE j # i
        BY <1>4, <1>5, <1>6, <2>2, <3>2 DEF DataExpected, Receiving
      <3> QED BY <3>1, <3>2
    <2> QED BY <2>1, <2>2 DEF DataExpected, IsData, Waiting, Receiving
  <1>11. ActiveAwaited'
    BY <1>1, <1>4, <1>6 DEF ActiveAwaited, Waiting
  <1>12. AnswersAwaited'
    BY <1>1, <1>4, <1>6, FrameIds DEF AnswersAwaited, Waiting, TypesOK
  <1>13. FreshUnknown' /\ NotShutDown'
    BY <1>1, <1>3, <1>4, <1>5, <1>6 DEF FreshUnknown, NotShutDown
  <1>14. TableBounded'
    <2>1. PendingIds' = PendingIds \cup {i} /\ i \notin PendingIds
      BY <1>1, <1>2, <1>6 DEF PendingIds
    <2>2. Cardinality(PendingIds) < MaxActive /\ IsFiniteSet(PendingIds) /\ Cardinality(PendingIds) \in Nat
      BY FS_CardinalityType DEF Request, TableBounded
    <2>3. IsFiniteSet(PendingIds \cup {i}) /\ Cardinality(PendingIds \cup {i}) = Cardinality(PendingIds) + 1
      BY <2>1, <2>2, FS_AddElement
    <2>4. IsFiniteSet(PendingIds') /\ Cardinality(PendingIds') <= MaxActive
      BY <2>1, <2>2, <2>3, PipeAssumption
    <2> QED BY <2>4 DEF TableBounded
  <1> QED BY <1>9, <1>10, <1>11, <1>12, <1>13, <1>14

(* The frames of a write, and what is left when one is sent.               *)
LEMMA WriteFrames ==
  /\ Tail(<<"end">>) = <<>> /\ Head(<<"end">>) = "end"
  /\ Tail(<<"chunk", "end">>) = <<"end">> /\ Head(<<"chunk", "end">>) = "chunk"
  /\ <<>> \in Seq({"chunk", "end"}) /\ <<"end">> \in Seq({"chunk", "end"})
  <1>1. <<"end">> \in Seq({"chunk", "end"}) /\ <<"chunk", "end">> \in Seq({"chunk", "end"})
    OBVIOUS
  <1>2. Tail(<<"chunk", "end">>) \in Seq({"chunk", "end"}) /\ Len(Tail(<<"chunk", "end">>)) = 1
        /\ Tail(<<"chunk", "end">>)[1] = "end"
    BY <1>1
  <1>3. Tail(<<"chunk", "end">>) = <<"end">>
    BY <1>1, <1>2
  <1>4. Tail(<<"end">>) = <<>>
    BY <1>1
  <1> QED BY <1>1, <1>3, <1>4

(* The next frame of a write goes out behind its request.                  *)
LEMMA SendDataAgrees ==
  ASSUME TypesOK, Agreement, NEW i \in Ids, SendData(i), client' = "open"
  PROVE  Agreement'
  <1> USE DEF Agreement
  <1> DEFINE p == [pending[i] EXCEPT !.unsent = Tail(@)]
             m == Frame(Head(pending[i].unsent), i)
             e == Len(up) + 1
  <1>1. /\ pending[i] # NoOp /\ pending[i] \in PendingOps /\ pending[i].kind = "write" /\ ~pending[i].terminal
        /\ pending[i].unsent \in {<<"end">>, <<"chunk", "end">>}
        /\ \/ active[i] # NoOp /\ active[i].stage = "receiving"
           \/ \E l \in DOMAIN up : up[l].t = "request" /\ up[l].id = i
    BY DEF SendData, DataExpected, Receiving, TypesOK, TypeOK
  <1>2. /\ p.kind = pending[i].kind /\ p.terminal = pending[i].terminal /\ p.next = pending[i].next
        /\ p.unsent = Tail(pending[i].unsent) /\ p \in PendingOps
    <2>1. Tail(pending[i].unsent) \in Seq({"chunk", "end"})
      BY <1>1, WriteFrames
    <2> QED BY <1>1, <2>1 DEF PendingOps
  <1>3. m \in UpFrames /\ m.t = Head(pending[i].unsent) /\ m.t \in {"chunk", "end"} /\ m.id = i
    <2>1. Head(pending[i].unsent) \in {"chunk", "end"}
      BY <1>1
    <2> QED BY <2>1 DEF UpFrames, Frame
  <1>4. p # NoOp
    BY <1>2, NoOpAssumption
  <1>a. /\ p.unsent \in {<<>>, <<"end">>} /\ (m.t = "end" => p.unsent = <<>>)
    BY <1>1, <1>2, <1>3, WriteFrames
  <1> HIDE DEF p, m
  <1>5. /\ up' = Append(up, m) /\ pending' = [pending EXCEPT ![i] = p]
        /\ UNCHANGED <<used, down, active, stopping>>
    BY DEF SendData, Send, Stop, p, m, workerVars
  <1>6. /\ DOMAIN up' = DOMAIN up \cup {e} /\ up'[e] = m /\ e \in Nat
        /\ \A l \in DOMAIN up : up'[l] = up[l] /\ l < e /\ l \in Nat
    BY <1>3, <1>5, AppendElements DEF TypesOK, TypeOK
  <1>7. /\ pending'[i] = p /\ \A j \in Ids : j # i => pending'[j] = pending[j]
    BY <1>5 DEF TypesOK, TypeOK
  <1> HIDE DEF e
  <1>8. RequestsFirst'
    BY <1>2, <1>3, <1>4, <1>5, <1>6, <1>7, FrameIds DEF RequestsFirst, Waiting, TypesOK
  <1>9. DataExpected'
    <2>1. ASSUME NEW l \in DOMAIN up', IsData(up'[l])
          PROVE  /\ pending'[up'[l].id] # NoOp /\ ~pending'[up'[l].id].terminal
                 /\ pending'[up'[l].id].kind = "write"
                 /\ \/ active'[up'[l].id] # NoOp /\ active'[up'[l].id].stage = "receiving"
                    \/ \E h \in DOMAIN up' : h < l /\ up'[h].t = "request" /\ up'[h].id = up'[l].id
                 /\ up'[l].t = "end" => /\ pending'[up'[l].id].unsent = <<>>
                                        /\ \A h \in DOMAIN up' : IsData(up'[h]) /\ up'[h].id = up'[l].id => h <= l
      <3>1. CASE l = e
        <4>1. up'[l].id = i /\ pending'[i] = p /\ p # NoOp /\ ~p.terminal /\ p.kind = "write"
          BY <1>1, <1>2, <1>3, <1>4, <1>6, <1>7, <3>1
        <4>2. \/ active'[i] # NoOp /\ active'[i].stage = "receiving"
              \/ \E h \in DOMAIN up' : h < l /\ up'[h].t = "request" /\ up'[h].id = i
          BY <1>1, <1>5, <1>6, <3>1
        <4>3. \A h \in DOMAIN up' : h <= l
          BY <1>6, <3>1
        <4>4. up'[l].t = "end" => p.unsent = <<>>
          BY <1>6, <1>a, <3>1
        <4> QED BY <4>1, <4>2, <4>3, <4>4
      <3>2. CASE l # e
        <4>1. l \in DOMAIN up /\ up'[l] = up[l] /\ IsData(up[l])
          BY <1>6, <2>1, <3>2
        <4>2. up[l].id \in Ids
          BY <4>1, FrameIds DEF IsData, TypesOK
        <4>3. CASE up[l].id # i
          <5>1. pending'[up[l].id] = pending[up[l].id] /\ active' = active
            BY <1>5, <1>7, <4>2, <4>3
          <5> QED BY <1>3, <1>6, <4>1, <4>2, <4>3, <5>1 DEF DataExpected, IsData, Waiting, Receiving
        <4>4. CASE up[l].id = i
          <5>1. up[l].t # "end"
            <6>1. pending[i].unsent # <<>>
              BY DEF SendData
            <6>2. up[l].t = "end" => pending[up[l].id].unsent = <<>>
              BY <4>1 DEF DataExpected
            <6> QED BY <4>4, <6>1, <6>2
          <5> QED BY <1>1, <1>2, <1>4, <1>5, <1>6, <1>7, <4>1, <4>4, <5>1 DEF DataExpected, Waiting, Receiving
        <4> QED BY <4>3, <4>4
      <3> QED BY <3>1, <3>2
    <2>2. ASSUME NEW j \in Ids, pending'[j] # NoOp
          PROVE  /\ pending'[j].unsent \in {<<>>, <<"end">>, <<"chunk", "end">>}
                 /\ pending'[j].unsent # <<>> =>
                      /\ pending'[j].kind = "write" /\ ~pending'[j].terminal
                      /\ \/ active'[j] # NoOp /\ active'[j].stage = "receiving"
                         \/ \E l \in DOMAIN up' : up'[l].t = "request" /\ up'[l].id = j
      <3>1. CASE j = i
        BY <1>1, <1>2, <1>5, <1>6, <1>7, <1>a, <3>1
      <3>2. CASE j # i
        BY <1>5, <1>6, <1>7, <2>2, <3>2 DEF DataExpected, Receiving
      <3> QED BY <3>1, <3>2
    <2> QED BY <2>1, <2>2 DEF DataExpected, IsData, Waiting, Receiving
  <1>10. ActiveAwaited'
    BY <1>2, <1>4, <1>5, <1>7 DEF ActiveAwaited, Waiting
  <1>11. AnswersAwaited'
    BY <1>2, <1>4, <1>5, <1>7, FrameIds DEF AnswersAwaited, Waiting, TypesOK
  <1>12. FreshUnknown' /\ NotShutDown'
    BY <1>1, <1>3, <1>5, <1>6, <1>7 DEF FreshUnknown, NotShutDown
  <1>13. PendingIds' = PendingIds
    BY <1>1, <1>4, <1>7 DEF PendingIds
  <1> QED BY <1>8, <1>9, <1>10, <1>11, <1>12, <1>13 DEF TableBounded

(* A cancel frame may come at any time, even behind the terminal frame.    *)
LEMMA AbortAgrees ==
  ASSUME TypesOK, Agreement, NEW i \in Ids, Abort(i), client' = "open"
  PROVE  Agreement'
  <1> USE DEF Agreement
  <1> DEFINE p == [pending[i] EXCEPT !.settled = TRUE]
             m == Frame("cancel", i)
             e == Len(up) + 1
  <1>1. pending[i] # NoOp /\ pending[i] \in PendingOps
    BY DEF Abort, TypesOK, TypeOK
  <1>2. /\ p.kind = pending[i].kind /\ p.terminal = pending[i].terminal /\ p.next = pending[i].next
        /\ p.unsent = pending[i].unsent /\ p \in PendingOps
    BY <1>1 DEF PendingOps
  <1>3. m \in UpFrames /\ m.t = "cancel" /\ m.id = i
    BY DEF UpFrames, Frame
  <1>4. p # NoOp
    BY <1>2, NoOpAssumption
  <1> HIDE DEF p, m
  <1>5. /\ up' = Append(up, m) /\ pending' = [pending EXCEPT ![i] = p]
        /\ UNCHANGED <<used, down, active, stopping>>
    BY DEF Abort, Send, Stop, p, m, workerVars
  <1>6. /\ DOMAIN up' = DOMAIN up \cup {e} /\ up'[e] = m /\ e \in Nat
        /\ \A l \in DOMAIN up : up'[l] = up[l] /\ l < e /\ l \in Nat
    BY <1>3, <1>5, AppendElements DEF TypesOK, TypeOK
  <1>7. /\ pending'[i] = p /\ \A j \in Ids : j # i => pending'[j] = pending[j]
    BY <1>5 DEF TypesOK, TypeOK
  <1>a. \A j \in Ids : /\ pending'[j] = NoOp <=> pending[j] = NoOp
                       /\ pending'[j].kind = pending[j].kind /\ pending'[j].terminal = pending[j].terminal
                       /\ pending'[j].next = pending[j].next /\ pending'[j].unsent = pending[j].unsent
    BY <1>1, <1>2, <1>4, <1>7
  <1> HIDE DEF e
  <1>8. RequestsFirst'
    BY <1>3, <1>5, <1>6, <1>a, FrameIds DEF RequestsFirst, Waiting, TypesOK
  <1>9. DataExpected'
    <2>1. \A l \in DOMAIN up' : IsData(up'[l]) => l \in DOMAIN up /\ up'[l] = up[l] /\ up[l].id \in Ids
      BY <1>3, <1>6, FrameIds DEF IsData, TypesOK
    <2> QED BY <1>5, <1>6, <1>a, <2>1 DEF DataExpected, Waiting, Receiving, IsData
  <1>10. ActiveAwaited'
    BY <1>5, <1>a DEF ActiveAwaited, Waiting
  <1>11. AnswersAwaited'
    BY <1>5, <1>a, FrameIds DEF AnswersAwaited, Waiting, TypesOK
  <1>12. FreshUnknown' /\ NotShutDown'
    BY <1>1, <1>3, <1>5, <1>6, <1>7 DEF FreshUnknown, NotShutDown
  <1>13. PendingIds' = PendingIds
    BY <1>a DEF PendingIds
  <1> QED BY <1>8, <1>9, <1>10, <1>11, <1>12, <1>13 DEF TableBounded

(* An entry goes when its terminal frame has come, and then nothing of it  *)
(* is left with the worker or in the pipes but perhaps a cancel frame.     *)
LEMMA SettleAgrees ==
  ASSUME TypesOK, Agreement, NEW i \in Ids, Settle(i)
  PROVE  Agreement'
  <1> USE DEF Agreement
  <1>1. pending[i] # NoOp /\ pending[i].terminal /\ pending' = [pending EXCEPT ![i] = NoOp]
        /\ UNCHANGED <<used, up, down, active, stopping>>
    BY DEF Settle, workerVars
  <1>2. pending'[i] = NoOp /\ \A j \in Ids : j # i => pending'[j] = pending[j]
    BY <1>1 DEF TypesOK, TypeOK
  <1>3. active[i] = NoOp
    BY <1>1 DEF ActiveAwaited, Waiting
  <1>4. RequestsFirst'
    BY <1>1, <1>2, FrameIds DEF RequestsFirst, Waiting, TypesOK
  <1>5. DataExpected'
    BY <1>1, <1>2, FrameIds DEF DataExpected, Waiting, Receiving, IsData, TypesOK
  <1>6. ActiveAwaited'
    BY <1>1, <1>2, <1>3 DEF ActiveAwaited, Waiting
  <1>7. AnswersAwaited'
    BY <1>1, <1>2, FrameIds DEF AnswersAwaited, Waiting, TypesOK
  <1>8. FreshUnknown' /\ NotShutDown'
    BY <1>1, <1>2 DEF FreshUnknown, NotShutDown
  <1>9. TableBounded'
    <2>1. PendingIds' = PendingIds \ {i} /\ IsFiniteSet(PendingIds)
      BY <1>2 DEF PendingIds, TableBounded
    <2>2. IsFiniteSet(PendingIds') /\ Cardinality(PendingIds') <= Cardinality(PendingIds)
      BY <2>1, FS_Subset
    <2>3. Cardinality(PendingIds') \in Nat /\ Cardinality(PendingIds) \in Nat
      BY <2>1, <2>2, FS_CardinalityType
    <2> QED BY <2>2, <2>3, PipeAssumption DEF TableBounded
  <1> QED BY <1>4, <1>5, <1>6, <1>7, <1>8, <1>9

(* #handle finds no violation in the next frame of the worker.             *)
LEMMA NextFrameFits ==
  ASSUME TypesOK, Agreement, down # <<>>
  PROVE  ~Violates(Head(down))
  <1> USE DEF Agreement
  <1>1. 1 \in DOMAIN down /\ down[1] = Head(down) /\ \A k \in DOMAIN down : k \in Nat /\ 1 <= k
    BY DEF TypesOK, TypeOK
  <1>2. down[1].t # "complete" /\ down[1].id \in Ids /\ Waiting(down[1].id)
    BY <1>1, FrameIds DEF AnswersAwaited, TypesOK
  <1>3. down[1].t = "output" => down[1].n = pending[down[1].id].next /\ pending[down[1].id].kind = "exec"
    <2> SUFFICES ASSUME down[1].t = "output"
                 PROVE  down[1].n = pending[down[1].id].next /\ pending[down[1].id].kind = "exec"
      OBVIOUS
    <2>1. /\ down[1].n \in Nat /\ pending[down[1].id].next \in 0..MaxOutput
      BY <1>1, <1>2, FrameIds DEF TypesOK, TypeOK, PendingOps, Waiting
    <2>2. /\ pending[down[1].id].kind = "exec" /\ pending[down[1].id].next <= down[1].n
          /\ \A n \in 0..MaxOutput : pending[down[1].id].next <= n /\ n < down[1].n
               => \E l \in DOMAIN down : l < 1
      BY <1>1 DEF AnswersAwaited
    <2>3. ~(pending[down[1].id].next < down[1].n)
      BY <1>1, <2>1, <2>2, PipeAssumption
    <2> QED BY <2>1, <2>2, <2>3, PipeAssumption
  <1> QED BY <1>1, <1>2, <1>3 DEF Violates, Waiting

(* A frame the client accepts.                                             *)
LEMMA ReceiveAgrees ==
  ASSUME TypesOK, Agreement, client = "open", client' = "open", Receive
  PROVE  Agreement' /\ UNCHANGED fault
  <1> USE DEF Agreement
  <1> DEFINE m == Head(down)
             o == pending[m.id]
             p == Delivered(o, m)
  <1>1. /\ down # <<>> /\ down' = Tail(down) /\ UNCHANGED <<client, fault, used, up, active, stopping>>
        /\ pending' = [pending EXCEPT ![m.id] = p]
    BY NextFrameFits DEF Receive, Stop, workerVars
  <1>2. 1 \in DOMAIN down /\ down[1] = m /\ \A k \in DOMAIN down : k \in Nat /\ 1 <= k
    BY <1>1 DEF TypesOK, TypeOK
  <1>3. /\ m.t \in {"output", "response"} /\ m.id \in Ids /\ o # NoOp /\ ~o.terminal /\ o \in PendingOps
        /\ m.t = "output" => m.n = o.next /\ o.kind = "exec"
    BY <1>1, <1>2, NextFrameFits, FrameIds DEF Violates, AnswersAwaited, Waiting, TypesOK, TypeOK
  <1>4. /\ \A k \in DOMAIN down' : k + 1 \in DOMAIN down /\ down'[k] = down[k + 1] /\ k \in Nat \ {0}
        /\ \A k \in DOMAIN down : k = 1 \/ (k - 1 \in DOMAIN down' /\ down'[k - 1] = down[k])
    BY <1>1, TailElements DEF TypesOK, TypeOK
  <1>5. /\ p \in PendingOps /\ p # NoOp
    <2>1. o.tasks <= o.next /\ (m.t = "output" => m.n \in 0..MaxOutput \ {MaxOutput})
      BY <1>2, <1>3, FrameIds, PipeAssumption DEF TypesOK, TasksCounted
    <2> QED BY <1>3, <2>1, DeliveredTypes, NoOpAssumption
  <1>6. /\ p.kind = o.kind /\ p.unsent = o.unsent
        /\ m.t = "output" => p.terminal = o.terminal /\ p.next = o.next + 1
        /\ m.t # "output" => p.terminal /\ p.next = o.next
    BY <1>3 DEF Delivered, PendingOps
  <1> HIDE DEF p, o, m
  <1>7. pending'[m.id] = p /\ pending[m.id] = o /\ \A j \in Ids : j # m.id => pending'[j] = pending[j]
    BY <1>1, <1>3 DEF TypesOK, TypeOK, o
  <1>8. \A k \in DOMAIN up : up[k].t = "request" => up[k].id # m.id
    BY <1>2 DEF RequestsFirst
  <1>a. m.t = "response" => /\ active[m.id] = NoOp
                            /\ \A l \in DOMAIN down : down[l].id = m.id => l = 1
    BY <1>2 DEF AnswersAwaited
  <1>9. RequestsFirst'
    BY <1>1, <1>4, <1>7, <1>8, FrameIds DEF RequestsFirst, Waiting, TypesOK
  <1>10. DataExpected'
    <2>1. m.t = "response" => o.unsent = <<>> /\ \A k \in DOMAIN up : IsData(up[k]) => up[k].id # m.id
      BY <1>3, <1>7, <1>8, <1>a DEF DataExpected, Receiving
    <2> QED BY <1>1, <1>3, <1>5, <1>6, <1>7, <2>1, FrameIds DEF DataExpected, Waiting, Receiving, IsData, TypesOK
  <1>11. ActiveAwaited'
    <2> SUFFICES ASSUME NEW i \in Ids, active[i] # NoOp
                 PROVE  /\ pending'[i] # NoOp /\ ~pending'[i].terminal /\ active[i].kind = pending'[i].kind
                        /\ active[i].stage = "receiving" => active[i].kind = "write"
                        /\ \A l \in DOMAIN down' : down'[l].id = i => down'[l].t = "output"
                        /\ pending'[i].next <= active[i].outputs
                        /\ \A n \in 0..MaxOutput : pending'[i].next <= n /\ n < active[i].outputs
                             => \E l \in DOMAIN down' : down'[l].t = "output" /\ down'[l].id = i /\ down'[l].n = n
      BY <1>1 DEF ActiveAwaited, Waiting
    <2>0. /\ pending[i] # NoOp /\ ~pending[i].terminal /\ active[i].kind = pending[i].kind
          /\ active[i].stage = "receiving" => active[i].kind = "write"
          /\ \A l \in DOMAIN down : down[l].id = i => down[l].t = "output"
          /\ pending[i].next <= active[i].outputs
          /\ \A n \in 0..MaxOutput : pending[i].next <= n /\ n < active[i].outputs
               => \E l \in DOMAIN down : down[l].t = "output" /\ down[l].id = i /\ down[l].n = n
      BY DEF ActiveAwaited, Waiting
    <2>1. CASE i # m.id
      BY <1>2, <1>4, <1>7, <2>0, <2>1
    <2>2. CASE i = m.id
      <3>1. m.t = "output" /\ m.n = o.next /\ m.n < active[i].outputs
        BY <1>2, <1>3, <1>a, <2>0, <2>2 DEF AnswersAwaited
      <3>2. o.next \in Nat /\ active[i].outputs \in Nat /\ p.next = o.next + 1 /\ pending[i] = o /\ pending'[i] = p
        BY <1>3, <1>6, <1>7, <2>2, <3>1, PipeAssumption DEF TypesOK, TypeOK, PendingOps, ActiveOps
      <3>3. ASSUME NEW n \in 0..MaxOutput, p.next <= n, n < active[i].outputs
            PROVE  \E l \in DOMAIN down' : down'[l].t = "output" /\ down'[l].id = i /\ down'[l].n = n
        <4>1. PICK l \in DOMAIN down : down[l].t = "output" /\ down[l].id = i /\ down[l].n = n
          BY <2>0, <3>2, <3>3, PipeAssumption
        <4>2. l # 1
          BY <1>2, <3>1, <3>2, <3>3, <4>1, PipeAssumption
        <4> QED BY <1>4, <4>1, <4>2
      <3>4. p.next <= active[i].outputs
        BY <3>1, <3>2
      <3> QED BY <1>4, <1>5, <1>6, <2>0, <3>1, <3>2, <3>3, <3>4
    <2> QED BY <2>1, <2>2
  <1>12. AnswersAwaited'
    <2> SUFFICES ASSUME NEW k \in DOMAIN down'
                 PROVE  /\ down'[k].t # "complete" /\ pending'[down'[k].id] # NoOp /\ ~pending'[down'[k].id].terminal
                        /\ down'[k].t = "response" =>
                             /\ active[down'[k].id] = NoOp
                             /\ \A l \in DOMAIN down' : down'[l].id = down'[k].id => l <= k
                        /\ down'[k].t = "output" =>
                             /\ pending'[down'[k].id].kind = "exec"
                             /\ pending'[down'[k].id].next <= down'[k].n
                             /\ active[down'[k].id] # NoOp => down'[k].n < active[down'[k].id].outputs
                             /\ \A l \in DOMAIN down' : l < k /\ down'[l].id = down'[k].id => down'[l].n < down'[k].n
                             /\ \A n \in 0..MaxOutput : pending'[down'[k].id].next <= n /\ n < down'[k].n
                                  => \E l \in DOMAIN down' : l < k /\ down'[l].t = "output"
                                                             /\ down'[l].id = down'[k].id /\ down'[l].n = n
      BY <1>1 DEF AnswersAwaited, Waiting
    <2> DEFINE j == down[k + 1].id
    <2>0. /\ k + 1 \in DOMAIN down /\ down'[k] = down[k + 1] /\ k \in Nat /\ k + 1 # 1 /\ 1 < k + 1
      BY <1>2, <1>4
    <2>1. /\ down[k + 1].t # "complete" /\ pending[j] # NoOp /\ ~pending[j].terminal /\ j \in Ids
          /\ down[k + 1].t = "response" =>
               active[j] = NoOp /\ \A l \in DOMAIN down : down[l].id = j => l <= k + 1
          /\ down[k + 1].t = "output" =>
               /\ pending[j].kind = "exec" /\ pending[j].next <= down[k + 1].n
               /\ active[j] # NoOp => down[k + 1].n < active[j].outputs
               /\ \A l \in DOMAIN down : l < k + 1 /\ down[l].id = j => down[l].n < down[k + 1].n
               /\ \A n \in 0..MaxOutput : pending[j].next <= n /\ n < down[k + 1].n
                    => \E l \in DOMAIN down : l < k + 1 /\ down[l].t = "output" /\ down[l].id = j /\ down[l].n = n
      BY <2>0, FrameIds DEF AnswersAwaited, Waiting, TypesOK
    <2>2. CASE j # m.id
      <3>1. pending'[j] = pending[j]
        BY <1>7, <2>1, <2>2
      <3>2. ASSUME NEW n \in 0..MaxOutput, down[k + 1].t = "output", pending[j].next <= n, n < down[k + 1].n
            PROVE  \E l \in DOMAIN down' : l < k /\ down'[l].t = "output" /\ down'[l].id = j /\ down'[l].n = n
        <4>1. PICK l \in DOMAIN down : l < k + 1 /\ down[l].t = "output" /\ down[l].id = j /\ down[l].n = n
          BY <2>1, <3>2
        <4>2. l # 1 /\ l \in Nat
          BY <1>2, <2>2, <4>1
        <4> QED BY <1>4, <2>0, <4>1, <4>2
      <3> QED BY <1>4, <2>0, <2>1, <3>1, <3>2
    <2>3. CASE j = m.id
      <3>1. m.t = "output" /\ m.n = o.next
        BY <1>3, <1>a, <2>0, <2>3
      <3>2. /\ pending'[j] = p /\ pending[j] = o /\ p.next = o.next + 1 /\ p.kind = o.kind /\ ~p.terminal
            /\ o.next \in Nat /\ p # NoOp
        BY <1>3, <1>5, <1>6, <1>7, <2>1, <2>3, <3>1, PipeAssumption DEF PendingOps
      <3>3. down[k + 1].t = "output" => down[k + 1].n \in Nat /\ m.n < down[k + 1].n
        BY <1>2, <2>0, <2>1, <2>3, FrameIds DEF TypesOK
      <3>4. ASSUME NEW n \in 0..MaxOutput, down[k + 1].t = "output", p.next <= n, n < down[k + 1].n
            PROVE  \E l \in DOMAIN down' : l < k /\ down'[l].t = "output" /\ down'[l].id = j /\ down'[l].n = n
        <4>0. o.next <= n
          BY <3>2, <3>4, PipeAssumption
        <4>1. PICK l \in DOMAIN down : l < k + 1 /\ down[l].t = "output" /\ down[l].id = j /\ down[l].n = n
          BY <2>1, <3>2, <3>4, <4>0
        <4>2. l # 1 /\ l \in Nat
          BY <1>2, <3>1, <3>2, <3>4, <4>1, PipeAssumption
        <4> QED BY <1>4, <2>0, <4>1, <4>2
      <3>5. down[k + 1].t = "output" => p.next <= down[k + 1].n
        BY <3>1, <3>2, <3>3
      <3> QED BY <1>4, <2>0, <2>1, <3>2, <3>4, <3>5
    <2> QED BY <2>2, <2>3
  <1>13. FreshUnknown'
    <2>1. m.id \in used
      BY <1>2, <1>3 DEF FreshUnknown
    <2> QED BY <1>1, <1>4, <1>7, <2>1 DEF FreshUnknown
  <1>14. NotShutDown' /\ PendingIds' = PendingIds
    BY <1>1, <1>3, <1>5, <1>7 DEF NotShutDown, PendingIds
  <1> QED BY <1>1, <1>9, <1>10, <1>11, <1>12, <1>13, <1>14 DEF TableBounded

(* The terminal frame of a request whose data, if any, is complete.        *)
LEMMA AnswersAgree ==
  ASSUME TypesOK, Agreement, NEW i \in Ids, active[i] # NoOp, ~Receiving(i), Answers(i)
  PROVE  Agreement'
  <1> USE DEF Agreement
  <1> DEFINE m == Frame("response", i)
             e == Len(down) + 1
  <1>1. m \in DownFrames /\ m.t = "response" /\ m.id = i
    BY DEF DownFrames, Frame
  <1> HIDE DEF m
  <1>2. /\ down' = Append(down, m) /\ active' = [active EXCEPT ![i] = NoOp]
        /\ UNCHANGED <<pending, used, up, stopping>>
    BY DEF Answers, m, clientVars
  <1>3. /\ DOMAIN down' = DOMAIN down \cup {e} /\ down'[e] = m /\ e \in Nat
        /\ \A l \in DOMAIN down : down'[l] = down[l] /\ l < e /\ l \in Nat
    BY <1>1, <1>2, AppendElements DEF TypesOK, TypeOK
  <1>4. active'[i] = NoOp /\ \A j \in Ids : j # i => active'[j] = active[j]
    BY <1>2 DEF TypesOK, TypeOK
  <1>5. /\ pending[i] # NoOp /\ ~pending[i].terminal
        /\ \A l \in DOMAIN down : down[l].id = i => down[l].t = "output"
    BY DEF ActiveAwaited, Waiting
  <1>6. \A k \in DOMAIN up : up[k].t = "request" => up[k].id # i
    BY DEF RequestsFirst
  <1>7. pending[i].unsent = <<>> /\ \A k \in DOMAIN up : IsData(up[k]) => up[k].id # i
    BY <1>5, <1>6 DEF DataExpected
  <1> HIDE DEF e
  <1>8. RequestsFirst'
    BY <1>1, <1>2, <1>3, <1>4, <1>6, FrameIds DEF RequestsFirst, Waiting, TypesOK
  <1>9. DataExpected'
    BY <1>2, <1>4, <1>7, FrameIds DEF DataExpected, Waiting, Receiving, IsData, TypesOK
  <1>10. ActiveAwaited'
    BY <1>1, <1>2, <1>3, <1>4 DEF ActiveAwaited, Waiting
  <1>11. AnswersAwaited'
    <2>1. ASSUME NEW k \in DOMAIN down
          PROVE  /\ down'[k].t # "complete" /\ pending[down[k].id] # NoOp /\ ~pending[down[k].id].terminal
                 /\ down[k].t = "response" =>
                      /\ active'[down[k].id] = NoOp
                      /\ \A l \in DOMAIN down' : down'[l].id = down[k].id => l <= k
                 /\ down[k].t = "output" /\ active'[down[k].id] # NoOp => down[k].n < active'[down[k].id].outputs
      BY <1>1, <1>3, <1>4, <1>5, FrameIds DEF AnswersAwaited, Waiting, TypesOK
    <2> QED BY <1>1, <1>2, <1>3, <1>4, <1>5, <2>1 DEF AnswersAwaited, Waiting
  <1>12. FreshUnknown' /\ NotShutDown'
    BY <1>1, <1>2, <1>3, <1>4, <1>5 DEF FreshUnknown, NotShutDown
  <1>13. PendingIds' = PendingIds
    BY <1>2 DEF PendingIds
  <1> QED BY <1>8, <1>9, <1>10, <1>11, <1>12, <1>13 DEF TableBounded

(* A command's next output frame.                                          *)
LEMMA OutputAgrees ==
  ASSUME TypesOK, Agreement, NEW i \in Ids, CommandOutput(i)
  PROVE  Agreement'
  <1> USE DEF Agreement
  <1> DEFINE r == [active[i] EXCEPT !.outputs = @ + 1]
             m == [t |-> "output", id |-> i, n |-> active[i].outputs]
             e == Len(down) + 1
  <1>1. /\ active[i] \in ActiveOps /\ active[i] # NoOp /\ active[i].kind = "exec" /\ active[i].stage = "running"
        /\ active[i].outputs \in Nat /\ active[i].outputs < MaxOutput
    BY PipeAssumption DEF CommandOutput, TypesOK, TypeOK, ActiveOps
  <1>2. /\ m \in DownFrames /\ m.t = "output" /\ m.id = i /\ m.n = active[i].outputs
    BY <1>1, PipeAssumption DEF DownFrames
  <1>3. /\ r \in ActiveOps /\ r.kind = "exec" /\ r.stage = "running" /\ r.outputs = active[i].outputs + 1
    <2>1. active[i].outputs + 1 \in 0..MaxOutput
      BY <1>1, PipeAssumption
    <2> QED BY <1>1, <2>1 DEF ActiveOps
  <1>4. r # NoOp
    BY <1>3, NoOpAssumption
  <1> HIDE DEF m, r
  <1>5. /\ down' = Append(down, m) /\ active' = [active EXCEPT ![i] = r]
        /\ UNCHANGED <<pending, used, up, stopping>>
    BY DEF CommandOutput, m, r, clientVars
  <1>6. /\ DOMAIN down' = DOMAIN down \cup {e} /\ down'[e] = m /\ e \in Nat
        /\ \A l \in DOMAIN down : down'[l] = down[l] /\ l < e /\ l \in Nat
    BY <1>2, <1>5, AppendElements DEF TypesOK, TypeOK
  <1>7. active'[i] = r /\ \A j \in Ids : j # i => active'[j] = active[j]
    BY <1>5 DEF TypesOK, TypeOK
  <1>8. /\ pending[i] # NoOp /\ ~pending[i].terminal /\ pending[i].kind = "exec"
        /\ pending[i].next <= active[i].outputs /\ pending[i].next \in Nat
        /\ \A l \in DOMAIN down : down[l].id = i => down[l].t = "output"
        /\ \A n \in 0..MaxOutput : pending[i].next <= n /\ n < active[i].outputs
             => \E l \in DOMAIN down : down[l].t = "output" /\ down[l].id = i /\ down[l].n = n
    BY <1>1, PipeAssumption DEF ActiveAwaited, Waiting, TypesOK, TypeOK, PendingOps
  <1>9. \A l \in DOMAIN down : down[l].id = i => down[l].n \in Nat /\ down[l].n < active[i].outputs
    BY <1>1, <1>8, FrameIds DEF AnswersAwaited, TypesOK
  <1>10. \A k \in DOMAIN up : up[k].t = "request" => up[k].id # i
    BY <1>1 DEF RequestsFirst
  <1> HIDE DEF e
  <1>11. RequestsFirst'
    BY <1>2, <1>5, <1>6, <1>7, <1>10, FrameIds DEF RequestsFirst, Waiting, TypesOK
  <1>12. DataExpected'
    BY <1>1, <1>3, <1>5, <1>7, FrameIds DEF DataExpected, Waiting, Receiving, IsData, TypesOK
  <1>13. ActiveAwaited'
    <2> SUFFICES ASSUME NEW j \in Ids, active'[j] # NoOp
                 PROVE  /\ pending[j] # NoOp /\ ~pending[j].terminal /\ active'[j].kind = pending[j].kind
                        /\ active'[j].stage = "receiving" => active'[j].kind = "write"
                        /\ \A l \in DOMAIN down' : down'[l].id = j => down'[l].t = "output"
                        /\ pending[j].next <= active'[j].outputs
                        /\ \A n \in 0..MaxOutput : pending[j].next <= n /\ n < active'[j].outputs
                             => \E l \in DOMAIN down' : down'[l].t = "output" /\ down'[l].id = j /\ down'[l].n = n
      BY <1>5 DEF ActiveAwaited, Waiting
    <2>1. CASE j # i
      BY <1>2, <1>6, <1>7, <2>1 DEF ActiveAwaited, Waiting
    <2>2. CASE j = i
      <3>1. pending[i].next <= r.outputs
        BY <1>1, <1>3, <1>8
      <3>2. ASSUME NEW n \in 0..MaxOutput, pending[i].next <= n, n < r.outputs
            PROVE  \E l \in DOMAIN down' : down'[l].t = "output" /\ down'[l].id = i /\ down'[l].n = n
        <4>1. CASE n = active[i].outputs
          BY <1>2, <1>6, <4>1
        <4>2. CASE n < active[i].outputs
          BY <1>6, <1>8, <3>2, <4>2
        <4> QED BY <1>1, <1>3, <3>2, <4>1, <4>2, PipeAssumption
      <3>3. \A l \in DOMAIN down' : down'[l].id = i => down'[l].t = "output"
        BY <1>2, <1>6, <1>8
      <3> QED BY <1>3, <1>7, <1>8, <2>2, <3>1, <3>2, <3>3
    <2> QED BY <2>1, <2>2
  <1>14. AnswersAwaited'
    <2> SUFFICES ASSUME NEW k \in DOMAIN down'
                 PROVE  /\ down'[k].t # "complete" /\ pending[down'[k].id] # NoOp /\ ~pending[down'[k].id].terminal
                        /\ down'[k].t = "response" =>
                             /\ active'[down'[k].id] = NoOp
                             /\ \A l \in DOMAIN down' : down'[l].id = down'[k].id => l <= k
                        /\ down'[k].t = "output" =>
                             /\ pending[down'[k].id].kind = "exec"
                             /\ pending[down'[k].id].next <= down'[k].n
                             /\ active'[down'[k].id] # NoOp => down'[k].n < active'[down'[k].id].outputs
                             /\ \A l \in DOMAIN down' : l < k /\ down'[l].id = down'[k].id => down'[l].n < down'[k].n
                             /\ \A n \in 0..MaxOutput : pending[down'[k].id].next <= n /\ n < down'[k].n
                                  => \E l \in DOMAIN down' : l < k /\ down'[l].t = "output"
                                                             /\ down'[l].id = down'[k].id /\ down'[l].n = n
      BY <1>5 DEF AnswersAwaited, Waiting
    <2>1. CASE k = e
      <3>1. down'[k] = m /\ ~(e \in DOMAIN down)
        BY <1>6, <2>1
      <3>2. \A l \in DOMAIN down' : l < k /\ down'[l].id = i => down'[l].n < active[i].outputs
        BY <1>6, <1>9, <2>1
      <3>3. \A n \in 0..MaxOutput : pending[i].next <= n /\ n < active[i].outputs
               => \E l \in DOMAIN down' : l < k /\ down'[l].t = "output" /\ down'[l].id = i /\ down'[l].n = n
        BY <1>6, <1>8, <2>1
      <3>4. active[i].outputs < r.outputs
        BY <1>1, <1>3
      <3> QED BY <1>2, <1>7, <1>8, <3>1, <3>2, <3>3, <3>4
    <2>2. CASE k # e
      <3>1. k \in DOMAIN down /\ down'[k] = down[k] /\ k < e /\ k \in Nat
        BY <1>6, <2>2
      <3>2. /\ down[k].t # "complete" /\ pending[down[k].id] # NoOp /\ ~pending[down[k].id].terminal
            /\ down[k].t = "response" => down[k].id # i /\ down[k].id \in Ids
            /\ down[k].id \in Ids
        BY <1>8, <3>1, FrameIds DEF AnswersAwaited, Waiting, TypesOK
      <3>3. CASE down[k].t = "response"
        BY <1>2, <1>6, <1>7, <3>1, <3>2, <3>3 DEF AnswersAwaited
      <3>4. CASE down[k].t = "output"
        <4>1. active'[down[k].id] # NoOp => down[k].n < active'[down[k].id].outputs
          <5>1. CASE down[k].id = i
            BY <1>1, <1>3, <1>7, <1>9, <3>1, <5>1
          <5>2. CASE down[k].id # i
            BY <1>7, <3>1, <3>2, <3>4, <5>2 DEF AnswersAwaited
          <5> QED BY <5>1, <5>2
        <4>2. \A l \in DOMAIN down' : l < k => l \in DOMAIN down /\ down'[l] = down[l]
          BY <1>6, <3>1
        <4> QED BY <1>6, <3>1, <3>2, <3>4, <4>1, <4>2 DEF AnswersAwaited
      <3> QED BY <3>1, <3>2, <3>3, <3>4, FrameIds DEF TypesOK
    <2> QED BY <2>1, <2>2
  <1>15. FreshUnknown' /\ NotShutDown'
    BY <1>2, <1>5, <1>6, <1>7, <1>8 DEF FreshUnknown, NotShutDown
  <1>16. PendingIds' = PendingIds
    BY <1>5 DEF PendingIds
  <1> QED BY <1>11, <1>12, <1>13, <1>14, <1>15, <1>16 DEF TableBounded

(* The pipe to the worker loses its head.                                  *)
Shifted ==
    /\ up # <<>> /\ 1 \in DOMAIN up /\ up[1] = Head(up) /\ \A k \in DOMAIN up : k \in Nat /\ 1 <= k
    /\ \A k \in DOMAIN up' : k + 1 \in DOMAIN up /\ up'[k] = up[k + 1] /\ k \in Nat \ {0}
    /\ \A k \in DOMAIN up : k = 1 \/ (k - 1 \in DOMAIN up' /\ up'[k - 1] = up[k])

(* The worker takes a request: from then on it is active.                  *)
LEMMA TakesRequest ==
  ASSUME TypesOK, Agreement, Shifted, UNCHANGED <<pending, used, down, stopping>>,
         Head(up).t = "request", NEW r, r # NoOp, r.kind = Head(up).kind, r.outputs = 0,
         r.stage = "receiving" <=> r.kind = "write", active' = [active EXCEPT ![Head(up).id] = r]
  PROVE  Agreement'
  <1> USE DEF Agreement
  <1> DEFINE i == up[1].id
  <1>1. /\ pending[i] # NoOp /\ ~pending[i].terminal /\ active[i] = NoOp /\ i \in Ids
        /\ r.kind = pending[i].kind /\ pending[i].next = 0
        /\ \A l \in DOMAIN up : up[l].id = i /\ l > 1 => up[l].t # "request"
        /\ \A l \in DOMAIN down : down[l].id # i
    BY FrameIds DEF Shifted, RequestsFirst, Waiting, TypesOK
  <1>2. active'[i] = r /\ \A j \in Ids : j # i => active'[j] = active[j]
    BY <1>1 DEF Shifted, TypesOK, TypeOK
  <1> HIDE DEF i
  <1>3. RequestsFirst'
    <2> SUFFICES ASSUME NEW k \in DOMAIN up', up'[k].t = "request"
                 PROVE  /\ pending[up'[k].id] # NoOp /\ ~pending[up'[k].id].terminal /\ active'[up'[k].id] = NoOp
                        /\ up'[k].kind = pending[up'[k].id].kind /\ pending[up'[k].id].next = 0
                        /\ \A l \in DOMAIN up' : up'[l].id = up'[k].id => l >= k /\ (l > k => up'[l].t # "request")
                        /\ \A l \in DOMAIN down : down[l].id # up'[k].id
      BY DEF RequestsFirst, Waiting
    <2>1. k + 1 \in DOMAIN up /\ up'[k] = up[k + 1] /\ up[k + 1].t = "request" /\ k + 1 > 1 /\ k \in Nat
      BY DEF Shifted
    <2>2. up[k + 1].id # i /\ up[k + 1].id \in Ids
      BY <1>1, <2>1, FrameIds DEF TypesOK
    <2>3. \A l \in DOMAIN up' : up'[l].id = up'[k].id => l >= k /\ (l > k => up'[l].t # "request")
      BY <2>1 DEF RequestsFirst, Shifted
    <2> QED BY <1>2, <2>1, <2>2, <2>3 DEF RequestsFirst, Waiting
  <1>4. DataExpected'
    <2>1. ASSUME NEW k \in DOMAIN up', IsData(up'[k])
          PROVE  /\ pending[up'[k].id] # NoOp /\ ~pending[up'[k].id].terminal /\ pending[up'[k].id].kind = "write"
                 /\ \/ active'[up'[k].id] # NoOp /\ active'[up'[k].id].stage = "receiving"
                    \/ \E l \in DOMAIN up' : l < k /\ up'[l].t = "request" /\ up'[l].id = up'[k].id
                 /\ up'[k].t = "end" => /\ pending[up'[k].id].unsent = <<>>
                                        /\ \A l \in DOMAIN up' : IsData(up'[l]) /\ up'[l].id = up'[k].id => l <= k
      <3>1. k + 1 \in DOMAIN up /\ up'[k] = up[k + 1] /\ IsData(up[k + 1]) /\ k \in Nat
        BY <2>1 DEF Shifted
      <3>2. /\ pending[up[k + 1].id] # NoOp /\ ~pending[up[k + 1].id].terminal /\ up[k + 1].id \in Ids
            /\ pending[up[k + 1].id].kind = "write"
            /\ \/ active[up[k + 1].id] # NoOp /\ active[up[k + 1].id].stage = "receiving"
               \/ \E l \in DOMAIN up : l < k + 1 /\ up[l].t = "request" /\ up[l].id = up[k + 1].id
            /\ up[k + 1].t = "end" =>
                 /\ pending[up[k + 1].id].unsent = <<>>
                 /\ \A l \in DOMAIN up : IsData(up[l]) /\ up[l].id = up[k + 1].id => l <= k + 1
        BY <3>1, FrameIds DEF DataExpected, Waiting, Receiving, IsData, TypesOK
      <3>3. CASE up[k + 1].id = i
        BY <1>1, <1>2, <3>1, <3>2, <3>3 DEF Shifted
      <3>4. CASE up[k + 1].id # i
        <4>1. active'[up[k + 1].id] = active[up[k + 1].id]
          BY <1>2, <3>2, <3>4
        <4>2. \A l \in DOMAIN up : l < k + 1 /\ up[l].id = up[k + 1].id
                 => l - 1 \in DOMAIN up' /\ up'[l - 1] = up[l] /\ l - 1 < k
          BY <3>1, <3>4 DEF Shifted, i
        <4> QED BY <3>1, <3>2, <4>1, <4>2 DEF Shifted
      <3> QED BY <3>3, <3>4
    <2>2. ASSUME NEW j \in Ids, pending[j] # NoOp, pending[j].unsent # <<>>
          PROVE  \/ active'[j] # NoOp /\ active'[j].stage = "receiving"
                 \/ \E l \in DOMAIN up' : up'[l].t = "request" /\ up'[l].id = j
      <3>1. CASE j = i
        BY <1>1, <1>2, <2>2, <3>1 DEF DataExpected
      <3>2. CASE j # i
        BY <1>2, <2>2, <3>2 DEF DataExpected, Receiving, Shifted, i
      <3> QED BY <3>1, <3>2
    <2> QED BY <2>1, <2>2 DEF DataExpected, IsData, Waiting, Receiving
  <1>5. ActiveAwaited'
    <2>1. \A n \in 0..MaxOutput : ~(n < 0)
      BY PipeAssumption
    <2> QED BY <1>1, <1>2, <2>1 DEF ActiveAwaited, Waiting
  <1>6. AnswersAwaited'
    BY <1>1, <1>2, FrameIds DEF AnswersAwaited, Waiting, TypesOK
  <1>7. FreshUnknown' /\ NotShutDown'
    BY <1>1, <1>2 DEF FreshUnknown, NotShutDown, Shifted
  <1>8. PendingIds' = PendingIds
    BY DEF PendingIds
  <1> QED BY <1>3, <1>4, <1>5, <1>6, <1>7, <1>8 DEF TableBounded

(* The worker takes any other frame: it may end the data of a write.       *)
LEMMA TakesOther ==
  ASSUME TypesOK, Agreement, Shifted, UNCHANGED <<pending, used, down, stopping>>,
         Head(up).t \in {"chunk", "end", "cancel"},
         \A j \in Ids : /\ active'[j] = NoOp <=> active[j] = NoOp
                        /\ active[j] # NoOp =>
                             /\ active'[j].kind = active[j].kind /\ active'[j].outputs = active[j].outputs
                             /\ active'[j].stage = "receiving" <=>
                                  active[j].stage = "receiving" /\ ~(Head(up).t = "end" /\ Head(up).id = j)
  PROVE  Agreement'
  <1> USE DEF Agreement
  <1>1. RequestsFirst'
    <2> SUFFICES ASSUME NEW k \in DOMAIN up', up'[k].t = "request"
                 PROVE  /\ pending[up'[k].id] # NoOp /\ ~pending[up'[k].id].terminal /\ active'[up'[k].id] = NoOp
                        /\ up'[k].kind = pending[up'[k].id].kind /\ pending[up'[k].id].next = 0
                        /\ \A l \in DOMAIN up' : up'[l].id = up'[k].id => l >= k /\ (l > k => up'[l].t # "request")
                        /\ \A l \in DOMAIN down : down[l].id # up'[k].id
      BY DEF RequestsFirst, Waiting
    <2>1. k + 1 \in DOMAIN up /\ up'[k] = up[k + 1] /\ up[k + 1].t = "request" /\ k \in Nat /\ up[k + 1].id \in Ids
      BY FrameIds DEF Shifted, TypesOK
    <2>2. \A l \in DOMAIN up' : up'[l].id = up'[k].id => l >= k /\ (l > k => up'[l].t # "request")
      BY <2>1 DEF RequestsFirst, Shifted
    <2> QED BY <2>1, <2>2 DEF RequestsFirst, Waiting
  <1>2. DataExpected'
    <2>1. ASSUME NEW k \in DOMAIN up', IsData(up'[k])
          PROVE  /\ pending[up'[k].id] # NoOp /\ ~pending[up'[k].id].terminal /\ pending[up'[k].id].kind = "write"
                 /\ \/ active'[up'[k].id] # NoOp /\ active'[up'[k].id].stage = "receiving"
                    \/ \E l \in DOMAIN up' : l < k /\ up'[l].t = "request" /\ up'[l].id = up'[k].id
                 /\ up'[k].t = "end" => /\ pending[up'[k].id].unsent = <<>>
                                        /\ \A l \in DOMAIN up' : IsData(up'[l]) /\ up'[l].id = up'[k].id => l <= k
      <3>1. k + 1 \in DOMAIN up /\ up'[k] = up[k + 1] /\ IsData(up[k + 1]) /\ k \in Nat /\ 1 < k + 1
        BY <2>1 DEF Shifted
      <3>2. /\ pending[up[k + 1].id] # NoOp /\ ~pending[up[k + 1].id].terminal /\ up[k + 1].id \in Ids
            /\ pending[up[k + 1].id].kind = "write"
            /\ \/ active[up[k + 1].id] # NoOp /\ active[up[k + 1].id].stage = "receiving"
               \/ \E l \in DOMAIN up : l < k + 1 /\ up[l].t = "request" /\ up[l].id = up[k + 1].id
            /\ up[k + 1].t = "end" =>
                 /\ pending[up[k + 1].id].unsent = <<>>
                 /\ \A l \in DOMAIN up : IsData(up[l]) /\ up[l].id = up[k + 1].id => l <= k + 1
        BY <3>1, FrameIds DEF DataExpected, Waiting, Receiving, IsData, TypesOK
      <3>3. ~(Head(up).t = "end" /\ Head(up).id = up[k + 1].id)
        BY <3>1 DEF DataExpected, Shifted, IsData
      <3>4. \A l \in DOMAIN up : l < k + 1 /\ up[l].t = "request"
                 => l - 1 \in DOMAIN up' /\ up'[l - 1] = up[l] /\ l - 1 < k
        BY <3>1 DEF Shifted
      <3> QED BY <3>1, <3>2, <3>3, <3>4 DEF Shifted
    <2>2. ASSUME NEW j \in Ids, pending[j] # NoOp, pending[j].unsent # <<>>
          PROVE  \/ active'[j] # NoOp /\ active'[j].stage = "receiving"
                 \/ \E l \in DOMAIN up' : up'[l].t = "request" /\ up'[l].id = j
      <3>1. ~(Head(up).t = "end" /\ Head(up).id = j)
        BY <2>2 DEF DataExpected, Shifted, IsData
      <3>2. \A l \in DOMAIN up : up[l].t = "request" => l - 1 \in DOMAIN up' /\ up'[l - 1] = up[l]
        BY DEF Shifted
      <3> QED BY <2>2, <3>1, <3>2 DEF DataExpected, Receiving
    <2> QED BY <2>1, <2>2 DEF DataExpected, IsData, Waiting, Receiving
  <1>3. ActiveAwaited'
    BY DEF ActiveAwaited, Waiting
  <1>4. AnswersAwaited'
    BY FrameIds DEF AnswersAwaited, Waiting, TypesOK
  <1>5. FreshUnknown' /\ NotShutDown'
    BY DEF FreshUnknown, NotShutDown, Shifted
  <1>6. PendingIds' = PendingIds
    BY DEF PendingIds
  <1> QED BY <1>1, <1>2, <1>3, <1>4, <1>5, <1>6 DEF TableBounded

(* The main loop never finds a protocol violation.                         *)
LEMMA HandleAgrees ==
  ASSUME TypesOK, Agreement, Handle
  PROVE  Agreement' /\ UNCHANGED fault
  <1> DEFINE m == Head(up)
  <1>0. /\ up # <<>> /\ ~stopping /\ up' = Tail(up) /\ UNCHANGED <<clientVars, down>>
    BY DEF Handle
  <1>1. Shifted
    BY <1>0, TailElements DEF Shifted, TypesOK, TypeOK
  <1>2. m.t # "shutdown" /\ m.id \in Ids /\ m \in UpFrames
    BY <1>1, FrameIds DEF Agreement, NotShutDown, Shifted, TypesOK
  <1>3. UNCHANGED <<pending, used, down>>
    BY <1>0 DEF clientVars
  <1>4. m.t = "request" => active[m.id] = NoOp /\ ~(Cardinality(ActiveIds) >= MaxActive)
    <2> SUFFICES ASSUME m.t = "request"
                 PROVE  active[m.id] = NoOp /\ ~(Cardinality(ActiveIds) >= MaxActive)
      OBVIOUS
    <2>1. active[m.id] = NoOp /\ pending[m.id] # NoOp
      BY <1>1 DEF Agreement, RequestsFirst, Waiting, Shifted
    <2>2. ActiveIds \subseteq PendingIds \ {m.id} /\ m.id \in PendingIds
      BY <1>2, <2>1 DEF Agreement, ActiveAwaited, Waiting, ActiveIds, PendingIds
    <2>3. IsFiniteSet(PendingIds) /\ Cardinality(PendingIds) <= MaxActive
      BY DEF Agreement, TableBounded
    <2>4. IsFiniteSet(PendingIds \ {m.id}) /\ Cardinality(PendingIds \ {m.id}) = Cardinality(PendingIds) - 1
      BY <2>2, <2>3, FS_RemoveElement
    <2>5. IsFiniteSet(ActiveIds) /\ Cardinality(ActiveIds) <= Cardinality(PendingIds \ {m.id})
      BY <2>2, <2>4, FS_Subset
    <2>6. Cardinality(ActiveIds) \in Nat /\ Cardinality(PendingIds) \in Nat
      BY <2>3, <2>5, FS_CardinalityType
    <2> QED BY <2>1, <2>3, <2>4, <2>5, <2>6, PipeAssumption
  <1>5. IsData(m) => Receiving(m.id)
    BY <1>1 DEF Agreement, DataExpected, Shifted
  <1>6. m.t = "request" => New(m) \in ActiveOps /\ New(m).stage = "receiving" /\ New(m).kind = m.kind /\ New(m).outputs = 0
    BY <1>2, PipeAssumption DEF UpFrames, New, ActiveOps
  <1>t. \A j \in Ids : active[j] # NoOp => active[j] \in ActiveOps
    BY DEF TypesOK, TypeOK
  <1> HIDE DEF m
  <1>7. CASE m.t = "request" /\ m.kind = "write" /\ active' = [active EXCEPT ![m.id] = New(m)]
             /\ UNCHANGED <<stopping, fault>>
    BY <1>1, <1>3, <1>6, <1>7, NoOpAssumption, TakesRequest DEF m
  <1>8. CASE m.t = "request" /\ m.kind # "write" /\ Starts(m.id, New(m)) /\ UNCHANGED fault
    <2>1. /\ Started(New(m)) # NoOp /\ Started(New(m)).kind = m.kind /\ Started(New(m)).outputs = 0
          /\ Started(New(m)).stage # "receiving"
      BY <1>6, <1>8, StartedTypes, NoOpAssumption
    <2>2. active' = [active EXCEPT ![m.id] = Started(New(m))] /\ UNCHANGED stopping
      BY <1>8 DEF Starts
    <2> QED BY <1>1, <1>3, <1>8, <2>1, <2>2, TakesRequest DEF m
  <1>9. CASE m.t = "end" /\ Receiving(m.id) /\ Starts(m.id, active[m.id]) /\ UNCHANGED fault
    <2>1. /\ Started(active[m.id]) # NoOp /\ Started(active[m.id]).kind = active[m.id].kind
          /\ Started(active[m.id]).outputs = active[m.id].outputs /\ Started(active[m.id]).stage # "receiving"
      BY <1>2, <1>9, <1>t, StartedTypes, NoOpAssumption DEF Receiving
    <2>2. active' = [active EXCEPT ![m.id] = Started(active[m.id])] /\ UNCHANGED stopping
      BY <1>9 DEF Starts
    <2>3. \A j \in Ids : /\ active'[j] = NoOp <=> active[j] = NoOp
                         /\ active[j] # NoOp =>
                              /\ active'[j].kind = active[j].kind /\ active'[j].outputs = active[j].outputs
                              /\ active'[j].stage = "receiving" <=>
                                   active[j].stage = "receiving" /\ ~(m.t = "end" /\ m.id = j)
      BY <1>2, <1>9, <2>1, <2>2 DEF TypesOK, TypeOK, Receiving
    <2> QED BY <1>1, <1>3, <1>9, <2>2, <2>3, TakesOther DEF m
  <1>10. CASE m.t = "chunk" /\ UNCHANGED <<workerVars, fault>>
    BY <1>1, <1>3, <1>10, TakesOther DEF m, workerVars
  <1>11. CASE m.t = "cancel" /\ active' = [active EXCEPT ![m.id] = Cancelled(m.id)] /\ UNCHANGED <<stopping, fault>>
    <2>1. active[m.id] # NoOp => /\ Cancelled(m.id) \in ActiveOps /\ Cancelled(m.id).kind = active[m.id].kind
                                 /\ Cancelled(m.id).outputs = active[m.id].outputs
                                 /\ Cancelled(m.id).stage = active[m.id].stage
      BY <1>2, <1>t DEF Cancelled, ActiveOps
    <2>2. active[m.id] = NoOp => Cancelled(m.id) = NoOp
      BY DEF Cancelled
    <2>3. active'[m.id] = Cancelled(m.id) /\ \A j \in Ids : j # m.id => active'[j] = active[j]
      BY <1>2, <1>11 DEF TypesOK, TypeOK
    <2>4. \A j \in Ids : /\ active'[j] = NoOp <=> active[j] = NoOp
                         /\ active[j] # NoOp =>
                              /\ active'[j].kind = active[j].kind /\ active'[j].outputs = active[j].outputs
                              /\ active'[j].stage = active[j].stage
      BY <1>2, <2>1, <2>2, <2>3, NoOpAssumption
    <2> QED BY <1>1, <1>3, <1>11, <2>4, TakesOther DEF m
  <1> QED BY <1>2, <1>4, <1>5, <1>7, <1>8, <1>9, <1>10, <1>11, HandleCases DEF m, TypesOK

(* Agreement matters while the client is open: nothing it does after that  *)
(* can be a fault.                                                         *)
PipeInv == WorkerInv /\ fault # "frame" /\ (client = "open" => Agreement)

(* The steps of the worker, seen from the client.                          *)
LEMMA WorkerStepAgrees ==
  ASSUME TypesOK, Agreement, NEW i \in Ids, WorkerStep(i)
  PROVE  Agreement'
  <1>0. active[i] # NoOp /\ active[i] \in ActiveOps
    BY DEF WorkerStep, ReadDone, JoinMutations, MutationReads, MutationWrites, MutationDone, ProcessRuns,
           SearchDone, CommandDone, CommandKillsWorker, TypesOK, TypeOK
  <1>1. CASE CommandKillsWorker(i)
    BY <1>1, Quiet DEF CommandKillsWorker, clientVars, TypesOK
  <1>2. ~Receiving(i) \/ CommandKillsWorker(i)
    <2>1. active[i].kind = "read" => active[i].stage # "receiving"
      BY <1>0 DEF Agreement, ActiveAwaited
    <2> QED BY <2>1 DEF WorkerStep, ReadDone, JoinMutations, MutationReads, MutationWrites, MutationDone,
                        ProcessRuns, SearchDone, CommandDone, Receiving
  <1>3. CASE Answers(i)
    BY <1>0, <1>1, <1>2, <1>3, AnswersAgree
  <1>4. ASSUME NEW r, r \in ActiveOps, Proceeds(i, r), r.kind = active[i].kind, r.outputs = active[i].outputs,
               r.stage # "receiving", ~Receiving(i)
        PROVE  Agreement'
    <2>1. UNCHANGED <<pending, used, up, down, stopping>> /\ active' = [active EXCEPT ![i] = r] /\ r # NoOp
      BY <1>4, NoOpAssumption DEF Proceeds, clientVars
    <2>2. active'[i] = r /\ \A j \in Ids : j # i => active'[j] = active[j]
      BY <2>1 DEF TypesOK, TypeOK
    <2> QED BY <1>0, <1>4, <2>1, <2>2, Quiet DEF Receiving, TypesOK
  <1>5. CASE \E s \in {"queued", "written", "running", "cleaning"} :
                 Proceeds(i, [active[i] EXCEPT !.stage = s]) /\ ~CommandKillsWorker(i)
    <2>1. PICK s \in {"queued", "written", "running", "cleaning"} :
                 Proceeds(i, [active[i] EXCEPT !.stage = s]) /\ ~CommandKillsWorker(i)
      BY <1>5
    <2> DEFINE r == [active[i] EXCEPT !.stage = s]
    <2>2. r \in ActiveOps /\ r.kind = active[i].kind /\ r.outputs = active[i].outputs /\ r.stage # "receiving"
      BY <1>0 DEF ActiveOps
    <2> QED BY <1>2, <1>4, <2>1, <2>2
  <1>6. CASE Proceeds(i, [active[i] EXCEPT !.stage = "read", !.base = file]) /\ ~CommandKillsWorker(i)
    <2> DEFINE r == [active[i] EXCEPT !.stage = "read", !.base = file]
    <2>2. r \in ActiveOps /\ r.kind = active[i].kind /\ r.outputs = active[i].outputs /\ r.stage # "receiving"
      BY <1>0 DEF ActiveOps, TypesOK, TypeOK
    <2> QED BY <1>2, <1>4, <1>6, <2>2
  <1> QED BY <1>1, <1>3, <1>5, <1>6
          DEF WorkerStep, ReadDone, JoinMutations, MutationReads, MutationWrites, MutationDone,
              ProcessRuns, SearchDone, CommandDone

(* Every step keeps the agreement of the tables and the frames in transit, *)
(* and causes no fault.                                                    *)
LEMMA PipeInvInductive ==
  ASSUME PipeInv, [Next]_vars
  PROVE  PipeInv'
  <1>0. WorkerInv' /\ TypesOK
    BY WorkerInvInductive DEF PipeInv, WorkerInv
  <1> SUFFICES fault' # "frame" /\ (client' = "open" => Agreement')
    BY <1>0 DEF PipeInv
  <1>1. ASSUME NEW i \in Ids, NEW k \in Kinds, Request(i, k)
        PROVE  fault' # "frame" /\ (client' = "open" => Agreement')
    BY <1>0, <1>1, RequestAgrees DEF Request, Send, PipeInv
  <1>2. ASSUME NEW i \in Ids, SendData(i) \/ Abort(i)
        PROVE  fault' # "frame" /\ (client' = "open" => Agreement')
    BY <1>0, <1>2, SendDataAgrees, AbortAgrees DEF SendData, Abort, Send, PipeInv
  <1>3. ASSUME NEW i \in Ids, OutputTask(i)
        PROVE  fault' # "frame" /\ (client' = "open" => Agreement')
    <2> DEFINE p == [pending[i] EXCEPT !.tasks = @ - 1]
    <2> SUFFICES ASSUME client' = "open" PROVE fault' # "frame" /\ Agreement'
      BY <1>3 DEF OutputTask, PipeInv
    <2>1. pending[i] \in PendingOps /\ pending[i] # NoOp /\ pending' = [pending EXCEPT ![i] = p]
          /\ UNCHANGED <<client, fault, used, up, down, active, stopping>>
      BY <1>0, <1>3 DEF OutputTask, Stop, TypesOK, TypeOK, workerVars
    <2>2. /\ p.kind = pending[i].kind /\ p.unsent = pending[i].unsent /\ p.terminal = pending[i].terminal
          /\ p.next = pending[i].next
      BY <2>1 DEF PendingOps
    <2>3. pending[i].tasks - 1 \in 0..MaxOutput
      BY <1>3, <2>1, PipeAssumption DEF OutputTask, PendingOps
    <2>4. p \in PendingOps
      BY <2>1, <2>3 DEF PendingOps
    <2> HIDE DEF p
    <2>5. pending'[i] = p /\ p # NoOp /\ \A j \in Ids : j # i => pending'[j] = pending[j]
      BY <1>0, <2>1, <2>4, NoOpAssumption DEF TypesOK, TypeOK
    <2>6. Agreement => Agreement'
      BY <1>0, <2>1, <2>2, <2>5, Quiet DEF TypesOK
    <2> QED BY <2>1, <2>6 DEF PipeInv
  <1>4. ASSUME NEW i \in Ids, Settle(i)
        PROVE  fault' # "frame" /\ (client' = "open" => Agreement')
    BY <1>0, <1>4, SettleAgrees DEF Settle, PipeInv
  <1>5. ASSUME NEW i \in Ids, WorkerStep(i)
        PROVE  fault' # "frame" /\ (client' = "open" => Agreement')
    <2>1. UNCHANGED <<client, fault>>
      BY <1>5 DEF WorkerStep, ReadDone, JoinMutations, MutationReads, MutationWrites, MutationDone,
                  ProcessRuns, SearchDone, CommandDone, CommandKillsWorker, Answers, Proceeds, clientVars
    <2> QED BY <1>0, <1>5, <2>1, WorkerStepAgrees DEF PipeInv
  <1>6. ASSUME NEW i \in Ids, CommandOutput(i)
        PROVE  fault' # "frame" /\ (client' = "open" => Agreement')
    BY <1>0, <1>6, OutputAgrees DEF CommandOutput, clientVars, PipeInv
  <1>7. CASE Invalidate \/ Close \/ Terminate \/ SeeExit
    BY <1>7 DEF Invalidate, Close, Terminate, SeeExit, Stop, PipeInv
  <1>8. CASE Receive
    <2>1. CASE client = "open"
      <3>1. fault' # "frame"
        BY <1>0, <1>8, <2>1, NextFrameFits DEF Receive, PipeInv
      <3> QED BY <1>0, <1>8, <2>1, <3>1, ReceiveAgrees DEF PipeInv
    <2>2. CASE client # "open"
      BY <1>8, <2>2 DEF Receive, PipeInv
    <2> QED BY <2>1, <2>2
  <1>9. CASE Handle
    <2>1. CASE client = "open"
      BY <1>0, <1>9, <2>1, HandleAgrees DEF PipeInv
    <2>2. CASE client # "open"
      <3>1. UNCHANGED fault /\ UNCHANGED client
        BY <1>0, <1>9, <2>2, HandleCases DEF WorkerFaults, clientVars, workerVars, TypesOK, TypeOK, PipeInv
      <3> QED BY <2>2, <3>1 DEF PipeInv
    <2> QED BY <2>1, <2>2
  <1>10. CASE ShutDown
    BY <1>10 DEF ShutDown, clientVars, PipeInv, Agreement, NotShutDown
  <1>11. CASE UNCHANGED vars
    <2>1. UNCHANGED <<client, fault, pending, used, up, down, active, stopping>>
      BY <1>11 DEF vars, clientVars, workerVars
    <2> QED BY <1>0, <2>1, Quiet DEF PipeInv, TypesOK
  <1> QED BY <1>1, <1>2, <1>3, <1>4, <1>5, <1>6, <1>7, <1>8, <1>9, <1>10, <1>11 DEF Next, ClientStep

(* Between the client and the worker as written, no frame is ever found to *)
(* violate the protocol, for any limit on active operations, any number of *)
(* operations and any crossing of cancels, data, output and answers: no    *)
(* conversation loses its worker to a protocol error of its own making.    *)
THEOREM EndsAgree == Spec => []PeersAgree
  <1>1. Init => PipeInv
    <2> SUFFICES ASSUME Init PROVE Agreement
      BY WorkerInvInit DEF PipeInv, Init
    <2>1. PendingIds = {} /\ DOMAIN up = {} /\ DOMAIN down = {}
      BY DEF Init, PendingIds
    <2>2. TableBounded
      BY <2>1, FS_EmptySet, PipeAssumption DEF TableBounded
    <2> QED BY <2>1, <2>2 DEF Init, Agreement, RequestsFirst, DataExpected, ActiveAwaited, AnswersAwaited,
                              FreshUnknown, NotShutDown
  <1>2. PipeInv => PeersAgree
    BY DEF PipeInv, PeersAgree
  <1> QED BY <1>1, <1>2, PipeInvInductive, PTL DEF Spec
=============================================================================
