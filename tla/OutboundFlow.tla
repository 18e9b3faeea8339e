----------------------------- MODULE OutboundFlow -----------------------------
(***************************************************************************)
(* OutboundFlowController (src/server/outbound-flow.ts): flow control of   *)
(* one browser socket.  A message is a record of its position in the       *)
(* stream, its size and its coalesceKey; the messages that have a key are  *)
(* exactly those isDroppable() names (tool.updated and the uncorrelated    *)
(* history and jobs lists).  The socket is external: it buffers what it is *)
(* given, its bufferedAmount falls as the peer reads, and it calls back.   *)
(***************************************************************************)
EXTENDS Integers, Sequences, SequencesExt

CONSTANTS
    Keys,           \* coalesce keys
    NoKey,
    Sizes,          \* message sizes in bytes
    HighWater,      \* highWaterBytes
    MaxQueue,       \* maxQueueBytes
    Patience,       \* slowClientTimeoutMs, in ticks of the clock
    MaxOffered      \* bound: messages sent in a behaviour

ASSUME SizesAssumption == Sizes \subseteq Nat \ {0}
ASSUME LimitsAssumption ==
    HighWater \in Nat \ {0} /\ MaxQueue \in Nat \ {0} /\ Patience \in Nat \ {0}
ASSUME KeyAssumption == NoKey \notin Keys

VARIABLES
    queue,          \* #queue
    queuedBytes,    \* #queuedBytes
    pressure,       \* time since #pressureStartedAt, capped at Patience; -1 when undefined
    timer,          \* #timer is set
    disposed,       \* #disposed
    open,           \* socket.readyState is OPEN
    buffered,       \* socket.bufferedAmount
    callbacks,      \* send callbacks the socket still owes
    offered,        \* history: messages passed to send() while it accepts them
    written         \* history: messages handed to socket.send

flow == <<queue, queuedBytes, pressure, timer, disposed>>
socket == <<open, buffered, callbacks>>
vars == <<flow, socket, offered, written>>

Message == [id : 1..MaxOffered, bytes : Sizes, key : Keys \cup {NoKey}]

Droppable(m) == m.key # NoKey

(* The type invariant: the controller's bookkeeping keeps its shape.       *)
TypeOK ==
    /\ queue \in Seq(Message)
    /\ queuedBytes \in Nat
    /\ pressure \in -1..Patience
    /\ timer \in BOOLEAN /\ disposed \in BOOLEAN /\ open \in BOOLEAN
    /\ buffered \in Nat
    /\ callbacks \in Nat
    /\ offered \in Seq(Message) /\ written \in Seq(Message)

Init ==
    /\ queue = <<>> /\ queuedBytes = 0
    /\ pressure = -1 /\ timer = FALSE /\ disposed = FALSE
    /\ open = TRUE /\ buffered = 0 /\ callbacks = 0
    /\ offered = <<>> /\ written = <<>>
-----------------------------------------------------------------------------
Bytes(s) ==
    LET total[n \in 0..Len(s)] == IF n = 0 THEN 0 ELSE total[n - 1] + s[n].bytes
    IN total[Len(s)]

FirstOf(s, n) == SubSeq(s, 1, n)

(* dispose()                                                               *)
Dispose ==
    /\ disposed' = TRUE
    /\ timer' = FALSE
    /\ queue' = <<>>
    /\ queuedBytes' = 0
    /\ UNCHANGED pressure

(* #closeSlowClient                                                        *)
CloseSlowClient == Dispose /\ open' = FALSE

(* Mutant: no poll timer, the callbacks alone pump.                        *)
NoPollTimer == FALSE

(* The state of #timer while the client is pressured.                      *)
PollTimer == TRUE

(* #updatePressure, with the queue q of n bytes and b bytes in the socket. *)
UpdatePressure(q, n, b) ==
    LET since == IF pressure = -1 THEN 0 ELSE pressure IN
    \/ /\ ~open
       /\ Dispose /\ UNCHANGED open
    \/ /\ open /\ q = <<>> /\ b < HighWater
       /\ pressure' = -1 /\ timer' = FALSE
       /\ queue' = q /\ queuedBytes' = n /\ UNCHANGED <<disposed, open>>
    \/ /\ open /\ (q # <<>> \/ b >= HighWater) /\ since >= Patience
       /\ CloseSlowClient
    \/ /\ open /\ (q # <<>> \/ b >= HighWater) /\ since < Patience
       /\ pressure' = since /\ timer' = PollTimer
       /\ queue' = q /\ queuedBytes' = n /\ UNCHANGED <<disposed, open>>

(* #write of the messages s, when the socket owes c callbacks.             *)
Write(s, c) ==
    /\ written' = written \o s
    /\ buffered' = buffered + Bytes(s)
    /\ callbacks' = c + Len(s)

(* How many messages the loop of #pump writes: it stops at the high-water  *)
(* mark.                                                                   *)
Pumped(q) ==
    IF ~open THEN 0
    ELSE CHOOSE k \in 0..Len(q) :
            /\ \A j \in 0..k - 1 : buffered + Bytes(FirstOf(q, j)) < HighWater
            /\ k = Len(q) \/ buffered + Bytes(FirstOf(q, k)) >= HighWater

(* What the loop subtracts from #queuedBytes for the messages it writes.   *)
Subtracted(out) == Bytes(out)

(* #pump of the queue q of n bytes.                                        *)
Pump(q, n, c) ==
    LET out == FirstOf(q, Pumped(q)) IN
    /\ Write(out, c)
    /\ UpdatePressure(SubSeq(q, Pumped(q) + 1, Len(q)), n - Subtracted(out), buffered + Bytes(out))
-----------------------------------------------------------------------------
(* send(message), by the part of it that applies.                          *)

Offered(m) ==
    /\ ~disposed /\ open
    /\ Len(offered) < MaxOffered
    /\ m.id = Len(offered) + 1
    /\ offered' = Append(offered, m)

Unpressured == queue = <<>> /\ buffered < HighWater

SendDirect(m) ==
    /\ Unpressured
    /\ Write(<<m>>, callbacks)
    /\ UpdatePressure(<<>>, queuedBytes, buffered + m.bytes)

(* Mutant: whatever is last is replaced.                                   *)
CoalescesAny(m) == m.key # NoKey /\ queue # <<>>

(* Only an adjacent message of the same key is replaced.                   *)
Coalesces(m) == m.key # NoKey /\ queue # <<>> /\ Last(queue).key = m.key

FitsAfterCoalescing(n) == n <= MaxQueue

(* Mutant: the replacement is not accounted for.                           *)
ReplacedUncounted(m) == queuedBytes

(* #queuedBytes after m has replaced the last message.                     *)
ReplacedBytes(m) == queuedBytes + m.bytes - Last(queue).bytes

SendCoalesced(m) ==
    LET n == ReplacedBytes(m) IN
    /\ ~Unpressured
    /\ Coalesces(m)
    /\ IF FitsAfterCoalescing(n)
       THEN UpdatePressure(Append(Front(queue), m), n, buffered)
       ELSE UpdatePressure(Front(queue), n - m.bytes, buffered)
    /\ UNCHANGED <<written, buffered, callbacks>>

(* #discardDroppableUntil: when its loop has passed n messages, those of   *)
(* them that are kept, and #queuedBytes.  Droppable ones go until m fits.  *)
Discard(m) ==
    LET after[n \in 0..Len(queue)] ==
          IF n = 0 THEN [kept |-> <<>>, bytes |-> queuedBytes]
          ELSE LET d == after[n - 1] IN
               IF Droppable(queue[n]) /\ d.bytes + m.bytes > MaxQueue
               THEN [kept |-> d.kept, bytes |-> d.bytes - queue[n].bytes]
               ELSE [kept |-> Append(d.kept, queue[n]), bytes |-> d.bytes]
    IN after[Len(queue)]

SendQueued(m) ==
    LET d == Discard(m)
        n == d.bytes + m.bytes
    IN
    /\ ~Unpressured /\ ~Coalesces(m)
    /\ \/ /\ queuedBytes + m.bytes > MaxQueue /\ Droppable(m)   \* the update is dropped
          /\ UpdatePressure(queue, queuedBytes, buffered)
          /\ UNCHANGED <<written, buffered, callbacks>>
       \/ /\ ~Droppable(m) /\ n > MaxQueue
          /\ CloseSlowClient
          /\ UNCHANGED <<written, buffered, callbacks>>
       \/ /\ n <= MaxQueue
          /\ queuedBytes + m.bytes > MaxQueue => ~Droppable(m)
          /\ IF pressure >= Patience
             THEN CloseSlowClient /\ UNCHANGED <<written, buffered, callbacks>>
             ELSE Pump(Append(d.kept, m), n, callbacks)

Send(m) == Offered(m) /\ (SendDirect(m) \/ SendCoalesced(m) \/ SendQueued(m))
-----------------------------------------------------------------------------
(* The poll timer and the callbacks of socket.send, which only pump.       *)

TimerFires ==
    /\ timer
    /\ Pump(queue, queuedBytes, callbacks)
    /\ UNCHANGED offered

Callback ==
    /\ callbacks > 0
    /\ IF disposed
       THEN callbacks' = callbacks - 1 /\ UNCHANGED <<flow, open, buffered, written>>
       ELSE Pump(queue, queuedBytes, callbacks - 1)
    /\ UNCHANGED offered

(* External: the peer reads; the connection closes, which the protocol     *)
(* reports to the controller with dispose(); time passes.                  *)
Flush ==
    /\ \E b \in 0..buffered - 1 : buffered' = b
    /\ UNCHANGED <<flow, open, callbacks, offered, written>>

SocketCloses ==
    /\ open
    /\ open' = FALSE
    /\ UNCHANGED <<flow, buffered, callbacks, offered, written>>

CloseEvent ==
    /\ ~open /\ ~disposed
    /\ Dispose
    /\ UNCHANGED <<socket, offered, written>>

Tick ==
    /\ pressure \in 0..Patience - 1
    /\ pressure' = pressure + 1
    /\ UNCHANGED <<queue, queuedBytes, timer, disposed, socket, offered, written>>

Next ==
    \/ \E m \in Message : Send(m)
    \/ TimerFires \/ Callback
    \/ Flush \/ SocketCloses \/ CloseEvent \/ Tick

(* Timers fire and the clock runs; the peer need not read anything.        *)
Fairness == WF_vars(TimerFires) /\ WF_vars(Tick)

Spec == Init /\ [][Next]_vars

FairSpec == Spec /\ Fairness
-----------------------------------------------------------------------------
(* The flow control implements the lossy ordered channel: what it retains  *)
(* is pending, what it wrote is delivered, and disposal breaks it off.     *)
Channel == INSTANCE OutboundChannel
              WITH pending <- queue, delivered <- written, up <- ~disposed,
                   Cumulative <- Droppable

ImplementsChannel == Channel!Spec

(* The memory retained for a slow client, counted message by message and   *)
(* not by the running total that send tests, never exceeds maxQueueBytes,  *)
(* whatever was coalesced, discarded and pumped before.                    *)
MemoryBounded == Bytes(queue) <= MaxQueue

(* A retained message is never forgotten: whatever send, coalescing, a     *)
(* callback or a closing socket leaves in the queue, the poll timer is set *)
(* and will look at it again, and a disposed controller retains nothing.   *)
RetainedIsPolled == queue # <<>> => timer /\ ~disposed

(* A retained message does not stay for ever: the client reads it or the   *)
(* timer closes the socket, even if no callback ever comes.                *)
QueueDrains == (queue # <<>>) ~> (queue = <<>>)
=============================================================================
