---------------------------- MODULE DeliveryProofs ----------------------------
(***************************************************************************)
(* What reaches the browser, for every value of the constants:             *)
(*   OutboundFlow      the poll timer covers the queue, the queue stays    *)
(*                     within its bytes, and the controller implements     *)
(*                     OutboundChannel;                                    *)
(*   LiveConversation  the timeline has every entry once and in order, and *)
(*                     at rest is the timeline of a fresh snapshot;        *)
(*   ConversationSync  the projection at a revision is what the events up  *)
(*                     to it build, and never goes back.                   *)
(***************************************************************************)
EXTENDS OutboundFlow, LiveConversation, ConversationSync, SequenceTheorems,
        NaturalsInduction, WellFoundedInduction, TLAPS

(* RetainedIsPolled is not inductive: a timer that survived disposal could *)
(* put the controller back to work.                                        *)
PollInv ==
    /\ queue # <<>> => timer
    /\ timer => ~disposed

(* #updatePressure, run by a controller that is not disposed, leaves the   *)
(* queue empty or the timer set.                                           *)
LEMMA UpdatePressurePolls ==
  ASSUME NEW q, NEW n, NEW by, ~disposed, UpdatePressure(q, n, by)
  PROVE  PollInv'
  <1>1. CASE ~open /\ Dispose
    BY <1>1 DEF Dispose, PollInv
  <1>2. CASE q = <<>> /\ timer' = FALSE /\ queue' = q
    BY <1>2 DEF PollInv
  <1>3. CASE CloseSlowClient
    BY <1>3 DEF CloseSlowClient, Dispose, PollInv
  <1>4. CASE timer' = PollTimer /\ UNCHANGED disposed
    BY <1>4 DEF PollTimer, PollInv
  <1> QED BY <1>1, <1>2, <1>3, <1>4 DEF UpdatePressure

(* #pump ends with #updatePressure.                                        *)
LEMMA PumpPolls ==
  ASSUME NEW q, NEW n, NEW c, ~disposed, Pump(q, n, c)
  PROVE  PollInv'
  BY UpdatePressurePolls DEF Pump

(* Every part of send() ends with #updatePressure or by closing.           *)
LEMMA SendPolls ==
  ASSUME NEW m, Send(m)
  PROVE  PollInv'
  <1>0. ~disposed
    BY DEF Send, Offered
  <1>1. CASE SendDirect(m)
    BY <1>0, <1>1, UpdatePressurePolls DEF SendDirect
  <1>2. CASE SendCoalesced(m)
    BY <1>0, <1>2, UpdatePressurePolls DEF SendCoalesced
  <1>3. CASE SendQueued(m)
    <2>1. CASE UpdatePressure(queue, queuedBytes, buffered)
      BY <1>0, <2>1, UpdatePressurePolls
    <2>2. CASE CloseSlowClient
      BY <2>2 DEF CloseSlowClient, Dispose, PollInv
    <2>3. CASE \E q, n : Pump(q, n, callbacks)
      BY <1>0, <2>3, PumpPolls
    <2> QED BY <1>3, <2>1, <2>2, <2>3 DEF SendQueued
  <1> QED BY <1>1, <1>2, <1>3 DEF Send

(* Every step of the controller and of the socket keeps the timer on the   *)
(* queue.                                                                  *)
LEMMA StepPolls ==
  ASSUME PollInv, [Next]_vars
  PROVE  PollInv'
  <1>1. ASSUME NEW m \in Message, Send(m)
        PROVE  PollInv'
    BY <1>1, SendPolls
  <1>2. CASE TimerFires
    BY <1>2, PumpPolls DEF TimerFires, PollInv
  <1>3. CASE Callback
    <2>1. CASE disposed
      BY <1>3, <2>1 DEF Callback, flow, PollInv
    <2>2. CASE ~disposed
      BY <1>3, <2>2, PumpPolls DEF Callback
    <2> QED BY <2>1, <2>2
  <1>4. CASE Flush \/ SocketCloses
    BY <1>4 DEF Flush, SocketCloses, flow, PollInv
  <1>5. CASE CloseEvent
    BY <1>5 DEF CloseEvent, Dispose, PollInv
  <1>6. CASE Tick
    BY <1>6 DEF Tick, PollInv
  <1>7. CASE UNCHANGED vars
    BY <1>7 DEF vars, flow, PollInv
  <1> QED BY <1>1, <1>2, <1>3, <1>4, <1>5, <1>6, <1>7 DEF Next

(* In every behaviour of the controller, whatever the limits, a retained   *)
(* message has the poll timer set and the controller is not disposed.      *)
THEOREM RetainedPolled == Spec => []RetainedIsPolled
  <1>1. Init => PollInv
    BY DEF Init, PollInv
  <1>2. PollInv /\ [Next]_vars => PollInv'
    BY StepPolls
  <1>3. PollInv => RetainedIsPolled
    BY DEF PollInv, RetainedIsPolled
  <1> QED BY <1>1, <1>2, <1>3, PTL DEF Spec
-----------------------------------------------------------------------------
(* Counting bytes.                                                         *)

(* Induction over the naturals, by the least one that is missing.          *)
LEMMA Induction ==
  ASSUME NEW S \in SUBSET Nat, 0 \in S, \A n \in S : n + 1 \in S
  PROVE  \A n \in Nat : n \in S
  <1>1. SUFFICES ASSUME Nat \ S # {} PROVE FALSE
    OBVIOUS
  <1>2. PICK x \in Nat \ S : \A y \in Nat \ S : ~ (<<y, x>> \in OpToRel(<, Nat))
    <2>1. Nat \ S \in SUBSET Nat
      OBVIOUS
    <2> QED BY <1>1, <2>1, NatLessThanWellFounded, WFMin
  <1>3. \A y \in Nat \ S : ~ (y < x)
    BY <1>2 DEF OpToRel
  <1>4. x # 0 /\ x - 1 \in Nat /\ x - 1 \in S
    BY <1>3
  <1> QED BY <1>4

(* f begins with b and takes the steps that G tells.                       *)
Follows(f, G, by, V, n) ==
    f \in [0..n -> V] /\ f[0] = by /\ \A i \in 1..n : f[i] = G[i][f[i - 1]]

Steps(V, n) == [1..n -> [V -> V]]

(* A function that is given step by step exists.                           *)
LEMMA Stepwise ==
  ASSUME NEW V, NEW by \in V, NEW N \in Nat, NEW G \in Steps(V, N)
  PROVE  \E f : Follows(f, G, by, V, N)
  <1> USE DEF Steps, Follows
  <1> DEFINE Upto(n) == \E f : Follows(f, G, by, V, n)
             S == {n \in Nat : n <= N => Upto(n)}
  <1>1. 0 \in S
    <2> DEFINE f == [i \in 0..0 |-> by]
    <2>1. f \in [0..0 -> V] /\ f[0] = by /\ \A i \in 1..0 : f[i] = G[i][f[i - 1]]
      OBVIOUS
    <2> HIDE DEF f
    <2>2. Upto(0)
      BY <2>1
    <2> QED BY <2>2
  <1>2. ASSUME NEW n \in Nat, n + 1 <= N, Upto(n)
        PROVE  Upto(n + 1)
    <2>1. PICK g : Follows(g, G, by, V, n)
      BY <1>2
    <2> DEFINE v == G[n + 1][g[n]]
               f == [i \in 0..(n + 1) |-> IF i = n + 1 THEN v ELSE g[i]]
    <2>2. v \in V
      BY <1>2, <2>1
    <2>3. f \in [0..(n + 1) -> V]
      BY <2>1, <2>2
    <2>4. f[0] = by /\ f[n + 1] = v /\ \A i \in 0..n : f[i] = g[i]
      BY <2>1
    <2>5. \A i \in 1..(n + 1) : f[i] = G[i][f[i - 1]]
      BY <2>1, <2>4
    <2> HIDE DEF f
    <2> QED BY <2>3, <2>4, <2>5
  <1> HIDE DEF Upto
  <1>3. \A n \in S : n + 1 \in S
    BY <1>2
  <1> HIDE DEF S
  <1>4. N \in S
    BY <1>1, <1>3, Induction DEF S
  <1>5. Upto(N)
    BY <1>4 DEF S
  <1> QED BY <1>5 DEF Upto

(* A message has a positive size.                                          *)
LEMMA MessageBytes == \A m \in Message : m.bytes \in Nat \ {0}
  BY SizesAssumption DEF Message

(* The running totals of a sequence's messages.                            *)
IsTotal(f, s) ==
    /\ f \in [0..Len(s) -> Nat]
    /\ f[0] = 0 /\ \A i \in 1..Len(s) : f[i] = f[i - 1] + s[i].bytes

(* Bytes is the last of the running totals.                                *)
LEMMA BytesTotal ==
  ASSUME NEW s \in Seq(Message)
  PROVE  \E f : IsTotal(f, s) /\ Bytes(s) = f[Len(s)]
  <1>0. Len(s) \in Nat /\ \A i \in 1..Len(s) : s[i].bytes \in Nat
    BY MessageBytes
  <1> DEFINE G == [i \in 1..Len(s) |-> [x \in Nat |-> x + s[i].bytes]]
  <1>1. G \in Steps(Nat, Len(s))
    BY <1>0 DEF Steps
  <1>4. \A i \in 1..Len(s), x \in Nat : G[i][x] = x + s[i].bytes
    BY <1>0
  <1> HIDE DEF G
  <1>2. PICK f \in [0..Len(s) -> Nat] : f[0] = 0 /\ \A i \in 1..Len(s) : f[i] = G[i][f[i - 1]]
    <2>1. \E f : Follows(f, G, 0, Nat, Len(s))
      BY <1>0, <1>1, Stepwise
    <2> QED BY <2>1 DEF Follows
  <1>3. IsTotal(f, s)
    <2>1. \A i \in 1..Len(s) : i - 1 \in 0..Len(s) /\ f[i - 1] \in Nat
      BY <1>0
    <2> QED BY <1>2, <1>4, <2>1 DEF IsTotal
  <1> DEFINE Step(h) == [n \in 0..Len(s) |-> IF n = 0 THEN 0 ELSE h[n - 1] + s[n].bytes]
             t == CHOOSE h : h = Step(h)
  <1>5. f = Step(f)
    BY <1>0, <1>3 DEF IsTotal
  <1>6. t = Step(t)
    BY <1>5
  <1>7. Bytes(s) = t[Len(s)]
    BY DEF Bytes
  <1> HIDE DEF t
  <1> DEFINE E == {n \in Nat : n <= Len(s) => t[n] = f[n]}
  <1>8. \A n \in 0..Len(s) : t[n] = IF n = 0 THEN 0 ELSE t[n - 1] + s[n].bytes
    BY <1>6
  <1>9. 0 \in E /\ \A n \in E : n + 1 \in E
    BY <1>0, <1>3, <1>8 DEF IsTotal
  <1> HIDE DEF E
  <1>10. Len(s) \in E
    BY <1>0, <1>9, Induction DEF E
  <1> QED BY <1>0, <1>3, <1>7, <1>10 DEF E

(* Running totals agree where sequences do.                                *)
LEMMA TotalsAgree ==
  ASSUME NEW s \in Seq(Message), NEW t \in Seq(Message), NEW f, NEW g,
         IsTotal(f, s), IsTotal(g, t), NEW k \in Nat, k <= Len(s), k <= Len(t),
         \A i \in 1..k : s[i] = t[i]
  PROVE  f[k] = g[k]
  <1> DEFINE E == {n \in Nat : n <= k => f[n] = g[n]}
  <1>1. Len(s) \in Nat /\ Len(t) \in Nat
    OBVIOUS
  <1>2. 0 \in E
    BY DEF IsTotal
  <1>3. ASSUME NEW n \in Nat, n \in E PROVE n + 1 \in E
    BY <1>1, <1>3 DEF IsTotal
  <1> HIDE DEF E
  <1>4. k \in E
    BY <1>2, <1>3, Induction DEF E
  <1> QED BY <1>4 DEF E

(* What Bytes counts.                                                      *)
LEMMA BytesCount ==
  /\ Bytes(<<>>) = 0
  /\ \A s \in Seq(Message) : Bytes(s) \in Nat
  /\ \A s \in Seq(Message), m \in Message : Bytes(Append(s, m)) = Bytes(s) + m.bytes
  <1>1. Bytes(<<>>) = 0
    <2>1. <<>> \in Seq(Message)
      OBVIOUS
    <2> QED BY <2>1, BytesTotal DEF IsTotal
  <1>2. ASSUME NEW s \in Seq(Message) PROVE Bytes(s) \in Nat
    BY BytesTotal DEF IsTotal
  <1>3. ASSUME NEW s \in Seq(Message), NEW m \in Message
        PROVE  Bytes(Append(s, m)) = Bytes(s) + m.bytes
    <2> DEFINE t == Append(s, m)
    <2>1. /\ t \in Seq(Message) /\ Len(s) \in Nat /\ Len(t) = Len(s) + 1 /\ t[Len(s) + 1] = m
          /\ \A i \in 1..Len(s) : s[i] = t[i]
      OBVIOUS
    <2> HIDE DEF t
    <2>2. PICK f : IsTotal(f, s) /\ Bytes(s) = f[Len(s)]
      BY BytesTotal
    <2>3. PICK g : IsTotal(g, t) /\ Bytes(t) = g[Len(t)]
      BY <2>1, BytesTotal
    <2>4. f[Len(s)] = g[Len(s)]
      BY <2>1, <2>2, <2>3, TotalsAgree
    <2>5. g[Len(s) + 1] = g[Len(s)] + m.bytes
      BY <2>1, <2>3 DEF IsTotal
    <2> QED BY <2>1, <2>2, <2>3, <2>4, <2>5 DEF t
  <1> QED BY <1>1, <1>2, <1>3

(* A sequence's bytes are those of a first part and of the rest.           *)
LEMMA BytesSplit ==
  ASSUME NEW s \in Seq(Message), NEW k \in 0..Len(s)
  PROVE  /\ SubSeq(s, 1, k) \in Seq(Message) /\ SubSeq(s, k + 1, Len(s)) \in Seq(Message)
         /\ Bytes(s) = Bytes(SubSeq(s, 1, k)) + Bytes(SubSeq(s, k + 1, Len(s)))
  <1>0. Len(s) \in Nat
    OBVIOUS
  <1>1. PICK f : IsTotal(f, s) /\ Bytes(s) = f[Len(s)]
    BY BytesTotal
  <1>2. \A m \in 1..(Len(s) + 1), n \in 0..Len(s) : SubSeq(s, m, n) \in Seq(Message)
    BY <1>0
  <1>3. Bytes(SubSeq(s, 1, k)) = f[k]
    <2> DEFINE p == SubSeq(s, 1, k)
    <2>1. p \in Seq(Message) /\ Len(p) = k /\ \A i \in 1..k : p[i] = s[i]
      BY <1>0
    <2> HIDE DEF p
    <2>2. PICK g : IsTotal(g, p) /\ Bytes(p) = g[Len(p)]
      BY <2>1, BytesTotal
    <2>3. k \in Nat /\ k <= Len(s) /\ k <= Len(p)
      BY <1>0, <2>1
    <2>4. f[k] = g[k]
      BY <1>1, <2>1, <2>2, <2>3, TotalsAgree
    <2> QED BY <2>1, <2>2, <2>4 DEF p
  <1> DEFINE E == {j \in Nat : k + j <= Len(s) => Bytes(SubSeq(s, k + 1, k + j)) = f[k + j] - f[k]}
  <1>4. 0 \in E
    <2>1. SubSeq(s, k + 1, k + 0) = <<>>
      BY <1>0
    <2>2. k + 0 = k /\ f[k] \in Nat
      BY <1>0, <1>1 DEF IsTotal
    <2>3. Bytes(SubSeq(s, k + 1, k + 0)) = 0
      BY <2>1, BytesCount
    <2>4. f[k + 0] - f[k] = 0
      BY <2>2
    <2> QED BY <2>3, <2>4
  <1>5. ASSUME NEW j \in Nat, j \in E PROVE j + 1 \in E
    <2>1. SUFFICES ASSUME k + j + 1 <= Len(s)
                   PROVE  Bytes(SubSeq(s, k + 1, k + (j + 1))) = f[k + (j + 1)] - f[k]
      BY <1>0
    <2> DEFINE r == SubSeq(s, k + 1, k + j)
    <2>2. r \in Seq(Message) /\ s[k + (j + 1)] \in Message
      BY <1>0, <2>1
    <2>3. SubSeq(s, k + 1, k + (j + 1)) = Append(r, s[k + (j + 1)])
      BY <1>0, <2>1
    <2>4. Bytes(r) = f[k + j] - f[k]
      BY <1>0, <1>5, <2>1
    <2> HIDE DEF r
    <2>5. Bytes(SubSeq(s, k + 1, k + (j + 1))) = f[k + j] - f[k] + s[k + (j + 1)].bytes
      BY <2>2, <2>3, <2>4, BytesCount
    <2> DEFINE i == k + (j + 1)
    <2>7. i \in 1..Len(s) /\ i - 1 = k + j /\ k + j \in 0..Len(s)
      BY <1>0, <2>1
    <2>6. f[i] = f[i - 1] + s[i].bytes /\ f[k + j] \in Nat /\ f[k] \in Nat
      BY <1>0, <1>1, <2>7 DEF IsTotal
    <2> QED BY <2>2, <2>5, <2>6, <2>7, MessageBytes
  <1>9. E \in SUBSET Nat
    OBVIOUS
  <1> HIDE DEF E
  <1>6. Len(s) - k \in E
    <2>1. \A n \in Nat : n \in E
      BY <1>4, <1>5, <1>9, Induction
    <2> QED BY <1>0, <2>1
  <1>7. Bytes(SubSeq(s, k + 1, Len(s))) = f[Len(s)] - f[k]
    BY <1>0, <1>6 DEF E
  <1>8. f[Len(s)] \in Nat /\ f[k] \in Nat
    BY <1>0, <1>1 DEF IsTotal
  <1> QED BY <1>0, <1>1, <1>2, <1>3, <1>7, <1>8

-----------------------------------------------------------------------------
(* Discarding.                                                             *)

(* What the loop of #discardDroppableUntil does with the message at i.     *)
Discards(i, d, m) == Droppable(queue[i]) /\ d.bytes + m.bytes > MaxQueue

DiscardStep(i, d, m) ==
    IF Discards(i, d, m)
    THEN [kept |-> d.kept, bytes |-> d.bytes - queue[i].bytes]
    ELSE [kept |-> Append(d.kept, queue[i]), bytes |-> d.bytes]

Progress == [kept : Seq(Message), bytes : Int]

IsDiscard(f, m) ==
    /\ f \in [0..Len(queue) -> Progress]
    /\ f[0] = [kept |-> <<>>, bytes |-> queuedBytes]
    /\ \A i \in 1..Len(queue) : f[i] = DiscardStep(i, f[i - 1], m)

(* One turn of the loop.                                                   *)
LEMMA DiscardStepTyped ==
  ASSUME queue \in Seq(Message), NEW m \in Message, NEW i \in 1..Len(queue), NEW d \in Progress
  PROVE  DiscardStep(i, d, m) \in Progress
  <1>1. queue[i] \in Message /\ queue[i].bytes \in Int
    BY MessageBytes
  <1>2. d.kept \in Seq(Message) /\ d.bytes \in Int
    BY DEF Progress
  <1>3. Append(d.kept, queue[i]) \in Seq(Message) /\ d.bytes - queue[i].bytes \in Int
    BY <1>1, <1>2
  <1> QED BY <1>2, <1>3 DEF DiscardStep, Progress

(* Discard is what the loop has reached at the end of the queue.           *)
LEMMA DiscardLoop ==
  ASSUME queue \in Seq(Message), queuedBytes \in Int, NEW m \in Message
  PROVE  \E f : IsDiscard(f, m) /\ Discard(m) = f[Len(queue)]
  <1>0. Len(queue) \in Nat
    OBVIOUS
  <1> DEFINE by == [kept |-> <<>>, bytes |-> queuedBytes]
             G == [i \in 1..Len(queue) |-> [d \in Progress |-> DiscardStep(i, d, m)]]
  <1>1. by \in Progress
    BY DEF Progress
  <1>2. G \in Steps(Progress, Len(queue))
    BY DiscardStepTyped DEF Steps
  <1>3. \A i \in 1..Len(queue), d \in Progress : G[i][d] = DiscardStep(i, d, m)
    OBVIOUS
  <1> HIDE DEF G, by
  <1>4. PICK f : Follows(f, G, by, Progress, Len(queue))
    BY <1>0, <1>1, <1>2, Stepwise
  <1>5. IsDiscard(f, m)
    <2>1. \A i \in 1..Len(queue) : i - 1 \in 0..Len(queue)
      BY <1>0
    <2>2. \A i \in 1..Len(queue) : f[i - 1] \in Progress
      BY <1>4, <2>1 DEF Follows
    <2> QED BY <1>3, <1>4, <2>2 DEF Follows, IsDiscard, by
  <1> DEFINE Step(h) == [n \in 0..Len(queue) |->
                           IF n = 0 THEN by ELSE DiscardStep(n, h[n - 1], m)]
             t == CHOOSE h : h = Step(h)
  <1>6. f = Step(f)
    <2>1. \A n \in 0..Len(queue) : n # 0 => n \in 1..Len(queue)
      BY <1>0
    <2> QED BY <1>5, <2>1 DEF IsDiscard, by
  <1>7. t = Step(t)
    BY <1>6
  <1>8. Discard(m) = t[Len(queue)]
    BY DEF Discard, by, DiscardStep, Discards
  <1> HIDE DEF t
  <1>9. \A n \in 0..Len(queue) : t[n] = IF n = 0 THEN by ELSE DiscardStep(n, t[n - 1], m)
    BY <1>7
  <1> DEFINE E == {n \in Nat : n <= Len(queue) => t[n] = f[n]}
  <1>10. 0 \in E
    BY <1>0, <1>5, <1>9 DEF IsDiscard, by
  <1>11. ASSUME NEW n \in Nat, n \in E PROVE n + 1 \in E
    <2>1. SUFFICES ASSUME n + 1 <= Len(queue) PROVE t[n + 1] = f[n + 1]
      OBVIOUS
    <2>2. t[n] = f[n] /\ n + 1 \in 1..Len(queue) /\ n + 1 \in 0..Len(queue) /\ n + 1 # 0 /\ (n + 1) - 1 = n
      BY <1>0, <1>11, <2>1
    <2> QED BY <1>5, <1>9, <2>2 DEF IsDiscard
  <1> HIDE DEF E
  <1>12. Len(queue) \in E
    BY <1>0, <1>10, <1>11, Induction DEF E
  <1> QED BY <1>0, <1>5, <1>8, <1>12 DEF E

(* The loop's count is that of the messages it keeps and of those it has   *)
(* not reached.                                                            *)
LEMMA DiscardCounts ==
  ASSUME queue \in Seq(Message), queuedBytes = Bytes(queue), NEW m \in Message
  PROVE  /\ Discard(m).kept \in Seq(Message)
         /\ Discard(m).bytes = Bytes(Discard(m).kept)
  <1>0. Len(queue) \in Nat /\ queuedBytes \in Nat
    BY BytesCount
  <1>1. PICK f : IsDiscard(f, m) /\ Discard(m) = f[Len(queue)]
    BY <1>0, DiscardLoop
  <1>2. PICK g : IsTotal(g, queue) /\ Bytes(queue) = g[Len(queue)]
    BY BytesTotal
  <1> DEFINE E == {n \in Nat : n <= Len(queue) =>
                     f[n].bytes = queuedBytes - g[n] + Bytes(f[n].kept)}
  <1>3. 0 \in E
    <2>1. f[0].bytes = queuedBytes /\ f[0].kept = <<>> /\ g[0] = 0
      BY <1>1, <1>2 DEF IsDiscard, IsTotal
    <2> QED BY <1>0, <2>1, BytesCount
  <1>4. ASSUME NEW n \in Nat, n \in E PROVE n + 1 \in E
    <2>1. SUFFICES ASSUME n + 1 <= Len(queue)
                   PROVE  f[n + 1].bytes = queuedBytes - g[n + 1] + Bytes(f[n + 1].kept)
      OBVIOUS
    <2>2. n + 1 \in 1..Len(queue) /\ n \in 0..Len(queue) /\ n + 1 \in 0..Len(queue) /\ (n + 1) - 1 = n
      BY <1>0, <2>1
    <2>3. /\ f[n + 1] = DiscardStep(n + 1, f[n], m)
          /\ g[n + 1] = g[n] + queue[n + 1].bytes /\ g[n] \in Nat
      BY <1>1, <1>2, <2>2 DEF IsDiscard, IsTotal
    <2>4. f[n].kept \in Seq(Message) /\ f[n].bytes \in Int /\ queue[n + 1] \in Message
      BY <1>1, <2>2 DEF IsDiscard, Progress
    <2>5. queue[n + 1].bytes \in Nat
      BY <2>4, MessageBytes
    <2>6. f[n].bytes = queuedBytes - g[n] + Bytes(f[n].kept) /\ Bytes(f[n].kept) \in Nat
      BY <1>0, <1>4, <2>1, <2>4, BytesCount
    <2>7. CASE Discards(n + 1, f[n], m)
      <3>1. f[n + 1].kept = f[n].kept /\ f[n + 1].bytes = f[n].bytes - queue[n + 1].bytes
        BY <2>3, <2>7 DEF DiscardStep
      <3> QED BY <1>0, <2>3, <2>5, <2>6, <3>1
    <2>8. CASE ~Discards(n + 1, f[n], m)
      <3>1. f[n + 1].kept = Append(f[n].kept, queue[n + 1]) /\ f[n + 1].bytes = f[n].bytes
        BY <2>3, <2>8 DEF DiscardStep
      <3>2. Bytes(f[n + 1].kept) = Bytes(f[n].kept) + queue[n + 1].bytes
        BY <2>4, <3>1, BytesCount
      <3> QED BY <1>0, <2>3, <2>5, <2>6, <3>1, <3>2
    <2> QED BY <2>7, <2>8
  <1> HIDE DEF E
  <1>5. Len(queue) \in E
    BY <1>0, <1>3, <1>4, Induction DEF E
  <1>6. f[Len(queue)].bytes = queuedBytes - g[Len(queue)] + Bytes(f[Len(queue)].kept)
    BY <1>0, <1>5 DEF E
  <1>7. f[Len(queue)].kept \in Seq(Message)
    BY <1>0, <1>1 DEF IsDiscard, Progress
  <1>8. Bytes(f[Len(queue)].kept) \in Nat
    BY <1>7, BytesCount
  <1> QED BY <1>0, <1>1, <1>2, <1>6, <1>7, <1>8

-----------------------------------------------------------------------------
(* The memory of a slow client.                                            *)

(* The running total is the queue's true size, within the limit.           *)
Counted == queue \in Seq(Message) /\ queuedBytes = Bytes(queue) /\ queuedBytes <= MaxQueue

FlowInv == TypeOK /\ Counted

FlagsOK == pressure \in -1..Patience /\ timer \in BOOLEAN /\ disposed \in BOOLEAN /\ open \in BOOLEAN

(* An empty queue is counted, and dispose() leaves one.                    *)
LEMMA DisposeCounts == Dispose => Counted' /\ queuedBytes' \in Nat
  <1>1. <<>> \in Seq(Message) /\ 0 = Bytes(<<>>) /\ 0 <= MaxQueue
    BY BytesCount, LimitsAssumption
  <1>2. SUFFICES ASSUME Dispose PROVE Counted' /\ queuedBytes' \in Nat
    OBVIOUS
  <1>3. queue' = <<>> /\ queuedBytes' = 0
    BY <1>2 DEF Dispose
  <1> HIDE <1>2
  <1> QED BY <1>1, <1>3 DEF Counted

(* #updatePressure keeps what it is given, or nothing.                     *)
LEMMA UpdatePressureCounts ==
  ASSUME FlagsOK, NEW q \in Seq(Message), NEW n, n = Bytes(q), n <= MaxQueue, NEW by,
         UpdatePressure(q, n, by)
  PROVE  FlagsOK' /\ Counted'
  <1>1. Patience \in Nat \ {0}
    BY LimitsAssumption
  <1>2. CASE Dispose /\ open' \in BOOLEAN
    <2>1. FlagsOK'
      BY <1>2 DEF Dispose, FlagsOK
    <2> QED BY <1>2, <2>1, DisposeCounts
  <1>3. CASE queue' = q /\ queuedBytes' = n
    <2>1. Counted'
      BY <1>3 DEF Counted
    <2>2. CASE Dispose /\ open' \in BOOLEAN
      BY <1>2, <2>2
    <2>3. CASE pressure' = -1 /\ timer' = FALSE /\ UNCHANGED <<disposed, open>>
      <3>1. pressure' \in -1..Patience
        BY <1>1, <2>3
      <3> QED BY <2>1, <2>3, <3>1 DEF FlagsOK
    <2>4. CASE /\ pressure' = (IF pressure = -1 THEN 0 ELSE pressure) /\ timer' = PollTimer
               /\ UNCHANGED <<disposed, open>>
      BY <1>1, <2>1, <2>4 DEF FlagsOK, PollTimer
    <2> QED BY <2>2, <2>3, <2>4 DEF UpdatePressure, CloseSlowClient, FlagsOK
  <1> QED BY <1>2, <1>3 DEF UpdatePressure, CloseSlowClient, FlagsOK

(* The loop of #pump stops within the queue.                               *)
LEMMA PumpedWithin ==
  ASSUME NEW q \in Seq(Message), buffered \in Nat
  PROVE  Pumped(q) \in 0..Len(q)
  <1>0. Len(q) \in Nat /\ HighWater \in Nat
    BY LimitsAssumption
  <1>1. CASE ~open
    BY <1>0, <1>1 DEF Pumped
  <1>2. CASE open
    <2> DEFINE full(k) == buffered + Bytes(FirstOf(q, k)) >= HighWater
               T == {k \in 0..Len(q) : k = Len(q) \/ full(k)}
    <2>1. T \in SUBSET Nat /\ T # {}
      BY <1>0
    <2>2. PICK x \in T : \A y \in T : ~ (<<y, x>> \in OpToRel(<, Nat))
      BY <2>1, NatLessThanWellFounded, WFMin
    <2>3. \A y \in T : ~ (y < x)
      BY <2>1, <2>2 DEF OpToRel
    <2>4. x \in 0..Len(q) /\ (x = Len(q) \/ full(x))
      OBVIOUS
    <2>5. \A j \in 0..x - 1 : j \in 0..Len(q) /\ j # Len(q) /\ j < x
      BY <1>0, <2>4
    <2>6. \A j \in 0..x - 1 : ~full(j)
      BY <2>3, <2>5
    <2>7. \A j \in 0..x - 1 : buffered + Bytes(FirstOf(q, j)) \in Nat
      <3>1. \A j \in 0..Len(q) : SubSeq(q, 1, j) \in Seq(Message)
        BY BytesSplit
      <3>2. \A j \in 0..Len(q) : Bytes(SubSeq(q, 1, j)) \in Nat
        BY <3>1, BytesCount
      <3> QED BY <2>5, <3>2 DEF FirstOf
    <2>8. \A j \in 0..x - 1 : buffered + Bytes(FirstOf(q, j)) < HighWater
      BY <1>0, <2>6, <2>7
    <2> QED BY <1>2, <2>4, <2>8 DEF Pumped
  <1> QED BY <1>1, <1>2

(* #pump takes from the queue and from its count alike.                    *)
LEMMA PumpCounts ==
  ASSUME TypeOK, NEW q \in Seq(Message), NEW n, n = Bytes(q), n <= MaxQueue, NEW c \in Nat,
         Pump(q, n, c)
  PROVE  /\ FlagsOK' /\ Counted'
         /\ buffered' \in Nat /\ callbacks' \in Nat /\ written' \in Seq(Message)
  <1> DEFINE k == Pumped(q)
             out == SubSeq(q, 1, k)
             rest == SubSeq(q, k + 1, Len(q))
  <1>0. buffered \in Nat /\ FlagsOK /\ written \in Seq(Message) /\ MaxQueue \in Nat
    BY LimitsAssumption DEF TypeOK, FlagsOK
  <1>1. k \in 0..Len(q)
    BY <1>0, PumpedWithin
  <1> HIDE DEF k
  <1>2. out \in Seq(Message) /\ rest \in Seq(Message) /\ Bytes(q) = Bytes(out) + Bytes(rest)
    BY <1>1, BytesSplit
  <1>3. Write(out, c) /\ UpdatePressure(rest, n - Bytes(out), buffered + Bytes(out))
    BY DEF Pump, FirstOf, Subtracted, k
  <1> HIDE DEF out, rest
  <1>4. Bytes(out) \in Nat /\ Bytes(rest) \in Nat
    BY <1>2, BytesCount
  <1>5. n - Bytes(out) = Bytes(rest) /\ n - Bytes(out) <= MaxQueue
    BY <1>0, <1>2, <1>4
  <1>6. FlagsOK' /\ Counted'
    BY <1>0, <1>2, <1>3, <1>5, UpdatePressureCounts
  <1>7. Len(out) \in Nat /\ written \o out \in Seq(Message)
    BY <1>0, <1>2
  <1> QED BY <1>0, <1>3, <1>4, <1>6, <1>7 DEF Write

(* The last message and what is before it.                                 *)
LEMMA FrontBytes ==
  ASSUME NEW q \in Seq(Message), q # <<>>
  PROVE  /\ Front(q) \in Seq(Message) /\ Last(q) \in Message
         /\ Len(Front(q)) = Len(q) - 1 /\ q = Append(Front(q), Last(q))
         /\ Bytes(q) = Bytes(Front(q)) + Last(q).bytes
  <1>1. Len(q) \in Nat \ {0}
    OBVIOUS
  <1>2. Front(q) \in Seq(Message) /\ Len(Front(q)) = Len(q) - 1
    <2> DEFINE k == Len(q) - 1
    <2>1. k \in 0..Len(q) /\ k \in Nat
      BY <1>1
    <2> HIDE DEF k
    <2>2. SubSeq(q, 1, k) \in Seq(Message) /\ Len(SubSeq(q, 1, k)) = k
      BY <2>1, BytesSplit
    <2> QED BY <2>2 DEF Front, k
  <1>4. Last(q) \in Message
    BY <1>1 DEF Last
  <1>3. q = Append(Front(q), Last(q))
    BY <1>1 DEF Front, Last
  <1> QED BY <1>2, <1>3, <1>4, BytesCount

(* send() keeps the count and the limit, whatever it discards, replaces,   *)
(* retains or writes.                                                      *)
LEMMA SendCounts ==
  ASSUME FlowInv, NEW m \in Message, Send(m)
  PROVE  FlowInv'
  <1> USE DEF FlowInv
  <1>0. /\ FlagsOK /\ m.bytes \in Nat \ {0} /\ MaxQueue \in Nat
        /\ queuedBytes \in Nat /\ buffered \in Nat /\ callbacks \in Nat /\ written \in Seq(Message)
    BY LimitsAssumption, MessageBytes DEF TypeOK, FlagsOK
  <1>1. offered' \in Seq(Message)
    BY DEF Send, Offered, TypeOK
  <1>2. SUFFICES /\ FlagsOK' /\ Counted'
                 /\ buffered' \in Nat /\ callbacks' \in Nat /\ written' \in Seq(Message)
    <2>1. Counted' => queuedBytes' \in Nat
      BY BytesCount DEF Counted
    <2> QED BY <1>1, <2>1 DEF TypeOK, FlagsOK, Counted
  <1>3. CASE SendDirect(m)
    <2>1. queue = <<>> /\ Write(<<m>>, callbacks) /\ UpdatePressure(<<>>, queuedBytes, buffered + m.bytes)
      BY <1>3 DEF SendDirect, Unpressured
    <2>2. <<>> \in Seq(Message) /\ <<m>> \in Seq(Message) /\ <<m>> = Append(<<>>, m) /\ Len(<<m>>) = 1
      OBVIOUS
    <2>3. Bytes(<<m>>) \in Nat /\ written \o <<m>> \in Seq(Message)
      <3>1. Bytes(Append(<<>>, m)) = Bytes(<<>>) + m.bytes /\ Bytes(<<>>) = 0
        BY <2>2, BytesCount
      <3> QED BY <1>0, <2>2, <3>1
    <2>4. FlagsOK' /\ Counted'
      BY <1>0, <2>1, <2>2, UpdatePressureCounts DEF Counted
    <2> QED BY <1>0, <2>1, <2>2, <2>3, <2>4 DEF Write
  <1>4. CASE SendCoalesced(m)
    <2>1. queue # <<>> /\ UNCHANGED <<written, buffered, callbacks>>
      BY <1>4 DEF SendCoalesced, Coalesces
    <2>2. /\ Front(queue) \in Seq(Message) /\ Last(queue) \in Message
          /\ Bytes(queue) = Bytes(Front(queue)) + Last(queue).bytes
      BY <2>1, FrontBytes DEF Counted
    <2>3. /\ Append(Front(queue), m) \in Seq(Message) /\ Last(queue).bytes \in Nat
          /\ Bytes(Append(Front(queue), m)) = Bytes(Front(queue)) + m.bytes
          /\ Bytes(Front(queue)) \in Nat
      BY <2>2, BytesCount, MessageBytes
    <2>4. CASE /\ ReplacedBytes(m) <= MaxQueue
               /\ UpdatePressure(Append(Front(queue), m), ReplacedBytes(m), buffered)
      <3>1. ReplacedBytes(m) = Bytes(Append(Front(queue), m))
        BY <1>0, <2>2, <2>3 DEF ReplacedBytes, Counted
      <3> QED BY <1>0, <2>1, <2>3, <2>4, <3>1, UpdatePressureCounts
    <2>5. CASE UpdatePressure(Front(queue), ReplacedBytes(m) - m.bytes, buffered)
      <3>1. ReplacedBytes(m) - m.bytes = Bytes(Front(queue)) /\ Bytes(Front(queue)) <= MaxQueue
        <4>1. queuedBytes = Bytes(queue) /\ queuedBytes <= MaxQueue
          BY DEF Counted
        <4> QED BY <1>0, <2>2, <2>3, <4>1 DEF ReplacedBytes
      <3> QED BY <1>0, <2>1, <2>2, <2>5, <3>1, UpdatePressureCounts
    <2> QED BY <1>4, <2>4, <2>5 DEF SendCoalesced, FitsAfterCoalescing
  <1>5. CASE SendQueued(m)
    <2>1. CASE UpdatePressure(queue, queuedBytes, buffered) /\ UNCHANGED <<written, buffered, callbacks>>
      BY <1>0, <2>1, UpdatePressureCounts DEF Counted
    <2>2. CASE CloseSlowClient /\ UNCHANGED <<written, buffered, callbacks>>
      <3>1. Counted'
        BY <2>2, DisposeCounts DEF CloseSlowClient
      <3> QED BY <1>0, <2>2, <3>1 DEF CloseSlowClient, Dispose, FlagsOK
    <2> DEFINE d == Discard(m)
    <2>3. CASE d.bytes + m.bytes <= MaxQueue /\ Pump(Append(d.kept, m), d.bytes + m.bytes, callbacks)
      <3>1. d.kept \in Seq(Message) /\ d.bytes = Bytes(d.kept)
        BY DiscardCounts DEF Counted
      <3> HIDE DEF d
      <3>2. Append(d.kept, m) \in Seq(Message) /\ d.bytes + m.bytes = Bytes(Append(d.kept, m))
        BY <3>1, BytesCount
      <3> QED BY <1>0, <2>3, <3>2, PumpCounts
    <2> QED BY <1>5, <2>1, <2>2, <2>3 DEF SendQueued
  <1> QED BY <1>3, <1>4, <1>5 DEF Send

(* So does every other step.                                               *)
LEMMA StepCounts ==
  ASSUME FlowInv, PollInv, [Next]_vars
  PROVE  FlowInv'
  <1> USE DEF FlowInv
  <1>0. Patience \in Nat /\ MaxQueue \in Nat
    BY LimitsAssumption
  <1>1. ASSUME NEW m \in Message, Send(m)
        PROVE  FlowInv'
    BY <1>1, SendCounts
  <1>2. ASSUME NEW c \in Nat, Pump(queue, queuedBytes, c), UNCHANGED offered
        PROVE  FlowInv'
    <2>1. /\ FlagsOK' /\ Counted'
          /\ buffered' \in Nat /\ callbacks' \in Nat /\ written' \in Seq(Message)
      BY <1>2, PumpCounts DEF Counted
    <2>2. queuedBytes' \in Nat
      BY <2>1, BytesCount DEF Counted
    <2> QED BY <1>2, <2>1, <2>2 DEF TypeOK, FlagsOK, Counted
  <1>3. CASE TimerFires
    BY <1>2, <1>3 DEF TimerFires, TypeOK
  <1>4. CASE Callback
    <2>1. callbacks - 1 \in Nat
      BY <1>4 DEF Callback, TypeOK
    <2>2. CASE disposed
      BY <1>4, <2>1, <2>2 DEF Callback, flow, TypeOK, Counted
    <2>3. CASE ~disposed
      BY <1>2, <1>4, <2>1, <2>3 DEF Callback
    <2> QED BY <2>2, <2>3
  <1>5. CASE Flush
    BY <1>5 DEF Flush, flow, TypeOK, Counted
  <1>6. CASE SocketCloses
    BY <1>6 DEF SocketCloses, flow, TypeOK, Counted
  <1>7. CASE CloseEvent
    <2>1. Counted' /\ queuedBytes' \in Nat
      BY <1>7, DisposeCounts DEF CloseEvent
    <2> QED BY <1>7, <2>1 DEF CloseEvent, Dispose, socket, TypeOK, Counted
  <1>8. CASE Tick
    BY <1>0, <1>8 DEF Tick, socket, TypeOK, Counted
  <1>9. CASE UNCHANGED vars
    BY <1>9 DEF vars, flow, socket, TypeOK, Counted
  <1> QED BY <1>1, <1>3, <1>4, <1>5, <1>6, <1>7, <1>8, <1>9 DEF Next

(* The controller's bookkeeping keeps its types, and its running total is  *)
(* the size of its queue.                                                  *)
THEOREM FlowInvariance == Spec => [](FlowInv /\ PollInv)
  <1>1. Init => FlowInv /\ PollInv
    <2>1. <<>> \in Seq(Message) /\ 0 = Bytes(<<>>) /\ 0 <= MaxQueue
      BY BytesCount, LimitsAssumption
    <2>2. Init => pressure \in -1..Patience
      BY LimitsAssumption DEF Init
    <2>3. Init => Counted
      BY <2>1 DEF Init, Counted
    <2>4. Init => TypeOK
      <3>1. SUFFICES ASSUME Init PROVE TypeOK
        OBVIOUS
      <3>2. queue \in Seq(Message) /\ offered \in Seq(Message) /\ written \in Seq(Message)
        BY <2>1, <3>1 DEF Init
      <3>3. queuedBytes \in Nat /\ buffered \in Nat /\ callbacks \in Nat
        BY <3>1 DEF Init
      <3>4. timer \in BOOLEAN /\ disposed \in BOOLEAN /\ open \in BOOLEAN
        BY <3>1 DEF Init
      <3> QED BY <2>2, <3>1, <3>2, <3>3, <3>4 DEF TypeOK
    <2>5. Init => PollInv
      BY DEF Init, PollInv
    <2> QED BY <2>3, <2>4, <2>5 DEF FlowInv
  <1>2. FlowInv /\ PollInv /\ [Next]_vars => FlowInv' /\ PollInv'
    BY StepCounts, StepPolls
  <1> QED BY <1>1, <1>2, PTL DEF Spec

(* Type correctness of the controller.                                     *)
THEOREM FlowTypeCorrect == Spec => []TypeOK
  <1>1. FlowInv /\ PollInv => TypeOK
    BY DEF FlowInv
  <1> QED BY <1>1, FlowInvariance, PTL

(* However messages of any sizes are coalesced, discarded, pumped and      *)
(* retained, what the controller holds for a slow client stays within      *)
(* maxQueueBytes.                                                          *)
THEOREM SlowClientBounded == Spec => []MemoryBounded
  <1>1. FlowInv /\ PollInv => MemoryBounded
    BY DEF FlowInv, Counted, MemoryBounded
  <1> QED BY <1>1, FlowInvariance, PTL

-----------------------------------------------------------------------------
(* The refinement.                                                         *)

(* t tells what is left of the first n messages of s without those in R.   *)
IsThin(t, s, R) ==
    /\ t[0] = <<>>
    /\ \A i \in 1..Len(s) : t[i] = IF i \in R THEN t[i - 1] ELSE Append(t[i - 1], s[i])

(* Whatever takes the steps of Thin ends as Thin does.                     *)
LEMMA ThinValue ==
  ASSUME NEW s \in Seq(Message), NEW R, NEW t, IsThin(t, s, R)
  PROVE  Channel!Thin(s, R) = t[Len(s)]
  <1>0. Len(s) \in Nat
    OBVIOUS
  <1> DEFINE Step(h) == [n \in 0..Len(s) |->
                IF n = 0 THEN <<>> ELSE IF n \in R THEN h[n - 1] ELSE Append(h[n - 1], s[n])]
             u == CHOOSE h : h = Step(h)
             f == [n \in 0..Len(s) |-> t[n]]
  <1>1. f = Step(f)
    <2>1. \A n \in 0..Len(s) : n # 0 => n \in 1..Len(s) /\ n - 1 \in 0..Len(s)
      BY <1>0
    <2>2. \A n \in 0..Len(s) : f[n] =
             IF n = 0 THEN <<>> ELSE IF n \in R THEN f[n - 1] ELSE Append(f[n - 1], s[n])
      BY <2>1 DEF IsThin
    <2> QED BY <2>2
  <1>2. u = Step(u)
    BY <1>1
  <1>3. Channel!Thin(s, R) = u[Len(s)]
    BY DEF Channel!Thin
  <1> HIDE DEF u
  <1>4. \A n \in 0..Len(s) : u[n] =
           IF n = 0 THEN <<>> ELSE IF n \in R THEN u[n - 1] ELSE Append(u[n - 1], s[n])
    BY <1>2
  <1> DEFINE E == {n \in Nat : n <= Len(s) => u[n] = t[n]}
  <1>5. 0 \in E
    BY <1>0, <1>4 DEF IsThin
  <1>6. ASSUME NEW n \in Nat, n \in E PROVE n + 1 \in E
    <2>1. SUFFICES ASSUME n + 1 <= Len(s) PROVE u[n + 1] = t[n + 1]
      OBVIOUS
    <2>2. u[n] = t[n] /\ n + 1 \in 1..Len(s) /\ n + 1 \in 0..Len(s) /\ n + 1 # 0 /\ (n + 1) - 1 = n
      BY <1>0, <1>6, <2>1
    <2> QED BY <1>4, <2>2 DEF IsThin
  <1> HIDE DEF E
  <1>7. Len(s) \in E
    BY <1>0, <1>5, <1>6, Induction DEF E
  <1> QED BY <1>0, <1>3, <1>7 DEF E

(* What is written and what #updatePressure then leaves is a move of the   *)
(* channel.                                                                *)
LEMMA UpdatePressureMoves ==
  ASSUME disposed = FALSE, NEW s \in Seq(Message), NEW k \in 0..Len(s), NEW n, NEW by,
         written' = written \o SubSeq(s, 1, k), UpdatePressure(SubSeq(s, k + 1, Len(s)), n, by)
  PROVE  Channel!Move(s)
  <1>1. \/ disposed' = TRUE /\ queue' = <<>>
        \/ disposed' = FALSE /\ queue' = SubSeq(s, k + 1, Len(s))
    BY DEF UpdatePressure, CloseSlowClient, Dispose
  <1>2. \/ (~disposed)' = FALSE /\ queue' = <<>>
        \/ (~disposed)' = TRUE /\ queue' = SubSeq(s, k + 1, Len(s))
    BY <1>1
  <1> QED BY <1>2 DEF Channel!Move

(* Keeping a whole sequence back.                                          *)
LEMMA RetainingMoves ==
  ASSUME disposed = FALSE, written \in Seq(Message), NEW s \in Seq(Message), NEW n, NEW by,
         UNCHANGED written, UpdatePressure(s, n, by)
  PROVE  Channel!Move(s)
  <1>1. SubSeq(s, 1, 0) = <<>> /\ SubSeq(s, 0 + 1, Len(s)) = s /\ 0 \in 0..Len(s)
    OBVIOUS
  <1>2. written \o <<>> = written
    OBVIOUS
  <1> QED BY <1>1, <1>2, UpdatePressureMoves

(* A client that is closed loses what was retained.                        *)
LEMMA ClosingMoves ==
  ASSUME written \in Seq(Message), NEW s \in Seq(Message), UNCHANGED written, Dispose
  PROVE  Channel!Move(s)
  <1>1. SubSeq(s, 1, 0) = <<>> /\ 0 \in 0..Len(s) /\ written \o <<>> = written
    OBVIOUS
  <1>2. (~disposed)' = FALSE /\ queue' = <<>>
    BY DEF Dispose
  <1> QED BY <1>1, <1>2 DEF Channel!Move

(* #pump delivers a first part of the queue.                               *)
LEMMA PumpMoves ==
  ASSUME disposed = FALSE, buffered \in Nat, NEW q \in Seq(Message), NEW n, NEW c, Pump(q, n, c)
  PROVE  Channel!Move(q)
  <1>1. Pumped(q) \in 0..Len(q)
    BY PumpedWithin
  <1>2. written' = written \o SubSeq(q, 1, Pumped(q))
    BY DEF Pump, Write, FirstOf
  <1>3. PICK r, by : UpdatePressure(SubSeq(q, Pumped(q) + 1, Len(q)), r, by)
    BY DEF Pump
  <1> QED BY <1>1, <1>2, <1>3, UpdatePressureMoves

(* Sequences without some of their last messages.                          *)
LEMMA ThinEnds ==
  ASSUME NEW q \in Seq(Message), NEW m \in Message
  PROVE  /\ Channel!Thin(Append(q, m), {}) = Append(q, m)
         /\ Channel!Thin(Append(q, m), {Len(q) + 1}) = q
         /\ q # <<>> => /\ Channel!Thin(Append(q, m), {Len(q)}) = Append(Front(q), m)
                        /\ Channel!Thin(Append(q, m), {Len(q), Len(q) + 1}) = Front(q)
  <1> DEFINE s == Append(q, m)
             L == Len(q)
             p == [n \in Nat |-> SubSeq(q, 1, n)]
  <1>0. /\ L \in Nat /\ s \in Seq(Message) /\ Len(s) = L + 1 /\ s[L + 1] = m
        /\ \A i \in 1..L : s[i] = q[i]
    OBVIOUS
  <1>p. \A n \in Nat : p[n] = SubSeq(q, 1, n)
    OBVIOUS
  <1> HIDE DEF p
  <1>1. p[0] = <<>> /\ p[L] = q /\ \A i \in 1..L : p[i] = Append(p[i - 1], q[i])
    <2>1. p[0] = <<>> /\ p[L] = q
      BY <1>0, <1>p
    <2>2. ASSUME NEW i \in 1..L PROVE SubSeq(q, 1, i) = Append(SubSeq(q, 1, i - 1), q[i])
      BY <1>0
    <2>3. \A i \in 1..L : i \in Nat /\ i - 1 \in Nat
      BY <1>0
    <2> QED BY <1>p, <2>1, <2>2, <2>3
  <1>2. q # <<>> => L \in 1..L /\ p[L - 1] = Front(q)
    <2>1. q # <<>> => L \in 1..L /\ L - 1 \in Nat
      BY <1>0
    <2> QED BY <1>p, <2>1 DEF Front
  <1>3. ASSUME NEW R \in SUBSET {L, L + 1}, L \in R => L # 0
        PROVE  Channel!Thin(s, R) =
                 LET before == IF L \in R THEN p[L - 1] ELSE q
                 IN IF L + 1 \in R THEN before ELSE Append(before, m)
    <2> DEFINE before == IF L \in R THEN p[L - 1] ELSE q
               last == IF L + 1 \in R THEN before ELSE Append(before, m)
               t == [n \in 0..(L + 1) |->
                       IF n = L + 1 THEN last ELSE IF n = L THEN before ELSE p[n]]
    <2>1. t[L + 1] = last /\ t[L] = before /\ \A n \in 0..(L - 1) : t[n] = p[n]
      BY <1>0
    <2>2. t[0] = <<>>
      BY <1>0, <1>1, <1>3, <2>1
    <2>3. ASSUME NEW i \in 1..(L - 1)
          PROVE  t[i] = IF i \in R THEN t[i - 1] ELSE Append(t[i - 1], s[i])
      <3>1. i \notin R /\ i \in 0..(L - 1) /\ i - 1 \in 0..(L - 1) /\ i \in 1..L
        BY <1>0
      <3> QED BY <1>0, <1>1, <2>1, <3>1
    <2>4. L # 0 => t[L] = IF L \in R THEN t[L - 1] ELSE Append(t[L - 1], s[L])
      <3>1. L # 0 => L - 1 \in 0..(L - 1) /\ L \in 1..L
        BY <1>0
      <3> QED BY <1>0, <1>1, <2>1, <3>1
    <2>5. t[L + 1] = IF L + 1 \in R THEN t[L] ELSE Append(t[L], s[L + 1])
      BY <1>0, <2>1
    <2> HIDE DEF t, last
    <2>6. ASSUME NEW i \in 1..Len(s)
          PROVE  t[i] = IF i \in R THEN t[i - 1] ELSE Append(t[i - 1], s[i])
      <3>1. i = L + 1 \/ (i = L /\ L # 0) \/ i \in 1..(L - 1)
        BY <1>0
      <3>2. CASE i = L + 1
        <4>1. i - 1 = L
          BY <1>0, <3>2
        <4> QED BY <2>5, <3>2, <4>1
      <3> QED BY <2>3, <2>4, <3>1, <3>2
    <2>7. IsThin(t, s, R)
      BY <2>2, <2>6 DEF IsThin
    <2>8. Channel!Thin(s, R) = t[L + 1]
      BY <1>0, <2>7, ThinValue
    <2> QED BY <2>1, <2>8 DEF last
  <1>4. L # L + 1
    BY <1>0
  <1>5. q # <<>> => L # 0
    OBVIOUS
  <1>6. /\ {} \in SUBSET {L, L + 1} /\ {L} \in SUBSET {L, L + 1}
        /\ {L + 1} \in SUBSET {L, L + 1} /\ {L, L + 1} \in SUBSET {L, L + 1}
    OBVIOUS
  <1> HIDE DEF s, L
  <1>7. Channel!Thin(s, {}) = Append(q, m)
    BY <1>3, <1>6
  <1>8. Channel!Thin(s, {L + 1}) = q
    BY <1>3, <1>4, <1>6
  <1>9. L # 0 => Channel!Thin(s, {L}) = Append(p[L - 1], m)
    BY <1>3, <1>4, <1>6
  <1>10. L # 0 => Channel!Thin(s, {L, L + 1}) = p[L - 1]
    BY <1>3, <1>4, <1>6
  <1> QED BY <1>2, <1>5, <1>7, <1>8, <1>9, <1>10 DEF s, L

(* #discardDroppableUntil removes droppable messages and no others.        *)
LEMMA DiscardThins ==
  ASSUME queue \in Seq(Message), queuedBytes \in Int, NEW m \in Message
  PROVE  \E R \in SUBSET {i \in 1..Len(queue) : Droppable(queue[i])} :
            Channel!Thin(Append(queue, m), R) = Append(Discard(m).kept, m)
  <1> DEFINE s == Append(queue, m)
             L == Len(queue)
  <1>0. /\ L \in Nat /\ s \in Seq(Message) /\ Len(s) = L + 1 /\ s[L + 1] = m
        /\ \A i \in 1..L : s[i] = queue[i]
    OBVIOUS
  <1>1. PICK f : IsDiscard(f, m) /\ Discard(m) = f[L]
    BY DiscardLoop
  <1> HIDE DEF s, L
  <1> DEFINE R == {i \in 1..L : Discards(i, f[i - 1], m)}
             t == [n \in 0..(L + 1) |-> IF n = L + 1 THEN Append(f[L].kept, m) ELSE f[n].kept]
  <1>2. t[L + 1] = Append(f[L].kept, m) /\ \A n \in 0..L : t[n] = f[n].kept
    BY <1>0
  <1>3. R \in SUBSET {i \in 1..L : Droppable(queue[i])} /\ L + 1 \notin R
    BY <1>0 DEF Discards
  <1>4. f[0].kept = <<>> /\ \A i \in 1..L : f[i] = DiscardStep(i, f[i - 1], m)
    BY <1>1 DEF IsDiscard, L
  <1>5. \A i \in 1..L : f[i].kept = IF i \in R THEN f[i - 1].kept ELSE Append(f[i - 1].kept, queue[i])
    <2>1. SUFFICES ASSUME NEW i \in 1..L
                   PROVE  f[i].kept = IF i \in R THEN f[i - 1].kept ELSE Append(f[i - 1].kept, queue[i])
      OBVIOUS
    <2>2. (i \in R <=> Discards(i, f[i - 1], m)) /\ f[i] = DiscardStep(i, f[i - 1], m)
      BY <1>4
    <2> HIDE DEF R
    <2>3. CASE i \in R
      BY <2>2, <2>3 DEF DiscardStep
    <2>4. CASE i \notin R
      BY <2>2, <2>4 DEF DiscardStep
    <2> QED BY <2>3, <2>4
  <1> HIDE DEF t, R
  <1>6. ASSUME NEW i \in 1..Len(s)
        PROVE  t[i] = IF i \in R THEN t[i - 1] ELSE Append(t[i - 1], s[i])
    <2>1. CASE i = L + 1
      <3>1. i - 1 = L /\ L \in 0..L
        BY <1>0, <2>1
      <3> QED BY <1>0, <1>2, <1>3, <2>1, <3>1
    <2>2. CASE i # L + 1
      <3>1. i \in 1..L /\ i \in 0..L /\ i - 1 \in 0..L
        BY <1>0, <2>2
      <3> QED BY <1>0, <1>2, <1>5, <3>1
    <2> QED BY <2>1, <2>2
  <1>7. t[0] = <<>>
    BY <1>0, <1>2, <1>4
  <1>8. Channel!Thin(s, R) = t[Len(s)]
    BY <1>0, <1>6, <1>7, ThinValue DEF IsThin
  <1> QED BY <1>0, <1>1, <1>2, <1>3, <1>8 DEF s, L

(* send() offers its message to the channel, and loses only droppable ones.*)
LEMMA SendOffers ==
  ASSUME FlowInv, NEW m \in Message, Send(m)
  PROVE  Channel!Offer(m)
  <1> DEFINE s == Append(queue, m)
             L == Len(queue)
             Droppables == {i \in DOMAIN s : Droppable(s[i])}
  <1>0. /\ disposed = FALSE /\ queue \in Seq(Message) /\ written \in Seq(Message)
        /\ buffered \in Nat /\ queuedBytes \in Int /\ offered' = Append(offered, m)
    BY DEF FlowInv, TypeOK, Send, Offered
  <1>1. /\ L \in Nat /\ s \in Seq(Message) /\ DOMAIN s = 1..(L + 1) /\ s[L + 1] = m
        /\ \A i \in 1..L : s[i] = queue[i]
    BY <1>0
  <1>2. ASSUME NEW R \in SUBSET Droppables, Channel!Move(Channel!Thin(s, R))
        PROVE  Channel!Offer(m)
    BY <1>0, <1>2 DEF Channel!Offer
  <1>3. /\ {} \in SUBSET Droppables
        /\ Droppable(m) => {L + 1} \in SUBSET Droppables
        /\ Droppable(m) /\ L # 0 /\ Droppable(queue[L]) =>
             {L} \in SUBSET Droppables /\ {L, L + 1} \in SUBSET Droppables
    BY <1>1
  <1> HIDE DEF s, L, Droppables
  <1>4. /\ Channel!Thin(s, {}) = s
        /\ Channel!Thin(s, {L + 1}) = queue
        /\ queue # <<>> => /\ Channel!Thin(s, {L}) = Append(Front(queue), m)
                           /\ Channel!Thin(s, {L, L + 1}) = Front(queue)
    BY <1>0, ThinEnds DEF s, L
  <1>5. CASE SendDirect(m)
    <2>1. /\ queue = <<>> /\ Write(<<m>>, callbacks)
          /\ UpdatePressure(<<>>, queuedBytes, buffered + m.bytes)
      BY <1>5 DEF SendDirect, Unpressured
    <2>2. s = <<m>> /\ s \in Seq(Message) /\ Len(s) = 1
      BY <1>1, <2>1 DEF s
    <2>3. SubSeq(s, 1, 1) = s /\ SubSeq(s, 1 + 1, Len(s)) = <<>> /\ 1 \in 0..Len(s)
      <3>1. SubSeq(s, 1, Len(s)) = s /\ SubSeq(s, Len(s) + 1, Len(s)) = <<>>
        BY <1>1
      <3> QED BY <2>2, <3>1
    <2>4. written' = written \o SubSeq(s, 1, 1)
      BY <2>1, <2>2, <2>3 DEF Write
    <2>5. UpdatePressure(SubSeq(s, 1 + 1, Len(s)), queuedBytes, buffered + m.bytes)
      BY <2>1, <2>3
    <2>6. Channel!Move(s)
      BY <1>0, <2>2, <2>3, <2>4, <2>5, UpdatePressureMoves
    <2> QED BY <1>2, <1>3, <1>4, <2>6
  <1>6. CASE SendCoalesced(m)
    <2>1. queue # <<>> /\ Droppable(m) /\ Last(queue).key = m.key /\ UNCHANGED written
      BY <1>6 DEF SendCoalesced, Coalesces, Droppable
    <2>2. L # 0 /\ Droppable(queue[L])
      BY <1>0, <2>1 DEF L, Last, Droppable
    <2>3. Front(queue) \in Seq(Message) /\ Append(Front(queue), m) \in Seq(Message)
      BY <1>0, <2>1, FrontBytes
    <2>4. CASE UpdatePressure(Append(Front(queue), m), ReplacedBytes(m), buffered)
      <3>1. Channel!Move(Append(Front(queue), m))
        BY <1>0, <2>1, <2>3, <2>4, RetainingMoves
      <3> QED BY <1>2, <1>3, <1>4, <2>1, <2>2, <3>1
    <2>5. CASE UpdatePressure(Front(queue), ReplacedBytes(m) - m.bytes, buffered)
      <3>1. Channel!Move(Front(queue))
        BY <1>0, <2>1, <2>3, <2>5, RetainingMoves
      <3> QED BY <1>2, <1>3, <1>4, <2>1, <2>2, <3>1
    <2> QED BY <1>6, <2>4, <2>5 DEF SendCoalesced
  <1>7. CASE SendQueued(m)
    <2>1. CASE /\ Droppable(m) /\ UpdatePressure(queue, queuedBytes, buffered)
               /\ UNCHANGED written
      <3>1. Channel!Move(queue)
        BY <1>0, <2>1, RetainingMoves
      <3> QED BY <1>2, <1>3, <1>4, <2>1, <3>1
    <2>2. CASE CloseSlowClient /\ UNCHANGED written
      <3>1. Channel!Move(s)
        BY <1>0, <1>1, <2>2, ClosingMoves DEF CloseSlowClient
      <3> QED BY <1>2, <1>3, <1>4, <3>1
    <2>3. CASE Pump(Append(Discard(m).kept, m), Discard(m).bytes + m.bytes, callbacks)
      <3>1. PICK R \in SUBSET {i \in 1..Len(queue) : Droppable(queue[i])} :
              Channel!Thin(Append(queue, m), R) = Append(Discard(m).kept, m)
        BY <1>0, DiscardThins
      <3>2. R \in SUBSET Droppables
        BY <1>1 DEF Droppables, L
      <3>3. Append(Discard(m).kept, m) \in Seq(Message)
        BY <1>0, DiscardCounts DEF FlowInv, Counted
      <3>4. Channel!Move(Append(Discard(m).kept, m))
        BY <1>0, <2>3, <3>3, PumpMoves
      <3> QED BY <1>2, <3>1, <3>2, <3>4 DEF s
    <2> QED BY <1>7, <2>1, <2>2, <2>3 DEF SendQueued
  <1> QED BY <1>5, <1>6, <1>7 DEF Send

(* A step of the controller is a step of the channel, or none.             *)
LEMMA StepImplements ==
  ASSUME FlowInv, PollInv, [Next]_vars
  PROVE  [Channel!Next]_(Channel!vars)
  <1>0. /\ queue \in Seq(Message) /\ written \in Seq(Message) /\ buffered \in Nat
        /\ disposed \in BOOLEAN
    BY DEF FlowInv, TypeOK
  <1>1. ASSUME NEW m \in Message, Send(m)
        PROVE  Channel!Next
    BY <1>1, SendOffers DEF Channel!Next
  <1>2. ASSUME disposed = FALSE, UNCHANGED offered, Channel!Move(queue)
        PROVE  Channel!Next
    BY <1>2 DEF Channel!Next, Channel!Drain
  <1>3. CASE TimerFires
    <2>1. disposed = FALSE
      BY <1>0, <1>3 DEF TimerFires, PollInv
    <2> QED BY <1>0, <1>2, <1>3, <2>1, PumpMoves DEF TimerFires
  <1>4. CASE Callback /\ disposed = FALSE
    BY <1>0, <1>2, <1>4, PumpMoves DEF Callback
  <1>5. CASE CloseEvent
    <2>1. disposed = FALSE
      BY <1>0, <1>5 DEF CloseEvent
    <2> QED BY <1>0, <1>2, <1>5, <2>1, ClosingMoves DEF CloseEvent
  <1>6. CASE UNCHANGED <<offered, queue, written, disposed>>
    BY <1>6 DEF Channel!vars
  <1>7. CASE Callback /\ disposed = TRUE
    BY <1>6, <1>7 DEF Callback, flow
  <1>8. CASE Flush \/ SocketCloses \/ Tick \/ UNCHANGED vars
    BY <1>6, <1>8 DEF Flush, SocketCloses, Tick, vars, flow, socket
  <1> QED BY <1>0, <1>1, <1>3, <1>4, <1>5, <1>7, <1>8 DEF Next

(* The flow control of one socket implements the lossy ordered channel:    *)
(* for every sequence of messages and limits, and every behaviour of the   *)
(* peer, what reaches the socket is what was sent, in order, without some  *)
(* cumulative messages, up to the point where the client is closed.        *)
THEOREM FlowImplementsChannel == Spec => ImplementsChannel
  <1>1. Init => Channel!Init
    BY DEF Init, Channel!Init
  <1>2. FlowInv /\ PollInv /\ [Next]_vars => [Channel!Next]_(Channel!vars)
    BY StepImplements
  <1> QED BY <1>1, <1>2, FlowInvariance, PTL DEF Spec, ImplementsChannel, Channel!Spec

-----------------------------------------------------------------------------
(* LiveConversation                                                        *)

\* The entry asks for a tool call, or holds the result of one.
Asks(m, c) == \E j \in DOMAIN m.parts : m.parts[j].call = c
Answers(m, c) == m.role = "toolResult" /\ m.call = c

\* What Pi puts in an entry.
WellFormed(m) ==
    /\ m \in Entries
    /\ m.role = "toolResult" => m.call \in Calls /\ m.parts = <<>>
    /\ m.role # "toolResult" => m.call = None
    /\ \A j \in DOMAIN m.parts :
          \/ /\ m.parts[j].type \in {"text", "thinking"}
             /\ m.parts[j].call = None
          \/ /\ m.role = "assistant"
             /\ m.parts[j].type = "tool-call" /\ m.parts[j].call \in Calls
    /\ \A j, l \in DOMAIN m.parts :
          m.parts[j].call = m.parts[l].call /\ m.parts[j].call \in Calls => j = l

Open == {"requested", "running", "succeeded", "failed"}

\* The identity of the latest answer of the model in the branch.
Latest == IF ending # None /\ ending.role = "assistant" THEN EntryId(Len(branch))
          ELSE lastAssistant

\* Each call is asked for once and answered at most once, afterwards.
OnceInBranch ==
    /\ \A i \in DOMAIN branch : WellFormed(branch[i])
    /\ \A i, k \in DOMAIN branch : \A c \in Calls :
          /\ Asks(branch[i], c) /\ Asks(branch[k], c) => i = k
          /\ Answers(branch[i], c) /\ Answers(branch[k], c) => i = k
          /\ Asks(branch[i], c) /\ Answers(branch[k], c) => i < k

\* How far Pi is with a call, and where the call is.
CallsInBranch ==
    \A c \in Calls :
        /\ tool[c] \in {"none", "named"} => \A i \in DOMAIN branch : ~Asks(branch[i], c)
        /\ tool[c] # "stored" => \A i \in DOMAIN branch : ~Answers(branch[i], c)
        /\ tool[c] \in Open => /\ agent = "running"
                               /\ \E k \in DOMAIN branch : /\ Latest = EntryId(k)
                                                           /\ Asks(branch[k], c)
        /\ tool[c] = "named" => now # None /\ Asks(now, c)

\* The message that Pi is producing.
Producing ==
    now # None =>
        /\ agent = "running" /\ ending = None /\ WellFormed(now)
        /\ \A c \in Calls : Asks(now, c) => tool[c] = "named"
        /\ now.role = "toolResult" =>
              tool[now.call] = IF now.failed THEN "failed" ELSE "succeeded"
        /\ now.role # "toolResult" => \A c \in Calls : tool[c] \notin Open

\* The entry that Pi has stored and the server has not yet told.
Deferred ==
    ending # None =>
        /\ branch # <<>> /\ ending = branch[Len(branch)]
        /\ ending.role = "assistant" =>
              \A c \in Calls : tool[c] \notin {"running", "succeeded", "failed"}

PiInv == OnceInBranch /\ CallsInBranch /\ Producing /\ Deferred

-----------------------------------------------------------------------------
\* Of Pi's state, what the browser's view of a call is compared with.
View == [tool |-> tool, branch |-> branch, overlooked |-> overlooked]

\* The status that a call has on the screen agrees with Pi's, unless a
\* snapshot overlooked how it had ended.
Told(v, c, status) ==
    \/ c \in v.overlooked
    \/ v.tool[c] \in {"requested", "running"} /\ status \in {"pending", "running"}
    \/ v.tool[c] \in {"succeeded", "failed"} /\ status = v.tool[c]
    \/ v.tool[c] = "stored" /\ status = CollectToolOutcomes(v.branch)[c]

\* Output of a call on the screen: the call runs, has ended, or has a result.
HasOutput(v, c) ==
    \/ v.tool[c] \in {"running", "succeeded", "failed"}
    \/ \E k \in DOMAIN v.branch : Answers(v.branch[k], c)

\* The blocks b show the parts of m, and then output of its calls.
ShowsParts(v, b, m) ==
    /\ Len(b) >= Len(m.parts)
    /\ \A j \in 1..Len(m.parts) :
          IF m.parts[j].type = "tool-call"
          THEN /\ b[j].type = "tool-call" /\ b[j].call = m.parts[j].call /\ b[j].text = 0
               /\ Told(v, b[j].call, b[j].status)
          ELSE b[j] = m.parts[j]
    /\ \A j \in (Len(m.parts) + 1)..Len(b) :
          /\ b[j].type = "tool-result" /\ b[j].call \in Calls
          /\ Asks(m, b[j].call) /\ HasOutput(v, b[j].call)

LiveRole(m) == IF m.role = "user" THEN "user" ELSE "assistant"

\* The message x of the browser shows the entry m at position i.
Shows(v, x, i, m) ==
    /\ x \in Messages
    /\ x.entryId = EntryId(i) /\ x.role = LiveRole(m)
    /\ x.stopReason = (m.role = "assistant")
    /\ IF m.role = "toolResult" THEN x.blocks = <<SerializeToolResult(m)>>
       ELSE ShowsParts(v, x.blocks, m)

\* The browser shows the first k entries.
ShowsFirst(k) ==
    /\ k <= Len(shown.messages)
    /\ \A i \in 1..k : Shows(View, shown.messages[i], i, branch[i])

\* ... and then nothing, or the entry m under its temporary identity.
ThenNothing(k) == Len(shown.messages) = k
ThenStreams(k, m) ==
    /\ Len(shown.messages) = k + 1
    /\ shown.messages[k + 1].entryId = StreamId(k + 1)
    /\ shown.messages[k + 1].role = LiveRole(m)

ShownInv ==
    \/ /\ ShowsFirst(Len(branch)) /\ ThenNothing(Len(branch))
    \/ /\ now # None
       /\ ShowsFirst(Len(branch)) /\ ThenStreams(Len(branch), now)
    \/ /\ ending # None
       /\ ShowsFirst(Len(branch) - 1)
       /\ ThenNothing(Len(branch) - 1) \/ ThenStreams(Len(branch) - 1, ending)

FieldsInv ==
    /\ shown.status = record.status /\ shown.title = record.title
    /\ shown.durable = record.durable
    /\ ending = None => shown.usage = ContextUsage

LiveInv == LiveTypeOK /\ PiInv /\ ShownInv /\ FieldsInv

-----------------------------------------------------------------------------
(* The operators of the projection                                         *)

\* The last position is the greatest one.
LEMMA LastPosition ==
    ASSUME NEW S, S \subseteq Int, NEW k \in S, \A y \in S : k >= y
    PROVE  Max(S) = k
<1>1. Max(S) \in S /\ \A y \in S : Max(S) >= y BY Zenon DEF Max
<1>2. Max(S) >= k BY <1>1
<1>3. k >= Max(S) BY <1>1
<1>4. k \in Int /\ Max(S) \in Int BY <1>1
<1> QED BY <1>2, <1>3, <1>4

\* The first and the last position of a set with one.
LEMMA OnePosition ==
    ASSUME NEW k \in Int
    PROVE  Min({k}) = k /\ Max({k}) = k
<1>1. k <= k OBVIOUS
<1>2. Min({k}) \in {k} BY <1>1, Zenon DEF Min
<1> QED BY <1>2, LastPosition

\* A message under a new identity is appended when it starts.
LEMMA ReplaceStarted ==
    ASSUME NEW ms \in Seq(Messages), NEW m \in Messages,
           \A i \in 1..Len(ms) : ms[i].entryId # m.entryId
    PROVE  ReplaceMessage(ms, m, FALSE) = Append(ms, m)
BY DEF ReplaceMessage, SelectInSeq, SelectLastInSeq

\* A completion replaces the message that has its identity already.
LEMMA ReplaceExact ==
    ASSUME NEW ms \in Seq(Messages), NEW m \in Messages, NEW k \in 1..Len(ms),
           \A i \in 1..Len(ms) : ms[i].entryId = m.entryId <=> i = k
    PROVE  ReplaceMessage(ms, m, TRUE) = [ms EXCEPT ![k] = m]
<1>1. {i \in 1..Len(ms) : ms[i].entryId = m.entryId} = {k} OBVIOUS
<1>2. Min({k}) = k /\ k # 0 BY OnePosition
<1> QED BY <1>1, <1>2 DEF ReplaceMessage, SelectInSeq, SelectLastInSeq

\* ... or else the one of its role that is streaming ...
LEMMA ReplaceStream ==
    ASSUME NEW ms \in Seq(Messages), NEW m \in Messages, NEW k \in 1..Len(ms),
           \A i \in 1..Len(ms) : ms[i].entryId # m.entryId,
           \A i \in 1..Len(ms) : ms[i].role = m.role /\ ms[i].entryId.kind = "stream" <=> i = k
    PROVE  ReplaceMessage(ms, m, TRUE) = [ms EXCEPT ![k] = m]
<1>1. {i \in 1..Len(ms) : ms[i].entryId = m.entryId} = {} OBVIOUS
<1>2. {i \in 1..Len(ms) : ms[i].role = m.role /\ ms[i].entryId.kind = "stream"} = {k} OBVIOUS
<1>3. k \in Int /\ k # 0 OBVIOUS
<1>4. Max({k}) = k BY <1>3, OnePosition
<1> QED BY <1>1, <1>2, <1>3, <1>4 DEF ReplaceMessage, SelectInSeq, SelectLastInSeq

\* ... and is appended when there is none.
LEMMA ReplaceNone ==
    ASSUME NEW ms \in Seq(Messages), NEW m \in Messages,
           \A i \in 1..Len(ms) : ms[i].entryId # m.entryId,
           \A i \in 1..Len(ms) : ms[i].entryId.kind # "stream"
    PROVE  ReplaceMessage(ms, m, TRUE) = Append(ms, m)
<1>1. {i \in 1..Len(ms) : ms[i].entryId = m.entryId} = {} OBVIOUS
<1>2. {i \in 1..Len(ms) : ms[i].role = m.role /\ ms[i].entryId.kind = "stream"} = {} OBVIOUS
<1> QED BY <1>1, <1>2 DEF ReplaceMessage, SelectInSeq, SelectLastInSeq

\* A projection with other messages.
WithMessages(s, ms) ==
    [messages |-> ms, status |-> s.status, title |-> s.title, durable |-> s.durable,
     usage |-> s.usage]

\* A start changes the messages alone.
LEMMA StartedIs ==
    ASSUME NEW s \in Screens, NEW m
    PROVE  ApplyConversationEvent(s, [type |-> "message.started", message |-> m])
             = WithMessages(s, ReplaceMessage(s.messages, m, FALSE))
<1> DEFINE e == [type |-> "message.started", message |-> m]
<1>1. e.type = "message.started" /\ e.message = m OBVIOUS
<1> HIDE DEF e
<1>2. ApplyFields(s, e) = s BY <1>1 DEF ApplyFields
<1> DEFINE ms == ReplaceMessage(s.messages, m, FALSE)
<1>3. ApplyMessageEvent(s.messages, e) = ms
    BY <1>1 DEF ApplyMessageEvent
<1> HIDE DEF ms
<1>4. ApplyConversationEvent(s, e) = WithMessages(s, ms)
    BY <1>2, <1>3 DEF ApplyConversationEvent, WithMessages, Screens
<1> QED BY <1>4 DEF e, ms

\* A completion brings the usage too.
LEMMA CompletedIs ==
    ASSUME NEW s \in Screens, NEW m, NEW u
    PROVE  ApplyConversationEvent(s, [type |-> "message.completed", message |-> m, usage |-> u])
             = [messages |-> ReplaceMessage(s.messages, m, TRUE), status |-> s.status,
                title |-> s.title, durable |-> s.durable, usage |-> u]
<1> DEFINE e == [type |-> "message.completed", message |-> m, usage |-> u]
<1>1. e.type = "message.completed" /\ e.message = m /\ e.usage = u OBVIOUS
<1> HIDE DEF e
<1> DEFINE t == [messages |-> s.messages, status |-> s.status, title |-> s.title,
                 durable |-> s.durable, usage |-> u]
<1>a. ApplyFields(s, e) = [s EXCEPT !.usage = u] BY <1>1 DEF ApplyFields
<1>2. ApplyFields(s, e) = t BY <1>a DEF Screens
<1> DEFINE ms == ReplaceMessage(s.messages, m, TRUE)
<1>3. ApplyMessageEvent(s.messages, e) = ms
    BY <1>1 DEF ApplyMessageEvent
<1> HIDE DEF ms
<1>4. ApplyConversationEvent(s, e) = [messages |-> ms, status |-> s.status,
                                        title |-> s.title, durable |-> s.durable, usage |-> u]
    <2>1. ApplyConversationEvent(s, e) = [t EXCEPT !.messages = ms]
        BY <1>2, <1>3 DEF ApplyConversationEvent
    <2> QED BY <2>1
<1> QED BY <1>4 DEF e, ms

\* A metadata event brings the record.
LEMMA MetadataIs ==
    ASSUME NEW s \in Screens, NEW r \in Records
    PROVE  ApplyConversationEvent(s, [type |-> "conversation.metadata", record |-> r])
             = [messages |-> s.messages, status |-> r.status, title |-> r.title,
                durable |-> r.durable, usage |-> s.usage]
<1> DEFINE e == [type |-> "conversation.metadata", record |-> r]
<1>1. e.type = "conversation.metadata" /\ e.record = r OBVIOUS
<1> HIDE DEF e
<1>2. ApplyFields(s, e)
        = [s EXCEPT !.title = r.title, !.durable = r.durable, !.status = r.status]
    BY <1>1 DEF ApplyFields
<1>3. ApplyMessageEvent(s.messages, e) = s.messages
    BY <1>1 DEF ApplyMessageEvent
<1>4. ApplyConversationEvent(s, e)
        = [messages |-> s.messages, status |-> r.status, title |-> r.title,
           durable |-> r.durable, usage |-> s.usage]
    BY <1>2, <1>3 DEF ApplyConversationEvent, Screens
<1> QED BY <1>4 DEF e

\* A status event brings the status.
LEMMA StatusIs ==
    ASSUME NEW s \in Screens, NEW status
    PROVE  ApplyConversationEvent(s, [type |-> "conversation.status", status |-> status])
             = [s EXCEPT !.status = status]
<1> DEFINE e == [type |-> "conversation.status", status |-> status]
<1>1. e.type = "conversation.status" /\ e.status = status OBVIOUS
<1> HIDE DEF e
<1>2. ApplyFields(s, e) = [s EXCEPT !.status = status]
    BY <1>1 DEF ApplyFields
<1>3. ApplyMessageEvent(s.messages, e) = s.messages
    BY <1>1 DEF ApplyMessageEvent
<1>4. ApplyConversationEvent(s, e) = [s EXCEPT !.status = status]
    BY <1>2, <1>3 DEF ApplyConversationEvent, Screens
<1> QED BY <1>4 DEF e

\* A compaction makes the usage unknown.
LEMMA CompactionIs ==
    ASSUME NEW s \in Screens
    PROVE  ApplyConversationEvent(s, [type |-> "compaction.completed"])
             = [s EXCEPT !.usage = None]
<1> DEFINE e == [type |-> "compaction.completed"]
<1>1. e.type = "compaction.completed" OBVIOUS
<1> HIDE DEF e
<1>2. ApplyFields(s, e) = [s EXCEPT !.usage = None]
    BY <1>1 DEF ApplyFields
<1>3. ApplyMessageEvent(s.messages, e) = s.messages
    BY <1>1 DEF ApplyMessageEvent
<1>4. ApplyConversationEvent(s, e) = [s EXCEPT !.usage = None]
    BY <1>2, <1>3 DEF ApplyConversationEvent, Screens
<1> QED BY <1>4 DEF e

\* A set of numbers that is not empty has a least element.
LEMMA LeastExists ==
    ASSUME NEW S \in SUBSET Nat, NEW s \in S
    PROVE  \E n \in S : \A y \in S : n <= y
<1>1. PICK n \in S : \A y \in S : ~ (<<y, n>> \in OpToRel(<, Nat))
    BY NatLessThanWellFounded, WFMin
<1>2. \A y \in S : ~ (y < n)
    BY <1>1 DEF OpToRel
<1> QED BY <1>2

\* A search for the first position finds one that is searched for.
LEMMA FirstPosition ==
    ASSUME NEW S \in SUBSET Nat, S # {}
    PROVE  Min(S) \in S
<1>1. \E n \in S : \A y \in S : n <= y BY LeastExists
<1> QED BY <1>1, Zenon DEF Min

\* The message of a tool event, found by its entry ...
LEMMA ToolById ==
    ASSUME NEW ms \in Seq(Messages), NEW id, NEW c, NEW k \in 1..Len(ms),
           \A i \in 1..Len(ms) : ms[i].entryId = id <=> i = k
    PROVE  ToolMessage(ms, id, c) = k
<1>1. {i \in 1..Len(ms) : ms[i].entryId = id} = {k} OBVIOUS
<1>2. k \in Int /\ k # 0 OBVIOUS
<1>3. Min({k}) = k BY <1>2, OnePosition
<1> QED BY <1>1, <1>2, <1>3 DEF ToolMessage, SelectInSeq

\* ... or by its call.
LEMMA ToolByCall ==
    ASSUME NEW ms \in Seq(Messages), NEW c, c # None, NEW k \in 1..Len(ms),
           \A i \in 1..Len(ms) : ms[i].entryId # None,
           \A i \in 1..Len(ms) : HasCall(ms[i], c) <=> i = k
    PROVE  ToolMessage(ms, None, c) = k
<1>1. {i \in 1..Len(ms) : ms[i].entryId = None} = {} OBVIOUS
<1>2. {i \in 1..Len(ms) : HasCall(ms[i], c)} = {k} OBVIOUS
<1>3. k \in Int /\ k # 0 OBVIOUS
<1>4. Min({k}) = k BY <1>3, OnePosition
<1> QED BY <1>1, <1>2, <1>3, <1>4 DEF ToolMessage, SelectInSeq

\* A block replaces one of its type and call, or is appended.
LEMMA PutIs ==
    ASSUME NEW b \in Seq(Blocks), NEW x \in Blocks
    PROVE  \/ /\ PutBlock(b, x) = Append(b, x)
              /\ \A i \in 1..Len(b) : ~(b[i].type = x.type /\ b[i].call = x.call)
           \/ \E l \in 1..Len(b) : /\ b[l].type = x.type /\ b[l].call = x.call
                                   /\ PutBlock(b, x) = [b EXCEPT ![l] = x]
<1> DEFINE S == {i \in 1..Len(b) : b[i].type = x.type /\ b[i].call = x.call}
<1>1. S \in SUBSET Nat OBVIOUS
<1>2. CASE S = {}
    <2>1. PutBlock(b, x) = Append(b, x) BY <1>2 DEF PutBlock, SelectInSeq
    <2> QED BY <1>2, <2>1
<1>3. CASE S # {}
    <2>1. Min(S) \in S BY <1>1, <1>3, FirstPosition
    <2>2. Min(S) # 0 BY <2>1
    <2>3. PutBlock(b, x) = [b EXCEPT ![Min(S)] = x]
        BY <1>3, <2>2 DEF PutBlock, SelectInSeq
    <2> QED BY <2>1, <2>3
<1> QED BY <1>2, <1>3

\* The messages with other blocks at k.
WithBlocks(ms, k, b) == [ms EXCEPT ![k] = [ms[k] EXCEPT !.blocks = b]]

\* A tool event without other effects changes the messages alone.
LEMMA ToolStartedIs ==
    ASSUME NEW s \in Screens, NEW id, NEW c, NEW k \in 1..Len(s.messages),
           s.messages[k].role = "assistant",
           \A i \in 1..Len(s.messages) : s.messages[i].entryId = id <=> i = k
    PROVE  ApplyConversationEvent(s, [type |-> "tool.started", id |-> id, call |-> c])
             = WithMessages(s, WithBlocks(s.messages, k,
                 PutBlock(s.messages[k].blocks, Block("tool-call", c, 0, "running"))))
<1> DEFINE e == [type |-> "tool.started", id |-> id, call |-> c]
           ms == s.messages
           ns == WithBlocks(ms, k, PutBlock(ms[k].blocks, Block("tool-call", c, 0, "running")))
<1>0. ms \in Seq(Messages) BY DEF Screens
<1>1. e.type = "tool.started" /\ e.id = id /\ e.call = c OBVIOUS
<1> HIDE DEF e
<1>2. ApplyFields(s, e) = s BY <1>1 DEF ApplyFields
<1>3. ToolMessage(ms, id, None) = k BY <1>0, ToolById
<1>4. ApplyMessageEvent(ms, e) = ns
    <2>1. k # 0 OBVIOUS
    <2>2. UpdateAssistant(ms, id,
              LAMBDA b : PutBlock(b, Block("tool-call", c, 0, "running")), None) = ns
        BY <1>0, <1>3, <2>1 DEF UpdateAssistant, WithBlocks
    <2> QED BY <1>1, <2>2 DEF ApplyMessageEvent
<1> HIDE DEF ns
<1>5. ApplyConversationEvent(s, e) = WithMessages(s, ns)
    BY <1>2, <1>4 DEF ApplyConversationEvent, WithMessages, Screens
<1> QED BY <1>5 DEF e, ns

\* Output of a call is put into the message that has the call ...
LEMMA ToolUpdatedIs ==
    ASSUME NEW s \in Screens, NEW c, c # None, NEW k \in 1..Len(s.messages),
           s.messages[k].role = "assistant",
           \A i \in 1..Len(s.messages) : s.messages[i].entryId # None,
           \A i \in 1..Len(s.messages) : HasCall(s.messages[i], c) <=> i = k
    PROVE  ApplyConversationEvent(s, [type |-> "tool.updated", call |-> c])
             = WithMessages(s, WithBlocks(s.messages, k,
                 PutBlock(UpdateToolCallStatus(s.messages[k].blocks, c, "running"),
                               Block("tool-result", c, Partial, "succeeded"))))
<1> DEFINE e == [type |-> "tool.updated", call |-> c]
           ms == s.messages
           ns == WithBlocks(ms, k,
                   PutBlock(UpdateToolCallStatus(ms[k].blocks, c, "running"),
                                 Block("tool-result", c, Partial, "succeeded")))
<1>0. ms \in Seq(Messages) BY DEF Screens
<1>1. e.type = "tool.updated" /\ e.call = c OBVIOUS
<1> HIDE DEF e
<1>2. ApplyFields(s, e) = s BY <1>1 DEF ApplyFields
<1>3. ToolMessage(ms, None, c) = k BY <1>0, ToolByCall
<1>4. ApplyMessageEvent(ms, e) = ns
    <2>1. k # 0 OBVIOUS
    <2>2. UpdateAssistant(ms, None,
              LAMBDA b : PutBlock(UpdateToolCallStatus(b, c, "running"),
                                       Block("tool-result", c, Partial, "succeeded")), c) = ns
        BY <1>0, <1>3, <2>1 DEF UpdateAssistant, WithBlocks
    <2> QED BY <1>1, <2>2 DEF ApplyMessageEvent
<1> HIDE DEF ns
<1>5. ApplyConversationEvent(s, e) = WithMessages(s, ns)
    BY <1>2, <1>4 DEF ApplyConversationEvent, WithMessages, Screens
<1> QED BY <1>5 DEF e, ns

\* ... and so is its outcome.
LEMMA ToolCompletedIs ==
    ASSUME NEW s \in Screens, NEW c, NEW status, c # None, NEW k \in 1..Len(s.messages),
           s.messages[k].role = "assistant",
           \A i \in 1..Len(s.messages) : s.messages[i].entryId # None,
           \A i \in 1..Len(s.messages) : HasCall(s.messages[i], c) <=> i = k
    PROVE  ApplyConversationEvent(s, [type |-> "tool.completed", call |-> c, status |-> status])
             = WithMessages(s, WithBlocks(s.messages, k,
                 PutBlock(UpdateToolCallStatus(s.messages[k].blocks, c, status),
                               Block("tool-result", c, Final, status))))
<1> DEFINE e == [type |-> "tool.completed", call |-> c, status |-> status]
           ms == s.messages
           ns == WithBlocks(ms, k,
                   PutBlock(UpdateToolCallStatus(ms[k].blocks, c, status),
                                 Block("tool-result", c, Final, status)))
<1>0. ms \in Seq(Messages) BY DEF Screens
<1>1. e.type = "tool.completed" /\ e.call = c /\ e.status = status OBVIOUS
<1> HIDE DEF e
<1>2. ApplyFields(s, e) = s BY <1>1 DEF ApplyFields
<1>3. ToolMessage(ms, None, c) = k BY <1>0, ToolByCall
<1>4. ApplyMessageEvent(ms, e) = ns
    <2>1. k # 0 OBVIOUS
    <2>2. UpdateAssistant(ms, None,
              LAMBDA b : PutBlock(UpdateToolCallStatus(b, c, status),
                                       Block("tool-result", c, Final, status)), c) = ns
        BY <1>0, <1>3, <2>1 DEF UpdateAssistant, WithBlocks
    <2> QED BY <1>1, <2>2 DEF ApplyMessageEvent
<1> HIDE DEF ns
<1>5. ApplyConversationEvent(s, e) = WithMessages(s, ns)
    BY <1>2, <1>4 DEF ApplyConversationEvent, WithMessages, Screens
<1> QED BY <1>5 DEF e, ns

\* The projection t is s with other blocks in the message id.
ChangesOnly(s, id, t) ==
    \E ns \in Seq(Messages) :
        /\ t = WithMessages(s, ns)
        /\ Len(ns) = Len(s.messages)
        /\ \A i \in 1..Len(ns) :
              /\ s.messages[i].entryId # id => ns[i] = s.messages[i]
              /\ ns[i].entryId = s.messages[i].entryId
              /\ ns[i].role = s.messages[i].role

\* A delta changes the blocks of the message that it names.
LEMMA DeltaIs ==
    ASSUME NEW s \in Screens, NEW id, NEW index \in Nat, NEW block \in {"text", "thinking"}
    PROVE  ChangesOnly(s, id,
             ApplyConversationEvent(s, [type |-> "message.delta", id |-> id,
                                              index |-> index, block |-> block]))
<1> DEFINE e == [type |-> "message.delta", id |-> id, index |-> index, block |-> block]
           ms == s.messages
           ns == [i \in DOMAIN ms |->
                    IF ms[i].entryId = id /\ ms[i].role = "assistant"
                    THEN [ms[i] EXCEPT !.blocks = ApplyDelta(@, index, block)]
                    ELSE ms[i]]
<1>0. ms \in Seq(Messages) BY DEF Screens
<1>1. e.type = "message.delta" /\ e.id = id /\ e.index = index /\ e.block = block OBVIOUS
<1> HIDE DEF e
<1>2. ApplyFields(s, e) = s BY <1>1 DEF ApplyFields
<1>3. ApplyMessageEvent(ms, e) = ns BY <1>1 DEF ApplyMessageEvent
<1>4. ASSUME NEW b \in Seq(Blocks) PROVE ApplyDelta(b, index, block) \in Seq(Blocks)
    <2>1. Block(block, None, 1, "none") \in Blocks BY DEF Block, Blocks
    <2>2. Append(b, Block(block, None, 1, "none")) \in Seq(Blocks) BY <2>1
    <2>3. CASE index \in DOMAIN b
        <3>1. b[index] \in Blocks BY <2>3
        <3>2. [b[index] EXCEPT !.text = b[index].text + 1] \in Blocks BY <3>1 DEF Blocks
        <3>3. [b EXCEPT ![index].text = @ + 1] \in Seq(Blocks) BY <2>3, <3>2
        <3> QED BY <2>2, <3>3 DEF ApplyDelta
    <2>4. CASE index \notin DOMAIN b BY <2>2, <2>4 DEF ApplyDelta
    <2> QED BY <2>3, <2>4
<1>5. ASSUME NEW i \in 1..Len(ms)
      PROVE  /\ ns[i] \in Messages
             /\ ms[i].entryId # id => ns[i] = ms[i]
             /\ ns[i].entryId = ms[i].entryId
             /\ ns[i].role = ms[i].role
    <2>1. ms[i] \in Messages BY <1>0
    <2>2. ms[i].blocks \in Seq(Blocks) BY <2>1 DEF Messages
    <2>3. ApplyDelta(ms[i].blocks, index, block) \in Seq(Blocks) BY <1>4, <2>2
    <2>4. i \in DOMAIN ms BY <1>0
    <2> QED BY <2>1, <2>3, <2>4 DEF Messages
<1>6. DOMAIN ns = 1..Len(ms) BY <1>0
<1> HIDE DEF ns
<1>7. Len(ms) \in Nat BY <1>0
<1>8. ns \in Seq(Messages) /\ Len(ns) = Len(ms)
    <2>1. ns = [i \in 1..Len(ms) |-> ns[i]] BY <1>3, <1>6 DEF ns
    <2>2. ns \in [1..Len(ms) -> Messages] BY <2>1, <1>5
    <2> QED BY <2>2, <1>7
<1>9. ApplyConversationEvent(s, e) = WithMessages(s, ns)
    BY <1>2, <1>3 DEF ApplyConversationEvent, WithMessages, Screens
<1>10. ChangesOnly(s, id, ApplyConversationEvent(s, e)) BY <1>5, <1>8, <1>9 DEF ChangesOnly
<1> QED BY <1>10 DEF e

-----------------------------------------------------------------------------
(* Serialization                                                           *)

Outcomes == [Calls -> {"pending", "succeeded", "failed"}]

(* Outcomes are pending, succeeded or failed.                              *)
LEMMA OutcomesType ==
    ASSUME NEW entries
    PROVE  CollectToolOutcomes(entries) \in Outcomes /\ NoOutcomes \in Outcomes
BY DEF CollectToolOutcomes, NoOutcomes, Outcomes

\* A call without a stored result is pending.
LEMMA OutcomePending ==
    ASSUME NEW entries, NEW c \in Calls, \A i \in DOMAIN entries : ~Answers(entries[i], c)
    PROVE  CollectToolOutcomes(entries)[c] = "pending"
BY DEF CollectToolOutcomes, Answers

\* An entry that is no result of the call leaves the outcome, and one that is
\* the first result decides it.
LEMMA OutcomeAppend ==
    ASSUME NEW entries \in Seq(Entries), NEW m \in Entries, NEW c \in Calls
    PROVE  /\ ~Answers(m, c) => CollectToolOutcomes(Append(entries, m))[c]
                                  = CollectToolOutcomes(entries)[c]
           /\ Answers(m, c) /\ (\A i \in DOMAIN entries : ~Answers(entries[i], c)) =>
                 CollectToolOutcomes(Append(entries, m))[c]
                   = IF m.failed THEN "failed" ELSE "succeeded"
<1> DEFINE longer == Append(entries, m)
           n == Len(entries)
           Failed(x) == Answers(x, c) /\ x.failed
<1>0. n \in Nat /\ DOMAIN entries = 1..n OBVIOUS
<1>1. DOMAIN longer = 1..(n + 1) /\ longer[n + 1] = m /\ \A i \in 1..n : longer[i] = entries[i]
    OBVIOUS
<1> HIDE DEF longer, n
<1>2. ASSUME NEW es
      PROVE  CollectToolOutcomes(es)[c] =
                IF \E i \in DOMAIN es : Answers(es[i], c)
                THEN IF \E i \in DOMAIN es : Failed(es[i]) THEN "failed" ELSE "succeeded"
                ELSE "pending"
    BY DEF CollectToolOutcomes, Answers
<1>3. (\E i \in DOMAIN longer : Answers(longer[i], c))
        <=> Answers(m, c) \/ \E i \in DOMAIN entries : Answers(entries[i], c)
    BY <1>0, <1>1
<1>4. (\E i \in DOMAIN longer : Failed(longer[i]))
        <=> Failed(m) \/ \E i \in DOMAIN entries : Failed(entries[i])
    <2> HIDE DEF Failed
    <2> QED BY <1>0, <1>1
<1>5. ASSUME ~Answers(m, c)
      PROVE  CollectToolOutcomes(longer)[c] = CollectToolOutcomes(entries)[c]
    BY <1>2, <1>3, <1>4, <1>5
<1>6. ASSUME Answers(m, c), \A i \in DOMAIN entries : ~Answers(entries[i], c)
      PROVE  CollectToolOutcomes(longer)[c] = IF m.failed THEN "failed" ELSE "succeeded"
    BY <1>2, <1>3, <1>4, <1>6
<1> QED BY <1>5, <1>6 DEF longer

\* What the serialized form of an entry has.
LEMMA SerializedIs ==
    ASSUME NEW m, WellFormed(m), NEW id \in MessageIds, NEW o \in Outcomes,
           NEW x, x = SerializeEntry(m, id, o)
    PROVE  /\ x \in Messages
           /\ x.entryId = id /\ x.role = LiveRole(m) /\ x.stopReason = (m.role = "assistant")
           /\ m.role = "toolResult" => x.blocks = <<SerializeToolResult(m)>>
           /\ m.role # "toolResult" =>
                 /\ Len(x.blocks) = Len(m.parts)
                 /\ \A j \in 1..Len(m.parts) :
                       x.blocks[j] = IF m.parts[j].type = "tool-call"
                                     THEN Block("tool-call", m.parts[j].call, 0, o[m.parts[j].call])
                                     ELSE m.parts[j]
<1>1. m \in Entries /\ m.parts \in Seq(Blocks) BY DEF WellFormed, Entries
<1>2. x = [entryId |-> id, role |-> LiveRole(m), stopReason |-> m.role = "assistant",
           blocks |-> SerializeBlocks(m, o)]
    BY DEF SerializeEntry, LiveRole
<1>3. x.entryId = id /\ x.role = LiveRole(m) /\ x.stopReason = (m.role = "assistant")
        /\ x.blocks = SerializeBlocks(m, o)
    BY <1>2
<1>4. CASE m.role = "toolResult"
    <2>1. x.blocks = <<SerializeToolResult(m)>> BY <1>3, <1>4 DEF SerializeBlocks
    <2>2. SerializeToolResult(m) \in Blocks
        BY <1>1, <1>4 DEF SerializeToolResult, Block, Blocks, Entries, Final
    <2>3. x.blocks \in Seq(Blocks) BY <2>1, <2>2
    <2>4. x \in Messages BY <1>2, <1>3, <2>3 DEF Messages, LiveRole
    <2> QED BY <1>3, <1>4, <2>1, <2>4
<1>5. CASE m.role # "toolResult"
    <2> DEFINE F(j) == IF m.parts[j].type = "tool-call"
                       THEN Block("tool-call", m.parts[j].call, 0, o[m.parts[j].call])
                       ELSE m.parts[j]
    <2>1. x.blocks = [j \in DOMAIN m.parts |-> F(j)] BY <1>3, <1>5 DEF SerializeBlocks
    <2>2. DOMAIN m.parts = 1..Len(m.parts) /\ Len(m.parts) \in Nat BY <1>1
    <2>3. ASSUME NEW j \in 1..Len(m.parts) PROVE F(j) \in Blocks
        <3>1. m.parts[j] \in Blocks BY <1>1, <2>2
        <3>2. CASE m.parts[j].type = "tool-call"
            <4>1. m.parts[j].call \in Calls BY <2>2, <3>2 DEF WellFormed
            <4>2. o[m.parts[j].call] \in {"pending", "succeeded", "failed"} BY <4>1 DEF Outcomes
            <4> QED BY <3>2, <4>1, <4>2 DEF Block, Blocks
        <3> QED BY <3>1, <3>2
    <2> HIDE DEF F
    <2>4. x.blocks \in [1..Len(m.parts) -> Blocks] BY <2>1, <2>2, <2>3
    <2>5. x.blocks \in Seq(Blocks) /\ Len(x.blocks) = Len(m.parts) BY <2>2, <2>4
    <2>6. x \in Messages BY <1>2, <1>3, <2>5 DEF Messages, LiveRole
    <2>7. \A j \in 1..Len(m.parts) : x.blocks[j] = F(j) BY <2>1, <2>2
    <2> QED BY <1>3, <1>5, <2>5, <2>6, <2>7 DEF F
<1> QED BY <1>4, <1>5

\* The serialized form of an entry shows it.
LEMMA SerializedShows ==
    ASSUME NEW v, NEW m, WellFormed(m), NEW i \in Nat, NEW o \in Outcomes,
           \A c \in Calls : Asks(m, c) => Told(v, c, o[c])
    PROVE  Shows(v, SerializeEntry(m, EntryId(i), o), i, m)
<1> DEFINE x == SerializeEntry(m, EntryId(i), o)
<1>1. EntryId(i) \in MessageIds BY DEF EntryId, MessageIds
<1>2. /\ x \in Messages
      /\ x.entryId = EntryId(i) /\ x.role = LiveRole(m) /\ x.stopReason = (m.role = "assistant")
      /\ m.role = "toolResult" => x.blocks = <<SerializeToolResult(m)>>
      /\ m.role # "toolResult" =>
            /\ Len(x.blocks) = Len(m.parts)
            /\ \A j \in 1..Len(m.parts) :
                  x.blocks[j] = IF m.parts[j].type = "tool-call"
                                THEN Block("tool-call", m.parts[j].call, 0, o[m.parts[j].call])
                                ELSE m.parts[j]
    BY <1>1, SerializedIs
<1> HIDE DEF x
<1>3. ASSUME m.role # "toolResult" PROVE ShowsParts(v, x.blocks, m)
    <2>1. Len(m.parts) \in Nat /\ DOMAIN m.parts = 1..Len(m.parts) BY DEF WellFormed, Entries
    <2>2. Len(x.blocks) >= Len(m.parts) BY <1>2, <1>3, <2>1
    <2>3. ASSUME NEW j \in 1..Len(m.parts), m.parts[j].type = "tool-call"
          PROVE  /\ x.blocks[j].type = "tool-call" /\ x.blocks[j].call = m.parts[j].call
                 /\ x.blocks[j].text = 0
                 /\ Told(v, x.blocks[j].call, x.blocks[j].status)
        <3>1. m.parts[j].call \in Calls /\ Asks(m, m.parts[j].call)
            BY <2>1, <2>3 DEF WellFormed, Asks
        <3>2. x.blocks[j] = Block("tool-call", m.parts[j].call, 0, o[m.parts[j].call])
            BY <1>2, <1>3, <2>3
        <3>3. /\ x.blocks[j].type = "tool-call" /\ x.blocks[j].call = m.parts[j].call
              /\ x.blocks[j].text = 0 /\ x.blocks[j].status = o[m.parts[j].call]
            BY <3>2 DEF Block
        <3> QED BY <3>1, <3>3
    <2>4. \A j \in 1..Len(m.parts) : m.parts[j].type # "tool-call" => x.blocks[j] = m.parts[j]
        BY <1>2, <1>3
    <2>5. (Len(m.parts) + 1)..Len(x.blocks) = {} BY <1>2, <1>3, <2>1
    <2> QED BY <2>2, <2>3, <2>4, <2>5 DEF ShowsParts
<1> QED BY <1>2, <1>3 DEF Shows, x

-----------------------------------------------------------------------------
(* What a step keeps of the browser's view                                 *)

\* What is told of a call under v is true under w.
Kept(v, w, c) ==
    /\ \A status : Told(v, c, status) => Told(w, c, status)
    /\ HasOutput(v, c) => HasOutput(w, c)

(* A message goes on showing its entry when what is told of its calls is   *)
(* kept.                                                                   *)
LEMMA ShowsKept ==
    ASSUME NEW v, NEW w, NEW x, NEW i, NEW m, WellFormed(m), Shows(v, x, i, m),
           \A c \in Calls : Asks(m, c) => Kept(v, w, c)
    PROVE  Shows(w, x, i, m)
<1>1. CASE m.role = "toolResult" BY <1>1 DEF Shows
<1>2. CASE m.role # "toolResult"
    <2>1. ShowsParts(v, x.blocks, m) BY <1>2 DEF Shows
    <2>2. Len(m.parts) \in Nat /\ DOMAIN m.parts = 1..Len(m.parts) BY DEF WellFormed, Entries
    <2>3. ASSUME NEW j \in 1..Len(m.parts), m.parts[j].type = "tool-call"
          PROVE  /\ x.blocks[j].type = "tool-call" /\ x.blocks[j].call = m.parts[j].call
                 /\ x.blocks[j].text = 0
                 /\ Told(w, x.blocks[j].call, x.blocks[j].status)
        <3>1. m.parts[j].call \in Calls /\ Asks(m, m.parts[j].call)
            BY <2>2, <2>3 DEF WellFormed, Asks
        <3>2. /\ x.blocks[j].type = "tool-call" /\ x.blocks[j].call = m.parts[j].call
              /\ x.blocks[j].text = 0
              /\ Told(v, x.blocks[j].call, x.blocks[j].status)
            BY <2>1, <2>3 DEF ShowsParts
        <3>3. Kept(v, w, x.blocks[j].call) BY <3>1, <3>2
        <3> QED BY <3>2, <3>3 DEF Kept
    <2>4. ASSUME NEW j \in (Len(m.parts) + 1)..Len(x.blocks)
          PROVE  /\ x.blocks[j].type = "tool-result" /\ x.blocks[j].call \in Calls
                 /\ Asks(m, x.blocks[j].call) /\ HasOutput(w, x.blocks[j].call)
        <3>1. /\ x.blocks[j].type = "tool-result" /\ x.blocks[j].call \in Calls
              /\ Asks(m, x.blocks[j].call) /\ HasOutput(v, x.blocks[j].call)
            BY <2>1 DEF ShowsParts
        <3> QED BY <3>1 DEF Kept
    <2>5. \A j \in 1..Len(m.parts) : m.parts[j].type # "tool-call" => x.blocks[j] = m.parts[j]
        BY <2>1 DEF ShowsParts
    <2>6. Len(x.blocks) >= Len(m.parts) BY <2>1 DEF ShowsParts
    <2>7. ShowsParts(w, x.blocks, m) BY <2>3, <2>4, <2>5, <2>6 DEF ShowsParts
    <2> QED BY <1>2, <2>7 DEF Shows
<1> QED BY <1>1, <1>2

\* A step that keeps what is told, the entries and the messages of the browser
\* up to the k-th keeps that the browser shows them.
LEMMA FirstKept ==
    ASSUME NEW k \in Nat, ShowsFirst(k), OnceInBranch, k <= Len(branch),
           branch \in Seq(Entries), k <= Len(shown'.messages),
           \A i \in 1..k : shown'.messages[i] = shown.messages[i] /\ branch'[i] = branch[i],
           \A c \in Calls : (\E i \in DOMAIN branch : Asks(branch[i], c)) => Kept(View, View', c)
    PROVE  ShowsFirst(k)'
<1>1. ASSUME NEW i \in 1..k PROVE Shows(View', shown'.messages[i], i, branch'[i])
    <2>1. i \in DOMAIN branch OBVIOUS
    <2>2. WellFormed(branch[i]) BY <2>1 DEF OnceInBranch
    <2>3. Shows(View, shown.messages[i], i, branch[i]) BY DEF ShowsFirst
    <2>4. Shows(View', shown.messages[i], i, branch[i]) BY <2>1, <2>2, <2>3, ShowsKept
    <2> QED BY <2>4
<1> QED BY <1>1 DEF ShowsFirst

(* What is told of a call depends on its state, its results and its place  *)
(* in overlooked.                                                          *)
LEMMA SameKept ==
    ASSUME UNCHANGED <<tool, branch, overlooked>>
    PROVE  \A c \in Calls : Kept(View, View', c)
BY DEF Kept, View

-----------------------------------------------------------------------------
(* Steps that neither produce nor tell a message                           *)

LEMMA QuietPi ==
    ASSUME PiInv, UNCHANGED <<now, branch, tool, ending, lastAssistant>>,
           \/ agent' = agent \/ agent' = "running"
           \/ now = None /\ \A c \in Calls : tool[c] \notin Open
    PROVE  PiInv'
<1>1. OnceInBranch' BY DEF PiInv, OnceInBranch
<1>2. Latest' = Latest BY DEF Latest
<1>3. CallsInBranch' BY <1>2 DEF PiInv, CallsInBranch
<1>4. Producing' BY DEF PiInv, Producing
<1>5. Deferred' BY DEF PiInv, Deferred
<1> QED BY <1>1, <1>3, <1>4, <1>5 DEF PiInv

(* A step that changes neither calls, branch nor screen keeps ShownInv.    *)
LEMMA QuietShown ==
    ASSUME ShownInv, UNCHANGED <<now, branch, tool, ending, overlooked>>,
           shown'.messages = shown.messages
    PROVE  ShownInv'
<1>1. View' = View BY DEF View
<1>2. \A k : ShowsFirst(k)' <=> ShowsFirst(k) BY <1>1 DEF ShowsFirst
<1>3. \A k : ThenNothing(k)' <=> ThenNothing(k) BY DEF ThenNothing
<1>4. \A k, m : ThenStreams(k, m)' <=> ThenStreams(k, m) BY DEF ThenStreams
<1> QED BY <1>2, <1>3, <1>4 DEF ShownInv

(* A read that begins has its type.                                        *)
LEMMA BeginType ==
    ASSUME LiveTypeOK, NEW op \in Reads, Begin(op)
    PROVE  reading' \in [Reads -> ReadStages] /\ reads' \in Nat
BY DEF LiveTypeOK, Begin, Access, ReadStages

(* A getState only begins a read.                                          *)
LEMMA StepGetState ==
    ASSUME LiveInv, GetState PROVE LiveInv'
<1> USE DEF pi, server, browser, LiveInv
<1>1. UNCHANGED <<now, branch, tool, ending, lastAssistant, agent, overlooked, shown, record, compacted>>
    BY DEF GetState
<1>2. PiInv' BY <1>1, QuietPi
<1>3. ShownInv' BY <1>1, QuietShown
<1>4. FieldsInv' BY <1>1 DEF FieldsInv, ContextUsage
<1>5. reading' \in [Reads -> ReadStages] /\ reads' \in Nat
    BY BeginType DEF GetState, Reads
<1>6. LiveTypeOK' BY <1>1, <1>5 DEF LiveTypeOK, GetState
<1> QED BY <1>2, <1>3, <1>4, <1>6

(* A rename gives the session a name and begins a read.                    *)
LEMMA StepRename ==
    ASSUME LiveInv, Rename PROVE LiveInv'
<1> USE DEF pi, server, browser, LiveInv
<1>1. UNCHANGED <<now, branch, tool, ending, lastAssistant, agent, overlooked, shown, record, compacted>>
    BY DEF Rename
<1>2. PiInv' BY <1>1, QuietPi
<1>3. ShownInv' BY <1>1, QuietShown
<1>4. FieldsInv' BY <1>1 DEF FieldsInv, ContextUsage
<1>5. reading' \in [Reads -> ReadStages] /\ reads' \in Nat
    BY BeginType DEF Rename, Reads
<1>6. LiveTypeOK' BY <1>1, <1>5 DEF LiveTypeOK, Rename
<1> QED BY <1>2, <1>3, <1>4, <1>6

(* A prompt only moves the agent.                                          *)
LEMMA StepPrompt ==
    ASSUME LiveInv, Prompt PROVE LiveInv'
<1> USE DEF pi, server, browser, LiveInv
<1>1. UNCHANGED <<now, branch, tool, ending, lastAssistant, overlooked, shown, record, compacted>>
    BY DEF Prompt
<1>2. PiInv'
    <2>1. now = None /\ \A c \in Calls : tool[c] \notin Open
        BY DEF Prompt, PiInv, Producing, CallsInBranch
    <2> QED BY <1>1, <2>1, QuietPi
<1>3. ShownInv' BY <1>1, QuietShown
<1>4. FieldsInv' BY <1>1 DEF FieldsInv, ContextUsage
<1>6. LiveTypeOK' BY <1>1 DEF LiveTypeOK, Prompt
<1> QED BY <1>2, <1>3, <1>4, <1>6

(* The loss of the file changes nothing that is shown.                     *)
LEMMA StepFileLost ==
    ASSUME LiveInv, FileLost PROVE LiveInv'
<1> USE DEF pi, server, browser, LiveInv
<1>1. UNCHANGED <<now, branch, tool, ending, lastAssistant, agent, overlooked, shown, record, compacted>>
    BY DEF FileLost
<1>2. PiInv' BY <1>1, QuietPi
<1>3. ShownInv' BY <1>1, QuietShown
<1>4. FieldsInv' BY <1>1 DEF FieldsInv, ContextUsage
<1>6. LiveTypeOK' BY <1>1 DEF LiveTypeOK, FileLost
<1> QED BY <1>2, <1>3, <1>4, <1>6

\* A status event is told as the record has it.
LEMMA EmitsStatus ==
    ASSUME LiveInv, NEW status \in {"idle", "streaming"}, EmitStatus(status),
           UNCHANGED <<branch, compacted, ending>>
    PROVE  /\ record' \in Records /\ shown' \in Screens
           /\ shown'.messages = shown.messages
           /\ FieldsInv'
<1> USE DEF LiveInv
<1>1. CASE record.status \in {status, "error"}
    BY <1>1 DEF EmitStatus, FieldsInv, ContextUsage, LiveTypeOK
<1>2. CASE record.status \notin {status, "error"}
    <2>1. record' = [record EXCEPT !.status = status] BY <1>2 DEF EmitStatus
    <2>2. shown' = [shown EXCEPT !.status = status]
        BY <1>2, StatusIs DEF EmitStatus, EmitEvent, LiveTypeOK
    <2>3. record \in Records /\ shown \in Screens BY DEF LiveTypeOK
    <2>4. record' \in Records /\ record'.status = status /\ record'.title = record.title
            /\ record'.durable = record.durable
        BY <2>1, <2>3 DEF Records
    <2>5. shown' \in Screens /\ shown'.status = status /\ shown'.title = shown.title
            /\ shown'.durable = shown.durable /\ shown'.usage = shown.usage
            /\ shown'.messages = shown.messages
        BY <2>2, <2>3 DEF Screens
    <2> QED BY <2>4, <2>5 DEF FieldsInv, ContextUsage
<1> QED BY <1>1, <1>2

(* The agent that starts shows its status ...                              *)
LEMMA StepAgentStarts ==
    ASSUME LiveInv, AgentStarts PROVE LiveInv'
<1> USE DEF LiveInv
<1>1. UNCHANGED <<now, branch, tool, ending, lastAssistant, overlooked, compacted>> /\ agent' = "running"
    BY DEF AgentStarts
<1>2. PiInv' BY <1>1, QuietPi
<1>3. /\ record' \in Records /\ shown' \in Screens
      /\ shown'.messages = shown.messages /\ FieldsInv'
    BY <1>1, EmitsStatus DEF AgentStarts
<1>4. ShownInv' BY <1>1, <1>3, QuietShown
<1>5. LiveTypeOK' BY <1>1, <1>3 DEF LiveTypeOK, AgentStarts
<1> QED BY <1>2, <1>3, <1>4, <1>5

(* ... and so does the one that ends, with no call open.                   *)
LEMMA StepAgentEnds ==
    ASSUME LiveInv, AgentEnds PROVE LiveInv'
<1> USE DEF LiveInv
<1>1. UNCHANGED <<now, branch, tool, ending, lastAssistant, overlooked, compacted>> /\ agent' = "idle"
    BY DEF AgentEnds
<1>2. now = None /\ \A c \in Calls : tool[c] \notin Open
    BY DEF AgentEnds, Unstored, Open
<1>3. PiInv' BY <1>1, <1>2, QuietPi
<1>4. /\ record' \in Records /\ shown' \in Screens
      /\ shown'.messages = shown.messages /\ FieldsInv'
    BY <1>1, EmitsStatus DEF AgentEnds
<1>5. ShownInv' BY <1>1, <1>4, QuietShown
<1>6. LiveTypeOK' BY <1>1, <1>4 DEF LiveTypeOK, AgentEnds
<1> QED BY <1>3, <1>4, <1>5, <1>6

(* A compaction makes the usage unknown, on the screen too.                *)
LEMMA StepCompacts ==
    ASSUME LiveInv, Compacts PROVE LiveInv'
<1> USE DEF server, LiveInv
<1>1. UNCHANGED <<now, branch, tool, ending, lastAssistant, overlooked, agent, record>> /\ compacted' = TRUE
    BY DEF Compacts
<1>2. shown \in Screens BY DEF LiveTypeOK
<1>3. shown' = [shown EXCEPT !.usage = None] BY <1>2, CompactionIs DEF Compacts, EmitEvent
<1>4. shown' \in Screens /\ shown'.status = shown.status /\ shown'.title = shown.title
        /\ shown'.durable = shown.durable /\ shown'.usage = None
        /\ shown'.messages = shown.messages
    BY <1>2, <1>3 DEF Screens
<1>5. PiInv' BY <1>1, QuietPi
<1>6. ShownInv' BY <1>1, <1>4, QuietShown
<1>7. FieldsInv' BY <1>1, <1>4 DEF FieldsInv, ContextUsage
<1>8. LiveTypeOK' BY <1>1, <1>4 DEF LiveTypeOK, Compacts
<1> QED BY <1>5, <1>6, <1>7, <1>8

-----------------------------------------------------------------------------
(* Snapshots                                                               *)

\* The record after a metadata event is what the browser shows.
LEMMA EmitsMetadata ==
    ASSUME LiveInv, record' \in Records,
           \/ shown' = shown /\ record' = record
           \/ EmitEvent(MetadataEvent),
           UNCHANGED <<branch, compacted, ending>>
    PROVE  /\ shown' \in Screens
           /\ shown'.messages = shown.messages
           /\ FieldsInv'
<1> USE DEF LiveInv
<1>1. shown \in Screens BY DEF LiveTypeOK
<1>2. CASE shown' = shown /\ record' = record
    BY <1>1, <1>2 DEF FieldsInv, ContextUsage
<1>3. CASE EmitEvent(MetadataEvent)
    <2>1. shown' = [messages |-> shown.messages, status |-> record'.status, title |-> record'.title,
                    durable |-> record'.durable, usage |-> shown.usage]
        BY <1>1, <1>3, MetadataIs DEF EmitEvent, MetadataEvent
    <2>2. shown' \in Screens BY <1>1, <2>1 DEF Screens, Records
    <2> QED BY <2>1, <2>2 DEF FieldsInv, ContextUsage
<1> QED BY <1>2, <1>3

\* A snapshot shows every entry of the branch.
LEMMA SnapshotShows ==
    ASSUME LiveInv, UNCHANGED <<branch, tool, now, ending, compacted>>, AcceptSnapshot,
           record' \in Records
    PROVE  /\ shown' \in Screens /\ overlooked' \subseteq Calls
           /\ ShownInv' /\ FieldsInv'
<1> USE DEF LiveInv
<1>1. shown' = [messages |-> SerializeActiveBranch(branch), status |-> record'.status,
                title |-> record'.title, durable |-> record'.durable, usage |-> ContextUsage]
    BY DEF AcceptSnapshot, Snapshot
<1> DEFINE o == CollectToolOutcomes(branch)
           ms == SerializeActiveBranch(branch)
<1>2. branch \in Seq(Entries) /\ Len(branch) \in Nat /\ DOMAIN branch = 1..Len(branch)
    BY DEF LiveTypeOK
<1>3. o \in Outcomes BY OutcomesType
<1>4. overlooked' = overlooked \cup {c \in Calls : tool[c] \in {"succeeded", "failed"}}
    BY DEF AcceptSnapshot
<1>5. ASSUME NEW c \in Calls, NEW i \in DOMAIN branch, Asks(branch[i], c)
      PROVE  Told(View', c, o[c])
    <2>0. View'.tool = tool /\ View'.branch = branch /\ View'.overlooked = overlooked'
        BY DEF View
    <2>1. tool[c] \in {"requested", "running", "succeeded", "failed", "stored"}
        <3>1. tool[c] \notin {"none", "named"} BY <1>5 DEF PiInv, CallsInBranch
        <3> QED BY <3>1 DEF LiveTypeOK
    <2>2. CASE tool[c] = "stored" BY <2>0, <2>2 DEF Told
    <2>3. CASE tool[c] \in {"succeeded", "failed"} BY <1>4, <2>0, <2>3 DEF Told
    <2>4. CASE tool[c] \in {"requested", "running"}
        <3>1. tool[c] # "stored" BY <2>4
        <3>2. \A k \in DOMAIN branch : ~Answers(branch[k], c) BY <3>1 DEF PiInv, CallsInBranch
        <3>3. o[c] = "pending" BY <3>2, OutcomePending
        <3> QED BY <2>0, <2>4, <3>3 DEF Told
    <2> QED BY <2>1, <2>2, <2>3, <2>4
<1>6. ms = [i \in 1..Len(branch) |-> SerializeEntry(branch[i], EntryId(i), o)]
    BY <1>2 DEF SerializeActiveBranch
<1> HIDE DEF o, ms
<1>7. ASSUME NEW i \in 1..Len(branch) PROVE Shows(View', ms[i], i, branch[i])
    <2>1. i \in Nat /\ i \in DOMAIN branch BY <1>2
    <2>2. WellFormed(branch[i]) BY <2>1 DEF PiInv, OnceInBranch
    <2>3. \A c \in Calls : Asks(branch[i], c) => Told(View', c, o[c]) BY <1>5, <2>1
    <2>4. Shows(View', SerializeEntry(branch[i], EntryId(i), o), i, branch[i])
        BY <1>3, <2>1, <2>2, <2>3, SerializedShows
    <2> QED BY <1>6, <2>4
<1>8. ms \in [1..Len(branch) -> Messages]
    <2>1. \A i \in 1..Len(branch) : ms[i] \in Messages BY <1>7 DEF Shows
    <2> QED BY <1>6, <2>1
<1>9. ms \in Seq(Messages) /\ Len(ms) = Len(branch) BY <1>2, <1>8
<1>10. shown'.messages = ms BY <1>1 DEF ms
<1>11. shown' \in Screens
    <2>1. ContextUsage \in Nat \cup {None} BY <1>2 DEF ContextUsage
    <2> QED BY <1>1, <1>9, <1>10, <2>1 DEF Screens, Records
<1>12. ShowsFirst(Len(branch))'
    BY <1>2, <1>7, <1>9, <1>10 DEF ShowsFirst
<1>13. ThenNothing(Len(branch))' BY <1>9, <1>10 DEF ThenNothing
<1>14. FieldsInv' BY <1>1 DEF FieldsInv, ContextUsage
<1>15. overlooked' \subseteq Calls BY <1>4 DEF LiveTypeOK
<1> QED BY <1>11, <1>12, <1>13, <1>14, <1>15 DEF ShownInv

(* A call that goes on after the record is reconciled answers with the     *)
(* branch, or is the rename.                                               *)
LEMMA StepContinues ==
    ASSUME LiveInv, NEW op \in Reads, Continues(op),
           UNCHANGED <<pi, ending, lastAssistant, reads>>
    PROVE  LiveInv'
<1> USE DEF pi, browser, LiveInv
<1>1. UNCHANGED <<now, branch, tool, ending, lastAssistant, agent, compacted, named, file, reads, record>>
    BY DEF Continues
<1>2. PiInv' BY <1>1, QuietPi
<1>3. reading' \in [Reads -> ReadStages]
    BY DEF Continues, Access, LiveTypeOK, Reads, ReadStages
<1>4. ASSUME shown' \in Screens, overlooked' \subseteq Calls
      PROVE  LiveTypeOK'
    BY <1>1, <1>3, <1>4 DEF LiveTypeOK
<1>5. CASE op = "rename"
    <2>1. UNCHANGED <<shown, overlooked>> BY <1>5 DEF Continues
    <2>2. ShownInv' BY <1>1, <2>1, QuietShown
    <2>3. FieldsInv' BY <1>1, <2>1 DEF FieldsInv, ContextUsage
    <2>4. LiveTypeOK' BY <1>4, <2>1 DEF LiveTypeOK
    <2> QED BY <1>2, <2>2, <2>3, <2>4
<1>6. CASE op # "rename"
    <2>1. AcceptSnapshot BY <1>6 DEF Continues
    <2>2. record' \in Records BY <1>1 DEF LiveTypeOK
    <2>3. shown' \in Screens /\ overlooked' \subseteq Calls /\ ShownInv' /\ FieldsInv'
        BY <1>1, <2>1, <2>2, SnapshotShows
    <2>4. LiveTypeOK' BY <1>4, <2>3
    <2> QED BY <1>2, <2>3, <2>4
<1> QED BY <1>5, <1>6

(* A read that has settled tells the record, or answers.                   *)
LEMMA StepRefreshed ==
    ASSUME LiveInv, NEW op \in Reads, Refreshed(op) PROVE LiveInv'
<1> USE DEF pi, LiveInv
<1> DEFINE missing == reading[op] = "absent" /\ record.durable
           current == [record EXCEPT !.title = TitleOf, !.durable = @ \/ reading[op] = "found"]
<1>1. UNCHANGED <<now, branch, tool, ending, lastAssistant, agent, compacted, named, file, reads>>
    BY DEF Refreshed
<1>2. CASE ~missing /\ Continues(op)
    BY <1>2, StepContinues DEF Refreshed
<1>3. ASSUME record' \in Records, overlooked' = overlooked,
             \/ shown' = shown /\ record' = record
             \/ EmitEvent(MetadataEvent),
             reading' \in [Reads -> ReadStages]
      PROVE  LiveInv'
    <2>1. PiInv' BY <1>1, QuietPi
    <2>2. shown' \in Screens /\ shown'.messages = shown.messages /\ FieldsInv'
        BY <1>1, <1>3, EmitsMetadata
    <2>3. ShownInv' BY <1>1, <1>3, <2>2, QuietShown
    <2>4. LiveTypeOK' BY <1>1, <1>3, <2>2 DEF LiveTypeOK
    <2> QED BY <2>1, <2>2, <2>3, <2>4
<1>4. record \in Records /\ reading \in [Reads -> ReadStages] BY DEF LiveTypeOK
<1>5. CASE /\ DeclareMissing
           /\ reading' = [reading EXCEPT ![op] = "none"]
    <2>1. record' = [record EXCEPT !.status = "error"] /\ overlooked' = overlooked
        BY <1>5 DEF DeclareMissing
    <2>2. record' \in Records BY <1>4, <2>1 DEF Records
    <2>3. \/ shown' = shown /\ record' = record
          \/ EmitEvent(MetadataEvent)
        BY <1>4, <1>5, <2>1 DEF DeclareMissing, Records
    <2>4. reading' \in [Reads -> ReadStages] BY <1>4, <1>5 DEF ReadStages
    <2> QED BY <1>3, <2>1, <2>2, <2>3, <2>4
<1>6. CASE /\ record' = current /\ EmitEvent(MetadataEvent)
           /\ reading' = [reading EXCEPT ![op] = "told"]
           /\ UNCHANGED overlooked
    <2>1. record' = [title |-> TitleOf, durable |-> record.durable \/ reading[op] = "found",
                     status |-> record.status]
        BY <1>4, <1>6 DEF Records
    <2>2. record' \in Records
        <3>1. record.durable \in BOOLEAN /\ (reading[op] = "found") \in BOOLEAN
            BY <1>4 DEF Records
        <3>2. (record.durable \/ reading[op] = "found") \in BOOLEAN BY <3>1
        <3>3. TitleOf \in {"untitled", "first", "name"} BY DEF TitleOf
        <3> QED BY <1>4, <2>1, <3>2, <3>3 DEF Records
    <2>3. reading' \in [Reads -> ReadStages] BY <1>4, <1>6 DEF ReadStages
    <2> QED BY <1>3, <1>6, <2>2, <2>3
<1> QED BY <1>2, <1>5, <1>6 DEF Refreshed

(* The end of #refreshHistory lets the call answer.                        *)
LEMMA StepHistoryRefreshed ==
    ASSUME LiveInv, NEW op \in Reads, HistoryRefreshed(op) PROVE LiveInv'
BY StepContinues DEF HistoryRefreshed

(* A read that rejects changes nothing else.                               *)
LEMMA StepAccessFails ==
    ASSUME LiveInv, NEW op \in Reads, AccessFails(op) PROVE LiveInv'
<1> USE DEF pi, browser, LiveInv
<1>1. UNCHANGED <<now, branch, tool, ending, lastAssistant, agent, overlooked, shown, record, compacted>>
    BY DEF AccessFails
<1>2. PiInv' BY <1>1, QuietPi
<1>3. ShownInv' BY <1>1, QuietShown
<1>4. FieldsInv' BY <1>1 DEF FieldsInv, ContextUsage
<1>5. reading' \in [Reads -> ReadStages] BY DEF AccessFails, LiveTypeOK, ReadStages
<1>6. LiveTypeOK' BY <1>1, <1>5 DEF LiveTypeOK, AccessFails
<1> QED BY <1>2, <1>3, <1>4, <1>6

-----------------------------------------------------------------------------
(* A message starts and grows                                              *)

\* While nothing is produced or deferred, the browser shows the branch.
LEMMA ShownWhole ==
    ASSUME LiveInv, now = None, ending = None
    PROVE  ShowsFirst(Len(branch)) /\ Len(shown.messages) = Len(branch)
BY DEF LiveInv, ShownInv, ThenNothing

(* A temporary identity is never a permanent one.                          *)
LEMMA StreamIsNoEntry ==
    ASSUME NEW i, NEW k
    PROVE  EntryId(i) # StreamId(k) /\ EntryId(i).kind = "entry"
             /\ StreamId(k).kind = "stream"
<1>1. EntryId(i).kind = "entry" /\ StreamId(k).kind = "stream"
    BY DEF EntryId, StreamId
<1> QED BY <1>1

(* A message that starts is appended under its temporary identity.         *)
LEMMA StepMessageStart ==
    ASSUME LiveInv, NoneIsNothing, NEW m, WellFormed(m), MessageStart(m),
           \A c \in Calls : ~Asks(m, c),
           m.role = "toolResult" => tool[m.call] = IF m.failed THEN "failed" ELSE "succeeded",
           m.role # "toolResult" => \A c \in Calls : tool[c] \notin Open
    PROVE  LiveInv'
<1> USE DEF server, LiveInv
<1>1. UNCHANGED <<agent, branch, tool, compacted, named, file, ending, lastAssistant, record,
                  reading, reads, overlooked>>
        /\ now' = m /\ now = None /\ ending = None /\ agent = "running"
    BY DEF MessageStart, Yielded
<1>2. m \in Entries /\ m # None BY DEF WellFormed, NoneIsNothing
<1>3. PiInv'
    <2>1. OnceInBranch' BY <1>1 DEF PiInv, OnceInBranch
    <2>2. Latest' = Latest BY <1>1 DEF Latest
    <2>3. \A c \in Calls : tool[c] # "named" BY <1>1 DEF PiInv, CallsInBranch
    <2>4. CallsInBranch' BY <1>1, <2>2, <2>3 DEF PiInv, CallsInBranch
    <2>5. Producing' BY <1>1, <1>2 DEF Producing
    <2>6. Deferred' BY <1>1 DEF Deferred
    <2> QED BY <2>1, <2>4, <2>5, <2>6 DEF PiInv
<1> DEFINE n == Len(branch)
           id == StreamId(n + 1)
           x == SerializeEntry(m, id, NoOutcomes)
           ms == shown.messages
<1>4. branch \in Seq(Entries) /\ n \in Nat /\ shown \in Screens /\ ms \in Seq(Messages)
    BY DEF LiveTypeOK, Screens
<1>5. ShowsFirst(n) /\ Len(ms) = n BY <1>1, ShownWhole
<1>6. id \in MessageIds BY <1>4 DEF StreamId, MessageIds
<1>7. x \in Messages /\ x.entryId = id /\ x.role = LiveRole(m)
    BY <1>6, SerializedIs, OutcomesType
<1>8. shown' = WithMessages(shown, ReplaceMessage(ms, x, FALSE))
    <2>1. EmitEvent([type |-> "message.started", message |-> x])
        BY DEF MessageStart, SerializeLiveMessage
    <2> HIDE DEF x
    <2> QED BY <1>4, <2>1, StartedIs DEF EmitEvent
<1> HIDE DEF x
<1>9. \A i \in 1..Len(ms) : ms[i].entryId # x.entryId
    BY <1>5, <1>7, StreamIsNoEntry DEF ShowsFirst, Shows
<1>10. shown' = WithMessages(shown, Append(ms, x)) BY <1>4, <1>7, <1>8, <1>9, ReplaceStarted
<1>11. Append(ms, x) \in Seq(Messages) BY <1>4, <1>7
<1>12. shown' \in Screens /\ shown'.messages = Append(ms, x)
         /\ shown'.status = shown.status /\ shown'.title = shown.title
         /\ shown'.durable = shown.durable /\ shown'.usage = shown.usage
    BY <1>4, <1>10, <1>11 DEF WithMessages, Screens
<1>13. LiveTypeOK' BY <1>1, <1>2, <1>12 DEF LiveTypeOK
<1>14. FieldsInv' BY <1>1, <1>12 DEF FieldsInv, ContextUsage
<1>15. ShownInv'
    <2>1. Len(shown'.messages) = n + 1 /\ shown'.messages[n + 1] = x
            /\ \A i \in 1..n : shown'.messages[i] = ms[i]
        BY <1>4, <1>5, <1>7, <1>12
    <2>2. \A c \in Calls : Kept(View, View', c) BY <1>1, SameKept
    <2>3. ShowsFirst(n)'
        <3>1. ShowsFirst(n) /\ OnceInBranch /\ n <= Len(branch) /\ n <= Len(shown'.messages)
            BY <1>4, <1>5, <2>1 DEF PiInv
        <3>2. \A i \in 1..n : shown'.messages[i] = shown.messages[i] /\ branch'[i] = branch[i]
            BY <1>1, <2>1
        <3>3. n' = n BY <1>1
        <3> HIDE DEF n
        <3>4. \A k \in Nat : k = n => ShowsFirst(k)' BY <1>4, <2>2, <3>1, <3>2, FirstKept
        <3> QED BY <1>4, <3>3, <3>4 DEF ShowsFirst
    <2>4. ThenStreams(n, now)'
        BY <1>1, <1>7, <2>1 DEF ThenStreams
    <2> QED BY <1>1, <1>2, <2>3, <2>4 DEF ShownInv
<1> QED BY <1>3, <1>13, <1>14, <1>15

(* Without unstored calls none is open.                                    *)
LEMMA NoneOpen ==
    ASSUME Unstored = {} PROVE \A c \in Calls : tool[c] \notin Open
BY DEF Unstored, Open

(* A prompt has no calls ...                                               *)
LEMMA StepUserStarts ==
    ASSUME LiveInv, NoneIsNothing, UserStarts PROVE LiveInv'
<1> DEFINE b == Block("text", None, 1, "none")
           m == PiMessage("user", None, FALSE, <<b>>)
<1>0. None \notin Calls BY DEF NoneIsNothing
<1>1. b \in Blocks /\ b.call = None /\ b.type = "text" BY DEF Block, Blocks
<1> HIDE DEF b
<1>2. <<b>> \in Seq(Blocks) /\ DOMAIN <<b>> = {1} /\ <<b>>[1] = b BY <1>1
<1>3. m.role = "user" /\ m.call = None /\ m.parts = <<b>> /\ m.failed = FALSE BY DEF PiMessage
<1>4. m \in Entries BY <1>2 DEF PiMessage, Entries
<1>5. MessageStart(m) BY DEF UserStarts, b
<1> HIDE DEF m
<1>6. WellFormed(m) BY <1>0, <1>1, <1>2, <1>3, <1>4 DEF WellFormed
<1>7. \A c \in Calls : ~Asks(m, c) BY <1>0, <1>1, <1>2, <1>3 DEF Asks
<1>8. \A c \in Calls : tool[c] \notin Open BY NoneOpen DEF UserStarts
<1> QED BY <1>3, <1>5, <1>6, <1>7, <1>8, StepMessageStart

(* ... an answer has none yet ...                                          *)
LEMMA StepAssistantStarts ==
    ASSUME LiveInv, NoneIsNothing, AssistantStarts PROVE LiveInv'
<1> DEFINE m == PiMessage("assistant", None, FALSE, <<>>)
<1>2. <<>> \in Seq(Blocks) /\ DOMAIN <<>> = {} OBVIOUS
<1>3. m.role = "assistant" /\ m.call = None /\ m.parts = <<>> BY DEF PiMessage
<1>4. m \in Entries BY <1>2 DEF PiMessage, Entries
<1>5. MessageStart(m) BY DEF AssistantStarts
<1> HIDE DEF m
<1>6. WellFormed(m) BY <1>2, <1>3, <1>4 DEF WellFormed
<1>7. \A c \in Calls : ~Asks(m, c) BY <1>2, <1>3 DEF Asks
<1>8. \A c \in Calls : tool[c] \notin Open BY NoneOpen DEF AssistantStarts
<1> QED BY <1>3, <1>5, <1>6, <1>7, <1>8, StepMessageStart

(* ... and a result is that of a call that has ended.                      *)
LEMMA StepResultStarts ==
    ASSUME LiveInv, NoneIsNothing, NEW c \in Calls, ResultStarts(c) PROVE LiveInv'
<1> DEFINE m == PiMessage("toolResult", c, tool[c] = "failed", <<>>)
<1>1. tool[c] \in {"succeeded", "failed"} BY DEF ResultStarts
<1>2. <<>> \in Seq(Blocks) /\ DOMAIN <<>> = {} OBVIOUS
<1>3. m.role = "toolResult" /\ m.call = c /\ m.parts = <<>> /\ m.failed = (tool[c] = "failed")
    BY DEF PiMessage
<1>4. m \in Entries BY <1>2 DEF PiMessage, Entries
<1>5. MessageStart(m) BY DEF ResultStarts
<1> HIDE DEF m
<1>6. WellFormed(m) BY <1>2, <1>3, <1>4 DEF WellFormed
<1>7. \A d \in Calls : ~Asks(m, d) BY <1>2, <1>3 DEF Asks
<1>8. tool[m.call] = IF m.failed THEN "failed" ELSE "succeeded" BY <1>1, <1>3
<1> QED BY <1>3, <1>5, <1>6, <1>7, <1>8, StepMessageStart

\* The message that Pi is producing has grown.
LEMMA ProducingGrows ==
    ASSUME LiveInv, now # None, now' # None, now'.role = now.role,
           UNCHANGED <<branch, ending, overlooked>>,
           shown' \in Screens, Len(shown'.messages) = Len(shown.messages),
           \A i \in 1..Len(shown.messages) :
              /\ shown.messages[i].entryId # StreamId(Len(branch) + 1) =>
                    shown'.messages[i] = shown.messages[i]
              /\ shown'.messages[i].entryId = shown.messages[i].entryId
              /\ shown'.messages[i].role = shown.messages[i].role,
           \A c \in Calls : (\E i \in DOMAIN branch : Asks(branch[i], c)) => Kept(View, View', c)
    PROVE  ShownInv'
<1> USE DEF LiveInv
<1> DEFINE n == Len(branch)
<1>1. ending = None BY DEF PiInv, Producing
<1>2. branch \in Seq(Entries) /\ n \in Nat /\ shown.messages \in Seq(Messages)
    BY DEF LiveTypeOK, Screens
<1>3. ShowsFirst(n) BY <1>1 DEF ShownInv
<1>4. ShowsFirst(n)'
    <2>1. OnceInBranch /\ n <= Len(branch) /\ n <= Len(shown.messages) BY <1>2, <1>3 DEF PiInv, ShowsFirst
    <2>2. \A i \in 1..n : shown.messages[i].entryId # StreamId(n + 1)
        BY <1>3, StreamIsNoEntry DEF ShowsFirst, Shows
    <2>3. \A i \in 1..n : i \in 1..Len(shown.messages) BY <1>2, <2>1
    <2>4. \A i \in 1..n : shown'.messages[i] = shown.messages[i] /\ branch'[i] = branch[i]
        BY <2>2, <2>3
    <2>5. n' = n OBVIOUS
    <2>6. n <= Len(shown'.messages) BY <2>1
    <2> HIDE DEF n
    <2>7. \A k \in Nat : k = n => ShowsFirst(k)' BY <1>2, <1>3, <2>1, <2>4, <2>6, FirstKept
    <2> QED BY <1>2, <2>5, <2>7 DEF ShowsFirst
<1>5. CASE Len(shown.messages) = n
    BY <1>4, <1>5 DEF ShownInv, ThenNothing
<1>6. CASE ThenStreams(n, now)
    <2>1. Len(shown'.messages) = n + 1 /\ n + 1 \in 1..Len(shown.messages) BY <1>2, <1>6 DEF ThenStreams
    <2>2. ThenStreams(n, now)'
        BY <1>6, <2>1 DEF ThenStreams, LiveRole
    <2> QED BY <1>4, <2>2 DEF ShownInv
<1> QED BY <1>1, <1>5, <1>6 DEF ShownInv, ThenNothing

\* A delta adds text to the message, and no call.
LEMMA DeltaGrows ==
    ASSUME NEW m, WellFormed(m), m.role = "assistant", NEW type \in {"text", "thinking"},
           NEW index \in Nat, None \notin Calls,
           NEW y, y = [m EXCEPT !.parts = ApplyDelta(@, index, type)]
    PROVE  /\ WellFormed(y) /\ y.role = m.role /\ y.call = m.call /\ y.failed = m.failed
           /\ \A c \in Calls : Asks(y, c) <=> Asks(m, c)
<1> DEFINE b == m.parts
           d == ApplyDelta(b, index, type)
           New == Block(type, None, 1, "none")
<1>1. m \in Entries /\ b \in Seq(Blocks) BY DEF WellFormed, Entries
<1>2. y.role = m.role /\ y.call = m.call /\ y.failed = m.failed /\ y.parts = d
    BY <1>1 DEF Entries
<1>3. New \in Blocks /\ New.type = type /\ New.call = None BY DEF Block, Blocks
<1>4. Len(b) \in Nat /\ DOMAIN b = 1..Len(b) BY <1>1
<1>5. /\ d \in Seq(Blocks) /\ Len(b) <= Len(d)
      /\ \A j \in 1..Len(b) : d[j].type = b[j].type /\ d[j].call = b[j].call
      /\ \A j \in 1..Len(d) : j \in 1..Len(b) \/ (d[j].type = type /\ d[j].call = None)
    <2>1. CASE index = Len(b) + 1
        <3>1. d = Append(b, New) BY <2>1 DEF ApplyDelta
        <3> HIDE DEF d, New, b
        <3>2. d \in Seq(Blocks) /\ Len(d) = Len(b) + 1 /\ d[Len(b) + 1] = New
                /\ \A j \in 1..Len(b) : d[j] = b[j]
            BY <1>1, <1>3, <3>1
        <3> QED BY <1>3, <1>4, <3>2
    <2>2. CASE index # Len(b) + 1 /\ index \in DOMAIN b /\ b[index].type = type
        <3>1. d = [b EXCEPT ![index] = [b[index] EXCEPT !.text = b[index].text + 1]]
            BY <2>2 DEF ApplyDelta
        <3> DEFINE z == [b[index] EXCEPT !.text = b[index].text + 1]
        <3>2. b[index] \in Blocks BY <1>1, <2>2
        <3>3. z \in Blocks /\ z.type = b[index].type /\ z.call = b[index].call
            BY <3>2 DEF Blocks
        <3> HIDE DEF d, z, b
        <3>4. d \in Seq(Blocks) /\ Len(d) = Len(b) /\ d[index] = z
                /\ \A j \in 1..Len(b) : j # index => d[j] = b[j]
            BY <1>1, <1>4, <2>2, <3>1, <3>3 DEF z
        <3> QED BY <1>4, <3>3, <3>4
    <2>3. CASE index # Len(b) + 1 /\ ~(index \in DOMAIN b /\ b[index].type = type)
        <3>1. d = b BY <2>3 DEF ApplyDelta
        <3> HIDE DEF d, b
        <3> QED BY <1>1, <1>4, <3>1
    <2> QED BY <2>1, <2>2, <2>3
<1> HIDE DEF d
<1>6. Len(d) \in Nat /\ DOMAIN d = 1..Len(d) BY <1>5
<1>7. y \in Entries BY <1>1, <1>2, <1>5 DEF Entries
<1>8. \A c \in Calls : Asks(y, c) <=> Asks(m, c)
    BY <1>2, <1>4, <1>5, <1>6 DEF Asks
<1>9. ASSUME NEW j \in DOMAIN y.parts
      PROVE  \/ y.parts[j].type \in {"text", "thinking"} /\ y.parts[j].call = None
             \/ y.role = "assistant" /\ y.parts[j].type = "tool-call" /\ y.parts[j].call \in Calls
    <2>1. CASE j \in 1..Len(b)
        <3>1. j \in DOMAIN m.parts BY <1>4, <2>1
        <3>2. \/ b[j].type \in {"text", "thinking"} /\ b[j].call = None
              \/ b[j].type = "tool-call" /\ b[j].call \in Calls
            BY <3>1 DEF WellFormed
        <3> QED BY <1>2, <1>5, <2>1, <3>2
    <2>2. CASE j \notin 1..Len(b) BY <1>2, <1>5, <1>6, <2>2
    <2> QED BY <2>1, <2>2
<1>10. ASSUME NEW j \in DOMAIN y.parts, NEW l \in DOMAIN y.parts,
              y.parts[j].call = y.parts[l].call, y.parts[j].call \in Calls
       PROVE  j = l
    <2>1. j \in 1..Len(b) /\ l \in 1..Len(b) BY <1>2, <1>5, <1>6, <1>10
    <2>2. b[j].call = b[l].call /\ b[j].call \in Calls BY <1>2, <1>5, <1>10, <2>1
    <2> QED BY <1>4, <2>1, <2>2 DEF WellFormed
<1>11. m.call = None BY DEF WellFormed
<1>12. WellFormed(y) BY <1>2, <1>7, <1>9, <1>10, <1>11 DEF WellFormed
<1> QED BY <1>2, <1>8, <1>12

(* A delta extends the message that streams, and no stored one.            *)
LEMMA StepDelta ==
    ASSUME LiveInv, NoneIsNothing, NEW type \in {"text", "thinking"}, Delta(type)
    PROVE  LiveInv'
<1> USE DEF server, LiveInv
<1> DEFINE index == IF now.parts # <<>> /\ Last(now.parts).type = type
                    THEN Len(now.parts) ELSE Len(now.parts) + 1
           id == StreamId(Len(branch) + 1)
<1>1. UNCHANGED <<agent, branch, tool, compacted, named, file, ending, lastAssistant, record,
                  reading, reads, overlooked>>
        /\ now # None /\ now.role = "assistant"
        /\ now' = [now EXCEPT !.parts = ApplyDelta(@, index, type)]
        /\ EmitEvent([type |-> "message.delta", id |-> id, index |-> index, block |-> type])
    BY DEF Delta
<1>2. WellFormed(now) BY <1>1 DEF PiInv, Producing
<1>3. index \in Nat BY <1>2 DEF WellFormed, Entries
<1> HIDE DEF index
<1>0. None \notin Calls BY DEF NoneIsNothing
<1>4. /\ WellFormed(now') /\ now'.role = now.role /\ now'.call = now.call /\ now'.failed = now.failed
      /\ \A c \in Calls : Asks(now', c) <=> Asks(now, c)
    BY <1>0, <1>1, <1>2, <1>3, DeltaGrows
<1>5. now' \in Entries /\ now' # None BY <1>4 DEF WellFormed, NoneIsNothing
<1>6. PiInv'
    <2>1. OnceInBranch' BY <1>1 DEF PiInv, OnceInBranch
    <2>2. Latest' = Latest BY <1>1 DEF Latest
    <2>3. CallsInBranch' BY <1>1, <1>4, <1>5, <2>2 DEF PiInv, CallsInBranch
    <2>4. Producing' BY <1>1, <1>4, <1>5 DEF PiInv, Producing
    <2>5. Deferred' BY <1>1 DEF PiInv, Deferred
    <2> QED BY <2>1, <2>3, <2>4, <2>5 DEF PiInv
<1>7. shown \in Screens BY DEF LiveTypeOK
<1>8. PICK ns \in Seq(Messages) :
              /\ shown' = WithMessages(shown, ns)
              /\ Len(ns) = Len(shown.messages)
              /\ \A i \in 1..Len(ns) :
                    /\ shown.messages[i].entryId # id => ns[i] = shown.messages[i]
                    /\ ns[i].entryId = shown.messages[i].entryId
                    /\ ns[i].role = shown.messages[i].role
    <2>1. shown' = ApplyConversationEvent(shown,
                      [type |-> "message.delta", id |-> id, index |-> index, block |-> type])
        BY <1>1 DEF EmitEvent
    <2> HIDE DEF id
    <2>2. ChangesOnly(shown, id, shown')
        BY <1>3, <1>7, <2>1, DeltaIs
    <2> QED BY <2>2 DEF ChangesOnly
<1>9. shown' \in Screens /\ shown'.messages = ns
        /\ shown'.status = shown.status /\ shown'.title = shown.title
        /\ shown'.durable = shown.durable /\ shown'.usage = shown.usage
    BY <1>7, <1>8 DEF WithMessages, Screens
<1>10. FieldsInv' BY <1>1, <1>9 DEF FieldsInv, ContextUsage
<1>11. LiveTypeOK' BY <1>1, <1>5, <1>9 DEF LiveTypeOK
<1>12. ShownInv'
    <2>1. \A c \in Calls : Kept(View, View', c) BY <1>1, SameKept
    <2> QED BY <1>1, <1>4, <1>5, <1>8, <1>9, <2>1, ProducingGrows
<1> QED BY <1>6, <1>10, <1>11, <1>12

\* A part is added to a message for a call that it does not ask for yet.
LEMMA CallGrows ==
    ASSUME NEW m, WellFormed(m), m.role = "assistant", NEW c \in Calls, ~Asks(m, c),
           None \notin Calls,
           NEW y, y = [m EXCEPT !.parts = Append(@, Block("tool-call", c, 0, "pending"))]
    PROVE  /\ WellFormed(y) /\ y.role = m.role /\ y.call = m.call /\ y.failed = m.failed
           /\ \A d \in Calls : Asks(y, d) <=> Asks(m, d) \/ d = c
<1> DEFINE b == m.parts
           New == Block("tool-call", c, 0, "pending")
           d == Append(b, New)
<1>1. m \in Entries /\ b \in Seq(Blocks) BY DEF WellFormed, Entries
<1>2. y.role = m.role /\ y.call = m.call /\ y.failed = m.failed /\ y.parts = d
    BY <1>1 DEF Entries
<1>3. New \in Blocks /\ New.type = "tool-call" /\ New.call = c BY DEF Block, Blocks
<1>4. Len(b) \in Nat /\ DOMAIN b = 1..Len(b) BY <1>1
<1> HIDE DEF New
<1>5. /\ d \in Seq(Blocks) /\ Len(d) = Len(b) + 1 /\ d[Len(b) + 1] = New
      /\ \A j \in 1..Len(b) : d[j] = b[j]
    BY <1>1, <1>3
<1> HIDE DEF d
<1>6. DOMAIN d = 1..(Len(b) + 1) BY <1>5
<1>7. y \in Entries BY <1>1, <1>2, <1>5 DEF Entries
<1>8. \A e \in Calls : Asks(y, e) <=> Asks(m, e) \/ e = c
    BY <1>2, <1>3, <1>4, <1>5, <1>6 DEF Asks
<1>9. ASSUME NEW j \in DOMAIN y.parts
      PROVE  \/ y.parts[j].type \in {"text", "thinking"} /\ y.parts[j].call = None
             \/ y.role = "assistant" /\ y.parts[j].type = "tool-call" /\ y.parts[j].call \in Calls
    <2>1. CASE j \in 1..Len(b)
        <3>1. j \in DOMAIN m.parts BY <1>4, <2>1
        <3>2. \/ b[j].type \in {"text", "thinking"} /\ b[j].call = None
              \/ b[j].type = "tool-call" /\ b[j].call \in Calls
            BY <3>1 DEF WellFormed
        <3> QED BY <1>2, <1>5, <2>1, <3>2
    <2>2. CASE j = Len(b) + 1 BY <1>2, <1>3, <1>5, <2>2
    <2> QED BY <1>2, <1>4, <1>6, <2>1, <2>2
<1>10. ASSUME NEW j \in DOMAIN y.parts, NEW l \in DOMAIN y.parts,
              y.parts[j].call = y.parts[l].call, y.parts[j].call \in Calls
       PROVE  j = l
    <2>0. j \in 1..(Len(b) + 1) /\ l \in 1..(Len(b) + 1) BY <1>2, <1>6
    <2>1. CASE j \in 1..Len(b) /\ l \in 1..Len(b)
        <3>2. b[j].call = b[l].call /\ b[j].call \in Calls BY <1>2, <1>5, <1>10, <2>1
        <3> QED BY <1>4, <2>1, <3>2 DEF WellFormed
    <2>2. \A i \in 1..Len(b) : b[i].call # c BY <1>4 DEF Asks
    <2>3. CASE j = Len(b) + 1 /\ l \in 1..Len(b)
        <3>1. b[l].call = c BY <1>2, <1>3, <1>5, <1>10, <2>3
        <3> QED BY <2>2, <2>3, <3>1
    <2>4. CASE l = Len(b) + 1 /\ j \in 1..Len(b)
        <3>1. b[j].call = c BY <1>2, <1>3, <1>5, <1>10, <2>4
        <3> QED BY <2>2, <2>4, <3>1
    <2>5. CASE j = Len(b) + 1 /\ l = Len(b) + 1 BY <2>5
    <2> QED BY <1>4, <2>0, <2>1, <2>3, <2>4, <2>5
<1>11. m.call = None BY DEF WellFormed
<1>12. WellFormed(y) BY <1>2, <1>7, <1>9, <1>10, <1>11 DEF WellFormed
<1> QED BY <1>2, <1>8, <1>12

(* A call that Pi adds to its message was in no entry before.              *)
LEMMA StepCallPart ==
    ASSUME LiveInv, NoneIsNothing, NEW c \in Calls, CallPart(c)
    PROVE  LiveInv'
<1> USE DEF server, browser, LiveInv
<1>1. UNCHANGED <<agent, branch, compacted, named, file, ending, lastAssistant, record,
                  reading, reads, overlooked, shown>>
        /\ now # None /\ now.role = "assistant" /\ tool[c] = "none"
        /\ now' = [now EXCEPT !.parts = Append(@, Block("tool-call", c, 0, "pending"))]
        /\ tool' = [tool EXCEPT ![c] = "named"]
    BY DEF CallPart
<1>2. WellFormed(now) /\ ~Asks(now, c) BY <1>1 DEF PiInv, Producing
<1>0. None \notin Calls BY DEF NoneIsNothing
<1>4. /\ WellFormed(now') /\ now'.role = now.role /\ now'.call = now.call /\ now'.failed = now.failed
      /\ \A d \in Calls : Asks(now', d) <=> Asks(now, d) \/ d = c
    BY <1>0, <1>1, <1>2, CallGrows
<1>5. now' \in Entries /\ now' # None BY <1>4 DEF WellFormed, NoneIsNothing
<1>6. tool \in [Calls -> {"none", "named", "requested", "running", "succeeded", "failed", "stored"}]
    BY DEF LiveTypeOK
<1>7. tool'[c] = "named" /\ \A d \in Calls : d # c => tool'[d] = tool[d] BY <1>1, <1>6
<1>8. PiInv'
    <2>1. OnceInBranch' BY <1>1 DEF PiInv, OnceInBranch
    <2>2. Latest' = Latest BY <1>1 DEF Latest
    <2>3. ASSUME NEW d \in Calls
          PROVE  /\ tool'[d] \in {"none", "named"} => \A i \in DOMAIN branch : ~Asks(branch[i], d)
                 /\ tool'[d] # "stored" => \A i \in DOMAIN branch : ~Answers(branch[i], d)
                 /\ tool'[d] \in Open => /\ agent = "running"
                                         /\ \E k \in DOMAIN branch : /\ Latest = EntryId(k)
                                                                     /\ Asks(branch[k], d)
                 /\ tool'[d] = "named" => Asks(now', d)
        <3>1. CASE d = c BY <1>1, <1>4, <1>7, <3>1 DEF PiInv, CallsInBranch, Open
        <3>2. CASE d # c BY <1>1, <1>4, <1>7, <3>2 DEF PiInv, CallsInBranch
        <3> QED BY <3>1, <3>2
    <2>4. CallsInBranch' BY <1>1, <1>5, <2>2, <2>3 DEF CallsInBranch
    <2>5. \A d \in Calls : tool'[d] \notin Open BY <1>1, <1>7 DEF PiInv, Producing, Open
    <2>6. \A d \in Calls : Asks(now', d) => tool'[d] = "named" BY <1>1, <1>4, <1>7 DEF PiInv, Producing
    <2>7. Producing' BY <1>1, <1>4, <1>5, <2>5, <2>6 DEF PiInv, Producing
    <2>8. Deferred' BY <1>1 DEF PiInv, Producing, Deferred
    <2> QED BY <2>1, <2>4, <2>7, <2>8 DEF PiInv
<1>10. FieldsInv' BY <1>1 DEF FieldsInv, ContextUsage
<1>11. LiveTypeOK'
    <2>1. tool' \in [Calls -> {"none", "named", "requested", "running", "succeeded", "failed", "stored"}]
        BY <1>1, <1>6
    <2> QED BY <1>1, <1>5, <2>1 DEF LiveTypeOK
<1>12. ShownInv'
    <2>1. ASSUME NEW d \in Calls, \E i \in DOMAIN branch : Asks(branch[i], d)
          PROVE  Kept(View, View', d)
        <3>1. d # c BY <1>1, <2>1 DEF PiInv, CallsInBranch
        <3>2. View'.tool[d] = View.tool[d] /\ View'.branch = View.branch
                /\ View'.overlooked = View.overlooked
            BY <1>1, <1>7, <3>1 DEF View
        <3> QED BY <3>2 DEF Kept, Told, HasOutput
    <2>2. shown \in Screens BY DEF LiveTypeOK
    <2> QED BY <1>1, <1>4, <1>5, <2>1, <2>2, ProducingGrows
<1> QED BY <1>8, <1>10, <1>11, <1>12

-----------------------------------------------------------------------------
(* A message is stored, and told                                           *)

\* How far Pi is with a call after message_end.
LEMMA EndsCalls ==
    ASSUME LiveInv, NoneIsNothing, NEW aborted \in BOOLEAN, MessageEnds(aborted),
           NEW c \in Calls
    PROVE  /\ Answers(now, c) => tool'[c] = "stored"
           /\ tool[c] = "named" => tool'[c] \in {"stored", "requested"}
           /\ ~Answers(now, c) /\ tool[c] # "named" => tool'[c] = tool[c]
           /\ Answers(now, c) => tool[c] = IF now.failed THEN "failed" ELSE "succeeded"
<1> USE DEF LiveInv
<1>1. now # None /\ WellFormed(now) BY DEF MessageEnds, PiInv, Producing
<1>2. tool'[c] = IF c = now.call THEN "stored"
                 ELSE IF tool[c] = "named" THEN IF aborted THEN "stored" ELSE "requested"
                 ELSE tool[c]
    BY DEF MessageEnds
<1>3. c # None BY DEF NoneIsNothing
<1>4. Answers(now, c) <=> c = now.call BY <1>1, <1>3 DEF Answers, WellFormed
<1>5. Answers(now, c) => tool[c] = IF now.failed THEN "failed" ELSE "succeeded"
    BY <1>1 DEF PiInv, Producing, Answers
<1> QED BY <1>2, <1>4, <1>5

(* Pi stores the message: its calls are asked for once, a result follows   *)
(* its call.                                                               *)
LEMMA EndsPi ==
    ASSUME LiveInv, NoneIsNothing, NEW aborted \in BOOLEAN, MessageEnds(aborted)
    PROVE  PiInv'
<1> USE DEF LiveInv
<1> DEFINE n == Len(branch)
<1>1. now # None /\ now' = None /\ ending = None /\ ending' = now /\ branch' = Append(branch, now)
        /\ agent' = agent /\ agent = "running" /\ lastAssistant' = lastAssistant
    BY DEF MessageEnds, Yielded, PiInv, Producing
<1>2. WellFormed(now) /\ now \in Entries BY <1>1 DEF PiInv, Producing, WellFormed
<1>3. branch \in Seq(Entries) /\ n \in Nat /\ DOMAIN branch = 1..n BY DEF LiveTypeOK
<1>4. DOMAIN branch' = 1..(n + 1) /\ Len(branch') = n + 1 /\ branch'[n + 1] = now
        /\ \A i \in 1..n : branch'[i] = branch[i]
    BY <1>1, <1>2, <1>3
<1> HIDE DEF n
<1>5. \A c \in Calls : Asks(now, c) => tool[c] = "named" BY <1>1 DEF PiInv, Producing
<1>6. \A c \in Calls : tool[c] = "named" => Asks(now, c) BY <1>1 DEF PiInv, CallsInBranch
<1>7. \A c \in Calls : ~(Asks(now, c) /\ Answers(now, c)) BY <1>2 DEF WellFormed, Asks, Answers
<1>8. \A c \in Calls : Asks(now, c) => now.role = "assistant"
    <2>1. ASSUME NEW c \in Calls, NEW j \in DOMAIN now.parts, now.parts[j].call = c
          PROVE  now.role = "assistant"
        BY <1>2, <2>1 DEF WellFormed, NoneIsNothing
    <2> QED BY <2>1 DEF Asks
<1>9. ASSUME NEW c \in Calls
      PROVE  /\ Answers(now, c) => tool'[c] = "stored"
             /\ tool[c] = "named" => tool'[c] \in {"stored", "requested"}
             /\ ~Answers(now, c) /\ tool[c] # "named" => tool'[c] = tool[c]
             /\ Answers(now, c) => tool[c] = IF now.failed THEN "failed" ELSE "succeeded"
    BY EndsCalls
<1>10. OnceInBranch'
    <2>1. \A i \in 1..(n + 1) : WellFormed(branch'[i])
        <3>1. \A i \in 1..n : WellFormed(branch[i]) BY <1>3 DEF PiInv, OnceInBranch
        <3> QED BY <1>2, <1>3, <1>4, <3>1
    <2>2. ASSUME NEW i \in 1..(n + 1), NEW k \in 1..(n + 1), NEW c \in Calls
          PROVE  /\ Asks(branch'[i], c) /\ Asks(branch'[k], c) => i = k
                 /\ Answers(branch'[i], c) /\ Answers(branch'[k], c) => i = k
                 /\ Asks(branch'[i], c) /\ Answers(branch'[k], c) => i < k
        <3>1. CASE i \in 1..n /\ k \in 1..n BY <1>3, <1>4, <3>1 DEF PiInv, OnceInBranch
        <3>2. Asks(now, c) => \A l \in 1..n : ~Asks(branch[l], c) /\ ~Answers(branch[l], c)
            BY <1>3, <1>5 DEF PiInv, CallsInBranch
        <3>3. Answers(now, c) => \A l \in 1..n : ~Answers(branch[l], c)
            <4>1. Answers(now, c) => tool[c] # "stored" BY <1>9
            <4> QED BY <1>3, <4>1 DEF PiInv, CallsInBranch
        <3>4. CASE i = n + 1 /\ k \in 1..n BY <1>3, <1>4, <3>2, <3>3, <3>4
        <3>5. CASE i \in 1..n /\ k = n + 1 BY <1>3, <1>4, <3>2, <3>3, <3>5
        <3>6. CASE i = n + 1 /\ k = n + 1 BY <1>3, <1>4, <1>7, <3>6
        <3> QED BY <1>3, <3>1, <3>4, <3>5, <3>6
    <2> QED BY <1>4, <2>1, <2>2 DEF OnceInBranch
<1>11. CallsInBranch'
    <2>1. ASSUME NEW c \in Calls, tool'[c] \in {"none", "named"}, NEW i \in 1..(n + 1)
          PROVE  ~Asks(branch'[i], c)
        <3>1. tool[c] = "none" BY <1>9, <2>1
        <3>2. ~Asks(now, c) BY <1>5, <3>1
        <3>3. \A l \in 1..n : ~Asks(branch[l], c) BY <1>3, <3>1 DEF PiInv, CallsInBranch
        <3> QED BY <1>3, <1>4, <3>2, <3>3
    <2>2. ASSUME NEW c \in Calls, tool'[c] # "stored", NEW i \in 1..(n + 1)
          PROVE  ~Answers(branch'[i], c)
        <3>1. tool[c] # "stored" /\ ~Answers(now, c) BY <1>9, <2>2
        <3>2. \A l \in 1..n : ~Answers(branch[l], c) BY <1>3, <3>1 DEF PiInv, CallsInBranch
        <3> QED BY <1>3, <1>4, <3>1, <3>2
    <2>3. ASSUME NEW c \in Calls, tool'[c] \in Open
          PROVE  \E k \in 1..(n + 1) : Latest' = EntryId(k) /\ Asks(branch'[k], c)
        <3>1. CASE tool[c] = "named"
            <4>1. Asks(now, c) BY <1>6, <3>1
            <4>2. Latest' = EntryId(n + 1) BY <1>1, <1>4, <1>8, <4>1 DEF Latest
            <4>3. n + 1 \in 1..(n + 1) BY <1>3
            <4> QED BY <1>4, <4>1, <4>2, <4>3
        <3>2. CASE tool[c] # "named"
            <4>1. tool[c] = tool'[c] BY <1>9, <2>3, <3>2 DEF Open
            <4>2. now.role = "toolResult" BY <1>1, <2>3, <4>1 DEF PiInv, Producing
            <4>3. Latest' = Latest BY <1>1, <4>2 DEF Latest
            <4>4. PICK k \in 1..n : Latest = EntryId(k) /\ Asks(branch[k], c)
                BY <1>3, <2>3, <4>1 DEF PiInv, CallsInBranch
            <4>5. k \in 1..(n + 1) BY <1>3
            <4> QED BY <1>4, <4>3, <4>4, <4>5
        <3> QED BY <3>1, <3>2
    <2>4. \A c \in Calls : tool'[c] # "named"
        BY <1>9
    <2> QED BY <1>1, <1>4, <2>1, <2>2, <2>3, <2>4 DEF CallsInBranch
<1>12. Producing' BY <1>1 DEF Producing
<1>13. Deferred'
    <2>1. branch' # <<>> BY <1>3, <1>4
    <2>2. ASSUME now.role = "assistant", NEW c \in Calls
          PROVE  tool'[c] \notin {"running", "succeeded", "failed"}
        <3>1. tool[c] \notin Open BY <1>1, <2>2 DEF PiInv, Producing
        <3>2. ~Answers(now, c) BY <2>2 DEF Answers
        <3> QED BY <1>9, <3>1, <3>2 DEF Open
    <2> QED BY <1>1, <1>4, <2>1, <2>2 DEF Deferred
<1> QED BY <1>10, <1>11, <1>12, <1>13 DEF PiInv

(* What the screen shows of the earlier entries holds after the entry is   *)
(* stored.                                                                 *)
LEMMA StepMessageEnds ==
    ASSUME LiveInv, NoneIsNothing, NEW aborted \in BOOLEAN, MessageEnds(aborted)
    PROVE  LiveInv'
<1> USE DEF LiveInv, browser
<1> DEFINE n == Len(branch)
<1>1. now # None /\ now' = None /\ ending = None /\ ending' = now /\ branch' = Append(branch, now)
        /\ UNCHANGED <<agent, named, lastAssistant, record, reading, reads, shown, overlooked>>
        /\ file' = TRUE /\ compacted' = (compacted /\ now.role # "assistant")
    BY DEF MessageEnds, Yielded
<1>2. WellFormed(now) /\ now \in Entries BY <1>1 DEF PiInv, Producing, WellFormed
<1>3. branch \in Seq(Entries) /\ n \in Nat /\ DOMAIN branch = 1..n BY DEF LiveTypeOK
<1>4. branch' \in Seq(Entries)
        /\ DOMAIN branch' = 1..(n + 1) /\ Len(branch') = n + 1 /\ branch'[n + 1] = now
        /\ \A i \in 1..n : branch'[i] = branch[i]
    BY <1>1, <1>2, <1>3
<1> HIDE DEF n
<1>5. PiInv' BY EndsPi
<1>6. FieldsInv' BY <1>1 DEF FieldsInv
<1>7. LiveTypeOK'
    <2>1. tool' \in [Calls -> {"none", "named", "requested", "running", "succeeded", "failed", "stored"}]
        <3>1. tool \in [Calls -> {"none", "named", "requested", "running", "succeeded", "failed", "stored"}]
            BY DEF LiveTypeOK
        <3> QED BY <3>1 DEF MessageEnds
    <2>2. compacted' \in BOOLEAN BY <1>1 DEF LiveTypeOK
    <2> QED BY <1>1, <1>2, <1>4, <2>1, <2>2 DEF LiveTypeOK
<1>8. ASSUME NEW c \in Calls, \E i \in DOMAIN branch : Asks(branch[i], c)
      PROVE  Kept(View, View', c)
    <2>0. View.tool = tool /\ View.branch = branch /\ View.overlooked = overlooked
            /\ View'.tool = tool' /\ View'.branch = branch' /\ View'.overlooked = overlooked
        BY <1>1 DEF View
    <2>1. tool[c] # "named" /\ tool[c] # "none" BY <1>8 DEF PiInv, CallsInBranch
    <2>2. /\ Answers(now, c) => tool'[c] = "stored"
          /\ ~Answers(now, c) /\ tool[c] # "named" => tool'[c] = tool[c]
          /\ Answers(now, c) => tool[c] = IF now.failed THEN "failed" ELSE "succeeded"
        BY EndsCalls
    <2>3. CASE Answers(now, c)
        <3>1. tool[c] # "stored" BY <2>2, <2>3
        <3>2. \A i \in DOMAIN branch : ~Answers(branch[i], c) BY <3>1 DEF PiInv, CallsInBranch
        <3>3. CollectToolOutcomes(branch')[c] = IF now.failed THEN "failed" ELSE "succeeded"
            BY <1>1, <1>2, <1>3, <2>3, <3>2, OutcomeAppend
        <3>4. CollectToolOutcomes(branch')[c] = tool[c] /\ tool[c] \in {"succeeded", "failed"}
            BY <2>2, <2>3, <3>3
        <3>5. \A status : Told(View, c, status) => Told(View', c, status)
            BY <2>0, <2>2, <2>3, <3>4 DEF Told
        <3>6. n + 1 \in DOMAIN branch' BY <1>3, <1>4
        <3>7. HasOutput(View', c) BY <1>4, <2>0, <2>3, <3>6 DEF HasOutput
        <3> QED BY <3>5, <3>7 DEF Kept
    <2>4. CASE ~Answers(now, c)
        <3>1. CollectToolOutcomes(branch')[c] = CollectToolOutcomes(branch)[c]
            BY <1>1, <1>2, <1>3, <2>4, OutcomeAppend
        <3>2. tool'[c] = tool[c] BY <2>1, <2>2, <2>4
        <3>3. \A status : Told(View, c, status) => Told(View', c, status)
            BY <2>0, <3>1, <3>2 DEF Told
        <3>4. \A i \in 1..n : i \in 1..(n + 1) BY <1>3
        <3>5. HasOutput(View, c) => HasOutput(View', c)
            BY <1>3, <1>4, <2>0, <3>2, <3>4 DEF HasOutput
        <3> QED BY <3>3, <3>5 DEF Kept
    <2> QED BY <2>3, <2>4
<1>9. ShownInv'
    <2>1. ShowsFirst(n) /\ (ThenNothing(n) \/ ThenStreams(n, now)) BY <1>1 DEF ShownInv, n
    <2>2. n <= Len(branch) /\ n <= Len(shown.messages) BY <1>3, <2>1 DEF n, ShowsFirst
    <2>3. ShowsFirst(n) /\ OnceInBranch BY <2>1 DEF PiInv
    <2>4. \A k \in Nat : k = n => ShowsFirst(k)'
        BY <1>1, <1>3, <1>4, <1>8, <2>2, <2>3, FirstKept
    <2>5. Len(branch') - 1 = n BY <1>3, <1>4
    <2>6. ShowsFirst(Len(branch) - 1)'
        <3>1. \A k \in Nat : k = Len(branch') - 1 => ShowsFirst(k)' BY <2>4, <2>5
        <3> QED BY <1>3, <2>5, <3>1 DEF ShowsFirst
    <2>7. (ThenNothing(Len(branch) - 1) \/ ThenStreams(Len(branch) - 1, ending))'
        BY <1>1, <2>1, <2>5 DEF ThenNothing, ThenStreams
    <2> QED BY <1>1, <2>6, <2>7 DEF ShownInv
<1> QED BY <1>5, <1>6, <1>7, <1>9

(* Entries at different positions have different identities.               *)
LEMMA EntryIdsDiffer ==
    ASSUME NEW i, NEW k, EntryId(i) = EntryId(k) PROVE i = k
<1>1. EntryId(i).n = i /\ EntryId(k).n = k BY DEF EntryId
<1> QED BY <1>1

\* The messages ns are the first n - 1 of ms, and then x.
EndsWith(ns, ms, n, x) ==
    /\ ns \in Seq(Messages) /\ Len(ns) = n /\ ns[n] = x
    /\ \A i \in 1..(n - 1) : ns[i] = ms[i]

\* The last of n messages is replaced, or the n-th one added.
LEMMA LastPut ==
    ASSUME NEW ms \in Seq(Messages), NEW x \in Messages, NEW n \in Nat \ {0}, NEW ns,
           \/ Len(ms) = n /\ ns = [ms EXCEPT ![n] = x]
           \/ Len(ms) = n - 1 /\ ns = Append(ms, x)
    PROVE  EndsWith(ns, ms, n, x)
<1>1. CASE Len(ms) = n /\ ns = [ms EXCEPT ![n] = x] BY <1>1 DEF EndsWith
<1>2. CASE Len(ms) = n - 1 /\ ns = Append(ms, x) BY <1>2 DEF EndsWith
<1> QED BY <1>1, <1>2

\* The completion is put in the place of the last entry of the branch.
LEMMA CompletionPlaced ==
    ASSUME LiveInv, NoneIsNothing, ending # None,
           NEW x \in Messages, x.entryId = EntryId(Len(branch)), x.role = LiveRole(ending),
           NEW ns, ns = ReplaceMessage(shown.messages, x, TRUE)
    PROVE  /\ ns \in Seq(Messages) /\ Len(ns) = Len(branch) /\ ns[Len(branch)] = x
           /\ \A i \in 1..(Len(branch) - 1) :
                 ns[i] = shown.messages[i] /\ Shows(View, shown.messages[i], i, branch[i])
<1> USE DEF LiveInv
<1> DEFINE n == Len(branch)
           ms == shown.messages
<1>1. branch \in Seq(Entries) /\ n \in Nat /\ n # 0 /\ ms \in Seq(Messages) /\ Len(ms) \in Nat
    BY DEF LiveTypeOK, Screens, PiInv, Deferred
<1>0. ms \in Seq(Messages) /\ n \in Nat \ {0} BY <1>1
<1>2. now = None BY DEF PiInv, Producing
<1>3. x.entryId.kind = "entry" BY StreamIsNoEntry
<1>4. ASSUME NEW i \in 1..Len(ms), NEW k, ShowsFirst(k), i \in 1..k
      PROVE  /\ ms[i].entryId = EntryId(i) /\ ms[i].entryId.kind = "entry"
             /\ ms[i].entryId = x.entryId <=> i = n
             /\ Shows(View, ms[i], i, branch[i])
    <2>1. Shows(View, ms[i], i, branch[i]) BY <1>4 DEF ShowsFirst
    <2>2. ms[i].entryId = EntryId(i) BY <2>1 DEF Shows
    <2>3. ms[i].entryId.kind = "entry" BY <2>2, StreamIsNoEntry
    <2>4. EntryId(i) = EntryId(n) => i = n BY EntryIdsDiffer
    <2> QED BY <2>1, <2>2, <2>3, <2>4
<1>5. CASE ShowsFirst(n) /\ ThenNothing(n)
    <2>1. Len(ms) = n /\ n \in 1..Len(ms) BY <1>1, <1>5 DEF ThenNothing
    <2>2. \A i \in 1..Len(ms) : ms[i].entryId = x.entryId <=> i = n BY <1>4, <1>5, <2>1
    <2>3. ns = [ms EXCEPT ![n] = x] BY <1>1, <2>1, <2>2, ReplaceExact
    <2>4. \A i \in 1..(n - 1) : i \in 1..Len(ms) /\ i # n BY <1>1, <2>1
    <2>5. \A i \in 1..(n - 1) : Shows(View, ms[i], i, branch[i]) BY <1>4, <1>5, <2>1, <2>4
    <2> HIDE DEF n, ms
    <2>6. EndsWith(ns, ms, n, x)
        BY <1>0, <2>1, <2>3, LastPut
    <2> QED BY <2>5, <2>6 DEF n, ms, EndsWith
<1>6. CASE ShowsFirst(n - 1) /\ ThenNothing(n - 1)
    <2>1. Len(ms) = n - 1 BY <1>6 DEF ThenNothing
    <2>2. \A i \in 1..Len(ms) : ms[i].entryId # x.entryId /\ ms[i].entryId.kind # "stream"
        BY <1>1, <1>4, <1>6, <2>1
    <2>3. ns = Append(ms, x) BY <1>1, <2>2, ReplaceNone
    <2>5. \A i \in 1..(n - 1) : Shows(View, ms[i], i, branch[i]) BY <1>4, <1>6, <2>1
    <2> HIDE DEF n, ms
    <2>6. EndsWith(ns, ms, n, x)
        BY <1>0, <2>1, <2>3, LastPut
    <2> QED BY <2>5, <2>6 DEF n, ms, EndsWith
<1>7. CASE ShowsFirst(n - 1) /\ ThenStreams(n - 1, ending)
    <2>1. Len(ms) = n /\ n \in 1..Len(ms) BY <1>1, <1>7 DEF ThenStreams
    <2>2. ms[n].role = x.role /\ ms[n].entryId = StreamId(n)
        BY <1>1, <1>7 DEF ThenStreams
    <2>3. ms[n].entryId.kind = "stream" /\ ms[n].entryId # x.entryId BY <1>3, <2>2, StreamIsNoEntry
    <2>4. \A i \in 1..(n - 1) : i \in 1..Len(ms) /\ i # n BY <1>1, <2>1
    <2>5. \A i \in 1..(n - 1) : Shows(View, ms[i], i, branch[i]) /\ ms[i].entryId # x.entryId
                                  /\ ms[i].entryId.kind # "stream"
        BY <1>4, <1>7, <2>4
    <2>6. \A i \in 1..Len(ms) : i = n \/ i \in 1..(n - 1) BY <1>1, <2>1
    <2>7. \A i \in 1..Len(ms) : ms[i].entryId # x.entryId BY <2>3, <2>5, <2>6
    <2>8. \A i \in 1..Len(ms) : ms[i].role = x.role /\ ms[i].entryId.kind = "stream" <=> i = n
        BY <2>2, <2>3, <2>4, <2>5, <2>6
    <2>9. ns = [ms EXCEPT ![n] = x] BY <1>1, <2>1, <2>7, <2>8, ReplaceStream
    <2> HIDE DEF n, ms
    <2>10. EndsWith(ns, ms, n, x)
        BY <1>0, <2>1, <2>9, LastPut
    <2> QED BY <2>5, <2>10 DEF n, ms, EndsWith
<1> QED BY <1>2, <1>5, <1>6, <1>7 DEF ShownInv

(* The completion takes the place of the streaming message or is the last  *)
(* one.                                                                    *)
LEMMA StepCompletes ==
    ASSUME LiveInv, NoneIsNothing, Completes
    PROVE  LiveInv'
<1> USE DEF LiveInv, pi
<1> DEFINE n == Len(branch)
           id == EntryId(n)
           x == SerializeEntry(ending, id, NoOutcomes)
           ns == ReplaceMessage(shown.messages, x, TRUE)
           s == ApplyConversationEvent(shown,
                  [type |-> "message.completed", message |-> x, usage |-> ContextUsage])
<1>1. UNCHANGED <<agent, now, branch, tool, compacted, named, file, reading, reads, overlooked>>
        /\ ending # None /\ ending' = None
        /\ lastAssistant' = (IF ending.role = "assistant" THEN id ELSE lastAssistant)
        /\ record' = Persisted(ending.role)
    BY DEF Completes, PersistedEntryId
<1>2. shown' = IF record' = record THEN s ELSE ApplyConversationEvent(s, MetadataEvent)
    BY DEF Completes, PersistedEntryId, SerializeLiveMessage
<1>3. branch \in Seq(Entries) /\ n \in Nat /\ n # 0 /\ DOMAIN branch = 1..n /\ ending = branch[n]
    BY <1>1 DEF LiveTypeOK, PiInv, Deferred
<1>4. WellFormed(ending) BY <1>3 DEF PiInv, OnceInBranch
<1>5. now = None BY <1>1 DEF PiInv, Producing
<1>6. id \in MessageIds BY <1>3 DEF EntryId, MessageIds
<1>7. PiInv'
    <2>1. OnceInBranch' BY <1>1 DEF PiInv, OnceInBranch
    <2>2. Latest' = Latest BY <1>1 DEF Latest
    <2>3. CallsInBranch' BY <1>1, <2>2 DEF PiInv, CallsInBranch
    <2>4. Producing' BY <1>1, <1>5 DEF Producing
    <2>5. Deferred' BY <1>1 DEF Deferred
    <2> QED BY <2>1, <2>3, <2>4, <2>5 DEF PiInv
<1>8. ASSUME NEW c \in Calls, Asks(ending, c) PROVE Told(View, c, NoOutcomes[c])
    <2>1. ending.role = "assistant"
        <3>1. PICK j \in DOMAIN ending.parts : ending.parts[j].call = c BY <1>8 DEF Asks
        <3> QED BY <1>4, <3>1 DEF WellFormed, NoneIsNothing
    <2>2. tool[c] \notin {"running", "succeeded", "failed"} BY <1>1, <2>1 DEF PiInv, Deferred
    <2>3. n \in DOMAIN branch /\ Asks(branch[n], c) BY <1>3, <1>8
    <2>4. tool[c] \notin {"none", "named"} BY <2>3 DEF PiInv, CallsInBranch
    <2>5. tool[c] \in {"requested", "stored"} BY <2>2, <2>4 DEF LiveTypeOK
    <2>6. \A k \in DOMAIN branch : ~Answers(branch[k], c)
        <3>1. \A k \in DOMAIN branch : Answers(branch[k], c) => n < k BY <2>3 DEF PiInv, OnceInBranch
        <3> QED BY <1>3, <3>1
    <2>7. CollectToolOutcomes(branch)[c] = "pending" BY <2>6, OutcomePending
    <2>8. NoOutcomes[c] = "pending" BY DEF NoOutcomes
    <2> QED BY <2>5, <2>7, <2>8 DEF Told, View
<1>9. Shows(View, x, n, ending) BY <1>3, <1>4, <1>8, OutcomesType, SerializedShows
<1>10. x \in Messages /\ x.entryId = id /\ x.role = LiveRole(ending)
    BY <1>4, <1>6, OutcomesType, SerializedIs
<1> HIDE DEF x
<1>11. /\ ns \in Seq(Messages) /\ Len(ns) = n /\ ns[n] = x
       /\ \A i \in 1..(n - 1) : ns[i] = shown.messages[i] /\ Shows(View, shown.messages[i], i, branch[i])
    BY <1>1, <1>10, CompletionPlaced
<1>12. shown \in Screens /\ record \in Records BY DEF LiveTypeOK
<1>13. s = [messages |-> ns, status |-> shown.status, title |-> shown.title,
            durable |-> shown.durable, usage |-> ContextUsage]
    BY <1>12, CompletedIs
<1> HIDE DEF ns, s
<1>14. ContextUsage \in Nat \cup {None} BY <1>3 DEF ContextUsage
<1>15. s \in Screens BY <1>11, <1>12, <1>13, <1>14 DEF Screens
<1>16. record' = [title |-> TitleOf,
                  durable |-> record.durable \/ ending.role \in {"user", "assistant"},
                  status |-> record.status]
    BY <1>1, <1>12 DEF Persisted, Records
<1>17. record' \in Records BY <1>12, <1>16 DEF Records, TitleOf
<1>18. shown' \in Screens /\ shown'.messages = ns /\ shown'.usage = ContextUsage
         /\ shown'.status = record'.status /\ shown'.title = record'.title
         /\ shown'.durable = record'.durable
    <2>1. CASE record' = record
        <3>1. shown' = s BY <1>2, <2>1
        <3>2. shown.status = record.status /\ shown.title = record.title /\ shown.durable = record.durable
            BY DEF FieldsInv
        <3> QED BY <1>13, <1>15, <2>1, <3>1, <3>2
    <2>2. CASE record' # record
        <3>1. shown' = [messages |-> s.messages, status |-> record'.status, title |-> record'.title,
                        durable |-> record'.durable, usage |-> s.usage]
            BY <1>2, <1>15, <1>17, <2>2, MetadataIs DEF MetadataEvent
        <3>2. s.messages = ns /\ s.usage = ContextUsage BY <1>13
        <3>3. shown' \in Screens
            BY <1>11, <1>14, <1>17, <3>1, <3>2 DEF Screens, Records
        <3> QED BY <3>1, <3>2, <3>3
    <2> QED BY <2>1, <2>2
<1>19. FieldsInv' BY <1>1, <1>18 DEF FieldsInv, ContextUsage
<1>20. LiveTypeOK'
    <2>1. lastAssistant' \in MessageIds \cup {None} BY <1>1, <1>6 DEF LiveTypeOK
    <2> QED BY <1>1, <1>17, <1>18, <2>1 DEF LiveTypeOK
<1>21. ShownInv'
    <2>1. View' = View BY <1>1 DEF View
    <2>2. \A i \in 1..n : i \in 1..(n - 1) \/ i = n
        <3>1. n \in Nat /\ n # 0 BY <1>3
        <3> HIDE DEF n
        <3> QED BY <3>1
    <2>3. \A i \in 1..n : Shows(View, ns[i], i, branch[i]) BY <1>3, <1>9, <1>11, <2>2
    <2>4. ShowsFirst(n)' BY <1>1, <1>3, <1>11, <1>18, <2>1, <2>3 DEF ShowsFirst
    <2>5. ThenNothing(n)' BY <1>1, <1>11, <1>18 DEF ThenNothing
    <2> QED BY <2>4, <2>5 DEF ShownInv
<1> QED BY <1>7, <1>19, <1>20, <1>21

-----------------------------------------------------------------------------
(* Tool events                                                             *)

\* A call is in a part of the message of its own type.
LEMMA AskedPart ==
    ASSUME NEW m, WellFormed(m), NEW c \in Calls, Asks(m, c), None \notin Calls
    PROVE  /\ m.role = "assistant"
           /\ \E j \in 1..Len(m.parts) : m.parts[j].type = "tool-call" /\ m.parts[j].call = c
<1>1. PICK j \in DOMAIN m.parts : m.parts[j].call = c BY DEF Asks
<1>2. DOMAIN m.parts = 1..Len(m.parts) BY DEF WellFormed, Entries
<1>3. m.role = "assistant" /\ m.parts[j].type = "tool-call" BY <1>1 DEF WellFormed
<1> QED BY <1>1, <1>2, <1>3

\* Output of a call that the message asks for is shown after its parts.
LEMMA OutputPut ==
    ASSUME NEW v, NEW m, WellFormed(m), NEW b \in Seq(Blocks), ShowsParts(v, b, m),
           NEW c \in Calls, Asks(m, c), HasOutput(v, c),
           NEW x \in Blocks, x.type = "tool-result", x.call = c
    PROVE  PutBlock(b, x) \in Seq(Blocks) /\ ShowsParts(v, PutBlock(b, x), m)
<1> DEFINE p == Len(m.parts)
           d == PutBlock(b, x)
<1>1. p \in Nat /\ Len(b) \in Nat /\ p <= Len(b) BY DEF WellFormed, Entries, ShowsParts
<1>2. DOMAIN m.parts = 1..p BY DEF WellFormed, Entries
<1>3. CASE d = Append(b, x)
    <2> HIDE DEF p, d
    <2>1. d \in Seq(Blocks) /\ Len(d) = Len(b) + 1 /\ d[Len(b) + 1] = x
            /\ \A j \in 1..Len(b) : d[j] = b[j]
        BY <1>3
    <2>2. \A j \in 1..p : j \in 1..Len(b) BY <1>1
    <2>3. \A j \in (p + 1)..Len(d) : j = Len(b) + 1 \/ (j \in (p + 1)..Len(b) /\ j \in 1..Len(b))
        BY <1>1, <2>1
    <2>4. Len(d) >= p BY <1>1, <2>1
    <2> QED BY <2>1, <2>2, <2>3, <2>4 DEF ShowsParts, p, d
<1>4. CASE \E l \in 1..Len(b) : /\ b[l].type = x.type /\ b[l].call = x.call
                                /\ d = [b EXCEPT ![l] = x]
    <2>1. PICK l \in 1..Len(b) : b[l].type = "tool-result" /\ d = [b EXCEPT ![l] = x]
        BY <1>4
    <2>2. l \notin 1..p
        <3>1. SUFFICES ASSUME l \in 1..p PROVE FALSE OBVIOUS
        <3>2. m.parts[l].type # "tool-result" BY <1>2, <3>1 DEF WellFormed
        <3> QED BY <2>1, <3>1, <3>2 DEF ShowsParts
    <2> HIDE DEF p, d
    <2>3. d \in Seq(Blocks) /\ Len(d) = Len(b) /\ d[l] = x
            /\ \A j \in 1..Len(b) : j # l => d[j] = b[j]
        BY <2>1
    <2>4. \A j \in 1..p : j \in 1..Len(b) /\ j # l BY <1>1, <2>2
    <2>5. \A j \in (p + 1)..Len(d) : j \in (p + 1)..Len(b) /\ j \in 1..Len(b) BY <1>1, <2>3
    <2>6. Len(d) >= p BY <1>1, <2>3
    <2> QED BY <2>3, <2>4, <2>5, <2>6 DEF ShowsParts, p, d
<1> QED BY <1>3, <1>4, PutIs

\* The status of a call is restated, and the others are kept.
LEMMA PartsRestated ==
    ASSUME NEW v, NEW w, NEW m, WellFormed(m), NEW b \in Seq(Blocks), ShowsParts(v, b, m),
           NEW c \in Calls, \A d \in Calls : d # c => Kept(v, w, d),
           NEW status \in {"running", "succeeded", "failed"}, Told(w, c, status), HasOutput(w, c)
    PROVE  /\ UpdateToolCallStatus(b, c, status) \in Seq(Blocks)
           /\ ShowsParts(w, UpdateToolCallStatus(b, c, status), m)
<1> DEFINE p == Len(m.parts)
           d == UpdateToolCallStatus(b, c, status)
           F(j) == IF b[j].type = "tool-call" /\ b[j].call = c
                   THEN [b[j] EXCEPT !.status = status] ELSE b[j]
<1>1. p \in Nat /\ Len(b) \in Nat /\ p <= Len(b) BY DEF WellFormed, Entries, ShowsParts
<1>2. DOMAIN m.parts = 1..p BY DEF WellFormed, Entries
<1>3. d = [j \in 1..Len(b) |-> F(j)] BY DEF UpdateToolCallStatus
<1>4. ASSUME NEW j \in 1..Len(b)
      PROVE  /\ F(j) \in Blocks
             /\ F(j).type = b[j].type /\ F(j).call = b[j].call /\ F(j).text = b[j].text
             /\ b[j].type = "tool-call" /\ b[j].call = c => F(j).status = status
             /\ ~(b[j].type = "tool-call" /\ b[j].call = c) => F(j) = b[j]
    <2>1. b[j] \in Blocks OBVIOUS
    <2> QED BY <2>1 DEF Blocks
<1> HIDE DEF F, d, p
<1>5. d \in [1..Len(b) -> Blocks] BY <1>3, <1>4
<1>6. d \in Seq(Blocks) /\ Len(d) = Len(b) /\ \A j \in 1..Len(b) : d[j] = F(j)
    BY <1>1, <1>3, <1>5
<1>7. \A j \in 1..p : j \in 1..Len(b) BY <1>1
<1>8. ASSUME NEW j \in 1..p, m.parts[j].type = "tool-call"
      PROVE  /\ d[j].type = "tool-call" /\ d[j].call = m.parts[j].call /\ d[j].text = 0
             /\ Told(w, d[j].call, d[j].status)
    <2>1. /\ b[j].type = "tool-call" /\ b[j].call = m.parts[j].call /\ b[j].text = 0
          /\ Told(v, b[j].call, b[j].status)
        BY <1>8 DEF ShowsParts, p
    <2>2. b[j].call \in Calls BY <1>2, <1>8, <2>1 DEF WellFormed
    <2>3. CASE b[j].call = c BY <1>4, <1>6, <1>7, <2>1, <2>3
    <2>4. CASE b[j].call # c
        <3>1. d[j] = b[j] BY <1>4, <1>6, <1>7, <2>4
        <3>2. Told(w, b[j].call, b[j].status) BY <2>1, <2>2, <2>4 DEF Kept
        <3> QED BY <2>1, <3>1, <3>2
    <2> QED BY <2>3, <2>4
<1>9. ASSUME NEW j \in 1..p, m.parts[j].type # "tool-call"
      PROVE  d[j] = m.parts[j]
    <2>1. b[j] = m.parts[j] BY <1>9 DEF ShowsParts, p
    <2> QED BY <1>4, <1>6, <1>7, <1>9, <2>1
<1>10. ASSUME NEW j \in (p + 1)..Len(d)
       PROVE  /\ d[j].type = "tool-result" /\ d[j].call \in Calls
              /\ Asks(m, d[j].call) /\ HasOutput(w, d[j].call)
    <2>1. j \in (p + 1)..Len(b) /\ j \in 1..Len(b) BY <1>1, <1>6
    <2>2. /\ b[j].type = "tool-result" /\ b[j].call \in Calls
          /\ Asks(m, b[j].call) /\ HasOutput(v, b[j].call)
        BY <2>1 DEF ShowsParts, p
    <2>3. d[j] = b[j] BY <1>4, <1>6, <2>1, <2>2
    <2>4. HasOutput(w, b[j].call) BY <2>2 DEF Kept
    <2> QED BY <2>2, <2>3, <2>4
<1>11. Len(d) >= p BY <1>1, <1>6
<1>12. ShowsParts(w, d, m) BY <1>8, <1>9, <1>10, <1>11 DEF ShowsParts, p
<1> QED BY <1>6, <1>12 DEF d

\* The block of a started call restates the status of the one part it has.
LEMMA StartedRestates ==
    ASSUME NEW v, NEW m, WellFormed(m), NEW b \in Seq(Blocks), ShowsParts(v, b, m),
           NEW c \in Calls, Asks(m, c), None \notin Calls
    PROVE  PutBlock(b, Block("tool-call", c, 0, "running"))
             = UpdateToolCallStatus(b, c, "running")
<1> DEFINE p == Len(m.parts)
           x == Block("tool-call", c, 0, "running")
           d == PutBlock(b, x)
<1>1. p \in Nat /\ Len(b) \in Nat /\ p <= Len(b) BY DEF WellFormed, Entries, ShowsParts
<1>2. DOMAIN m.parts = 1..p BY DEF WellFormed, Entries
<1>3. x \in Blocks /\ x.type = "tool-call" /\ x.call = c BY DEF Block, Blocks
<1>4. \A i \in 1..Len(b) : i \in 1..p \/ i \in (p + 1)..Len(b) BY <1>1
<1>5. ASSUME NEW i \in 1..Len(b), b[i].type = "tool-call", b[i].call = c
      PROVE  i \in 1..p /\ m.parts[i].call = c /\ b[i].text = 0
    <2>1. i \in 1..p BY <1>4, <1>5 DEF ShowsParts
    <2> QED BY <1>5, <2>1 DEF ShowsParts
<1>6. PICK j \in 1..p : m.parts[j].type = "tool-call" /\ m.parts[j].call = c BY AskedPart
<1>7. j \in 1..Len(b) BY <1>1
<1>8. b[j].type = "tool-call" /\ b[j].call = c BY <1>6 DEF ShowsParts
<1>9. \A i \in 1..Len(b) : b[i].type = "tool-call" /\ b[i].call = c => i = j
    BY <1>2, <1>5, <1>6 DEF WellFormed
<1>10. PICK l \in 1..Len(b) : b[l].type = x.type /\ b[l].call = x.call /\ d = [b EXCEPT ![l] = x]
    <2> HIDE DEF x
    <2> QED BY <1>3, <1>7, <1>8, PutIs
<1>11. l = j BY <1>3, <1>9, <1>10
<1>12. d = [b EXCEPT ![j] = x] BY <1>10, <1>11
<1>13. [b[j] EXCEPT !.status = "running"] = x
    <2>1. b[j] \in Blocks /\ b[j].text = 0 BY <1>5, <1>7, <1>8
    <2> QED BY <1>8, <2>1 DEF Block, Blocks
<1> HIDE DEF x, d, p
<1>14. UpdateToolCallStatus(b, c, "running")
         = [i \in 1..Len(b) |-> IF b[i].type = "tool-call" /\ b[i].call = c
                                THEN [b[i] EXCEPT !.status = "running"] ELSE b[i]]
    BY DEF UpdateToolCallStatus
<1>15. \A i \in 1..Len(b) : (IF b[i].type = "tool-call" /\ b[i].call = c
                             THEN [b[i] EXCEPT !.status = "running"] ELSE b[i])
                            = IF i = j THEN x ELSE b[i]
    BY <1>8, <1>9, <1>13
<1>16. d = [i \in 1..Len(b) |-> IF i = j THEN x ELSE b[i]]
    <2>1. b \in [1..Len(b) -> Blocks] OBVIOUS
    <2>2. DOMAIN d = 1..Len(b) /\ \A i \in 1..Len(b) : d[i] = IF i = j THEN x ELSE b[i]
        BY <1>7, <1>12, <2>1
    <2>3. d = [i \in DOMAIN d |-> d[i]] BY <1>12
    <2> QED BY <2>2, <2>3
<1>17. d = UpdateToolCallStatus(b, c, "running") BY <1>14, <1>15, <1>16
<1> QED BY <1>17 DEF d, x

\* The calls of a running agent.
LEMMA ToolPi ==
    ASSUME LiveInv, now = None, ending = None, NEW c \in Calls, tool[c] \in {"requested", "running"},
           NEW to \in {"running", "succeeded", "failed"}, tool' = [tool EXCEPT ![c] = to],
           UNCHANGED <<agent, now, branch, ending, lastAssistant>>
    PROVE  PiInv'
<1> USE DEF LiveInv
<1>1. tool \in [Calls -> {"none", "named", "requested", "running", "succeeded", "failed", "stored"}]
    BY DEF LiveTypeOK
<1>2. tool'[c] = to /\ \A d \in Calls : d # c => tool'[d] = tool[d] BY <1>1
<1>3. OnceInBranch' BY DEF PiInv, OnceInBranch
<1>4. Latest' = Latest BY DEF Latest
<1>5. ASSUME NEW d \in Calls
      PROVE  /\ tool'[d] \in {"none", "named"} => \A i \in DOMAIN branch : ~Asks(branch[i], d)
             /\ tool'[d] # "stored" => \A i \in DOMAIN branch : ~Answers(branch[i], d)
             /\ tool'[d] \in Open => /\ agent = "running"
                                     /\ \E k \in DOMAIN branch : /\ Latest = EntryId(k)
                                                                 /\ Asks(branch[k], d)
             /\ tool'[d] # "named"
    <2>1. CASE d = c BY <1>2, <2>1 DEF PiInv, CallsInBranch, Open
    <2>2. CASE d # c BY <1>2, <2>2 DEF PiInv, CallsInBranch
    <2> QED BY <2>1, <2>2
<1>6. CallsInBranch' BY <1>4, <1>5 DEF CallsInBranch
<1>7. Producing' BY DEF Producing
<1>8. Deferred' BY DEF Deferred
<1> QED BY <1>3, <1>6, <1>7, <1>8 DEF PiInv

\* The entry k asks for the call c, and the browser shows it, and nothing else
\* of the call, at the same position.
Place(c, k) ==
    /\ Len(shown.messages) = Len(branch)
    /\ lastAssistant = EntryId(k) /\ Asks(branch[k], c) /\ WellFormed(branch[k])
    /\ branch[k].role = "assistant"
    /\ shown.messages[k].role = "assistant"
    /\ shown.messages[k].blocks \in Seq(Blocks)
    /\ ShowsParts(View, shown.messages[k].blocks, branch[k])
    /\ \A i \in 1..Len(shown.messages) :
          /\ shown.messages[i].entryId # None
          /\ shown.messages[i].entryId = lastAssistant <=> i = k
          /\ HasCall(shown.messages[i], c) <=> i = k

\* Where the call of a tool event is, and what the browser shows there.
LEMMA ToolPlace ==
    ASSUME LiveInv, NoneIsNothing, now = None, ending = None, NEW c \in Calls,
           tool[c] \in {"requested", "running"}
    PROVE  \E k \in 1..Len(branch) : Place(c, k)
<1> USE DEF LiveInv
<1> DEFINE n == Len(branch)
           ms == shown.messages
<1>0. None \notin Calls /\ None \notin MessageIds BY DEF NoneIsNothing
<1>1. branch \in Seq(Entries) /\ n \in Nat /\ DOMAIN branch = 1..n BY DEF LiveTypeOK
<1>2. ShowsFirst(n) /\ Len(ms) = n BY ShownWhole
<1>3. PICK k \in 1..n : lastAssistant = EntryId(k) /\ Asks(branch[k], c)
    BY <1>1 DEF PiInv, CallsInBranch, Open, Latest
<1>4. \A i \in 1..n : WellFormed(branch[i]) BY <1>1 DEF PiInv, OnceInBranch
<1>5. \A i \in 1..n : Shows(View, ms[i], i, branch[i]) BY <1>2 DEF ShowsFirst
<1>6. branch[k].role = "assistant" BY <1>0, <1>3, <1>4, AskedPart
<1>7. ms[k].role = "assistant" /\ ShowsParts(View, ms[k].blocks, branch[k])
    BY <1>5, <1>6 DEF Shows, LiveRole
<1>8. \A i \in 1..n : ms[i] \in Messages /\ ms[i].entryId = EntryId(i) BY <1>5 DEF Shows
<1>9. \A i \in 1..n : ms[i].entryId \in MessageIds /\ ms[i].blocks \in Seq(Blocks)
    BY <1>8 DEF Messages
<1>10. \A i \in 1..n : ms[i].entryId = lastAssistant <=> i = k BY <1>3, <1>8, EntryIdsDiffer
<1>11. ASSUME NEW i \in 1..n, HasCall(ms[i], c) PROVE i = k
    <2>1. PICK j \in DOMAIN ms[i].blocks : ms[i].blocks[j].call = c BY <1>11 DEF HasCall
    <2>2. CASE branch[i].role = "toolResult"
        <3>1. ms[i].blocks = <<SerializeToolResult(branch[i])>> BY <1>5, <2>2 DEF Shows
        <3>2. ms[i].blocks[j] = SerializeToolResult(branch[i]) BY <2>1, <3>1
        <3>3. branch[i].call = c BY <2>1, <3>2 DEF SerializeToolResult, Block
        <3>4. Answers(branch[i], c) BY <2>2, <3>3 DEF Answers
        <3>5. tool[c] # "stored" OBVIOUS
        <3> QED BY <1>1, <3>4, <3>5 DEF PiInv, CallsInBranch
    <2>3. CASE branch[i].role # "toolResult"
        <3> DEFINE b == ms[i].blocks
                   m == branch[i]
        <3>1. ShowsParts(View, b, m) BY <1>5, <2>3 DEF Shows
        <3>2. Len(m.parts) \in Nat /\ DOMAIN m.parts = 1..Len(m.parts)
            BY <1>4 DEF WellFormed, Entries
        <3>3. DOMAIN b = 1..Len(b) /\ Len(b) \in Nat BY <1>9
        <3>4. j \in 1..Len(m.parts) \/ j \in (Len(m.parts) + 1)..Len(b) BY <2>1, <3>2, <3>3
        <3>5. Asks(m, c)
            <4>1. CASE j \in 1..Len(m.parts)
                <5>1. m.parts[j].call = c BY <2>1, <3>1, <4>1 DEF ShowsParts
                <5> QED BY <3>2, <4>1, <5>1 DEF Asks
            <4>2. CASE j \in (Len(m.parts) + 1)..Len(b) BY <2>1, <3>1, <4>2 DEF ShowsParts
            <4> QED BY <3>4, <4>1, <4>2
        <3> QED BY <1>1, <1>3, <3>5 DEF PiInv, OnceInBranch
    <2> QED BY <2>2, <2>3
<1>12. HasCall(ms[k], c)
    <2>1. PICK j \in 1..Len(branch[k].parts) :
              branch[k].parts[j].type = "tool-call" /\ branch[k].parts[j].call = c
        BY <1>0, <1>3, <1>4, AskedPart
    <2>2. ms[k].blocks[j].call = c BY <1>7, <2>1 DEF ShowsParts
    <2>3. Len(branch[k].parts) \in Nat /\ Len(ms[k].blocks) \in Nat
            /\ Len(branch[k].parts) <= Len(ms[k].blocks) /\ DOMAIN ms[k].blocks = 1..Len(ms[k].blocks)
        BY <1>4, <1>7, <1>9 DEF ShowsParts, WellFormed, Entries
    <2>4. j \in DOMAIN ms[k].blocks BY <2>3
    <2> QED BY <1>7, <2>2, <2>4 DEF HasCall
<1>13. \A i \in 1..n : HasCall(ms[i], c) <=> i = k BY <1>11, <1>12
<1> QED BY <1>0, <1>2, <1>3, <1>4, <1>6, <1>7, <1>9, <1>10, <1>13 DEF Place

\* A call that is not the one of the event is kept.
LEMMA OthersKept ==
    ASSUME tool \in [Calls -> {"none", "named", "requested", "running", "succeeded", "failed", "stored"}],
           NEW c \in Calls, NEW to, tool' = [tool EXCEPT ![c] = to],
           UNCHANGED <<branch, overlooked>>
    PROVE  \A d \in Calls : d # c => Kept(View, View', d)
<1>1. ASSUME NEW d \in Calls, d # c PROVE Kept(View, View', d)
    <2>1. View'.tool[d] = View.tool[d] /\ View'.branch = View.branch
            /\ View'.overlooked = View.overlooked
        BY <1>1 DEF View
    <2> QED BY <2>1 DEF Kept, Told, HasOutput
<1> QED BY <1>1

\* Of the messages, the one of the call is shown with other blocks.
LEMMA StepTool ==
    ASSUME LiveInv, NoneIsNothing, now = None, ending = None, NEW c \in Calls,
           tool[c] \in {"requested", "running"},
           NEW to \in {"running", "succeeded", "failed"}, tool' = [tool EXCEPT ![c] = to],
           UNCHANGED <<agent, now, branch, compacted, named, file, ending, lastAssistant, record,
                       reading, reads, overlooked>>,
           NEW k \in 1..Len(branch), Place(c, k),
           NEW b \in Seq(Blocks), ShowsParts(View', b, branch[k]),
           shown' = WithMessages(shown, WithBlocks(shown.messages, k, b))
    PROVE  LiveInv'
<1> USE DEF LiveInv
<1> DEFINE n == Len(branch)
           ms == shown.messages
           ns == WithBlocks(ms, k, b)
           y == [ms[k] EXCEPT !.blocks = b]
<1>1. branch \in Seq(Entries) /\ n \in Nat /\ DOMAIN branch = 1..n
        /\ shown \in Screens /\ ms \in Seq(Messages)
    BY DEF LiveTypeOK, Screens
<1>2. tool \in [Calls -> {"none", "named", "requested", "running", "succeeded", "failed", "stored"}]
    BY DEF LiveTypeOK
<1>3. tool' \in [Calls -> {"none", "named", "requested", "running", "succeeded", "failed", "stored"}]
    BY <1>2
<1>4. PiInv' BY ToolPi
<1>5. Len(ms) = n BY DEF Place
<1>6. ms[k] \in Messages BY <1>1, <1>5
<1>7. y \in Messages /\ y.entryId = ms[k].entryId /\ y.role = ms[k].role
        /\ y.stopReason = ms[k].stopReason /\ y.blocks = b
    BY <1>6 DEF Messages
<1>8. ns \in Seq(Messages) /\ Len(ns) = n /\ ns[k] = y /\ \A i \in 1..n : i # k => ns[i] = ms[i]
    <2>1. ns = [ms EXCEPT ![k] = y] BY DEF WithBlocks
    <2> HIDE DEF y, ms, n, ns
    <2>2. k \in 1..n BY DEF n
    <2> QED BY <1>1, <1>5, <1>7, <2>1, <2>2
<1> HIDE DEF ns
<1>9. shown' \in Screens /\ shown'.messages = ns
        /\ shown'.status = shown.status /\ shown'.title = shown.title
        /\ shown'.durable = shown.durable /\ shown'.usage = shown.usage
    BY <1>1, <1>8 DEF WithMessages, Screens, ns
<1>10. LiveTypeOK' BY <1>3, <1>9 DEF LiveTypeOK
<1>11. FieldsInv' BY <1>9 DEF FieldsInv, ContextUsage
<1>12. \A d \in Calls : d # c => Kept(View, View', d) BY <1>2, OthersKept
<1>13. ShowsFirst(n) BY ShownWhole
<1>14. ASSUME NEW i \in 1..n PROVE Shows(View', ns[i], i, branch[i])
    <2>1. Shows(View, ms[i], i, branch[i]) BY <1>13 DEF ShowsFirst
    <2>2. CASE i = k
        <3>1. branch[k].role = "assistant" BY DEF Place
        <3> QED BY <1>7, <1>8, <2>1, <2>2, <3>1 DEF Shows
    <2>3. CASE i # k
        <3>1. WellFormed(branch[i]) BY <1>1 DEF PiInv, OnceInBranch
        <3>2. ~Asks(branch[i], c) BY <1>1, <2>3 DEF PiInv, OnceInBranch, Place
        <3>3. \A d \in Calls : Asks(branch[i], d) => Kept(View, View', d) BY <1>12, <3>2
        <3> QED BY <1>8, <2>1, <2>3, <3>1, <3>3, ShowsKept
    <2> QED BY <2>2, <2>3
<1>15. ShowsFirst(n)' BY <1>1, <1>8, <1>9, <1>14 DEF ShowsFirst
<1>16. ThenNothing(n)' BY <1>8, <1>9 DEF ThenNothing
<1>17. ShownInv' BY <1>15, <1>16 DEF ShownInv
<1> QED BY <1>4, <1>10, <1>11, <1>17

(* A call that starts runs in the message that asks for it ...             *)
LEMMA StepToolStarts ==
    ASSUME LiveInv, NoneIsNothing, NEW c \in Calls, ToolStarts(c) PROVE LiveInv'
<1> USE DEF LiveInv
<1> DEFINE x == Block("tool-call", c, 0, "running")
<1>1. UNCHANGED <<agent, now, branch, compacted, named, file, ending, lastAssistant, record,
                  reading, reads, overlooked>>
        /\ now = None /\ ending = None /\ tool[c] = "requested" /\ tool' = [tool EXCEPT ![c] = "running"]
    BY DEF ToolStarts, ToolEvent, Yielded, server
<1>2. PICK k \in 1..Len(branch) : Place(c, k) BY <1>1, ToolPlace
<1> DEFINE b == shown.messages[k].blocks
<1>3. None \notin Calls BY DEF NoneIsNothing
<1>4. shown \in Screens BY DEF LiveTypeOK
<1>5. k \in 1..Len(shown.messages) BY <1>2 DEF Place
<1>6. shown' = WithMessages(shown, WithBlocks(shown.messages, k, PutBlock(b, x)))
    <2>1. shown' = ApplyConversationEvent(shown,
                     [type |-> "tool.started", id |-> lastAssistant, call |-> c])
        BY DEF ToolStarts, ToolEvent, EmitEvent
    <2>2. shown.messages[k].role = "assistant"
            /\ \A i \in 1..Len(shown.messages) : shown.messages[i].entryId = lastAssistant <=> i = k
        BY <1>2 DEF Place
    <2> QED BY <1>4, <1>5, <2>1, <2>2, ToolStartedIs
<1>7. b \in Seq(Blocks) /\ ShowsParts(View, b, branch[k]) /\ WellFormed(branch[k])
        /\ Asks(branch[k], c)
    BY <1>2 DEF Place
<1>8. PutBlock(b, x) = UpdateToolCallStatus(b, c, "running")
    BY <1>3, <1>7, StartedRestates
<1>9. tool'[c] = "running" BY <1>1 DEF LiveTypeOK
<1>10. Told(View', c, "running") /\ HasOutput(View', c) BY <1>9 DEF Told, HasOutput, View
<1>11. \A d \in Calls : d # c => Kept(View, View', d) BY <1>1, OthersKept DEF LiveTypeOK
<1> HIDE DEF b, x
<1>12. /\ UpdateToolCallStatus(b, c, "running") \in Seq(Blocks)
       /\ ShowsParts(View', UpdateToolCallStatus(b, c, "running"), branch[k])
    BY <1>7, <1>10, <1>11, PartsRestated
<1> QED BY <1>1, <1>2, <1>6, <1>8, <1>12, StepTool

\* Output or an outcome of a running call.
LEMMA StepToolOutput ==
    ASSUME LiveInv, NoneIsNothing, now = None, ending = None, NEW c \in Calls,
           tool[c] = "running",
           NEW to \in {"running", "succeeded", "failed"}, tool' = [tool EXCEPT ![c] = to],
           UNCHANGED <<agent, now, branch, compacted, named, file, ending, lastAssistant, record,
                       reading, reads, overlooked>>,
           NEW k \in 1..Len(branch), Place(c, k),
           NEW x \in Blocks, x.type = "tool-result", x.call = c,
           shown' = WithMessages(shown, WithBlocks(shown.messages, k,
                      PutBlock(UpdateToolCallStatus(shown.messages[k].blocks, c, to), x)))
    PROVE  LiveInv'
<1> USE DEF LiveInv
<1> DEFINE b == shown.messages[k].blocks
           d == UpdateToolCallStatus(b, c, to)
<1>1. b \in Seq(Blocks) /\ ShowsParts(View, b, branch[k]) /\ WellFormed(branch[k])
        /\ Asks(branch[k], c)
    BY DEF Place
<1>2. tool'[c] = to BY DEF LiveTypeOK
<1>3. Told(View', c, to) /\ HasOutput(View', c) BY <1>2 DEF Told, HasOutput, View
<1>4. \A e \in Calls : e # c => Kept(View, View', e) BY OthersKept DEF LiveTypeOK
<1> HIDE DEF b
<1>5. d \in Seq(Blocks) /\ ShowsParts(View', d, branch[k]) BY <1>1, <1>3, <1>4, PartsRestated
<1> HIDE DEF d
<1>6. PutBlock(d, x) \in Seq(Blocks) /\ ShowsParts(View', PutBlock(d, x), branch[k])
    BY <1>1, <1>3, <1>5, OutputPut
<1>7. shown' = WithMessages(shown, WithBlocks(shown.messages, k, PutBlock(d, x))) BY DEF d, b
<1> QED BY <1>6, <1>7, StepTool

(* ... as do its partial output ...                                        *)
LEMMA StepToolUpdates ==
    ASSUME LiveInv, NoneIsNothing, NEW c \in Calls, ToolUpdates(c) PROVE LiveInv'
<1> USE DEF LiveInv
<1> DEFINE x == Block("tool-result", c, Partial, "succeeded")
<1>1. UNCHANGED <<agent, now, branch, compacted, named, file, ending, lastAssistant, record,
                  reading, reads, overlooked>>
        /\ now = None /\ ending = None /\ tool[c] = "running" /\ tool' = [tool EXCEPT ![c] = "running"]
    BY DEF ToolUpdates, ToolEvent, Yielded, server
<1>2. PICK k \in 1..Len(branch) : Place(c, k) BY <1>1, ToolPlace
<1>3. c # None BY DEF NoneIsNothing
<1>4. shown \in Screens BY DEF LiveTypeOK
<1>5. k \in 1..Len(shown.messages) BY <1>2 DEF Place
<1>6. shown' = WithMessages(shown, WithBlocks(shown.messages, k,
                 PutBlock(UpdateToolCallStatus(shown.messages[k].blocks, c, "running"), x)))
    <2>1. shown' = ApplyConversationEvent(shown, [type |-> "tool.updated", call |-> c])
        BY DEF ToolUpdates, ToolEvent, EmitEvent
    <2>2. /\ shown.messages[k].role = "assistant"
          /\ \A i \in 1..Len(shown.messages) : shown.messages[i].entryId # None
          /\ \A i \in 1..Len(shown.messages) : HasCall(shown.messages[i], c) <=> i = k
        BY <1>2 DEF Place
    <2> QED BY <1>3, <1>4, <1>5, <2>1, <2>2, ToolUpdatedIs
<1>7. x \in Blocks /\ x.type = "tool-result" /\ x.call = c
    BY DEF Block, Blocks, Partial
<1> HIDE DEF x
<1> QED BY <1>1, <1>2, <1>6, <1>7, StepToolOutput

(* ... and its end.                                                        *)
LEMMA StepToolEnds ==
    ASSUME LiveInv, NoneIsNothing, NEW c \in Calls, NEW status \in {"succeeded", "failed"},
           ToolEnds(c, status)
    PROVE  LiveInv'
<1> USE DEF LiveInv
<1> DEFINE x == Block("tool-result", c, Final, status)
<1>1. UNCHANGED <<agent, now, branch, compacted, named, file, ending, lastAssistant, record,
                  reading, reads, overlooked>>
        /\ now = None /\ ending = None /\ tool[c] = "running" /\ tool' = [tool EXCEPT ![c] = status]
    BY DEF ToolEnds, ToolEvent, Yielded, server
<1>2. PICK k \in 1..Len(branch) : Place(c, k) BY <1>1, ToolPlace
<1>3. c # None BY DEF NoneIsNothing
<1>4. shown \in Screens BY DEF LiveTypeOK
<1>5. k \in 1..Len(shown.messages) BY <1>2 DEF Place
<1>6. shown' = WithMessages(shown, WithBlocks(shown.messages, k,
                 PutBlock(UpdateToolCallStatus(shown.messages[k].blocks, c, status), x)))
    <2>1. shown' = ApplyConversationEvent(shown,
                     [type |-> "tool.completed", call |-> c, status |-> status])
        BY DEF ToolEnds, ToolEvent, EmitEvent
    <2>2. /\ shown.messages[k].role = "assistant"
          /\ \A i \in 1..Len(shown.messages) : shown.messages[i].entryId # None
          /\ \A i \in 1..Len(shown.messages) : HasCall(shown.messages[i], c) <=> i = k
        BY <1>2 DEF Place
    <2> QED BY <1>3, <1>4, <1>5, <2>1, <2>2, ToolCompletedIs
<1>7. x \in Blocks /\ x.type = "tool-result" /\ x.call = c
    BY DEF Block, Blocks, Final
<1> HIDE DEF x
<1> QED BY <1>1, <1>2, <1>6, <1>7, StepToolOutput

-----------------------------------------------------------------------------
(* The invariant                                                           *)

LEMMA LiveInitially == LiveInit => LiveInv
<1> SUFFICES ASSUME LiveInit PROVE LiveInv OBVIOUS
<1> USE DEF LiveInit
<1>1. LiveTypeOK
    <2>1. <<>> \in Seq(Entries) /\ <<>> \in Seq(Messages) OBVIOUS
    <2>2. record \in Records BY DEF Untitled, Records
    <2>3. shown \in Screens BY <2>1 DEF Screens
    <2>4. reading \in [Reads -> ReadStages] BY DEF ReadStages
    <2> QED BY <2>1, <2>2, <2>3, <2>4 DEF LiveTypeOK
<1>2. PiInv
    <2>1. DOMAIN branch = {} OBVIOUS
    <2>2. \A c \in Calls : tool[c] = "none" OBVIOUS
    <2> QED BY <2>1, <2>2 DEF PiInv, OnceInBranch, CallsInBranch, Producing, Deferred, Open
<1>3. ShownInv
    <2>1. Len(branch) = 0 /\ Len(shown.messages) = 0 OBVIOUS
    <2> QED BY <2>1 DEF ShownInv, ShowsFirst, ThenNothing
<1>4. FieldsInv BY DEF FieldsInv, ContextUsage, Untitled
<1> QED BY <1>1, <1>2, <1>3, <1>4 DEF LiveInv

(* Every step keeps LiveInv.                                               *)
LEMMA LiveStep ==
    ASSUME NoneIsNothing, LiveInv, [LiveNext]_(liveVars) PROVE LiveInv'
<1>1. CASE GetState BY <1>1, StepGetState
<1>2. CASE Rename BY <1>2, StepRename
<1>3. CASE \E op \in Reads : Refreshed(op) \/ HistoryRefreshed(op) \/ AccessFails(op)
    BY <1>3, StepRefreshed, StepHistoryRefreshed, StepAccessFails
<1>4. CASE Prompt BY <1>4, StepPrompt
<1>5. CASE AgentStarts BY <1>5, StepAgentStarts
<1>6. CASE AgentEnds BY <1>6, StepAgentEnds
<1>7. CASE UserStarts BY <1>7, StepUserStarts
<1>8. CASE AssistantStarts BY <1>8, StepAssistantStarts
<1>9. CASE \E c \in Calls : ResultStarts(c) BY <1>9, StepResultStarts
<1>10. CASE \E c \in Calls : CallPart(c) BY <1>10, StepCallPart
<1>11. CASE \E c \in Calls : ToolStarts(c) BY <1>11, StepToolStarts
<1>12. CASE \E c \in Calls : ToolUpdates(c) BY <1>12, StepToolUpdates
<1>13. CASE \E c \in Calls, status \in {"succeeded", "failed"} : ToolEnds(c, status)
    BY <1>13, StepToolEnds
<1>14. CASE \E type \in {"text", "thinking"} : Delta(type) BY <1>14, StepDelta
<1>15. CASE \E aborted \in BOOLEAN : MessageEnds(aborted) BY <1>15, StepMessageEnds
<1>16. CASE Completes BY <1>16, StepCompletes
<1>17. CASE Compacts BY <1>17, StepCompacts
<1>18. CASE FileLost BY <1>18, StepFileLost
<1>19. CASE UNCHANGED liveVars
    <2> USE <1>19 DEF liveVars, pi, server, browser, LiveInv
    <2>1. PiInv' BY QuietPi
    <2>2. ShownInv' BY QuietShown
    <2>3. FieldsInv' BY DEF FieldsInv, ContextUsage
    <2>4. LiveTypeOK' BY DEF LiveTypeOK
    <2> QED BY <2>1, <2>2, <2>3, <2>4
<1> QED BY <1>1, <1>2, <1>3, <1>4, <1>5, <1>6, <1>7, <1>8, <1>9, <1>10, <1>11, <1>12, <1>13,
           <1>14, <1>15, <1>16, <1>17, <1>18, <1>19 DEF LiveNext

\* In every state, what the browser shows of each stored entry, of each tool
\* call and of the record is what LiveInv says.
THEOREM LiveInvariance == LiveSpec => []LiveInv
<1>0. NoneIsNothing BY LiveAssumption
<1>1. LiveInv /\ [LiveNext]_(liveVars) => LiveInv' BY <1>0, LiveStep
<1>2. LiveInit => LiveInv BY <1>0, LiveInitially
<1> QED BY <1>1, <1>2, PTL DEF LiveSpec

\* Every stored message is on the timeline once, in the order of the branch
\* and under its permanent identity, wherever a snapshot falls between
\* message_start, message_end and the deferred completion.
THEOREM EntriesAreInOrder == LiveSpec => []EntriesInOrder
<1> NoneIsNothing BY LiveAssumption
<1>1. ASSUME LiveInv PROVE EntriesInOrder
    <2> USE <1>1 DEF LiveInv
    <2> DEFINE n == Len(branch)
               ms == shown.messages
    <2>1. n \in Nat /\ ms \in Seq(Messages) /\ Len(ms) \in Nat
        BY DEF LiveTypeOK, Screens
    <2>2. ASSUME NEW k, ShowsFirst(k), NEW i \in 1..k
          PROVE  ms[i].entryId = EntryId(i) /\ ~Streaming(ms[i])
        BY <2>2, StreamIsNoEntry DEF ShowsFirst, Shows, Streaming
    <2>3. ASSUME NEW k \in Nat, ShowsFirst(k), Len(ms) = k,
                 k = n \/ (ending # None /\ k = n - 1)
          PROVE  EntriesInOrder
        <3>1. k > 0 => ~Streaming(ms[k]) BY <2>2, <2>3
        <3> QED BY <2>1, <2>2, <2>3, <3>1 DEF EntriesInOrder
    <2>4. ASSUME NEW k \in Nat, NEW m, ShowsFirst(k), ThenStreams(k, m), now # None \/ ending # None,
                 k = n \/ (ending # None /\ k = n - 1)
          PROVE  EntriesInOrder
        <3>1. Len(ms) = k + 1 /\ Streaming(ms[k + 1])
            BY <2>4, StreamIsNoEntry DEF ThenStreams, Streaming
        <3>2. k + 1 > 0 /\ (k + 1) - 1 = k BY <2>4
        <3>3. \A i \in 1..k : ms[i].entryId = EntryId(i) BY <2>2, <2>4
        <3> QED BY <2>1, <2>4, <3>1, <3>2, <3>3 DEF EntriesInOrder
    <2>5. ending # None => n - 1 \in Nat BY <2>1 DEF PiInv, Deferred, LiveTypeOK
    <2> QED BY <2>1, <2>3, <2>4, <2>5 DEF ShownInv, ThenNothing
<1> QED BY <1>1, LiveInvariance, PTL

-----------------------------------------------------------------------------
(* The timeline at rest                                                    *)

\* No call is open, and ms shows every entry of the branch.
Resting == /\ branch \in Seq(Entries) /\ OnceInBranch /\ None \notin Calls
           /\ \A c \in Calls : tool[c] \in {"none", "stored"}
           /\ \A c \in Calls : tool[c] = "none" => \A i \in DOMAIN branch : ~Asks(branch[i], c)

AllShown(ms) ==
    /\ ms \in Seq(Messages) /\ Len(ms) = Len(branch)
    /\ \A i \in 1..Len(branch) : Shows(View, ms[i], i, branch[i])

\* The calls with a card, and the result on the card of one.
Asked == {c \in Calls : \E i \in DOMAIN branch : Asks(branch[i], c)}
Answered(c) == \E k \in DOMAIN branch : Answers(branch[k], c)
ResultOf(c) == IF Answered(c)
               THEN SerializeToolResult(branch[CHOOSE k \in DOMAIN branch : Answers(branch[k], c)])
               ELSE None

\* A part of an entry, and an entry, as the timeline draws them.
DrawnPart(b) ==
    IF b.type # "tool-call" THEN b
    ELSE Block("tool-call", b.call, IF ResultOf(b.call) = None THEN 0 ELSE ResultOf(b.call).text,
                    IF b.call \in overlooked THEN "any"
                    ELSE IF CollectToolOutcomes(branch)[b.call] \in {"pending", "running"}
                            \/ ResultOf(b.call) = None
                         THEN CollectToolOutcomes(branch)[b.call]
                         ELSE ResultOf(b.call).status)
DrawnBlocks(m) ==
    IF m.role = "toolResult"
    THEN [j \in {l \in {1} : m.call \notin Asked} |-> SerializeToolResult(m)]
    ELSE [j \in 1..Len(m.parts) |-> DrawnPart(m.parts[j])]
Drawn(i) == [entryId |-> EntryId(i), role |-> LiveRole(branch[i]),
             stopReason |-> branch[i].role = "assistant", blocks |-> DrawnBlocks(branch[i])]

\* The blocks of a shown entry: the parts of an answer come first, as parts,
\* and what follows is output of a call that the entry asks for.
LEMMA RestBlocks ==
    ASSUME Resting, NEW ms, AllShown(ms), NEW i \in 1..Len(branch), branch[i].role # "toolResult"
    PROVE  /\ Len(branch[i].parts) \in Nat /\ Len(ms[i].blocks) \in Nat
           /\ Len(ms[i].blocks) >= Len(branch[i].parts)
           /\ DOMAIN branch[i].parts = 1..Len(branch[i].parts)
           /\ DOMAIN ms[i].blocks = 1..Len(ms[i].blocks)
           /\ ShowsParts(View, ms[i].blocks, branch[i])
<1>1. i \in DOMAIN branch /\ WellFormed(branch[i]) BY DEF Resting, OnceInBranch
<1>2. Shows(View, ms[i], i, branch[i]) BY DEF AllShown
<1>3. ms[i].blocks \in Seq(Blocks) BY <1>2 DEF Shows, Messages
<1>4. branch[i].parts \in Seq(Blocks) BY <1>1 DEF WellFormed, Entries
<1>5. ShowsParts(View, ms[i].blocks, branch[i]) BY <1>2 DEF Shows
<1>6. Len(ms[i].blocks) >= Len(branch[i].parts) BY <1>5 DEF ShowsParts
<1> QED BY <1>3, <1>4, <1>5, <1>6

\* A call block on the screen is a part of its entry, where one is.
LEMMA RestPart ==
    ASSUME Resting, NEW ms, AllShown(ms), NEW i \in 1..Len(branch), branch[i].role # "toolResult",
           NEW j \in 1..Len(branch[i].parts)
    PROVE  /\ j \in DOMAIN ms[i].blocks
           /\ branch[i].parts[j].type # "tool-call" => ms[i].blocks[j] = branch[i].parts[j]
           /\ branch[i].parts[j].type # "tool-call" => branch[i].parts[j].type # "tool-result"
           /\ branch[i].parts[j].type = "tool-call" =>
                 /\ ms[i].blocks[j].type = "tool-call"
                 /\ branch[i].parts[j].call \in Calls
                 /\ ms[i].blocks[j].call = branch[i].parts[j].call
                 /\ Told(View, branch[i].parts[j].call, ms[i].blocks[j].status)
<1>1. i \in DOMAIN branch /\ WellFormed(branch[i]) BY DEF Resting, OnceInBranch
<1>2. /\ Len(branch[i].parts) \in Nat /\ Len(ms[i].blocks) \in Nat
      /\ Len(ms[i].blocks) >= Len(branch[i].parts)
      /\ DOMAIN branch[i].parts = 1..Len(branch[i].parts)
      /\ DOMAIN ms[i].blocks = 1..Len(ms[i].blocks)
      /\ ShowsParts(View, ms[i].blocks, branch[i])
    BY RestBlocks
<1>3. j \in DOMAIN ms[i].blocks BY <1>2
<1>4. \/ branch[i].parts[j].type \in {"text", "thinking"}
      \/ branch[i].parts[j].type = "tool-call" /\ branch[i].parts[j].call \in Calls
    BY <1>1, <1>2 DEF WellFormed
<1>5. IF branch[i].parts[j].type = "tool-call"
      THEN /\ ms[i].blocks[j].type = "tool-call" /\ ms[i].blocks[j].call = branch[i].parts[j].call
           /\ Told(View, ms[i].blocks[j].call, ms[i].blocks[j].status)
      ELSE ms[i].blocks[j] = branch[i].parts[j]
    BY <1>2 DEF ShowsParts
<1> QED BY <1>3, <1>4, <1>5

\* The calls with a card are those that the branch asks for.
LEMMA RestCalls ==
    ASSUME Resting, NEW ms, AllShown(ms)
    PROVE  ToolCallIds(ms) = Asked
<1>0. DOMAIN ms = 1..Len(branch) /\ DOMAIN branch = 1..Len(branch) BY DEF AllShown, Resting
<1>1. ASSUME NEW c \in Calls, NEW i \in 1..Len(branch), Asks(branch[i], c)
      PROVE  \E j \in DOMAIN ms[i].blocks :
                ms[i].blocks[j].type = "tool-call" /\ ms[i].blocks[j].call = c
    <2>1. WellFormed(branch[i]) BY <1>0 DEF Resting, OnceInBranch
    <2>2. PICK j \in DOMAIN branch[i].parts : branch[i].parts[j].call = c BY <1>1 DEF Asks
    <2>3. branch[i].role # "toolResult" BY <2>1, <2>2 DEF WellFormed
    <2>4. CASE branch[i].parts[j].type = "tool-call"
        <3>1. j \in 1..Len(branch[i].parts) BY <2>3, RestBlocks
        <3> QED BY <2>2, <2>3, <2>4, <3>1, RestPart
    <2>5. branch[i].parts[j].type = "tool-call" BY <2>1, <2>2 DEF WellFormed, Resting
    <2> QED BY <2>4, <2>5
<1>2. ASSUME NEW i \in 1..Len(branch), NEW j \in DOMAIN ms[i].blocks,
             ms[i].blocks[j].type = "tool-call"
      PROVE  Asks(branch[i], ms[i].blocks[j].call)
    <2>1. CASE branch[i].role = "toolResult"
        <3>1. ms[i].blocks = <<SerializeToolResult(branch[i])>> BY <2>1 DEF AllShown, Shows
        <3>2. ms[i].blocks[j] = SerializeToolResult(branch[i]) BY <3>1
        <3> QED BY <1>2, <3>2 DEF SerializeToolResult, Block
    <2>2. CASE branch[i].role # "toolResult"
        <3>1. /\ Len(branch[i].parts) \in Nat /\ Len(ms[i].blocks) \in Nat
              /\ DOMAIN branch[i].parts = 1..Len(branch[i].parts)
              /\ DOMAIN ms[i].blocks = 1..Len(ms[i].blocks)
              /\ ShowsParts(View, ms[i].blocks, branch[i])
            BY <2>2, RestBlocks
        <3>2. j \in 1..Len(branch[i].parts) BY <1>2, <3>1 DEF ShowsParts
        <3>3. ms[i].blocks[j].call = branch[i].parts[j].call BY <2>2, <3>2, RestPart
        <3> QED BY <3>1, <3>2, <3>3 DEF Asks
    <2> QED BY <2>1, <2>2
<1> QED BY <1>0, <1>1, <1>2 DEF ToolCallIds, Asked

(* Output on the screen is of a call whose result is stored, there or      *)
(* later.                                                                  *)
LEMMA RestOutput ==
    ASSUME Resting, NEW ms, AllShown(ms), NEW i \in 1..Len(branch), NEW j \in DOMAIN ms[i].blocks,
           ms[i].blocks[j].type = "tool-result", ms[i].blocks[j].call \in Calls
    PROVE  \E k \in DOMAIN branch : Answers(branch[k], ms[i].blocks[j].call) /\ i <= k
<1>0. DOMAIN branch = 1..Len(branch) /\ Len(branch) \in Nat BY DEF Resting
<1>1. CASE branch[i].role = "toolResult"
    <2>1. ms[i].blocks = <<SerializeToolResult(branch[i])>> BY <1>1 DEF AllShown, Shows
    <2>2. ms[i].blocks[j] = SerializeToolResult(branch[i]) BY <2>1
    <2>3. Answers(branch[i], ms[i].blocks[j].call)
        BY <1>1, <2>2 DEF SerializeToolResult, Block, Answers
    <2>4. i \in DOMAIN branch /\ i <= i BY <1>0
    <2> QED BY <2>3, <2>4
<1>2. CASE branch[i].role # "toolResult"
    <2> DEFINE c == ms[i].blocks[j].call
    <2>1. /\ Len(branch[i].parts) \in Nat /\ Len(ms[i].blocks) \in Nat
          /\ DOMAIN ms[i].blocks = 1..Len(ms[i].blocks)
          /\ ShowsParts(View, ms[i].blocks, branch[i])
        BY <1>2, RestBlocks
    <2>2. j \notin 1..Len(branch[i].parts) BY <1>2, RestPart
    <2>3. j \in (Len(branch[i].parts) + 1)..Len(ms[i].blocks) BY <2>1, <2>2
    <2>4. Asks(branch[i], c) /\ HasOutput(View, c) BY <2>1, <2>3 DEF ShowsParts
    <2>5. tool[c] \in {"none", "stored"} BY DEF Resting
    <2>6. \E k \in DOMAIN branch : Answers(branch[k], c) BY <2>4, <2>5 DEF HasOutput, View
    <2>7. PICK k \in DOMAIN branch : Answers(branch[k], c) BY <2>6
    <2>8. i < k BY <1>0, <2>4, <2>7 DEF Resting, OnceInBranch
    <2> QED BY <1>0, <2>7, <2>8
<1> QED BY <1>1, <1>2

\* The result on the card of a call is the stored one.
LEMMA RestResult ==
    ASSUME Resting, NEW ms, AllShown(ms), NEW c \in Calls
    PROVE  ToolResult(ms, c) = ResultOf(c)
<1> DEFINE At(m) == SelectLastInSeq(m.blocks, LAMBDA b : b.type = "tool-result" /\ b.call = c)
           I == {i \in 1..Len(ms) : At(ms[i]) # 0}
           index == IF I # {} THEN Max(I) ELSE 0
<1>0. /\ DOMAIN branch = 1..Len(branch) /\ Len(branch) \in Nat /\ Len(ms) = Len(branch)
    BY DEF Resting, AllShown
<1>1. ToolResult(ms, c) = IF index = 0 THEN None ELSE ms[index].blocks[At(ms[index])]
    BY DEF ToolResult, SelectLastInSeq
<1>2. ASSUME NEW i \in 1..Len(ms), At(ms[i]) # 0
      PROVE  \E k \in DOMAIN branch : Answers(branch[k], c) /\ i <= k
    <2> DEFINE J == {j \in 1..Len(ms[i].blocks) :
                        ms[i].blocks[j].type = "tool-result" /\ ms[i].blocks[j].call = c}
    <2>1. J # {} BY <1>2 DEF SelectLastInSeq
    <2>2. PICK j \in J : TRUE BY <2>1
    <2>3. ms[i].blocks \in Seq(Blocks) BY <1>0 DEF AllShown, Shows, Messages
    <2>4. j \in DOMAIN ms[i].blocks /\ ms[i].blocks[j].type = "tool-result" /\ ms[i].blocks[j].call = c
        BY <2>2, <2>3
    <2> QED BY <1>0, <2>4, RestOutput
<1>3. CASE Answered(c)
    <2> DEFINE k == CHOOSE k \in DOMAIN branch : Answers(branch[k], c)
    <2>1. k \in DOMAIN branch /\ Answers(branch[k], c) BY <1>3, Zenon DEF Answered
    <2>2. ResultOf(c) = SerializeToolResult(branch[k]) BY <1>3 DEF ResultOf
    <2> HIDE DEF k
    <2>3. ms[k].blocks = <<SerializeToolResult(branch[k])>>
        BY <1>0, <2>1 DEF AllShown, Shows, Answers
    <2>4. {j \in 1..Len(ms[k].blocks) :
               ms[k].blocks[j].type = "tool-result" /\ ms[k].blocks[j].call = c} = {1}
        BY <2>1, <2>3 DEF SerializeToolResult, Block, Answers
    <2>5. Max({1}) = 1 BY OnePosition
    <2>6. At(ms[k]) = 1 BY <2>4, <2>5 DEF SelectLastInSeq
    <2> HIDE DEF At
    <2>7. k \in I BY <1>0, <2>1, <2>6
    <2>8. \A y \in I : k >= y
        <3> SUFFICES ASSUME NEW y \in I PROVE k >= y OBVIOUS
        <3>1. PICK l \in DOMAIN branch : Answers(branch[l], c) /\ y <= l BY <1>2
        <3>2. l = k BY <2>1, <3>1 DEF Resting, OnceInBranch
        <3> QED BY <1>0, <3>1, <3>2
    <2>9. I \subseteq Int BY <1>0
    <2> HIDE DEF I
    <2>10. Max(I) = k BY <2>7, <2>8, <2>9, LastPosition
    <2>11. index = k /\ k # 0 BY <1>0, <2>1, <2>7, <2>10
    <2>12. ToolResult(ms, c) = ms[k].blocks[1] BY <1>1, <2>6, <2>11
    <2> QED BY <2>2, <2>3, <2>12
<1>4. CASE ~Answered(c)
    <2>1. I = {} BY <1>2, <1>4 DEF Answered
    <2>2. ToolResult(ms, c) = None BY <1>1, <2>1
    <2> QED BY <1>4, <2>2 DEF ResultOf
<1> QED BY <1>3, <1>4

\* A part of an entry is drawn alike, whatever messages show the branch.
LEMMA RestPartDrawn ==
    ASSUME Resting, NEW ms, AllShown(ms), NEW i \in 1..Len(branch), branch[i].role # "toolResult",
           NEW j \in 1..Len(branch[i].parts)
    PROVE  Rendered(ms, ms[i].blocks[j], overlooked) = DrawnPart(branch[i].parts[j])
<1> DEFINE b == ms[i].blocks[j]
           p == branch[i].parts[j]
           o == CollectToolOutcomes(branch)
<1>1. CASE p.type # "tool-call"
    <2>1. b = p BY <1>1, RestPart
    <2> QED BY <1>1, <2>1 DEF Rendered, DrawnPart
<1>2. CASE p.type = "tool-call"
    <2> DEFINE c == p.call
    <2>1. b.type = "tool-call" /\ c \in Calls /\ b.call = c /\ Told(View, c, b.status)
        BY <1>2, RestPart
    <2>2. ToolResult(ms, c) = ResultOf(c) BY <2>1, RestResult
    <2>3. Asks(branch[i], c) BY RestBlocks DEF Asks
    <2>4. tool[c] = "stored"
        <3>1. i \in DOMAIN branch BY DEF Resting
        <3> QED BY <2>1, <2>3, <3>1 DEF Resting
    <2>5. c \in overlooked \/ b.status = o[c] BY <2>1, <2>4 DEF Told, View
    <2> HIDE DEF o, c, b
    <2> DEFINE text == IF ResultOf(c) = None THEN 0 ELSE ResultOf(c).text
               status == IF c \in overlooked THEN "any" ELSE DisplayStatus(b, ResultOf(c))
               drawn == IF c \in overlooked THEN "any"
                        ELSE IF o[c] \in {"pending", "running"} \/ ResultOf(c) = None
                             THEN o[c] ELSE ResultOf(c).status
    <2>6. Rendered(ms, b, overlooked) = Block("tool-call", c, text, status)
        BY <2>1, <2>2 DEF Rendered
    <2>7. DrawnPart(p) = Block("tool-call", c, text, drawn)
        BY <1>2 DEF DrawnPart, o, c
    <2>8. status = drawn BY <2>5 DEF DisplayStatus
    <2> HIDE DEF text, status, drawn
    <2> QED BY <2>6, <2>7, <2>8 DEF b
<1> QED BY <1>1, <1>2

\* An entry is drawn alike, whatever messages show the branch.
LEMMA RestMessageDrawn ==
    ASSUME Resting, NEW ms, AllShown(ms), NEW i \in 1..Len(branch)
    PROVE  /\ RenderedMessage(ms, ms[i], overlooked) = Drawn(i)
           /\ HasVisibleContent(ms, ms[i]) <=>
                 (branch[i].role = "toolResult" => branch[i].call \notin Asked)
<1> DEFINE m == branch[i]
           x == ms[i]
           V == {j \in DOMAIN x.blocks : VisibleBlock(ms, x.blocks[j])}
<1>1. i \in DOMAIN branch /\ WellFormed(m) BY DEF Resting, OnceInBranch
<1>2. Shows(View, x, i, m) BY DEF AllShown
<1>3. x \in Messages /\ x.entryId = EntryId(i) /\ x.role = LiveRole(m)
        /\ x.stopReason = (m.role = "assistant")
    BY <1>2 DEF Shows
<1>4. ToolCallIds(ms) = Asked BY RestCalls
<1>5. m.role \in {"user", "assistant", "toolResult"} BY <1>1 DEF WellFormed, Entries
<1>6. CASE m.role = "toolResult"
    <2>1. x.blocks = <<SerializeToolResult(m)>> BY <1>2, <1>6 DEF Shows
    <2> DEFINE r == SerializeToolResult(m)
    <2>2. r.type = "tool-result" /\ r.call = m.call BY DEF SerializeToolResult, Block
    <2> HIDE DEF r
    <2>3. DOMAIN x.blocks = {1} /\ x.blocks[1] = r BY <2>1 DEF r
    <2>4. V = {l \in {1} : m.call \notin Asked} BY <1>4, <2>2, <2>3 DEF VisibleBlock
    <2>5. \A j \in V : Rendered(ms, x.blocks[j], overlooked) = r
        BY <2>2, <2>3 DEF Rendered
    <2>6. [j \in V |-> Rendered(ms, x.blocks[j], overlooked)] = DrawnBlocks(m)
        BY <1>6, <2>4, <2>5 DEF DrawnBlocks, r
    <2>7. V # {} <=> m.call \notin Asked BY <2>4
    <2>8. HasVisibleContent(ms, x) <=> V # {}
        BY <1>3, <1>6 DEF HasVisibleContent, LiveRole
    <2> QED BY <2>6, <2>7, <2>8, <1>6, <1>3 DEF RenderedMessage, Drawn, Messages
<1>7. CASE m.role # "toolResult"
    <2>1. /\ Len(m.parts) \in Nat /\ Len(x.blocks) \in Nat /\ Len(x.blocks) >= Len(m.parts)
          /\ DOMAIN x.blocks = 1..Len(x.blocks) /\ ShowsParts(View, x.blocks, m)
        BY <1>7, RestBlocks
    <2>2. ASSUME NEW j \in 1..Len(m.parts) PROVE j \in V
        <3>1. j \in DOMAIN x.blocks /\ x.blocks[j].type # "tool-result" BY <1>7, RestPart
        <3> QED BY <3>1 DEF VisibleBlock
    <2>3. ASSUME NEW j \in V PROVE j \in 1..Len(m.parts)
        <3>1. SUFFICES ASSUME j \notin 1..Len(m.parts) PROVE FALSE OBVIOUS
        <3>2. j \in (Len(m.parts) + 1)..Len(x.blocks) BY <2>1, <3>1
        <3>3. x.blocks[j].type = "tool-result" /\ x.blocks[j].call \in Calls
                /\ Asks(m, x.blocks[j].call)
            BY <2>1, <3>2 DEF ShowsParts
        <3>4. x.blocks[j].call \in Asked BY <1>1, <3>3 DEF Asked
        <3> QED BY <1>4, <3>3, <3>4 DEF VisibleBlock
    <2>4. V = 1..Len(m.parts) BY <2>2, <2>3
    <2>5. \A j \in V : Rendered(ms, x.blocks[j], overlooked) = DrawnPart(m.parts[j])
        BY <1>7, <2>4, RestPartDrawn
    <2>6. [j \in V |-> Rendered(ms, x.blocks[j], overlooked)] = DrawnBlocks(m)
        BY <1>7, <2>4, <2>5 DEF DrawnBlocks
    <2>7. HasVisibleContent(ms, x)
        BY <1>3, <1>5, <1>7 DEF HasVisibleContent, LiveRole
    <2> QED BY <2>6, <2>7, <1>7, <1>3 DEF RenderedMessage, Drawn, Messages
<1> QED BY <1>6, <1>7

\* Two sequences of messages that show the branch make the same timeline.
LEMMA SameTimeline ==
    ASSUME Resting, NEW ms, AllShown(ms), NEW ns, AllShown(ns)
    PROVE  Timeline(ms, overlooked) = Timeline(ns, overlooked)
<1> DEFINE D == {i \in 1..Len(branch) :
                    branch[i].role = "toolResult" => branch[i].call \notin Asked}
<1>1. ASSUME NEW xs, AllShown(xs)
      PROVE  Timeline(xs, overlooked) = [i \in D |-> Drawn(i)]
    <2>1. DOMAIN xs = 1..Len(branch) BY <1>1 DEF AllShown
    <2>2. {j \in DOMAIN xs : HasVisibleContent(xs, xs[j])} = D
        BY <1>1, <2>1, RestMessageDrawn
    <2>3. \A i \in D : RenderedMessage(xs, xs[i], overlooked) = Drawn(i)
        BY <1>1, RestMessageDrawn
    <2> HIDE DEF D
    <2> QED BY <2>2, <2>3 DEF Timeline
<1> HIDE DEF D
<1> QED BY <1>1

\* At rest every call has its result or was never executed, and the browser
\* as well as a fresh snapshot show every entry of the branch.
LEMMA RestShown ==
    ASSUME NoneIsNothing, LiveInv, AtRest
    PROVE  Resting /\ AllShown(shown.messages) /\ AllShown(SerializeActiveBranch(branch))
<1> USE DEF LiveInv
<1>1. agent = "idle" /\ ending = None BY DEF AtRest
<1>2. now = None BY <1>1 DEF PiInv, Producing
<1>3. \A c \in Calls : tool[c] \in {"none", "stored"}
    BY <1>1, <1>2 DEF PiInv, CallsInBranch, LiveTypeOK, Open
<1>4. None \notin Calls BY DEF NoneIsNothing
<1>5. branch \in Seq(Entries) /\ Len(branch) \in Nat /\ DOMAIN branch = 1..Len(branch)
    BY DEF LiveTypeOK
<1>6. Resting BY <1>3, <1>4, <1>5 DEF Resting, PiInv, CallsInBranch
<1>7. ShowsFirst(Len(branch)) /\ Len(shown.messages) = Len(branch) BY <1>1, <1>2, ShownWhole
<1>8. AllShown(shown.messages) BY <1>7 DEF AllShown, ShowsFirst, LiveTypeOK, Screens
<1> DEFINE o == CollectToolOutcomes(branch)
           ss == SerializeActiveBranch(branch)
<1>9. ss = [i \in 1..Len(branch) |-> SerializeEntry(branch[i], EntryId(i), o)]
    BY <1>5 DEF SerializeActiveBranch
<1>10. o \in Outcomes BY OutcomesType
<1>11. ASSUME NEW c \in Calls, NEW i \in DOMAIN branch, Asks(branch[i], c)
       PROVE  Told(View, c, o[c])
    <2>1. tool[c] = "stored" BY <1>6, <1>11 DEF Resting
    <2> QED BY <2>1 DEF Told, View
<1> HIDE DEF o, ss
<1>12. ASSUME NEW i \in 1..Len(branch) PROVE Shows(View, ss[i], i, branch[i])
    <2>1. i \in Nat /\ i \in DOMAIN branch BY <1>5
    <2>2. WellFormed(branch[i]) BY <2>1 DEF PiInv, OnceInBranch
    <2>3. \A c \in Calls : Asks(branch[i], c) => Told(View, c, o[c]) BY <1>11, <2>1
    <2>4. Shows(View, SerializeEntry(branch[i], EntryId(i), o), i, branch[i])
        BY <1>10, <2>1, <2>2, <2>3, SerializedShows
    <2> QED BY <1>9, <2>4
<1>13. \A i \in 1..Len(branch) : ss[i] \in Messages BY <1>12 DEF Shows
<1>14. ss \in [1..Len(branch) -> Messages] BY <1>9, <1>13
<1>15. ss \in Seq(Messages) /\ Len(ss) = Len(branch) BY <1>5, <1>14
<1>16. AllShown(ss) BY <1>12, <1>15 DEF AllShown
<1> QED BY <1>6, <1>8, <1>16 DEF ss

\* Once the agent has ended, the projection that events have built shows the
\* messages, texts, tool outcomes and fields that a fresh snapshot would show.
THEOREM ViewsAgreeAtRest == LiveSpec => []ViewsAgree
<1> NoneIsNothing BY LiveAssumption
<1>1. ASSUME LiveInv PROVE ViewsAgree
    <2> SUFFICES ASSUME AtRest PROVE ViewsAgree BY DEF ViewsAgree
    <2>1. Resting /\ AllShown(shown.messages) /\ AllShown(SerializeActiveBranch(branch))
        BY <1>1, RestShown
    <2>2. Timeline(shown.messages, overlooked)
            = Timeline(SerializeActiveBranch(branch), overlooked)
        BY <2>1, SameTimeline
    <2>3. ending = None BY DEF AtRest
    <2> QED BY <1>1, <2>2, <2>3 DEF LiveInv, FieldsInv, ViewsAgree
<1> QED BY <1>1, LiveInvariance, PTL

-----------------------------------------------------------------------------
(* ConversationSync                                                        *)

(* A value that has the fields of the browser's state.                     *)
IsBrowser(c) ==
    c \in [conn : {c.conn}, proj : {c.proj}, resync : {c.resync}, resyncing : {c.resyncing},
           hist : {c.hist}, failed : {c.failed}, pending : {c.pending}, out : {c.out}]

(* The browser keeps its projection when another field changes.            *)
LEMMA FieldsKeep ==
  ASSUME NEW c, IsBrowser(c), NEW x
  PROVE  /\ IsBrowser([c EXCEPT !.pending = x]) /\ [c EXCEPT !.pending = x].proj = c.proj
         /\ IsBrowser([c EXCEPT !.resyncing = x]) /\ [c EXCEPT !.resyncing = x].proj = c.proj
         /\ IsBrowser([c EXCEPT !.resync = x]) /\ [c EXCEPT !.resync = x].proj = c.proj
         /\ IsBrowser([c EXCEPT !.failed = x]) /\ [c EXCEPT !.failed = x].proj = c.proj
         /\ IsBrowser([c EXCEPT !.hist = x]) /\ [c EXCEPT !.hist = x].proj = c.proj
         /\ IsBrowser([c EXCEPT !.out = x]) /\ [c EXCEPT !.out = x].proj = c.proj
         /\ IsBrowser([c EXCEPT !.conn = x]) /\ [c EXCEPT !.conn = x].proj = c.proj
  BY DEF IsBrowser

(* Sending a command keeps the projection ...                              *)
LEMMA RequestedKeeps ==
  ASSUME NEW c, IsBrowser(c), NEW type, NEW purpose
  PROVE  /\ IsBrowser(Requested(c, type, purpose))
         /\ Requested(c, type, purpose).proj = c.proj
  BY DEF Requested, IsBrowser

(* ... so does the request for a snapshot after a gap ...                  *)
LEMMA GapsKeep ==
  ASSUME NEW c, IsBrowser(c)
  PROVE  /\ IsBrowser(SyncRevisionGaps(c))
         /\ SyncRevisionGaps(c).proj = c.proj
  <1> DEFINE d == [c EXCEPT !.resyncing = TRUE]
  <1>1. IsBrowser(d) /\ d.proj = c.proj
    BY FieldsKeep
  <1> HIDE DEF d
  <1>2. /\ IsBrowser(Requested(d, "state", "resync"))
        /\ Requested(d, "state", "resync").proj = c.proj
    BY <1>1, RequestedKeeps
  <1> QED BY <1>2, Zenon DEF SyncRevisionGaps, d

(* ... or after a reconnect ...                                            *)
LEMMA RequestResyncKeeps ==
  ASSUME NEW c, IsBrowser(c)
  PROVE  IsBrowser(RequestResync(c)) /\ RequestResync(c).proj = c.proj
  <1> DEFINE d == [c EXCEPT !.resync = TRUE]
  <1>1. IsBrowser(d) /\ d.proj = c.proj
    BY FieldsKeep
  <1> HIDE DEF d
  <1>2. IsBrowser(SyncRevisionGaps(d)) /\ SyncRevisionGaps(d).proj = c.proj
    BY <1>1, GapsKeep
  <1> QED BY <1>2, Zenon DEF RequestResync, d

(* ... so does an error ...                                                *)
LEMMA OnErrorKeeps ==
  ASSUME NEW c, IsBrowser(c)
  PROVE  IsBrowser(OnError(c)) /\ OnError(c).proj = c.proj
  <1> DEFINE d == [c EXCEPT !.failed = TRUE]
  <1>1. IsBrowser(d) /\ d.proj = c.proj
    BY FieldsKeep
  <1> HIDE DEF d
  <1>2. IsBrowser(SyncRevisionGaps(d)) /\ SyncRevisionGaps(d).proj = c.proj
    BY <1>1, GapsKeep
  <1> QED BY <1>2, Zenon DEF OnError, d

(* ... so does the end of a request ...                                    *)
LEMMA SettlesKeeps ==
  ASSUME NEW c, IsBrowser(c), NEW p
  PROVE  IsBrowser(Settles(c, p)) /\ Settles(c, p).proj = c.proj
  BY FieldsKeep DEF Settles

(* ... with an answer ...                                                  *)
LEMMA ResolvedKeeps ==
  ASSUME NEW c, IsBrowser(c), NEW p
  PROVE  IsBrowser(Resolved(c, p)) /\ Resolved(c, p).proj = c.proj
  <1> DEFINE d == [c EXCEPT !.resyncing = FALSE]
             type == IF c.hist = "closed" THEN "open" ELSE "state"
             r == Requested(c, type, "recover")
  <1>1. IsBrowser(d) /\ d.proj = c.proj
    BY FieldsKeep
  <1>2. IsBrowser(r) /\ r.proj = c.proj
    BY RequestedKeeps
  <1>3. Resolved(c, p) \in {d, r, c}
    BY Zenon DEF Resolved
  <1> HIDE DEF d, r
  <1> QED BY <1>1, <1>2, <1>3

(* ... or without one ...                                                  *)
LEMMA RejectedKeeps ==
  ASSUME NEW c, IsBrowser(c), NEW p, NEW timedOut
  PROVE  IsBrowser(Rejected(c, p, timedOut)) /\ Rejected(c, p, timedOut).proj = c.proj
  <1> DEFINE e == OnError(c)
  <1>1. IsBrowser(e) /\ e.proj = c.proj
    BY OnErrorKeeps
  <1> DEFINE d == [e EXCEPT !.resyncing = FALSE]
  <1>2. Rejected(c, p, timedOut) \in {d, e, c}
    BY Zenon DEF Rejected
  <1> HIDE DEF e
  <1>3. IsBrowser(d) /\ d.proj = c.proj
    BY <1>1, FieldsKeep
  <1> HIDE DEF d
  <1> QED BY <1>1, <1>2, <1>3

(* ... while a list of the history may drop it.                            *)
LEMMA OnHistoryKeeps ==
  ASSUME NEW c, IsBrowser(c), NEW m
  PROVE  /\ IsBrowser(OnHistory(c, m))
         /\ OnHistory(c, m).proj \in {c.proj, NoProj}
  <1> DEFINE d == [c EXCEPT !.hist = "closed", !.proj = NoProj, !.resync = FALSE]
             e == [c EXCEPT !.hist = "live"]
  <1>1. IsBrowser(e) /\ e.proj = c.proj
    BY FieldsKeep
  <1>2. IsBrowser(d) /\ d.proj = NoProj
    BY DEF IsBrowser
  <1>3. OnHistory(c, m) \in {SyncRevisionGaps(d), SyncRevisionGaps(e)}
    BY Zenon DEF OnHistory
  <1> HIDE DEF d, e
  <1> QED BY <1>1, <1>2, <1>3, GapsKeep

(* A projection is replaced as a whole.                                    *)
LEMMA ReplaceKeeps ==
  ASSUME NEW c, IsBrowser(c), NEW r, NEW content
  PROVE  /\ IsBrowser(ReplaceConversation(c, r, content))
         /\ ReplaceConversation(c, r, content).proj = [rev |-> r, has |-> content]
  <1> DEFINE d == [c EXCEPT !.proj = [rev |-> r, has |-> content], !.resync = FALSE]
  <1>1. IsBrowser(d) /\ d.proj = [rev |-> r, has |-> content]
    BY DEF IsBrowser
  <1> HIDE DEF d
  <1>2. /\ IsBrowser(SyncRevisionGaps(d))
        /\ SyncRevisionGaps(d).proj = [rev |-> r, has |-> content]
    BY <1>1, GapsKeep
  <1> QED BY <1>2, Zenon DEF ReplaceConversation, d

(* What a message may do to the projection: nothing, remove it, extend it  *)
(* by the event of the next revision, or replace it by a snapshot that is  *)
(* not older.                                                              *)
Extends(p, q, m) ==
    /\ m.type = "event" /\ p # NoProj /\ m.rev = p.rev + 1
    /\ q = [rev |-> m.rev, has |-> p.has \cup {<<m.epoch, m.rev>>}]

Replaces(p, q, m) ==
    /\ m.type = "state" /\ (p = NoProj \/ ~(m.rev < p.rev))
    /\ q = [rev |-> m.rev, has |-> Content(m.epoch, m.rev)]

(* An event is applied to the projection, or leaves it alone.              *)
LEMMA OnEventExtends ==
  ASSUME NEW c, IsBrowser(c), NEW m, m.type = "event"
  PROVE  LET d == OnEvent(c, m) IN
         IsBrowser(d) /\ (d.proj = c.proj \/ Extends(c.proj, d.proj, m))
  <1> DEFINE decision == DecideEventRevision(c.proj.rev, m.rev)
             content == c.proj.has \cup {<<m.epoch, m.rev>>}
             r == RequestResync(c)
             e == ReplaceConversation(c, m.rev, content)
             d == OnEvent(c, m)
  <1>1. IsBrowser(r) /\ r.proj = c.proj
    BY RequestResyncKeeps
  <1> HIDE DEF content
  <1>2. IsBrowser(e) /\ e.proj = [rev |-> m.rev, has |-> content]
    BY ReplaceKeeps
  <1>3. \/ d \in {c, r}
        \/ d = e /\ c.proj # NoProj /\ decision # "ignore" /\ decision # "resync"
    BY Zenon DEF OnEvent, content
  <1>4. decision # "ignore" /\ decision # "resync" => m.rev = c.proj.rev + 1
    BY DEF DecideEventRevision
  <1> HIDE DEF r, e, d, decision
  <1>5. d \in {c, r} => IsBrowser(d) /\ d.proj = c.proj
    BY <1>1
  <1>6. d = e /\ c.proj # NoProj /\ m.rev = c.proj.rev + 1
        => IsBrowser(d) /\ Extends(c.proj, d.proj, m)
    BY <1>2 DEF Extends, content
  <1>7. IsBrowser(d) /\ (d.proj = c.proj \/ Extends(c.proj, d.proj, m))
    BY <1>3, <1>4, <1>5, <1>6
  <1> QED BY <1>7 DEF d

(* A snapshot replaces the projection, or leaves it alone.                 *)
LEMMA OnSnapshotReplaces ==
  ASSUME NEW c, IsBrowser(c), NEW m, m.type = "state"
  PROVE  LET d == OnSnapshot(c, m) IN
         IsBrowser(d) /\ (d.proj = c.proj \/ Replaces(c.proj, d.proj, m))
  <1> DEFINE decision == DecideSnapshotRevision(c.proj.rev, m.rev)
             e == ReplaceConversation(c, m.rev, Content(m.epoch, m.rev))
             d == OnSnapshot(c, m)
  <1>1. IsBrowser(e) /\ e.proj = [rev |-> m.rev, has |-> Content(m.epoch, m.rev)]
    BY ReplaceKeeps
  <1>2. d = c \/ (d = e /\ (c.proj = NoProj \/ decision # "ignore"))
    BY Zenon DEF OnSnapshot
  <1>3. decision # "ignore" => ~(m.rev < c.proj.rev)
    BY DEF DecideSnapshotRevision
  <1> HIDE DEF e, d, decision
  <1>4. IsBrowser(d) /\ (d.proj = c.proj \/ Replaces(c.proj, d.proj, m))
    BY <1>1, <1>2, <1>3 DEF Replaces
  <1> QED BY <1>4 DEF d

(* #acceptMessage does one of the four things.                             *)
LEMMA AcceptProjects ==
  ASSUME NEW c, IsBrowser(c), NEW m,
         m.type \in {"ready", "event", "state", "history", "error"}
  PROVE  LET d == Accept(c, m) IN
         /\ IsBrowser(d)
         /\ d.proj \in {c.proj, NoProj} \/ Extends(c.proj, d.proj, m) \/ Replaces(c.proj, d.proj, m)
  <1> DEFINE Result(d) ==
        /\ IsBrowser(d)
        /\ d.proj \in {c.proj, NoProj} \/ Extends(c.proj, d.proj, m) \/ Replaces(c.proj, d.proj, m)
  <1> SUFFICES Result(Accept(c, m))
    OBVIOUS
  <1>1. CASE m.type = "ready"
    <2> DEFINE x == [c EXCEPT !.conn = "connected", !.failed = FALSE]
               y == SyncRevisionGaps(x)
               z == Requested(y, "history", "recover")
    <2>1. IsBrowser(x) /\ x.proj = c.proj
      BY DEF IsBrowser
    <2>2. Accept(c, m) = z
      BY <1>1, Zenon DEF Accept
    <2> HIDE DEF x
    <2>3. IsBrowser(y) /\ y.proj = c.proj
      BY <2>1, GapsKeep
    <2> HIDE DEF y
    <2>4. IsBrowser(z) /\ z.proj = c.proj
      BY <2>3, RequestedKeeps
    <2> HIDE DEF z
    <2> QED BY <2>2, <2>4
  <1>2. CASE m.type = "event"
    <2> DEFINE d == OnEvent(c, m)
    <2>1. IsBrowser(d) /\ (d.proj = c.proj \/ Extends(c.proj, d.proj, m))
      BY <1>2, OnEventExtends
    <2>2. Accept(c, m) = d
      BY <1>2, Zenon DEF Accept
    <2> HIDE DEF d
    <2> QED BY <2>1, <2>2
  <1>3. CASE m.type = "history" /\ m.id = 0
    <2> DEFINE d == OnHistory(c, m)
    <2>1. IsBrowser(d) /\ d.proj \in {c.proj, NoProj}
      BY OnHistoryKeeps
    <2>2. Accept(c, m) = d
      BY <1>3, Zenon DEF Accept
    <2> HIDE DEF d
    <2> QED BY <2>1, <2>2
  <1>4. CASE m.type \in {"state", "history", "error"} /\ ~(m.type = "history" /\ m.id = 0)
    <2> DEFINE p == CHOOSE q \in c.pending : q.id = m.id
               d == Settles(c, p)
               e == Rejected(d, p, FALSE)
               s == OnSnapshot(d, m)
               h == OnHistory(d, m)
               rs == Resolved(s, p)
               rh == Resolved(h, p)
    <2>1. \/ Accept(c, m) = c
          \/ m.type = "error" /\ Accept(c, m) = e
          \/ m.type = "state" /\ Accept(c, m) = rs
          \/ m.type = "history" /\ Accept(c, m) = rh
      BY <1>4, Zenon DEF Accept
    <2> HIDE DEF p
    <2>2. IsBrowser(d) /\ d.proj = c.proj
      BY SettlesKeeps
    <2> HIDE DEF d
    <2>3. IsBrowser(e) /\ e.proj = c.proj
      BY <2>2, RejectedKeeps
    <2>4. m.type = "state" => IsBrowser(s) /\ (s.proj = c.proj \/ Replaces(c.proj, s.proj, m))
      BY <2>2, OnSnapshotReplaces
    <2>5. IsBrowser(h) /\ h.proj \in {c.proj, NoProj}
      BY <2>2, OnHistoryKeeps
    <2> HIDE DEF e, s, h
    <2>6. m.type = "state" => IsBrowser(rs) /\ rs.proj = s.proj
      BY <2>4, ResolvedKeeps
    <2>7. IsBrowser(rh) /\ rh.proj = h.proj
      BY <2>5, ResolvedKeeps
    <2> HIDE DEF rs, rh
    <2> QED BY <2>1, <2>3, <2>4, <2>5, <2>6, <2>7
  <1> HIDE DEF Result
  <1> QED BY <1>1, <1>2, <1>3, <1>4

(* The registrations and the revisions that anything in flight names are   *)
(* ones the registry has given.                                            *)
IsSequence(s) == \E S : s \in Seq(S)

Wired(m, n) ==
    /\ m.type \in {"ready", "event", "state", "history", "error"}
    /\ m.type \in {"event", "state"} => m.epoch \in 1..n /\ m.rev \in Nat

Underway(d, n) == IsSequence(d) /\ \A i \in DOMAIN d : Wired(d[i], n)

Answering ==
    serving # NoCmd =>
        /\ serving \in [cmd : {serving.cmd}, stage : {serving.stage}, epoch : 1..epoch,
                        rev : Nat, status : {serving.status}]

(* Each revision up to that of the projection is shown once, by the event  *)
(* of one registration.                                                    *)
RevisionsOnce ==
    page.proj # NoProj =>
        /\ page.proj.rev \in Nat
        /\ page.proj.has \subseteq (1..epoch) \X (1..page.proj.rev)
        /\ \A i \in 1..page.proj.rev : \E e \in 1..epoch :
               \A x \in 1..epoch : <<x, i>> \in page.proj.has <=> x = e

SyncInv ==
    /\ epoch \in 1..MaxEpoch /\ rev \in [1..MaxEpoch -> Nat]
    /\ Answering
    /\ Underway(down, epoch)
    /\ IsBrowser(page)
    /\ RevisionsOnce

(* The messages in flight behind the first.                                *)
LEMMA TailWires ==
  ASSUME NEW s, IsSequence(s), s # <<>>
  PROVE  /\ IsSequence(Tail(s)) /\ 1 \in DOMAIN s /\ Head(s) = s[1]
         /\ \A i \in DOMAIN Tail(s) : i + 1 \in DOMAIN s /\ Tail(s)[i] = s[i + 1]
  <1>1. PICK S : s \in Seq(S)
    BY DEF IsSequence
  <1>2. /\ Tail(s) \in Seq(S) /\ Head(s) = s[1] /\ Len(s) \in Nat \ {0}
        /\ DOMAIN s = 1..Len(s) /\ Len(Tail(s)) = Len(s) - 1
        /\ DOMAIN Tail(s) = 1..Len(Tail(s))
        /\ \A i \in 1..Len(Tail(s)) : Tail(s)[i] = s[i + 1]
    BY <1>1, HeadTailProperties, LenProperties
  <1> QED BY <1>2 DEF IsSequence

(* The messages in flight and one more.                                    *)
LEMMA ConcatWires ==
  ASSUME NEW s, IsSequence(s), NEW m
  PROVE  /\ IsSequence(s \o <<m>>)
         /\ \A i \in DOMAIN (s \o <<m>>) : (s \o <<m>>)[i] = m
                \/ (i \in DOMAIN s /\ (s \o <<m>>)[i] = s[i])
  <1>1. PICK S : s \in Seq(S)
    BY DEF IsSequence
  <1>2. s \in Seq(S \cup {m}) /\ <<m>> \in Seq(S \cup {m})
    BY <1>1, SeqMonotonic
  <1>3. /\ s \o <<m>> \in Seq(S \cup {m})
        /\ Len(s \o <<m>>) = Len(s) + 1
        /\ \A i \in 1..Len(s) + 1 : (s \o <<m>>)[i] = IF i <= Len(s) THEN s[i] ELSE <<m>>[i - Len(s)]
    BY <1>2, ConcatProperties
  <1>4. Len(s) \in Nat /\ DOMAIN s = 1..Len(s) /\ DOMAIN (s \o <<m>>) = 1..Len(s) + 1
    BY <1>1, <1>3, LenProperties
  <1> QED BY <1>3, <1>4 DEF IsSequence

(* The messages in flight without one of them.                             *)
LEMMA RemoveWires ==
  ASSUME NEW s, IsSequence(s), NEW k \in DOMAIN s
  PROVE  /\ IsSequence(RemoveAt(s, k))
         /\ \A i \in DOMAIN RemoveAt(s, k) : \E j \in DOMAIN s : RemoveAt(s, k)[i] = s[j]
  <1>1. PICK S : s \in Seq(S)
    BY DEF IsSequence
  <1> DEFINE T == {s[j] : j \in DOMAIN s}
             p == SubSeq(s, 1, k - 1)
             q == SubSeq(s, k + 1, Len(s))
  <1>2. Len(s) \in Nat /\ DOMAIN s = 1..Len(s) /\ s \in Seq(T)
    BY <1>1, LenProperties, IsASeq
  <1>3. p \in Seq(T) /\ q \in Seq(T)
    BY <1>2, SubSeqProperties
  <1>4. p \o q \in Seq(T)
    BY <1>3, ConcatProperties
  <1>5. \A i \in DOMAIN (p \o q) : (p \o q)[i] \in T
    BY <1>4, LenProperties, ElementOfSeq
  <1> QED BY <1>4, <1>5 DEF IsSequence, RemoveAt

(* A step of the server leaves the browser alone and sends at most one     *)
(* message, about a registration there is.                                 *)
LEMMA ServerStep ==
  ASSUME SyncInv, MaxEpoch \in Nat,
         epoch' \in epoch..MaxEpoch, rev' \in [1..MaxEpoch -> Nat], Answering',
         page' = page,
         down' = down \/ \E m : Wired(m, epoch') /\ down' = Delivered(<<m>>)
  PROVE  SyncInv'
  <1>1. \A m : Wired(m, epoch) => Wired(m, epoch')
    BY DEF Wired, SyncInv
  <1>2. Underway(down', epoch')
    <2>0. IsSequence(down) /\ \A i \in DOMAIN down : Wired(down[i], epoch')
      BY <1>1 DEF SyncInv, Underway
    <2>1. CASE down' = down
      BY <2>0, <2>1 DEF Underway
    <2>2. CASE down' # down
      <3>1. PICK m : Wired(m, epoch') /\ down' = down \o <<m>>
        BY <2>2 DEF Delivered
      <3>2. IsSequence(down')
        BY <2>0, <3>1, ConcatWires
      <3>3. \A i \in DOMAIN down' : down'[i] = m \/ (i \in DOMAIN down /\ down'[i] = down[i])
        BY <2>0, <3>1, ConcatWires
      <3> QED BY <2>0, <3>1, <3>2, <3>3 DEF Underway
    <2> QED BY <2>1, <2>2
  <1>3. IsBrowser(page)' /\ epoch' \in 1..MaxEpoch
    BY DEF SyncInv, IsBrowser
  <1>4. RevisionsOnce'
    <2> SUFFICES ASSUME page.proj # NoProj PROVE RevisionsOnce'
      BY DEF RevisionsOnce
    <2>1. /\ page.proj.rev \in Nat
          /\ page.proj.has \subseteq (1..epoch) \X (1..page.proj.rev)
          /\ epoch \in Nat /\ epoch' \in Nat /\ epoch <= epoch'
      BY DEF SyncInv, RevisionsOnce
    <2>2. page.proj.has \subseteq (1..epoch') \X (1..page.proj.rev)
      BY <2>1
    <2>3. \A i \in 1..page.proj.rev : \E e \in 1..epoch' :
               \A x \in 1..epoch' : <<x, i>> \in page.proj.has <=> x = e
      <3> TAKE i \in 1..page.proj.rev
      <3>1. PICK e \in 1..epoch : \A x \in 1..epoch : <<x, i>> \in page.proj.has <=> x = e
        BY DEF SyncInv, RevisionsOnce
      <3>2. \A x : <<x, i>> \in page.proj.has => x \in 1..epoch
        BY <2>1
      <3>3. e \in 1..epoch'
        BY <2>1
      <3> QED BY <3>1, <3>2, <3>3
    <2> QED BY <2>1, <2>2, <2>3 DEF RevisionsOnce
  <1> QED BY <1>2, <1>3, <1>4 DEF SyncInv

(* What the registry and the server do keeps SyncInv.                      *)
LEMMA ServerActions ==
  ASSUME SyncInv, MaxEpoch \in Nat,
         \/ \E droppable, isStatus \in BOOLEAN : Emit(droppable, isStatus)
         \/ RecordClosed \/ OpenedElsewhere
         \/ Serve \/ Refresh
  PROVE  SyncInv'
  <1> USE DEF registry
  <1>0. epoch \in 1..MaxEpoch /\ rev \in [1..MaxEpoch -> Nat] /\ Answering
    BY DEF SyncInv
  <1>1. ASSUME NEW droppable \in BOOLEAN, NEW isStatus \in BOOLEAN, Emit(droppable, isStatus)
        PROVE  SyncInv'
    <2> DEFINE m == [type |-> "event", epoch |-> epoch, rev |-> rev[epoch] + 1,
                     droppable |-> droppable]
    <2>1. Wired(m, epoch') /\ down' = Delivered(<<m>>) /\ page' = page /\ epoch' = epoch
      BY <1>0, <1>1 DEF Emit, Wired
    <2>2. rev' \in [1..MaxEpoch -> Nat] /\ Answering'
      BY <1>0, <1>1 DEF Emit, Answering
    <2> HIDE DEF m
    <2> QED BY <1>0, <2>1, <2>2, ServerStep
  <1>2. CASE RecordClosed \/ OpenedElsewhere
    <2>1. Answering'
      BY <1>0, <1>2 DEF RecordClosed, OpenedElsewhere, Answering
    <2> QED BY <1>0, <1>2, <2>1, ServerStep DEF RecordClosed, OpenedElsewhere
  <1>3. CASE RefreshCaptures \/ RefreshFails
    <2>1. Answering'
      BY <1>0, <1>3 DEF RefreshCaptures, RefreshFails, Answering
    <2> QED BY <1>0, <1>3, <2>1, ServerStep DEF RefreshCaptures, RefreshFails
  <1>4. CASE RefreshBroadcasts
    <2> DEFINE m == [type |-> "history", id |-> 0, status |-> refresh.status]
    <2>1. Answering' /\ Wired(m, epoch') /\ down' \in {down, Delivered(<<m>>)}
      BY <1>0, <1>4 DEF RefreshBroadcasts, Answering, Wired
    <2>2. epoch' = epoch /\ rev' = rev /\ page' = page
      BY <1>4 DEF RefreshBroadcasts
    <2> HIDE DEF m
    <2> QED BY <1>0, <2>1, <2>2, ServerStep
  <1>5. CASE TakeCommand
    <2> DEFINE c == Head(inbox)
               m == [type |-> "error", id |-> c.id]
               opens == c.type = "open" /\ ~live
               e == IF opens THEN epoch + 1 ELSE epoch
    <2>1. rev' = rev /\ page' = page /\ Wired(m, epoch')
      BY <1>5 DEF TakeCommand, Wired
    <2>2. \/ /\ serving' = [cmd |-> c, stage |-> "await", epoch |-> e, rev |-> 0, status |-> "closed"]
             /\ epoch' = e /\ down' = down
             /\ opens => epoch < MaxEpoch
          \/ down' = Delivered(<<m>>) /\ epoch' = epoch /\ serving' = serving
      BY <1>5 DEF TakeCommand
    <2> HIDE DEF m, c
    <2>3. epoch' \in epoch..MaxEpoch /\ down' \in {down, Delivered(<<m>>)}
      BY <1>0, <2>2
    <2>4. Answering'
      BY <1>0, <2>2 DEF Answering
    <2> QED BY <1>0, <2>1, <2>3, <2>4, ServerStep
  <1>6. CASE BuildAnswer
    <2>1. rev' = rev /\ page' = page /\ epoch' = epoch /\ down' = down
      BY <1>6 DEF BuildAnswer
    <2>2. PICK e \in {serving.epoch, epoch} :
             serving' = [serving EXCEPT !.stage = "built", !.status = Status,
                                        !.epoch = e, !.rev = rev[e]]
      BY <1>6 DEF BuildAnswer
    <2>3. /\ serving \in [cmd : {serving.cmd}, stage : {serving.stage}, epoch : 1..epoch,
                           rev : Nat, status : {serving.status}]
          /\ e \in 1..epoch /\ rev[e] \in Nat
      BY <1>0, <1>6, <2>2 DEF BuildAnswer, Answering
    <2>4. Answering'
      BY <2>1, <2>2, <2>3 DEF Answering
    <2> QED BY <1>0, <2>1, <2>4, ServerStep
  <1>7. CASE SendAnswer
    <2> DEFINE h == [type |-> "history", id |-> serving.cmd.id, status |-> serving.status]
               s == [type |-> "state", id |-> serving.cmd.id, epoch |-> serving.epoch,
                     rev |-> serving.rev]
    <2>1. rev' = rev /\ page' = page /\ epoch' = epoch /\ Answering'
      BY <1>7 DEF SendAnswer, Answering
    <2>2. Wired(h, epoch') /\ Wired(s, epoch')
      BY <1>0, <1>7 DEF SendAnswer, Answering, Wired
    <2>3. down' \in {Delivered(<<h>>), Delivered(<<s>>)}
      BY <1>7 DEF SendAnswer
    <2> HIDE DEF h, s
    <2> QED BY <1>0, <2>1, <2>2, <2>3, ServerStep
  <1>8. CASE AnswerRejected
    <2> DEFINE m == [type |-> "error", id |-> serving.cmd.id]
    <2>1. rev' = rev /\ page' = page /\ epoch' = epoch /\ Answering' /\ Wired(m, epoch')
      BY <1>8 DEF AnswerRejected, Answering, Wired
    <2>2. down' = Delivered(<<m>>)
      BY <1>8 DEF AnswerRejected
    <2> HIDE DEF m
    <2> QED BY <1>0, <2>1, <2>2, ServerStep
  <1> QED BY <1>1, <1>2, <1>3, <1>4, <1>5, <1>6, <1>7, <1>8 DEF Serve, Refresh

(* What any step does to the projection.                                   *)
Advances(p, q, n) ==
    \/ q \in {p, NoProj}
    \/ \E m : Wired(m, n) /\ (Extends(p, q, m) \/ Replaces(p, q, m))

(* A projection that follows one in which each revision is shown once is   *)
(* another.                                                                *)
LEMMA AdvancesOnce ==
  ASSUME SyncInv, MaxEpoch \in Nat, epoch' = epoch, Advances(page.proj, page'.proj, epoch)
  PROVE  RevisionsOnce'
  <1>0. epoch \in Nat
    BY DEF SyncInv
  <1>1. CASE page'.proj \in {page.proj, NoProj}
    <2> DEFINE p == page'.proj
    <2>1. RevisionsOnce /\ (p = page.proj \/ p = NoProj)
      BY <1>1 DEF SyncInv
    <2>2. CASE p = NoProj
      BY <2>2 DEF RevisionsOnce
    <2>3. CASE p = page.proj
      BY <2>1, <2>3 DEF RevisionsOnce
    <2> QED BY <2>1, <2>2, <2>3
  <1>2. ASSUME NEW m, Wired(m, epoch), Extends(page.proj, page'.proj, m)
        PROVE  RevisionsOnce'
    <2> DEFINE r == page.proj.rev
    <2>1. /\ r \in Nat /\ page.proj.has \subseteq (1..epoch) \X (1..r)
          /\ \A i \in 1..r : \E e \in 1..epoch :
                \A x \in 1..epoch : <<x, i>> \in page.proj.has <=> x = e
      BY <1>2 DEF SyncInv, RevisionsOnce, Extends
    <2>2. /\ page'.proj.rev = r + 1 /\ m.epoch \in 1..epoch
          /\ page'.proj.has = page.proj.has \cup {<<m.epoch, r + 1>>}
      BY <1>2 DEF Extends, Wired
    <2>3. page'.proj.has \subseteq (1..epoch) \X (1..r + 1)
      BY <1>0, <2>1, <2>2
    <2>4. ASSUME NEW i \in 1..r + 1
          PROVE  \E e \in 1..epoch : \A x \in 1..epoch : <<x, i>> \in page'.proj.has <=> x = e
      <3>1. CASE i = r + 1
        <4>1. \A x \in 1..epoch : <<x, i>> \notin page.proj.has
          BY <2>1, <3>1
        <4> QED BY <2>2, <3>1, <4>1
      <3>2. CASE i \in 1..r
        <4>1. PICK e \in 1..epoch : \A x \in 1..epoch : <<x, i>> \in page.proj.has <=> x = e
          BY <2>1, <3>2
        <4>2. \A x : <<x, i>> \in page'.proj.has <=> <<x, i>> \in page.proj.has
          BY <2>1, <2>2, <3>2
        <4> QED BY <4>1, <4>2
      <3> QED BY <2>1, <3>1, <3>2
    <2> QED BY <2>1, <2>2, <2>3, <2>4 DEF RevisionsOnce
  <1>3. ASSUME NEW m, Wired(m, epoch), Replaces(page.proj, page'.proj, m)
        PROVE  RevisionsOnce'
    <2>1. /\ m.epoch \in 1..epoch /\ m.rev \in Nat
          /\ page'.proj.rev = m.rev /\ page'.proj.has = {<<m.epoch, i>> : i \in 1..m.rev}
      BY <1>3 DEF Replaces, Wired, Content
    <2>2. \A i \in 1..m.rev : \A x \in 1..epoch : <<x, i>> \in page'.proj.has <=> x = m.epoch
      BY <2>1
    <2> QED BY <2>1, <2>2 DEF RevisionsOnce
  <1> QED BY <1>1, <1>2, <1>3 DEF Advances

(* The browser's own steps, and those of the socket.                       *)
LEMMA BrowserActions ==
  ASSUME SyncInv, MaxEpoch \in Nat,
         \/ Receive \/ Timeout \/ Select
         \/ Connect \/ Disconnect \/ Drop
  PROVE  SyncInv' /\ Advances(page.proj, page'.proj, epoch)
  <1> USE DEF registry
  <1>0. Underway(down, epoch) /\ IsBrowser(page)
    BY DEF SyncInv
  <1>a. ASSUME NEW c, IsBrowser(c), Browser(c)
        PROVE  IsBrowser(page') /\ page'.proj = c.proj
    BY <1>a, FieldsKeep DEF Browser
  <1>page. ASSUME epoch' = epoch, rev' = rev, Answering', Underway(down', epoch), IsBrowser(page'),
               Advances(page.proj, page'.proj, epoch)
        PROVE  SyncInv' /\ Advances(page.proj, page'.proj, epoch)
    <2>1. RevisionsOnce'
      BY <1>page, AdvancesOnce
    <2>2. IsBrowser(page)' /\ Underway(down, epoch)'
      BY <1>page DEF IsBrowser
    <2> QED BY <1>page, <2>1, <2>2 DEF SyncInv
  <1>c. serving' = serving /\ epoch' = epoch => Answering'
    BY DEF SyncInv, Answering
  <1>1. CASE Receive
    <2> DEFINE m == Head(down)
               d == Accept(page, m)
    <2>1. /\ down # <<>> /\ down' = Tail(down) /\ Browser(d)
          /\ epoch' = epoch /\ rev' = rev /\ serving' = serving
      BY <1>1 DEF Receive
    <2>2. Wired(m, epoch) /\ Underway(down', epoch)
      BY <1>0, <2>1, TailWires DEF Underway
    <2>3. /\ IsBrowser(d)
          /\ d.proj \in {page.proj, NoProj} \/ Extends(page.proj, d.proj, m) \/ Replaces(page.proj, d.proj, m)
      BY <1>0, <2>2, AcceptProjects DEF Wired
    <2> HIDE DEF d, m
    <2>4. IsBrowser(page') /\ page'.proj = d.proj
      BY <1>a, <2>1, <2>3
    <2>5. Advances(page.proj, page'.proj, epoch)
      BY <2>2, <2>3, <2>4 DEF Advances
    <2> QED BY <1>page, <1>c, <2>1, <2>2, <2>4, <2>5
  <1>2. CASE Timeout
    <2>1. PICK p : Browser(Rejected(Settles(page, p), p, TRUE))
      BY <1>2 DEF Timeout
    <2> DEFINE d == Settles(page, p)
               e == Rejected(d, p, TRUE)
    <2>2. IsBrowser(d) /\ d.proj = page.proj
      BY <1>0, SettlesKeeps
    <2>3. IsBrowser(e) /\ e.proj = page.proj
      BY <2>2, RejectedKeeps
    <2>4. Browser(e)
      BY <2>1
    <2> HIDE DEF d, e
    <2>5. IsBrowser(page') /\ page'.proj = page.proj
      BY <1>a, <2>3, <2>4
    <2>6. epoch' = epoch /\ rev' = rev /\ serving' = serving /\ down' = down
      BY <1>2 DEF Timeout
    <2> QED BY <1>0, <1>page, <1>c, <2>5, <2>6 DEF Advances
  <1>3. CASE Select
    <2> DEFINE type == IF page.hist = "closed" THEN "open" ELSE "state"
               e == Requested(page, type, "user")
    <2>1. Browser(e) /\ epoch' = epoch /\ rev' = rev /\ serving' = serving /\ down' = down
      BY <1>3 DEF Select
    <2> HIDE DEF type
    <2>2. IsBrowser(e) /\ e.proj = page.proj
      BY <1>0, RequestedKeeps
    <2> HIDE DEF e
    <2>3. IsBrowser(page') /\ page'.proj = page.proj
      BY <1>a, <2>1, <2>2
    <2> QED BY <1>0, <1>page, <1>c, <2>1, <2>3 DEF Advances
  <1>4. CASE Connect
    <2>1. IsBrowser(page') /\ page'.proj = page.proj
      BY <1>0, <1>4, FieldsKeep DEF Connect
    <2>2. /\ down' = <<[type |-> "ready"]>>
          /\ epoch' = epoch /\ rev' = rev /\ serving' = serving
      BY <1>4 DEF Connect
    <2>3. IsSequence(down') /\ DOMAIN down' = {1} /\ down'[1].type = "ready"
      <3>1. down' \in Seq({[type |-> "ready"]}) /\ Len(down') = 1
        BY <2>2
      <3>2. IsSequence(down')
        BY <3>1 DEF IsSequence
      <3> QED BY <2>2, <3>2
    <2>4. Underway(down', epoch)
      BY <2>3 DEF Underway, Wired
    <2> QED BY <1>page, <1>c, <2>1, <2>2, <2>4 DEF Advances
  <1>5. CASE Disconnect
    <2>1. IsBrowser(page') /\ page'.proj = page.proj
      BY <1>0, <1>5 DEF Disconnect, IsBrowser
    <2>2. down' = <<>> /\ epoch' = epoch /\ rev' = rev /\ Answering'
      BY <1>5 DEF Disconnect, Answering
    <2>3. Underway(down', epoch)
      <3>1. down' \in Seq({}) /\ DOMAIN down' = {}
        BY <2>2
      <3> QED BY <3>1 DEF Underway, IsSequence
    <2> QED BY <1>page, <2>1, <2>2, <2>3 DEF Advances
  <1>6. CASE Drop
    <2>1. /\ \E i \in DOMAIN down : down' = RemoveAt(down, i)
          /\ page' = page /\ epoch' = epoch /\ rev' = rev /\ serving' = serving
      BY <1>6 DEF Drop
    <2>2. Underway(down', epoch)
      BY <1>0, <2>1, RemoveWires DEF Underway
    <2> QED BY <1>0, <1>page, <1>c, <2>1, <2>2 DEF Advances
  <1> QED BY <1>1, <1>2, <1>3, <1>4, <1>5, <1>6

(* Every step keeps SyncInv, and moves the projection as Advances says.    *)
LEMMA SyncStep ==
  ASSUME SyncInv, MaxEpoch \in Nat, [SyncNext]_(syncVars)
  PROVE  SyncInv' /\ Advances(page.proj, page'.proj, epoch)
  <1>1. CASE UNCHANGED syncVars
    <2>1. epoch' = epoch /\ rev' = rev /\ serving' = serving /\ down' = down /\ page' = page
      BY <1>1 DEF syncVars, registry
    <2>2. IsBrowser(page)' /\ Answering' /\ RevisionsOnce'
      BY <2>1 DEF SyncInv, IsBrowser, Answering, RevisionsOnce
    <2> QED BY <2>1, <2>2 DEF SyncInv, Advances
  <1>2. CASE \/ \E droppable, isStatus \in BOOLEAN : Emit(droppable, isStatus)
             \/ RecordClosed \/ OpenedElsewhere
             \/ Serve \/ Refresh
    <2>1. page' = page
      BY <1>2 DEF Emit, RecordClosed, OpenedElsewhere, Serve, TakeCommand,
                  BuildAnswer, SendAnswer, AnswerRejected, Refresh,
                  RefreshCaptures, RefreshBroadcasts, RefreshFails
    <2> QED BY <1>2, <2>1, ServerActions DEF Advances
  <1>3. CASE \/ Receive \/ Timeout \/ Select
             \/ Connect \/ Disconnect \/ Drop
    BY <1>3, BrowserActions
  <1> QED BY <1>1, <1>2, <1>3 DEF SyncNext

(* A page that has just been opened.                                       *)
LEMMA SyncInitially ==
  ASSUME MaxEpoch \in Nat \ {0}, SyncInit
  PROVE  SyncInv
  <1>1. IsBrowser(page) /\ page.proj = NoProj
    BY DEF SyncInit, IsBrowser
  <1>2. Underway(down, epoch)
    <2>1. down \in Seq({}) /\ DOMAIN down = {}
      BY DEF SyncInit
    <2> QED BY <2>1 DEF Underway, IsSequence
  <1>3. epoch \in 1..MaxEpoch /\ rev \in [1..MaxEpoch -> Nat] /\ Answering
    BY DEF SyncInit, Epochs, Answering
  <1> QED BY <1>1, <1>2, <1>3 DEF SyncInv, RevisionsOnce

(* However messages are lost, late or answered twice, and however often    *)
(* the conversation is registered, the browser shows each revision up to   *)
(* that of its projection once, and messages in flight name only           *)
(* registrations and revisions that the registry has given (state.ts       *)
(* 633-680).                                                               *)
THEOREM SyncInvariance ==
  SyncSpec => []SyncInv
  <1> MaxEpoch \in Nat \ {0} BY BoundsAssumption
  <1>1. SyncInit => SyncInv
    BY SyncInitially
  <1>2. SyncInv /\ [SyncNext]_(syncVars) => SyncInv'
    BY SyncStep
  <1> QED BY <1>1, <1>2, PTL DEF SyncSpec

(* With one registration the revisions shown are its content.              *)
LEMMA OnceIsContent ==
  ASSUME RevisionsOnce, epoch = 1, page.proj # NoProj
  PROVE  page.proj.rev \in Nat /\ page.proj.has = Content(1, page.proj.rev)
  <1>1. /\ page.proj.rev \in Nat
        /\ page.proj.has \subseteq (1..1) \X (1..page.proj.rev)
        /\ \A i \in 1..page.proj.rev : <<1, i>> \in page.proj.has
    BY DEF RevisionsOnce
  <1>2. \A x \in page.proj.has : x \in Content(1, page.proj.rev)
    BY <1>1 DEF Content
  <1>3. \A x \in Content(1, page.proj.rev) : x \in page.proj.has
    BY <1>1 DEF Content
  <1> QED BY <1>1, <1>2, <1>3

(* While the conversation has been registered once, the projection at      *)
(* revision r is what the events 1 to r build, wherever gaps, resyncs,     *)
(* timeouts and reconnections fall.                                        *)
THEOREM ProjectionsFaithful ==
  SyncSpec => [](epoch = 1 => ProjectionFaithful)
  <1> MaxEpoch \in Nat \ {0} BY BoundsAssumption
  <1>1. SyncInv => (epoch = 1 => ProjectionFaithful)
    <2> SUFFICES ASSUME SyncInv, epoch = 1, page.proj # NoProj
                 PROVE  \E e \in 1..MaxEpoch : page.proj.has = Content(e, page.proj.rev)
      BY DEF ProjectionFaithful, Epochs
    <2> QED BY OnceIsContent DEF SyncInv
  <1> QED BY <1>1, SyncInvariance, PTL

(* What a projection is after a step that NeverBackwards allows.           *)
NotBackwards(p, q) ==
  /\ p.rev <= q.rev
  /\ \/ p.has \subseteq q.has
     \/ \E e \in Epochs, x \in p.has : x[1] # e /\ q.has = Content(e, q.rev)

(* However often the conversation is registered, the browser never goes    *)
(* back to an earlier revision, and a late snapshot undoes no event of the *)
(* registration it belongs to.                                             *)
THEOREM NothingTakenBack ==
  SyncSpec => NeverBackwards
  <1> MaxEpoch \in Nat \ {0} BY BoundsAssumption
  <1>1. SyncInv /\ [SyncNext]_(syncVars)
        => [page.proj # NoProj /\ page'.proj # NoProj => NotBackwards(page.proj, page'.proj)]_(syncVars)
    <2> SUFFICES ASSUME SyncInv, [SyncNext]_(syncVars), page.proj # NoProj, page'.proj # NoProj
                 PROVE  NotBackwards(page.proj, page'.proj)
      OBVIOUS
    <2> DEFINE p == page.proj
               q == page'.proj
    <2>1. Advances(p, q, epoch) /\ epoch \in 1..MaxEpoch
      BY SyncStep DEF SyncInv
    <2>2. p.rev \in Nat /\ p.has \subseteq (1..epoch) \X (1..p.rev)
      BY DEF SyncInv, RevisionsOnce
    <2>3. CASE q = p
      BY <2>2, <2>3 DEF NotBackwards
    <2>4. ASSUME NEW m, Extends(p, q, m)
          PROVE  NotBackwards(p, q)
      BY <2>2, <2>4 DEF Extends, NotBackwards
    <2>5. ASSUME NEW m, Wired(m, epoch), Replaces(p, q, m)
          PROVE  NotBackwards(p, q)
      <3>1. /\ m.epoch \in Epochs /\ m.rev \in Nat /\ p.rev <= m.rev
            /\ q.rev = m.rev /\ q.has = Content(m.epoch, q.rev)
        BY <2>1, <2>2, <2>5 DEF Replaces, Wired, Epochs
      <3>2. CASE \A x \in p.has : x[1] = m.epoch
        <4>1. ASSUME NEW x \in p.has
              PROVE  x \in q.has
          <5>1. x[1] = m.epoch /\ x[2] \in 1..q.rev /\ x = <<x[1], x[2]>>
            BY <2>2, <3>1, <3>2, <4>1
          <5> QED BY <3>1, <5>1 DEF Content
        <4> QED BY <3>1, <4>1 DEF NotBackwards
      <3>3. CASE \E x \in p.has : x[1] # m.epoch
        BY <3>1, <3>3 DEF NotBackwards
      <3> QED BY <3>2, <3>3
    <2> QED BY <2>1, <2>3, <2>4, <2>5 DEF Advances
  <1>2. SyncSpec => []SyncInv
    BY SyncInvariance
  <1> QED BY <1>1, <1>2, PTL DEF SyncSpec, NeverBackwards, NotBackwards
=============================================================================
