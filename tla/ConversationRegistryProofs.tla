---------------------- MODULE ConversationRegistryProofs ----------------------
(***************************************************************************)
(* Proofs about ConversationRegistry, for every number of calls, sessions  *)
(* and slots.                                                              *)
(***************************************************************************)
EXTENDS ConversationRegistry, FiniteSetTheorems, TLAPS

(* The pieces new states are built from have their types.                  *)
LEMMA FreeOpType == FreeOp \in OpRecord
  BY DEF FreeOp, OpRecord, PCs, Kinds

(* A new record has its type.                                              *)
LEMMA NewRecType ==
  ASSUME NEW source \in Kinds, NEW owner \in Ops \cup {NoOp}
  PROVE  NewRec(source, owner) \in RecRecord
  BY DEF NewRec, RecRecord

(* Marking a record as closing, or moving its Pi run on, keeps its type.   *)
LEMMA RecFieldType ==
  ASSUME NEW r \in RecRecord
  PROVE  /\ [r EXCEPT !.closing = TRUE] \in RecRecord
         /\ \A pi \in {"none", "preflight", "running", "ended", "held"} :
               [r EXCEPT !.pi = pi] \in RecRecord
  BY DEF RecRecord

(* Starting to close a session keeps the type of rec.                      *)
LEMMA RecClosingType ==
  ASSUME TypeOK, NEW s \in Sessions
  PROVE  [rec EXCEPT ![s].closing = TRUE] \in [Sessions -> RecRecord]
  <1>1. rec[s] \in RecRecord
    BY DEF TypeOK
  <1> QED BY <1>1, RecFieldType DEF TypeOK

(* Handing a prompt to Pi keeps the type of rec.                           *)
LEMMA RecPreflightType ==
  ASSUME TypeOK, NEW s \in Sessions
  PROVE  [rec EXCEPT ![s].pi = "preflight"] \in [Sessions -> RecRecord]
  <1>1. rec[s] \in RecRecord
    BY DEF TypeOK
  <1> QED BY <1>1, RecFieldType DEF TypeOK

(* A status event yields a record.                                         *)
LEMMA StatusEventType ==
  ASSUME NEW r \in RecRecord, NEW st \in {"idle", "streaming", "aborting", "error"}
  PROVE  StatusEvent(r, st) \in RecRecord
  BY DEF StatusEvent, RecRecord

(* abort() yields a record.                                                *)
LEMMA AbortRecType ==
  ASSUME NEW r \in RecRecord
  PROVE  AbortRec(r) \in RecRecord
  <1>1. StatusEvent(r, "aborting") \in RecRecord
    BY StatusEventType
  <1> QED BY <1>1 DEF AbortRec, RecRecord

(* A settled abort yields a record.                                        *)
LEMMA AbortedRecType ==
  ASSUME NEW r \in RecRecord
  PROVE  AbortedRec(r) \in RecRecord
  <1> DEFINE q == IF r.status = "aborting" THEN StatusEvent(r, "idle") ELSE r
  <1>1. q \in RecRecord
    BY StatusEventType
  <1>2. AbortedRec(r) = [q EXCEPT !.abort = FALSE, !.pi = IF r.pi = "held" THEN "none" ELSE r.pi]
    BY DEF AbortedRec
  <1> HIDE DEF q
  <1> QED BY <1>1, <1>2 DEF RecRecord

(* A runtime failure yields a record.                                      *)
LEMMA FailedRecType ==
  ASSUME NEW r \in RecRecord
  PROVE  FailedRec(r) \in RecRecord
  <1>1. [r EXCEPT !.terminal = TRUE] \in RecRecord
    BY DEF RecRecord
  <1>2. StatusEvent([r EXCEPT !.terminal = TRUE], "error") \in RecRecord
    BY <1>1, StatusEventType
  <1> QED BY <1>2 DEF FailedRec, RecRecord

(* #touch keeps the order a relation on sessions.                          *)
LEMMA TouchedType ==
  ASSUME TypeOK, NEW s \in Sessions, NEW L \in SUBSET Sessions
  PROVE  Touched(s, L) \in SUBSET (Sessions \X Sessions)
  BY DEF TypeOK, Touched

(* The ways a handler changes op.                                          *)
LEMMA GotoType ==
  ASSUME TypeOK, NEW o \in Ops, NEW pc \in PCs, Goto(o, pc)
  PROVE  op' \in [Ops -> OpRecord]
  BY DEF TypeOK, Goto, OpRecord

(* ... returning,                                                          *)
LEMMA ReturnType ==
  ASSUME TypeOK, NEW o \in Ops, Return(o)
  PROVE  op' \in [Ops -> OpRecord]
  BY FreeOpType DEF TypeOK, Return, OpRecord

(* ... rejecting, together with the opens that share the call,             *)
LEMMA RejectType ==
  ASSUME TypeOK, NEW o \in Ops, Reject(o)
  PROVE  op' \in [Ops -> OpRecord]
  BY FreeOpType DEF TypeOK, Reject, OpRecord

(* ... and starting.                                                       *)
LEMMA StartType ==
  ASSUME TypeOK, NEW o \in Ops, NEW kind \in Kinds, NEW s \in Sessions \cup {NoSession},
         NEW src \in Sessions \cup {NoSession}, Start(o, kind, s, src)
  PROVE  op' \in [Ops -> OpRecord]
  BY FreeOpType DEF TypeOK, Start, OpRecord, FreeOp, PCs

(* open()'s lookup keeps the types of what it changes.                     *)
LEMMA OpenLookupType ==
  ASSUME TypeOK, NEW o \in Ops, NEW s \in Sessions, OpenLookup(o, s)
  PROVE  /\ op' \in [Ops -> OpRecord]
         /\ older' \in SUBSET (Sessions \X Sessions)
         /\ queue' \in Seq(Ops)
  <1>1. CASE s \in live /\ rec[s].closing
    <2>1. [FreeOp EXCEPT !.pc = "waitClose", !.kind = "open", !.sess = s] \in OpRecord
      BY FreeOpType DEF OpRecord, FreeOp, PCs, Kinds
    <2> QED BY <1>1, <2>1 DEF OpenLookup, TypeOK
  <1>2. CASE s \in live /\ ~rec[s].closing
    BY <1>2, ReturnType, TouchedType DEF OpenLookup, TypeOK
  <1>3. CASE s \notin live /\ PendingOpen(s)
    <2>1. ASSUME NEW pc \in PCs
          PROVE  [FreeOp EXCEPT !.kind = "open", !.sess = s, !.pc = pc] \in OpRecord
      <3>1. "open" \in Kinds
        BY DEF Kinds
      <3> QED BY FreeOpType, <3>1 DEF OpRecord
    <2>2. (IF OpenSettled(s) THEN "joinDone" ELSE "joined") \in PCs
      BY DEF PCs
    <2> QED BY <1>3, <2>1, <2>2 DEF OpenLookup, TypeOK
  <1>4. CASE s \notin live /\ ~PendingOpen(s)
    <2>1. Start(o, "open", s, NoSession)
      BY <1>4 DEF OpenLookup
    <2>2. op' \in [Ops -> OpRecord]
      BY <2>1, StartType DEF Kinds
    <2> QED BY <1>4, <2>2 DEF OpenLookup, TypeOK
  <1> QED BY <1>1, <1>2, <1>3, <1>4
(* Taking a slot keeps the types.                                          *)
LEMMA ReserveSlotType ==
  ASSUME TypeOK, NEW o \in Ops, ReserveSlot(o)
  PROVE  TypeOK'
  <1> DEFINE pc == CASE op[o].kind = "job" -> "leased"
                     [] op[o].kind = "fork" -> "granted"
                     [] OTHER -> "building"
  <1>1. op' \in [Ops -> OpRecord]
    <2>1. pc \in PCs
      BY DEF PCs
    <2>2. op' = [op EXCEPT ![o].victim = NoSession, ![o].pc = pc]
      BY DEF ReserveSlot
    <2> HIDE DEF pc
    <2> QED BY <2>1, <2>2 DEF TypeOK, OpRecord
  <1>2. queue' \in Seq(Ops)
    BY DEF TypeOK, ReserveSlot, HoldsLock
  <1> QED BY <1>1, <1>2 DEF TypeOK, ReserveSlot

(* The end of a job run keeps the types of what it changes.                *)
LEMMA JobReleaseType ==
  ASSUME TypeOK, NEW o \in Ops, JobRelease(o)
  PROVE  op' \in [Ops -> OpRecord] /\ rec' \in [Sessions -> RecRecord]
  <1>1. CASE Owned(o)
    <2>1. Goto(o, "releasing")
      BY <1>1 DEF JobRelease
    <2>2. op' \in [Ops -> OpRecord]
      BY <2>1, GotoType DEF PCs
    <2>3. rec' \in [Sessions -> RecRecord]
      <3>1. op[o].sess \in Sessions /\ rec' = [rec EXCEPT ![op[o].sess].closing = TRUE]
        BY <1>1 DEF JobRelease, Owned, TypeOK
      <3> QED BY <3>1, RecClosingType
    <2> QED BY <2>2, <2>3
  <1>2. CASE ~Owned(o)
    BY <1>2, ReturnType DEF JobRelease, TypeOK
  <1> QED BY <1>1, <1>2

(* The error path keeps the types of what it changes.                      *)
LEMMA FailType ==
  ASSUME TypeOK, NEW o \in Ops, Fail(o)
  PROVE  op' \in [Ops -> OpRecord] /\ reserved' \subseteq Ops
  <1>1. op' \in [Ops -> OpRecord]
    BY GotoType DEF Fail, PCs
  <1> QED BY <1>1 DEF Fail, TypeOK

(* #register keeps the types.                                              *)
LEMMA RegisterType ==
  ASSUME TypeOK, NEW o \in Ops, Register(o), op[o].sess \in Sessions
  PROVE  TypeOK'
  <1> DEFINE s == op[o].sess
  <1>1. CASE ~Accepting \/ (s \in live /\ op[o].kind \in {"fork", "job"})
    <2>1. Fail(o) /\ UNCHANGED <<live, rec, older, temporary>>
      BY <1>1 DEF Register
    <2>2. op' \in [Ops -> OpRecord] /\ reserved' \subseteq Ops
      BY <2>1, FailType
    <2> QED BY <2>1, <2>2 DEF Register, TypeOK
  <1>2. CASE Accepting /\ s \in live /\ op[o].kind \in {"create", "open"}
    <2>1. Goto(o, "superseded") /\ UNCHANGED <<live, rec, older, reserved, temporary>>
      BY <1>2 DEF Register
    <2>2. op' \in [Ops -> OpRecord]
      BY <2>1, GotoType DEF PCs
    <2> QED BY <2>1, <2>2 DEF Register, TypeOK
  <1>3. CASE Accepting /\ s \notin live
    <2> DEFINE pc == IF op[o].kind = "fork" THEN "snapshot" ELSE "registered"
               owner == IF op[o].kind = "job" THEN o ELSE NoOp
    <2>1. /\ live' = live \cup {s}
          /\ rec' = [rec EXCEPT ![s] = NewRec(op[o].kind, owner)]
          /\ older' = Touched(s, live \cup {s})
          /\ reserved' \in {reserved, reserved \ {o}}
          /\ temporary' = temporary \ {o}
          /\ Goto(o, pc)
      BY <1>3 DEF Register
    <2>2. op' \in [Ops -> OpRecord]
      <3>1. pc \in PCs
        BY DEF PCs
      <3>2. Goto(o, pc)
        BY <2>1
      <3> HIDE DEF pc
      <3> QED BY <3>1, <3>2, GotoType
    <2>3. older' \in SUBSET (Sessions \X Sessions)
      BY <2>1, TouchedType DEF TypeOK
    <2>4. rec' \in [Sessions -> RecRecord]
      <3>1. op[o].kind \in Kinds /\ owner \in Ops \cup {NoOp}
        BY DEF TypeOK, OpRecord
      <3> HIDE DEF owner
      <3>2. NewRec(op[o].kind, owner) \in RecRecord
        BY <3>1, NewRecType
      <3> QED BY <2>1, <3>2 DEF TypeOK
    <2> QED BY <2>1, <2>2, <2>3, <2>4 DEF Register, TypeOK
  <1> QED BY <1>1, <1>2, <1>3 DEF Register

(* A settled disposal keeps the types.                                     *)
LEMMA DisposeSettledType ==
  ASSUME TypeOK, NEW s \in Sessions, NEW ok \in BOOLEAN, DisposeSettled(s, ok)
  PROVE  TypeOK'
  <1>1. rec' \in [Sessions -> RecRecord]
    <2>1. NoRec \in RecRecord
      BY NewRecType DEF NoRec, Kinds
    <2> QED BY <2>1 DEF DisposeSettled, TypeOK
  <1>2. op' \in [Ops -> OpRecord]
    <2>1. \A o \in Ops : op'[o] \in OpRecord
      <3> TAKE o \in Ops
      <3>1. op[o] \in OpRecord
        BY DEF TypeOK
      <3>2. \A pc \in PCs : [op[o] EXCEPT !.pc = pc] \in OpRecord
        BY <3>1 DEF OpRecord
      <3>3. {"evicted", "evictFailed", "reopen", "failing"} \subseteq PCs
        BY DEF PCs
      <3> QED BY <3>1, <3>2, <3>3, FreeOpType DEF DisposeSettled
    <2> QED BY <2>1 DEF DisposeSettled
  <1> QED BY <1>1, <1>2 DEF DisposeSettled, TypeOK
(* fork()'s catch block keeps the types of what it changes.                *)
LEMMA RetractType ==
  ASSUME TypeOK, NEW o \in Ops, Retract(o)
  PROVE  op' \in [Ops -> OpRecord] /\ rec' \in [Sessions -> RecRecord]
  <1>1. CASE Goto(o, "retracting") /\ op[o].sess \in live /\ rec' = [rec EXCEPT ![op[o].sess].closing = TRUE]
    <2>1. op[o].sess \in Sessions
      BY <1>1 DEF TypeOK
    <2> QED BY <1>1, <2>1, GotoType, RecClosingType DEF PCs
  <1>2. CASE Goto(o, "failing") /\ UNCHANGED rec
    BY <1>2, GotoType DEF PCs, TypeOK
  <1> QED BY <1>1, <1>2 DEF Retract

(* Every step keeps the types.                                             *)
LEMMA RequestType ==
  ASSUME TypeOK, NEW o \in Ops, Request(o)
  PROVE  TypeOK'
  <1> PICK s \in Sessions : \/ \E kind \in Calls \cap {"create", "job"} : RequestNew(o, kind, s)
                            \/ "open" \in Calls /\ RequestOpen(o, s)
                            \/ "fork" \in Calls /\ \E src \in Sessions : RequestFork(o, src, s)
    BY DEF Request
  <1>1. ASSUME NEW kind \in {"create", "job"}, RequestNew(o, kind, s)
        PROVE  TypeOK'
    <2>1. op' \in [Ops -> OpRecord]
      BY <1>1, StartType DEF RequestNew, Kinds
    <2> QED BY <1>1, <2>1 DEF RequestNew, TypeOK
  <1>2. CASE RequestOpen(o, s)
    <2>1. OpenLookup(o, s)
      BY <1>2 DEF RequestOpen
    <2> QED BY <1>2, <2>1, OpenLookupType DEF RequestOpen, TypeOK
  <1>3. ASSUME NEW src \in Sessions, RequestFork(o, src, s)
        PROVE  TypeOK'
    <2>1. op' \in [Ops -> OpRecord]
      BY <1>3, StartType DEF RequestFork, Kinds
    <2> QED BY <1>3, <2>1 DEF RequestFork, TypeOK
  <1> QED BY <1>1, <1>2, <1>3

(* Every continuation of a call keeps the types.                           *)
LEMMA ContinueType ==
  ASSUME TypeOK, SlotsHeld, NEW o \in Ops, Continue(o)
  PROVE  TypeOK'
  <1>a. op[o].pc # "free" => op[o].sess \in Sessions
    BY DEF SlotsHeld
  <1>1. CASE Reopen(o)
    <2>1. CASE Accepting
      <3>1. OpenLookup(o, op[o].sess) /\ op[o].sess \in Sessions
        BY <1>1, <2>1, <1>a DEF Reopen
      <3> QED BY <1>1, <3>1, OpenLookupType DEF Reopen, TypeOK
    <2>2. CASE ~Accepting
      BY <1>1, <2>2, ReturnType DEF Reopen, TypeOK
    <2> QED BY <2>1, <2>2
  <1>2. CASE Joined(o)
    <2>1. op[o].sess \in live => Touched(op[o].sess, live) \in SUBSET (Sessions \X Sessions)
      BY TouchedType DEF TypeOK
    <2> QED BY <1>2, <2>1, ReturnType DEF Joined, TypeOK
  <1>3. CASE ReserveSlot(o)
    BY <1>3, ReserveSlotType
  <1>4. CASE Evict(o)
    <2>1. PICK v \in LeastRecentlyUsedIdle(op[o].src) :
             /\ rec' = [rec EXCEPT ![v].closing = TRUE]
             /\ op' = [op EXCEPT ![o].pc = "evicting", ![o].victim = v]
      BY <1>4 DEF Evict
    <2>2. v \in Sessions
      BY DEF LeastRecentlyUsedIdle, Evictable, TypeOK
    <2>3. op' \in [Ops -> OpRecord]
      <3>1. op[o] \in OpRecord /\ "evicting" \in PCs
        BY DEF TypeOK, PCs
      <3>2. [op[o] EXCEPT !.pc = "evicting", !.victim = v] \in OpRecord
        BY <2>2, <3>1 DEF OpRecord
      <3>3. op' = [op EXCEPT ![o] = [op[o] EXCEPT !.pc = "evicting", !.victim = v]]
        BY <2>1 DEF TypeOK
      <3> QED BY <3>2, <3>3 DEF TypeOK
    <2>4. rec' \in [Sessions -> RecRecord]
      BY <2>1, <2>2, RecClosingType
    <2> QED BY <1>4, <2>3, <2>4 DEF Evict, TypeOK
  <1>5. CASE CapacityRefused(o)
    <2>1. op' \in [Ops -> OpRecord]
      BY <1>5, RejectType DEF CapacityRefused
    <2>2. queue' \in Seq(Ops)
      BY <1>5 DEF CapacityRefused, HoldsLock, TypeOK
    <2> QED BY <1>5, <2>1, <2>2 DEF CapacityRefused, TypeOK
  <1>6. CASE ForkProceeds(o)
    <2>1. op' \in [Ops -> OpRecord]
      BY <1>6, GotoType, ReturnType DEF ForkProceeds, PCs
    <2> QED BY <1>6, <2>1 DEF ForkProceeds, TypeOK
  <1>7. CASE Built(o)
    <2>1. CASE Accepting
      <3> DEFINE pc == IF op[o].kind = "fork" THEN "forking" ELSE "registering"
      <3>1. pc \in PCs
        BY DEF PCs
      <3>2. Goto(o, pc) /\ UNCHANGED reserved
        BY <1>7, <2>1 DEF Built
      <3> HIDE DEF pc
      <3>3. op' \in [Ops -> OpRecord]
        BY <3>1, <3>2, GotoType
      <3> QED BY <1>7, <3>2, <3>3 DEF Built, TypeOK
    <2>2. CASE ~Accepting
      <3>1. op' \in [Ops -> OpRecord] /\ reserved' \subseteq Ops
        BY <1>7, <2>2, FailType DEF Built
      <3> QED BY <1>7, <3>1 DEF Built, TypeOK
    <2> QED BY <2>1, <2>2
  <1>8. CASE BuildRejected(o)
    BY <1>8, RejectType DEF BuildRejected, Release, TypeOK
  <1>9. CASE ForkReplaced(o)
    <2> DEFINE pc == IF Accepting THEN "registering" ELSE "failing"
    <2>1. pc \in PCs
      BY DEF PCs
    <2>2. Goto(o, pc)
      BY <1>9 DEF ForkReplaced
    <2> HIDE DEF pc
    <2>3. op' \in [Ops -> OpRecord]
      BY <2>1, <2>2, GotoType
    <2> QED BY <1>9, <1>a, <2>3 DEF ForkReplaced, TypeOK
  <1>10. CASE ForkRejected(o)
    <2>1. op' \in [Ops -> OpRecord]
      BY <1>10, GotoType DEF ForkRejected, PCs
    <2> QED BY <1>10, <2>1 DEF ForkRejected, TypeOK
  <1>11. CASE Register(o)
    BY <1>11, <1>a, RegisterType DEF Register
  <1>12. CASE SlotReturned(o)
    <2>1. op' \in [Ops -> OpRecord]
      <3>1. \A p \in Ops : op'[p] \in OpRecord
        <4> TAKE p \in Ops
        <4>1. \A pc \in PCs : [op[p] EXCEPT !.pc = pc] \in OpRecord
          BY DEF OpRecord, TypeOK
        <4>2. op[p] \in OpRecord /\ {"refreshing", "joinDone"} \subseteq PCs
          BY DEF TypeOK, PCs
        <4> QED BY <1>12, <4>1, <4>2, FreeOpType DEF SlotReturned
      <3> QED BY <1>12, <3>1 DEF SlotReturned
    <2> QED BY <1>12, <2>1 DEF SlotReturned, TypeOK
  <1>13. CASE ForkSnapshot(o)
    <2>1. op' \in [Ops -> OpRecord] /\ rec' \in [Sessions -> RecRecord]
      <3>1. CASE Goto(o, "checking") /\ UNCHANGED rec
        BY <3>1, GotoType DEF PCs, TypeOK
      <3>2. CASE Retract(o)
        BY <3>2, RetractType
      <3> QED BY <1>13, <3>1, <3>2 DEF ForkSnapshot
    <2> QED BY <1>13, <2>1 DEF ForkSnapshot, TypeOK
  <1>21. CASE SnapshotTaken(o)
    <2>1. op' \in [Ops -> OpRecord]
      BY <1>21, GotoType DEF SnapshotTaken, PCs
    <2>2. Touched(op[o].sess, live) \in SUBSET (Sessions \X Sessions)
      BY <1>21, <1>a, TouchedType DEF SnapshotTaken, TypeOK
    <2> QED BY <1>21, <2>1, <2>2 DEF SnapshotTaken, TypeOK
  <1>22. CASE SnapshotMissing(o)
    <2>1. op' \in [Ops -> OpRecord]
      BY <1>22, GotoType DEF SnapshotMissing, PCs
    <2>2. op[o].sess \in Sessions /\ rec[op[o].sess] \in RecRecord
      BY <1>22, <1>a DEF SnapshotMissing, TypeOK
    <2>3. [rec[op[o].sess] EXCEPT !.terminal = TRUE, !.status = "error"] \in RecRecord
      BY <2>2 DEF RecRecord
    <2>4. rec' \in {rec, [rec EXCEPT ![op[o].sess] = [rec[op[o].sess] EXCEPT !.terminal = TRUE, !.status = "error"]]}
      BY <1>22, <2>2 DEF SnapshotMissing, TypeOK
    <2>5. rec' \in [Sessions -> RecRecord]
      BY <2>2, <2>3, <2>4 DEF TypeOK
    <2> QED BY <1>22, <2>1, <2>5 DEF SnapshotMissing, TypeOK
  <1>23. CASE SnapshotFailed(o)
    BY <1>23, RetractType DEF SnapshotFailed, TypeOK
  <1>24. ASSUME NEW b \in BOOLEAN, Superseded(o, b)
         PROVE  TypeOK'
    <2>1. op' \in [Ops -> OpRecord] /\ reserved' \subseteq Ops
      <3>1. CASE Goto(o, "registered") /\ UNCHANGED reserved
        BY <3>1, GotoType DEF PCs, TypeOK
      <3>2. CASE Fail(o)
        BY <3>2, FailType
      <3> QED BY <1>24, <3>1, <3>2 DEF Superseded
    <2>2. Touched(op[o].sess, live) \in SUBSET (Sessions \X Sessions)
      BY <1>24, <1>a, TouchedType DEF Superseded, TypeOK
    <2> QED BY <1>24, <2>1, <2>2 DEF Superseded, TypeOK
  <1>14. CASE Refreshed(o)
    BY <1>14, ReturnType DEF Refreshed, Release, TypeOK
  <1>15. CASE Failed(o)
    BY <1>15, RejectType DEF Failed, Release, TypeOK
  <1>16. ASSUME NEW b \in BOOLEAN, JobLeased(o, b)
         PROVE  TypeOK'
    <2>1. op' \in [Ops -> OpRecord]
      BY <1>16, GotoType, ReturnType DEF JobLeased, PCs
    <2> QED BY <1>16, <2>1 DEF JobLeased, TypeOK
  <1>17. ASSUME NEW b \in BOOLEAN, JobPromptSettled(o, b)
         PROVE  TypeOK'
    <2>1. op' \in [Ops -> OpRecord] /\ rec' \in [Sessions -> RecRecord]
      <3>1. CASE Goto(o, "postHook") /\ UNCHANGED rec
        BY <3>1, GotoType DEF PCs, TypeOK
      <3>2. CASE JobRelease(o)
        BY <3>2, JobReleaseType
      <3> QED BY <1>17, <3>1, <3>2 DEF JobPromptSettled
    <2> QED BY <1>17, <2>1 DEF JobPromptSettled, TypeOK
  <1>18. CASE JobTitles(o)
    <2>1. CASE Accepting /\ Owned(o)
      <3>1. op' \in [Ops -> OpRecord]
        BY <1>18, <2>1, GotoType DEF JobTitles, PCs
      <3>2. older' \in SUBSET (Sessions \X Sessions)
        BY <1>18, <2>1, <1>a, TouchedType DEF JobTitles, TypeOK
      <3> QED BY <1>18, <2>1, <3>1, <3>2 DEF JobTitles, TypeOK
    <2>2. CASE ~(Accepting /\ Owned(o))
      BY <1>18, <2>2, JobReleaseType DEF JobTitles, TypeOK
    <2> QED BY <2>1, <2>2
  <1>19. ASSUME NEW b \in BOOLEAN, JobPrompts(o, b)
         PROVE  TypeOK'
    <2>1. CASE Goto(o, "prompting") /\ rec' = [rec EXCEPT ![op[o].sess].pi = "preflight"]
               /\ older' = Touched(op[o].sess, live)
      <3>1. op' \in [Ops -> OpRecord]
        BY <2>1, GotoType DEF PCs
      <3>2. older' \in SUBSET (Sessions \X Sessions) /\ op[o].sess \in Sessions
        BY <1>19, <2>1, <1>a, TouchedType DEF JobPrompts, TypeOK
      <3>3. rec' \in [Sessions -> RecRecord]
        BY <2>1, <3>2, RecPreflightType
      <3> QED BY <1>19, <3>1, <3>2, <3>3 DEF JobPrompts, TypeOK
    <2>2. CASE JobRelease(o) /\ UNCHANGED older
      BY <1>19, <2>2, JobReleaseType DEF JobPrompts, TypeOK
    <2> QED BY <1>19, <2>1, <2>2 DEF JobPrompts
  <1>20. CASE JobPostHookSettled(o)
    BY <1>20, JobReleaseType DEF JobPostHookSettled, TypeOK
  <1> QED BY <1>1, <1>2, <1>3, <1>4, <1>5, <1>6, <1>7, <1>8, <1>9, <1>10, <1>11, <1>12,
             <1>13, <1>14, <1>15, <1>16, <1>17, <1>18, <1>19, <1>20, <1>21, <1>22, <1>23, <1>24 DEF Continue
(* An event of Pi keeps the types.                                         *)
LEMMA PiEventType ==
  ASSUME TypeOK, NEW s \in Sessions, NEW from, NEW r \in RecRecord, NEW d \in SUBSET Sessions,
         NEW e \in BOOLEAN,
         PiEvent(s, from, r, d, e)
  PROVE  TypeOK'
  <1>1. Touched(s, live) \in SUBSET (Sessions \X Sessions)
    BY TouchedType DEF TypeOK
  <1> QED BY <1>1 DEF PiEvent, TypeOK

(* Every step on a live conversation keeps the types.                      *)
LEMMA SessionStepType ==
  ASSUME TypeOK, NEW s \in Sessions,
         Settle(s) \/ Run(s) \/ Client(s) \/ AbortSettled(s) \/ RuntimeFailure(s)
  PROVE  TypeOK'
  <1>r. rec[s] \in RecRecord
    BY DEF TypeOK
  <1>t. Touched(s, live) \in SUBSET (Sessions \X Sessions)
    BY TouchedType DEF TypeOK
  <1>1. CASE Settle(s)
    BY <1>1, DisposeSettledType DEF Settle
  <1>2. CASE PiStart(s)
    <2> DEFINE r == [StatusEvent(rec[s], "streaming") EXCEPT !.pi = "running"]
    <2>1. r \in RecRecord
      BY <1>r, StatusEventType, RecFieldType
    <2>2. PiEvent(s, {"preflight"}, r, disk \cup {s}, TRUE)
      BY <1>2 DEF PiStart
    <2>3. disk \cup {s} \in SUBSET Sessions
      BY DEF TypeOK
    <2> HIDE DEF r
    <2> QED BY <2>1, <2>2, <2>3, PiEventType
  <1>3. CASE PiReject(s)
    <2> DEFINE r == [rec[s] EXCEPT !.pi = "none"]
    <2>1. r \in RecRecord
      BY <1>r, RecFieldType
    <2>2. PiEvent(s, {"preflight"}, r, disk, FALSE)
      BY <1>3 DEF PiReject
    <2> HIDE DEF r
    <2> QED BY <2>1, <2>2, PiEventType DEF TypeOK
  <1>4. CASE AgentEnd(s)
    <2> DEFINE r == [StatusEvent(rec[s], "idle") EXCEPT
                       !.pi = IF rec[s].pi = "running" THEN "ended" ELSE "none"]
    <2>1. StatusEvent(rec[s], "idle") \in RecRecord
      BY <1>r, StatusEventType
    <2>2. r \in RecRecord
      BY <2>1 DEF RecRecord
    <2>3. PiEvent(s, {"running", "held"}, r, disk, TRUE)
      BY <1>4 DEF AgentEnd
    <2> HIDE DEF r
    <2> QED BY <2>2, <2>3, PiEventType DEF TypeOK
  <1>5. CASE PiSettle(s)
    <2> DEFINE r == [rec[s] EXCEPT !.pi = IF rec[s].pi = "running" THEN "held" ELSE "none"]
    <2>1. r \in RecRecord
      BY <1>r DEF RecRecord
    <2>2. PiEvent(s, {"running", "ended"}, r, disk, FALSE)
      BY <1>5 DEF PiSettle
    <2> HIDE DEF r
    <2> QED BY <2>1, <2>2, PiEventType DEF TypeOK
  <1>6. CASE Prompt(s)
    BY <1>6, <1>t, RecPreflightType DEF Prompt, TypeOK
  <1>7. CASE Abort(s)
    <2>1. op' \in [Ops -> OpRecord]
      BY <1>7 DEF Abort, TypeOK, OpRecord
    <2>2. rec' \in [Sessions -> RecRecord]
      BY <1>7, <1>r, AbortRecType DEF Abort, TypeOK
    <2> QED BY <1>7, <1>t, <2>1, <2>2 DEF Abort, TypeOK
  <1>8. CASE Close(s)
    BY <1>8, RecClosingType DEF Close, TypeOK
  <1>9. CASE AbortSettled(s)
    <2>1. AbortedRec(rec[s]) \in RecRecord
      BY <1>r, AbortedRecType
    <2> QED BY <1>9, <1>t, <2>1 DEF AbortSettled, TypeOK
  <1>10. CASE RuntimeFailure(s)
    <2>1. FailedRec(rec[s]) \in RecRecord
      BY <1>r, FailedRecType
    <2> QED BY <1>10, <1>t, <2>1 DEF RuntimeFailure, TypeOK
  <1> QED BY <1>1, <1>2, <1>3, <1>4, <1>5, <1>6, <1>7, <1>8, <1>9, <1>10 DEF Run, Client

(* The shutdown steps keep the types.                                      *)
LEMMA ShutdownType ==
  ASSUME TypeOK, BeginShutdown \/ DisposeAll \/ Terminated
  PROVE  TypeOK'
  <1>r. \A s \in Sessions : rec[s] \in RecRecord
    BY DEF TypeOK
  <1>1. CASE BeginShutdown
    <2>1. op' \in [Ops -> OpRecord]
      BY <1>1 DEF BeginShutdown, TypeOK, OpRecord
    <2>2. rec' \in [Sessions -> RecRecord]
      BY <1>1, <1>r, AbortRecType DEF BeginShutdown
    <2> QED BY <1>1, <2>1, <2>2 DEF BeginShutdown, TypeOK
  <1>2. CASE DisposeAll
    <2>1. rec' \in [Sessions -> RecRecord]
      BY <1>2, <1>r, RecFieldType DEF DisposeAll
    <2> QED BY <1>2, <2>1 DEF DisposeAll, TypeOK
  <1>3. CASE Terminated
    BY <1>3 DEF Terminated, vars, TypeOK
  <1> QED BY <1>1, <1>2, <1>3
-----------------------------------------------------------------------------
(* A step that takes no slot and registers nothing: slots are only given   *)
(* back, and a registered call that still has one stays registered.        *)
Quiet == /\ SlotsHeld'
         /\ live' \subseteq live
         /\ reserved' \subseteq reserved
         /\ \A p \in reserved' : op[p].pc = "registered" => op'[p].pc = "registered"

(* What the three ways of moving a call do to the fields SlotsHeld reads.  *)
LEMMA GotoEffect ==
  ASSUME TypeOK, NEW o \in Ops, NEW pc, Goto(o, pc)
  PROVE  \A p \in Ops : /\ op'[p].pc = IF p = o THEN pc ELSE op[p].pc
                        /\ op'[p].kind = op[p].kind
                        /\ op'[p].sess = op[p].sess
  BY DEF TypeOK, Goto, OpRecord

(* Returning frees the call and touches no other,                          *)
LEMMA ReturnEffect ==
  ASSUME TypeOK, NEW o \in Ops, Return(o)
  PROVE  \A p \in Ops : IF p = o THEN op'[p].pc = "free" ELSE op'[p] = op[p]
  BY DEF TypeOK, Return, FreeOp

(* rejecting frees it and the opens that share it,                         *)
LEMMA RejectEffect ==
  ASSUME TypeOK, NEW o \in Ops, Reject(o)
  PROVE  \A p \in Ops : IF p = o \/ (op[p].pc = "joined" /\ op[o].kind = "open" /\ op'[p] # op[p])
                        THEN op'[p].pc = "free" ELSE op'[p] = op[p]
  BY DEF TypeOK, Reject, FreeOp, SharedWith

(* and starting queues it.                                                 *)
LEMMA StartEffect ==
  ASSUME TypeOK, NEW o \in Ops, NEW kind, NEW s, NEW src, Start(o, kind, s, src)
  PROVE  \A p \in Ops : IF p = o THEN op'[p].pc = "queued" /\ op'[p].sess = s
                        ELSE op'[p] = op[p]
  BY DEF TypeOK, Start, FreeOp

(* open()'s lookup takes no slot.                                          *)
LEMMA OpenLookupQuiet ==
  ASSUME TypeOK, SlotsHeld, NEW o \in Ops, NEW s \in Sessions, OpenLookup(o, s),
         op[o].pc # "registered", UNCHANGED <<live, reserved>>
  PROVE  Quiet
  <1>1. \A p \in Ops : IF p = o
                       THEN /\ op'[p].pc \in {"waitClose", "joined", "joinDone", "queued", "free"}
                            /\ op'[p].pc # "free" => op'[p].sess = s
                       ELSE op'[p] = op[p]
    <2>1. CASE Return(o)
      BY <2>1, ReturnEffect
    <2>2. CASE Start(o, "open", s, NoSession)
      BY <2>2, StartEffect
    <2>3. CASE op' = [op EXCEPT ![o] = [FreeOp EXCEPT !.pc = "waitClose", !.kind = "open", !.sess = s]]
      BY <2>3 DEF TypeOK, FreeOp
    <2>4. ASSUME NEW pc \in {"joined", "joinDone"},
                 op' = [op EXCEPT ![o] = [FreeOp EXCEPT !.kind = "open", !.sess = s, !.pc = pc]]
          PROVE  \A p \in Ops : IF p = o THEN op'[p].pc = pc /\ op'[p].sess = s ELSE op'[p] = op[p]
      BY <2>4 DEF TypeOK, FreeOp
    <2> QED BY <2>1, <2>2, <2>3, <2>4 DEF OpenLookup
  <1> QED BY <1>1 DEF Quiet, SlotsHeld, TypeOK

(* The end of a job run takes no slot.                                     *)
LEMMA JobReleaseQuiet ==
  ASSUME TypeOK, SlotsHeld, NEW o \in Ops, JobRelease(o), UNCHANGED <<live, reserved>>,
         op[o].pc = "registered" => op[o].kind = "job",
         op[o].pc # "free"
  PROVE  Quiet
  <1>1. CASE Goto(o, "releasing")
    BY <1>1, GotoEffect DEF Quiet, SlotsHeld, TypeOK
  <1>2. CASE Return(o)
    BY <1>2, ReturnEffect DEF Quiet, SlotsHeld, TypeOK
  <1> QED BY <1>1, <1>2 DEF JobRelease

(* An arriving call takes no slot.                                         *)
LEMMA RequestQuiet ==
  ASSUME TypeOK, SlotsHeld, NEW o \in Ops, Request(o)
  PROVE  Quiet
  <1> PICK s \in Sessions : \/ \E kind \in Calls \cap {"create", "job"} : RequestNew(o, kind, s)
                            \/ "open" \in Calls /\ RequestOpen(o, s)
                            \/ "fork" \in Calls /\ \E src \in Sessions : RequestFork(o, src, s)
    BY DEF Request
  <1>1. ASSUME NEW kind \in {"create", "job"}, RequestNew(o, kind, s)
        PROVE  Quiet
    BY <1>1, StartEffect DEF RequestNew, Quiet, SlotsHeld, TypeOK
  <1>2. CASE RequestOpen(o, s)
    BY <1>2, OpenLookupQuiet DEF RequestOpen
  <1>3. ASSUME NEW src \in Sessions, RequestFork(o, src, s)
        PROVE  Quiet
    BY <1>3, StartEffect DEF RequestFork, Quiet, SlotsHeld, TypeOK
  <1> QED BY <1>1, <1>2, <1>3

(* The error path gives up at most the caller's own slot.                  *)
LEMMA FailQuiet ==
  ASSUME TypeOK, SlotsHeld, NEW o \in Ops, op[o].pc # "registered", op[o].pc # "free",
         Fail(o), UNCHANGED live
  PROVE  Quiet
  <1>1. \A p \in Ops : /\ op'[p].pc = IF p = o THEN "failing" ELSE op[p].pc
                       /\ op'[p].kind = op[p].kind
                       /\ op'[p].sess = op[p].sess
    BY GotoEffect DEF Fail
  <1>2. reserved' \subseteq reserved /\ \A p \in Ops : p # o => (p \in reserved' <=> p \in reserved)
    BY DEF Fail
  <1>3. SlotsHeld'
    BY <1>1, <1>2 DEF SlotsHeld
  <1> QED BY <1>1, <1>2, <1>3 DEF Quiet, TypeOK

(* Every continuation of a call but the reservation of a slot and the      *)
(* registration of a runtime is quiet.                                     *)
LEMMA ContinueQuiet ==
  ASSUME TypeOK, SlotsHeld, NEW o \in Ops, Continue(o), ~ReserveSlot(o), ~Register(o)
  PROVE  Quiet
  <1>a. op[o].pc # "free" => op[o].sess \in Sessions
    BY DEF SlotsHeld
  <1>1. CASE Reopen(o)
    <2>1. CASE Accepting
      BY <1>1, <2>1, <1>a, OpenLookupQuiet DEF Reopen
    <2>2. CASE ~Accepting
      BY <1>1, <2>2, ReturnEffect DEF Reopen, Quiet, SlotsHeld, TypeOK
    <2> QED BY <2>1, <2>2
  <1>2. CASE Joined(o)
    BY <1>2, ReturnEffect DEF Joined, Quiet, SlotsHeld, TypeOK
  <1>4. CASE Evict(o)
    <2>1. \A p \in Ops : /\ op'[p].pc = IF p = o THEN "evicting" ELSE op[p].pc
                         /\ op'[p].kind = op[p].kind
                         /\ op'[p].sess = op[p].sess
      BY <1>4 DEF Evict, TypeOK, OpRecord
    <2>2. op[o].pc \in {"queued", "evicted"}
      BY <1>4 DEF Evict, AdmittedToLoop
    <2> QED BY <1>4, <2>1, <2>2 DEF Evict, Quiet, SlotsHeld, TypeOK
  <1>5. CASE CapacityRefused(o)
    <2>1. op[o].pc \in {"queued", "evicted", "evictFailed"}
      BY <1>5 DEF CapacityRefused, Refused, AdmittedToLoop
    <2> QED BY <1>5, <2>1, RejectEffect DEF CapacityRefused, Quiet, SlotsHeld, TypeOK
  <1>6. CASE ForkProceeds(o)
    <2>1. CASE Goto(o, "building")
      BY <1>6, <2>1, GotoEffect DEF ForkProceeds, Quiet, SlotsHeld, TypeOK
    <2>2. CASE Goto(o, "stranded")
      BY <1>6, <2>2, GotoEffect DEF ForkProceeds, Quiet, SlotsHeld, TypeOK
    <2> QED BY <1>6, <2>1, <2>2 DEF ForkProceeds
  <1>7. CASE Built(o)
    <2>1. ASSUME NEW pc \in {"forking", "registering"}, Goto(o, pc), UNCHANGED reserved
          PROVE  Quiet
      BY <1>7, <2>1, GotoEffect DEF Built, Quiet, SlotsHeld, TypeOK
    <2>2. CASE Fail(o)
      BY <1>7, <2>2, GotoEffect DEF Built, Fail, Quiet, SlotsHeld, TypeOK
    <2> QED BY <1>7, <2>1, <2>2 DEF Built
  <1>8. CASE BuildRejected(o)
    BY <1>8, RejectEffect DEF BuildRejected, Release, Quiet, SlotsHeld, TypeOK
  <1>9. CASE ForkReplaced(o)
    <2>1. ASSUME NEW pc \in {"registering", "failing"}, Goto(o, pc)
          PROVE  Quiet
      BY <1>9, <2>1, GotoEffect DEF ForkReplaced, Quiet, SlotsHeld, TypeOK
    <2> QED BY <1>9, <2>1 DEF ForkReplaced
  <1>10. CASE ForkRejected(o)
    BY <1>10, GotoEffect DEF ForkRejected, Quiet, SlotsHeld, TypeOK
  <1>12. CASE SlotReturned(o)
    <2>1. \A p \in Ops : \/ p # o /\ op'[p] = op[p]
                         \/ op'[p].pc = "free"
                         \/ /\ op'[p].pc \in {"refreshing", "joinDone"}
                            /\ op'[p].sess = op[p].sess
                            /\ op[p].pc \in {"joined", "registered"}
                            /\ p # o => op[p].pc = "joined"
      BY <1>12 DEF SlotReturned, TypeOK, OpRecord, FreeOp, SharedWith
    <2>2. op'[o].pc # "registered" /\ reserved' = reserved \ {o} /\ live' = live
      BY <1>12, <2>1 DEF SlotReturned
    <2>3. SlotsHeld'
      BY <2>1, <2>2 DEF SlotsHeld
    <2>4. \A p \in reserved' : op[p].pc = "registered" => op'[p].pc = "registered"
      <3> SUFFICES ASSUME NEW p \in Ops, p # o, op[p].pc = "registered"
                   PROVE  op'[p].pc = "registered"
        BY <2>2 DEF TypeOK
      <3>1. p \notin SharedWith(o)
        BY DEF SharedWith
      <3> QED BY <1>12, <3>1 DEF SlotReturned
    <2> QED BY <2>2, <2>3, <2>4 DEF Quiet
  <1>13. ASSUME ForkSnapshot(o) \/ SnapshotTaken(o) \/ SnapshotMissing(o) \/ SnapshotFailed(o)
         PROVE  Quiet
    <2>1. op[o].pc \in {"snapshot", "checking", "missing"} /\ UNCHANGED <<live, reserved>>
      BY <1>13 DEF ForkSnapshot, SnapshotTaken, SnapshotMissing, SnapshotFailed
    <2>2. ASSUME NEW pc \in {"checking", "missing", "refreshing", "retracting", "failing"}, Goto(o, pc)
          PROVE  Quiet
      BY <2>1, <2>2, GotoEffect DEF Quiet, SlotsHeld, TypeOK
    <2> QED BY <1>13, <2>2 DEF ForkSnapshot, SnapshotTaken, SnapshotMissing, SnapshotFailed, Retract
  <1>24. ASSUME NEW b \in BOOLEAN, Superseded(o, b)
         PROVE  Quiet
    <2>1. op[o].pc = "superseded" /\ op[o].kind # "job" /\ UNCHANGED live
      BY <1>24 DEF Superseded
    <2>2. CASE Goto(o, "registered") /\ UNCHANGED reserved
      BY <2>1, <2>2, GotoEffect DEF Quiet, SlotsHeld, TypeOK
    <2>3. CASE Fail(o)
      BY <2>1, <2>3, FailQuiet
    <2> QED BY <1>24, <2>2, <2>3 DEF Superseded
  <1>14. CASE Refreshed(o)
    BY <1>14, ReturnEffect DEF Refreshed, Release, Quiet, SlotsHeld, TypeOK
  <1>15. CASE Failed(o)
    BY <1>15, RejectEffect DEF Failed, Release, Quiet, SlotsHeld, TypeOK
  <1>16. ASSUME NEW b \in BOOLEAN, JobLeased(o, b)
         PROVE  Quiet
    <2>1. CASE Goto(o, "building") /\ UNCHANGED reserved
      BY <1>16, <2>1, GotoEffect DEF JobLeased, Quiet, SlotsHeld, TypeOK
    <2>2. CASE Return(o) /\ reserved' = reserved \ {o}
      BY <1>16, <2>2, ReturnEffect DEF JobLeased, Quiet, SlotsHeld, TypeOK
    <2> QED BY <1>16, <2>1, <2>2 DEF JobLeased
  <1>17. ASSUME NEW b \in BOOLEAN, JobPromptSettled(o, b)
         PROVE  Quiet
    <2>1. CASE Goto(o, "postHook")
      <3>1. op[o].pc = "prompting" /\ UNCHANGED <<live, reserved>>
        BY <1>17 DEF JobPromptSettled
      <3> QED BY <2>1, <3>1, GotoEffect DEF Quiet, SlotsHeld, TypeOK
    <2>2. CASE JobRelease(o)
      BY <1>17, <2>2, JobReleaseQuiet DEF JobPromptSettled
    <2> QED BY <1>17, <2>1, <2>2 DEF JobPromptSettled
  <1>18. CASE JobTitles(o)
    <2>1. CASE Goto(o, "titling")
      <3>1. op[o].pc = "registered" /\ op[o].kind = "job" /\ UNCHANGED <<live, reserved>>
        BY <1>18 DEF JobTitles
      <3> QED BY <2>1, <3>1, GotoEffect DEF Quiet, SlotsHeld, TypeOK
    <2>2. CASE JobRelease(o)
      BY <1>18, <2>2, JobReleaseQuiet DEF JobTitles
    <2> QED BY <1>18, <2>1, <2>2 DEF JobTitles
  <1>19. ASSUME NEW b \in BOOLEAN, JobPrompts(o, b)
         PROVE  Quiet
    <2>1. CASE Goto(o, "prompting")
      <3>1. op[o].pc = "titling" /\ UNCHANGED <<live, reserved>>
        BY <1>19 DEF JobPrompts
      <3> QED BY <2>1, <3>1, GotoEffect DEF Quiet, SlotsHeld, TypeOK
    <2>2. CASE JobRelease(o)
      BY <1>19, <2>2, JobReleaseQuiet DEF JobPrompts
    <2> QED BY <1>19, <2>1, <2>2 DEF JobPrompts
  <1>20. CASE JobPostHookSettled(o)
    BY <1>20, JobReleaseQuiet DEF JobPostHookSettled
  <1> QED BY <1>1, <1>2, <1>4, <1>5, <1>6, <1>7, <1>8, <1>9, <1>10, <1>12,
             <1>13, <1>14, <1>15, <1>16, <1>17, <1>18, <1>19, <1>20, <1>24 DEF Continue
(* Steps that leave pc, kind and session of every call alone are quiet.    *)
LEMMA UntouchedQuiet ==
  ASSUME TypeOK, SlotsHeld, live' = live, reserved' = reserved,
         \A p \in Ops : /\ op'[p].pc = op[p].pc
                        /\ op'[p].kind = op[p].kind
                        /\ op'[p].sess = op[p].sess
  PROVE  Quiet
  BY DEF Quiet, SlotsHeld, TypeOK

(* Neither clients, Pi, disposals nor shutdown take a slot.                *)
LEMMA OtherQuiet ==
  ASSUME TypeOK, SlotsHeld,
         \/ \E s \in Sessions : Settle(s) \/ Run(s) \/ Client(s) \/ AbortSettled(s) \/ RuntimeFailure(s)
         \/ BeginShutdown \/ DisposeAll \/ Terminated \/ UNCHANGED vars
  PROVE  Quiet
  <1>1. ASSUME NEW s \in Sessions, NEW ok \in BOOLEAN, DisposeSettled(s, ok)
        PROVE  Quiet
    <2>1. \A p \in Ops : \/ op'[p] = op[p]
                         \/ op'[p].pc = "free" /\ op[p].pc \in {"waitClose", "releasing"}
                         \/ /\ op'[p].pc \in {"evicted", "evictFailed", "reopen", "failing"}
                            /\ op'[p].sess = op[p].sess
                            /\ op[p].pc \in {"evicting", "waitClose", "retracting"}
      BY <1>1 DEF DisposeSettled, TypeOK, OpRecord, FreeOp
    <2>2. live' \subseteq live /\ reserved' = reserved
      BY <1>1 DEF DisposeSettled
    <2> QED BY <2>1, <2>2 DEF Quiet, SlotsHeld, TypeOK
  <1>2. ASSUME NEW s \in Sessions, Run(s)
        PROVE  Quiet
    BY <1>2, UntouchedQuiet DEF Run, PiStart, PiReject, AgentEnd, PiSettle, PiEvent
  <1>3. ASSUME NEW s \in Sessions, Prompt(s) \/ Close(s) \/ AbortSettled(s) \/ RuntimeFailure(s)
        PROVE  Quiet
    BY <1>3, UntouchedQuiet DEF Prompt, Close, AbortSettled, RuntimeFailure
  <1>4. ASSUME NEW s \in Sessions, Abort(s)
        PROVE  Quiet
    <2>1. \A p \in Ops : /\ op'[p].pc = op[p].pc
                         /\ op'[p].kind = op[p].kind
                         /\ op'[p].sess = op[p].sess
      BY <1>4 DEF Abort, TypeOK, OpRecord
    <2> QED BY <1>4, <2>1, UntouchedQuiet DEF Abort
  <1>5. CASE BeginShutdown
    <2>1. \A p \in Ops : /\ op'[p].pc = op[p].pc
                         /\ op'[p].kind = op[p].kind
                         /\ op'[p].sess = op[p].sess
      BY <1>5 DEF BeginShutdown, TypeOK, OpRecord
    <2> QED BY <1>5, <2>1, UntouchedQuiet DEF BeginShutdown
  <1>6. CASE DisposeAll
    BY <1>6, UntouchedQuiet DEF DisposeAll
  <1>7. CASE Terminated \/ UNCHANGED vars
    BY <1>7, UntouchedQuiet DEF Terminated, vars
  <1> QED BY <1>1, <1>2, <1>3, <1>4, <1>5, <1>6, <1>7 DEF Settle, Client
-----------------------------------------------------------------------------
(* Counting.                                                               *)

(* The sets that are counted are finite.                                   *)
LEMMA FiniteCounts ==
  ASSUME TypeOK
  PROVE  /\ IsFiniteSet(live) /\ Cardinality(live) \in Nat
         /\ IsFiniteSet(reserved) /\ Cardinality(reserved) \in Nat
         /\ IsFiniteSet(Unregistered) /\ Cardinality(Unregistered) \in Nat
         /\ Unregistered \subseteq reserved
         /\ Cardinality(Unregistered) <= Cardinality(reserved)
  <1>1. Unregistered \subseteq reserved
    BY DEF Unregistered
  <1>2. live \subseteq Sessions /\ reserved \subseteq Ops
    BY DEF TypeOK
  <1>3. IsFiniteSet(live) /\ IsFiniteSet(reserved)
    BY <1>2, FiniteAssumption, FS_Subset
  <1>4. IsFiniteSet(Unregistered) /\ Cardinality(Unregistered) <= Cardinality(reserved)
    BY <1>1, <1>3, FS_Subset
  <1> QED BY <1>1, <1>3, <1>4, FS_CardinalityType

(* A quiet step keeps the bound.                                           *)
LEMMA QuietBounded ==
  ASSUME TypeOK, TypeOK', SlotsBounded, Quiet
  PROVE  SlotsBounded'
  <1>1. Unregistered' \subseteq Unregistered
    BY DEF Unregistered, Quiet
  <1>2. live' \subseteq live
    BY DEF Quiet
  <1>3. IsFiniteSet(live) /\ IsFiniteSet(Unregistered)
    BY FiniteCounts
  <1>4. /\ IsFiniteSet(live') /\ Cardinality(live') <= Cardinality(live)
        /\ IsFiniteSet(Unregistered') /\ Cardinality(Unregistered') <= Cardinality(Unregistered)
    BY <1>1, <1>2, <1>3, FS_Subset
  <1>5. Cardinality(live') \in Nat /\ Cardinality(Unregistered') \in Nat
    BY <1>4, FS_CardinalityType
  <1> QED BY <1>4, <1>5, FiniteCounts, MaxLiveAssumption DEF SlotsBounded

(* The slot taken is one of the free ones: the test and the increment are  *)
(* one step, and the test counts every reservation.                        *)
LEMMA ReserveSlotBounded ==
  ASSUME TypeOK, SlotsHeld, SlotsBounded, NEW o \in Ops, ReserveSlot(o)
  PROVE  SlotsHeld' /\ SlotsBounded'
  <1> DEFINE pc == CASE op[o].kind = "job" -> "leased"
                     [] op[o].kind = "fork" -> "granted"
                     [] OTHER -> "building"
  <1>1. /\ op' = [op EXCEPT ![o].victim = NoSession, ![o].pc = pc]
        /\ reserved' = reserved \cup {o} /\ live' = live
        /\ ~Full
        /\ op[o].pc \in {"queued", "evicted"}
    BY DEF ReserveSlot, AdmittedToLoop
  <1>2. pc \in {"leased", "granted", "building"}
    OBVIOUS
  <1> HIDE DEF pc
  <1>3. \A p \in Ops : /\ op'[p].pc = IF p = o THEN pc ELSE op[p].pc
                       /\ op'[p].kind = op[p].kind
                       /\ op'[p].sess = op[p].sess
    BY <1>1 DEF TypeOK, OpRecord
  <1>4. SlotsHeld'
    BY <1>1, <1>2, <1>3 DEF SlotsHeld
  <1>5. Unregistered' \subseteq reserved \cup {o}
    BY <1>1 DEF Unregistered
  <1>6. IsFiniteSet(reserved \cup {o}) /\ Cardinality(reserved \cup {o}) <= Cardinality(reserved) + 1
    <2>1. CASE o \in reserved
      <3>1. reserved \cup {o} = reserved
        BY <2>1
      <3>2. Cardinality(reserved) \in Nat /\ IsFiniteSet(reserved)
        BY FiniteCounts
      <3>3. IsFiniteSet(reserved) /\ Cardinality(reserved) <= Cardinality(reserved) + 1
        BY <3>2, SMT
      <3> QED BY <3>1, <3>3, Zenon
    <2>2. CASE o \notin reserved
      <3>1. IsFiniteSet(reserved) /\ Cardinality(reserved) \in Nat
        BY FiniteCounts
      <3>2. /\ IsFiniteSet(reserved \cup {o})
            /\ Cardinality(reserved \cup {o}) = Cardinality(reserved) + 1
        BY <2>2, <3>1, FS_AddElement
      <3> QED BY <3>1, <3>2
    <2> QED BY <2>1, <2>2
  <1>7. Cardinality(Unregistered') <= Cardinality(reserved \cup {o}) /\ IsFiniteSet(Unregistered')
    BY <1>5, <1>6, FS_Subset
  <1>8. Cardinality(Unregistered') \in Nat /\ Cardinality(reserved \cup {o}) \in Nat
    BY <1>6, <1>7, FS_CardinalityType
  <1>9. Cardinality(live) + Cardinality(reserved) < MaxLive
    BY <1>1, FiniteCounts, MaxLiveAssumption DEF Full
  <1> QED BY <1>1, <1>4, <1>6, <1>7, <1>8, <1>9, FiniteCounts, MaxLiveAssumption DEF SlotsBounded

(* Registration turns the caller's slot into a record.                     *)
LEMMA RegisterBounded ==
  ASSUME TypeOK, TypeOK', SlotsHeld, SlotsBounded, NEW o \in Ops, Register(o)
  PROVE  SlotsHeld' /\ SlotsBounded'
  <1> DEFINE s == op[o].sess
  <1>a. op[o].pc = "registering" /\ o \in reserved /\ s \in Sessions
    BY DEF Register, SlotsHeld
  <1>1. CASE Fail(o) /\ UNCHANGED live
    <2>1. Quiet
      BY <1>1, <1>a, FailQuiet
    <2> QED BY <2>1, QuietBounded DEF Quiet
  <1>2. CASE Goto(o, "superseded") /\ UNCHANGED <<live, reserved>>
    <2>1. Quiet
      BY <1>2, <1>a, GotoEffect DEF Quiet, SlotsHeld, TypeOK
    <2> QED BY <2>1, QuietBounded DEF Quiet
  <1>3. CASE Accepting /\ s \notin live
    <2>1. /\ live' = live \cup {s}
          /\ reserved' = IF op[o].kind \in {"fork", "job"} THEN reserved \ {o} ELSE reserved
          /\ \/ Goto(o, "snapshot") /\ op[o].kind = "fork"
             \/ Goto(o, "registered") /\ op[o].kind # "fork"
      BY <1>3 DEF Register
    <2>2. \A p \in Ops : /\ op'[p].pc = IF p = o THEN (IF op[o].kind = "fork" THEN "snapshot" ELSE "registered")
                                        ELSE op[p].pc
                         /\ op'[p].kind = op[p].kind
                         /\ op'[p].sess = op[p].sess
      BY <2>1, GotoEffect
    <2>3. SlotsHeld'
      BY <1>a, <2>1, <2>2 DEF SlotsHeld
    <2>4. Unregistered' = Unregistered \ {o}
      <3>1. \A p \in Ops : p \in Unregistered' <=> p \in Unregistered /\ p # o
        BY <2>1, <2>2 DEF Unregistered
      <3> QED BY <3>1 DEF Unregistered, TypeOK
    <2>5. o \in Unregistered
      BY <1>a DEF Unregistered
    <2>6. Cardinality(Unregistered') = Cardinality(Unregistered) - 1
      BY <2>4, <2>5, FiniteCounts, FS_RemoveElement
    <2>7. Cardinality(live') = Cardinality(live) + 1
      BY <1>3, <2>1, FiniteCounts, FS_AddElement
    <2> QED BY <2>3, <2>6, <2>7, FiniteCounts, MaxLiveAssumption DEF SlotsBounded
  <1> QED BY <1>1, <1>2, <1>3 DEF Register
-----------------------------------------------------------------------------
Inv == TypeOK /\ SlotsHeld /\ SlotsBounded

(* The registry starts empty.                                              *)
THEOREM InitInv == Init => Inv
  <1> SUFFICES ASSUME Init PROVE Inv
    OBVIOUS
  <1>1. TypeOK
    <2>1. NoRec \in RecRecord
      BY NewRecType DEF NoRec, Kinds
    <2> QED BY <2>1, FreeOpType DEF Init, TypeOK
  <1>2. SlotsHeld
    BY DEF Init, SlotsHeld, FreeOp
  <1>3. SlotsBounded
    BY FS_EmptySet, MaxLiveAssumption DEF Init, SlotsBounded, Unregistered
  <1> QED BY <1>1, <1>2, <1>3 DEF Inv

(* Every step of every handler preserves the inductive invariant.          *)
THEOREM StepInv == Inv /\ [Next]_vars => Inv'
  <1> SUFFICES ASSUME Inv, [Next]_vars PROVE Inv'
    OBVIOUS
  <1> USE DEF Inv
  <1>1. ASSUME NEW o \in Ops, Request(o)
        PROVE  Inv'
    BY <1>1, RequestType, RequestQuiet, QuietBounded DEF Quiet
  <1>2. ASSUME NEW o \in Ops, Continue(o)
        PROVE  Inv'
    <2>1. TypeOK'
      BY <1>2, ContinueType
    <2>2. CASE ReserveSlot(o)
      BY <2>1, <2>2, ReserveSlotBounded
    <2>3. CASE Register(o)
      BY <2>1, <2>3, RegisterBounded
    <2>4. CASE ~ReserveSlot(o) /\ ~Register(o)
      BY <1>2, <2>1, <2>4, ContinueQuiet, QuietBounded DEF Quiet
    <2> QED BY <2>2, <2>3, <2>4
  <1>3. ASSUME NEW s \in Sessions,
               Settle(s) \/ Run(s) \/ Client(s) \/ AbortSettled(s) \/ RuntimeFailure(s)
        PROVE  Inv'
    BY <1>3, SessionStepType, OtherQuiet, QuietBounded DEF Quiet
  <1>4. CASE BeginShutdown \/ DisposeAll \/ Terminated
    BY <1>4, ShutdownType, OtherQuiet, QuietBounded DEF Quiet
  <1>5. CASE UNCHANGED vars
    <2>1. TypeOK'
      BY <1>5 DEF vars, TypeOK
    <2> QED BY <1>5, <2>1, OtherQuiet, QuietBounded DEF Quiet
  <1> QED BY <1>1, <1>2, <1>3, <1>4, <1>5 DEF Next

(* The inductive invariant holds in every reachable state.                 *)
THEOREM Invariance == Spec => []Inv
  BY InitInv, StepInv, PTL DEF Spec

(* The registry's indexes, records and calls keep their types for any      *)
(* number of calls, sessions and slots.                                    *)
THEOREM TypeCorrect == Spec => []TypeOK
  <1>1. Inv => TypeOK
    BY DEF Inv
  <1> QED BY <1>1, Invariance, PTL

(* maxLiveConversations bounds the runtimes that are registered or being   *)
(* constructed, for any number of concurrent calls.                        *)
THEOREM CapacityRespected == Spec => []RuntimesBounded
  <1>1. Inv => RuntimesBounded
    <2> SUFFICES ASSUME Inv PROVE RuntimesBounded
      OBVIOUS
    <2> USE DEF Inv
    <2>1. Constructing \subseteq Unregistered
      BY DEF Constructing, Unregistered, SlotsHeld
    <2>2. IsFiniteSet(Constructing) /\ Cardinality(Constructing) <= Cardinality(Unregistered)
      BY <2>1, FiniteCounts, FS_Subset
    <2>3. Cardinality(Constructing) \in Nat
      BY <2>2, FS_CardinalityType
    <2> QED BY <2>2, <2>3, FiniteCounts, MaxLiveAssumption DEF RuntimesBounded, SlotsBounded
  <1> QED BY <1>1, Invariance, PTL

-----------------------------------------------------------------------------
(***************************************************************************)
(* Who owns what: slots, fork sources and temporary runtimes are given     *)
(* back, no wakeup is lost, and a session file has one writer.             *)
(***************************************************************************)

LockPCs == {"queued", "evicting", "evicted", "evictFailed"}

SlotPCs == {"granted", "leased", "building", "forking", "registering", "superseded", "registered",
            "failing", "stranded"}

NewPCs == LockPCs \cup {"leased", "building", "registering"}

(* Which calls can be suspended where.                                     *)
KindAllowed(kind, pc) ==
    /\ pc \in {"granted", "forking", "snapshot", "checking", "missing", "retracting", "stranded"} => kind = "fork"
    /\ pc = "superseded" => kind \in {"create", "open"}
    /\ pc \in {"leased", "titling", "prompting", "postHook", "releasing"} => kind = "job"
    /\ pc \in {"waitClose", "reopen", "joined", "joinDone"} => kind = "open"
    /\ pc = "registered" => kind # "fork"
    /\ pc = "refreshing" => kind \in {"open", "fork"}

KindsOfPCs == \A o \in Ops : KindAllowed(op[o].kind, op[o].pc)

(* A slot, a hold on a fork source and a temporary runtime belong to a     *)
(* call that is still going to give them back.                             *)
SlotsOwned ==
    \A o \in reserved :
        /\ op[o].pc \in SlotPCs
        /\ op[o].pc = "failing" => op[o].kind # "job"

SourcesHeld ==
    /\ \A o \in Ops : op[o].kind = "fork" /\ op[o].pc # "free" => o \in forkHold
    /\ \A o \in forkHold : op[o].kind = "fork" /\ op[o].pc # "free"

TemporariesOwned ==
    \A o \in temporary : op[o].kind = "fork" /\ op[o].pc \in {"forking", "registering", "failing"}

(* A fork's source is no job's.                                            *)
SourcesSafe ==
    \A o \in forkHold : op[o].src \in live => rec[op[o].src].owner = NoOp

Holdings ==
    /\ KindsOfPCs /\ SlotsOwned /\ SourcesHeld /\ TemporariesOwned /\ SourcesSafe
    /\ NoneOutlivesDispose

(* The calls that #pendingOpens can name, for one session at most one.     *)
Opener(o) == /\ op[o].kind = "open"
             /\ op[o].pc \in LockPCs \cup {"building", "registering", "superseded", "registered", "refreshing",
                                      "failing"}

OneOpener ==
    \A o, p \in Ops : Opener(o) /\ Opener(p) /\ op[o].sess = op[p].sess => o = p

QueueDistinct == \A i, k \in DOMAIN queue : queue[i] = queue[k] => i = k

Waiting == OneOpener /\ QueueDistinct /\ WaitersServed

(* The session a create or job is about to register is known to no one     *)
(* else, and has no file.                                                  *)
NewUnknown ==
    \A o \in Ops :
        op[o].kind \in {"create", "job"} /\ op[o].pc \in NewPCs =>
            /\ op[o].sess \notin disk \cup live
            /\ \A p \in Ops \ {o} : op[p].sess # op[o].sess /\ op[p].src # op[o].sess

(* Until an open has registered, only a fork can have registered before it.*)
OpenAlone ==
    \A o \in Ops : Opener(o) /\ op[o].pc \notin {"registered", "refreshing"} /\ op[o].sess \in live =>
        rec[op[o].sess].source = "fork"

Writers == NewUnknown /\ OpenAlone

OwnershipInv == TypeOK /\ SlotsHeld /\ Holdings /\ Waiting /\ Writers
-----------------------------------------------------------------------------
(* How calls move.                                                         *)

(* A call that moves to its next await changes only its own pc.            *)
LEMMA GotoFields ==
  ASSUME TypeOK, NEW o \in Ops, NEW pc, Goto(o, pc)
  PROVE  /\ \A p \in Ops \ {o} : op'[p] = op[p]
         /\ op'[o].pc = pc /\ op'[o].kind = op[o].kind /\ op'[o].sess = op[o].sess
         /\ op'[o].src = op[o].src /\ op'[o].victim = op[o].victim
  BY DEF TypeOK, Goto, OpRecord

(* A call that has returned has forgotten its kind and its session.        *)
LEMMA FreeFields ==
  FreeOp.pc = "free" /\ FreeOp.kind = "create" /\ FreeOp.sess = NoSession /\ FreeOp.src = NoSession
  BY DEF FreeOp

(* The head of a queue without duplicates leaves it for good.              *)
LEMMA TailDistinct ==
  ASSUME NEW S, NEW q \in Seq(S), q # <<>>, \A i, k \in DOMAIN q : q[i] = q[k] => i = k
  PROVE  /\ \A i, k \in DOMAIN Tail(q) : Tail(q)[i] = Tail(q)[k] => i = k
         /\ \A x \in S : (\E i \in DOMAIN Tail(q) : Tail(q)[i] = x) <=> (\E i \in DOMAIN q : q[i] = x) /\ x # Head(q)
  <1>1. /\ \A k \in DOMAIN Tail(q) : k + 1 \in DOMAIN q /\ Tail(q)[k] = q[k + 1] /\ k \in Nat \ {0}
        /\ \A k \in DOMAIN q : k = 1 \/ (k - 1 \in DOMAIN Tail(q) /\ Tail(q)[k - 1] = q[k])
        /\ 1 \in DOMAIN q /\ q[1] = Head(q)
    OBVIOUS
  <1>2. \A i, k \in DOMAIN Tail(q) : Tail(q)[i] = Tail(q)[k] => i = k
    BY <1>1
  <1>3. \A i \in DOMAIN Tail(q) : Tail(q)[i] # Head(q)
    BY <1>1
  <1> QED BY <1>1, <1>2, <1>3

(* The capacity lock passes on: its holder leaves the queue, no one else.  *)
LEMMA LockPasses ==
  ASSUME TypeOK, QueueDistinct, NEW o \in Ops, HoldsLock(o), queue' = Tail(queue)
  PROVE  /\ QueueDistinct'
         /\ \A p \in Ops : (\E i \in DOMAIN queue' : queue'[i] = p)
                            <=> (\E i \in DOMAIN queue : queue[i] = p) /\ p # o
  <1>1. queue \in Seq(Ops) /\ queue # <<>> /\ Head(queue) = o
    BY DEF HoldsLock, TypeOK
  <1>2. \A i, k \in DOMAIN queue : queue[i] = queue[k] => i = k
    BY DEF QueueDistinct
  <1>3. /\ \A i, k \in DOMAIN Tail(queue) : Tail(queue)[i] = Tail(queue)[k] => i = k
        /\ \A x \in Ops : (\E i \in DOMAIN Tail(queue) : Tail(queue)[i] = x)
                           <=> (\E i \in DOMAIN queue : queue[i] = x) /\ x # Head(queue)
    BY <1>1, <1>2, TailDistinct
  <1> QED BY <1>1, <1>3 DEF QueueDistinct

(* A call joins the queue at its end.                                      *)
LEMMA LockAwaited ==
  ASSUME TypeOK, QueueDistinct, NEW o \in Ops, \A i \in DOMAIN queue : queue[i] # o, queue' = Append(queue, o)
  PROVE  /\ QueueDistinct'
         /\ \A p \in Ops : (\E i \in DOMAIN queue' : queue'[i] = p)
                            <=> (\E i \in DOMAIN queue : queue[i] = p) \/ p = o
         /\ \A p \in Ops : HoldsLock(p) => HoldsLock(p)'
  <1>1. /\ queue' \in Seq(Ops) /\ queue' # <<>> /\ Len(queue) \in Nat
        /\ DOMAIN queue' = DOMAIN queue \cup {Len(queue) + 1}
        /\ \A k \in DOMAIN queue : queue'[k] = queue[k] /\ k < Len(queue) + 1
        /\ queue'[Len(queue) + 1] = o
        /\ queue # <<>> => Head(queue') = Head(queue)
    BY DEF TypeOK
  <1>2. QueueDistinct'
    BY <1>1 DEF QueueDistinct
  <1>3. \A p \in Ops : (\E i \in DOMAIN queue' : queue'[i] = p)
                       <=> (\E i \in DOMAIN queue : queue[i] = p) \/ p = o
    BY <1>1
  <1> QED BY <1>1, <1>2, <1>3 DEF HoldsLock

(* What a step leaves of the records: none stops closing, and none changes *)
(* its owner or its source.                                                *)
RecordsKept ==
    /\ \A t \in live : rec[t].closing => t \in live' /\ rec'[t].closing
    /\ \A t \in live : rec'[t].owner = rec[t].owner /\ rec'[t].source = rec[t].source
    /\ shutdown = "disposed" => live' \subseteq live

(* A call goes on to its next await, outside the capacity lock.            *)
LEMMA GotoHolds ==
  ASSUME OwnershipInv, NEW o \in Ops, NEW pc, Goto(o, pc),
         pc # "free", KindAllowed(op[o].kind, pc), op[o].pc # "free",
         UNCHANGED <<forkHold, shutdown>>, RecordsKept,
         \A p \in forkHold : op[p].src \in live' \ live => rec'[op[p].src].owner = NoOp,
         reserved' \subseteq reserved,
         o \in reserved' =>
             pc \in SlotPCs /\ (pc = "failing" => op[o].kind # "job"),
         temporary' \subseteq temporary \cup {o},
         o \in temporary' => op[o].kind = "fork" /\ pc \in {"forking", "registering", "failing"}
  PROVE  Holdings'
  <1> USE DEF OwnershipInv, Holdings
  <1>1. /\ \A p \in Ops \ {o} : op'[p] = op[p]
        /\ op'[o].pc = pc /\ op'[o].kind = op[o].kind /\ op'[o].sess = op[o].sess /\ op'[o].src = op[o].src
    BY GotoFields
  <1>0. reserved \subseteq Ops /\ forkHold \subseteq Ops /\ temporary \subseteq Ops
    BY DEF TypeOK
  <1>2. KindsOfPCs'
    BY <1>1 DEF KindsOfPCs
  <1>3. SlotsOwned'
    BY <1>0, <1>1 DEF SlotsOwned
  <1>4. SourcesHeld'
    BY <1>0, <1>1 DEF SourcesHeld
  <1>5. TemporariesOwned'
    BY <1>0, <1>1 DEF TemporariesOwned
  <1>6. SourcesSafe'
    BY <1>0, <1>1 DEF SourcesSafe, RecordsKept
  <1>7. NoneOutlivesDispose'
    BY DEF NoneOutlivesDispose, RecordsKept
  <1> QED BY <1>2, <1>3, <1>4, <1>5, <1>6, <1>7

(* A call that moves outside the capacity lock leaves every waiter served. *)
LEMMA GotoWaits ==
  ASSUME OwnershipInv, NEW o \in Ops, NEW pc, Goto(o, pc),
         op[o].pc \notin LockPCs, pc \notin LockPCs \cup {"joined", "waitClose"},
         UNCHANGED queue, RecordsKept,
         op[o].kind = "open" => /\ op[o].pc \in {"building", "registering", "superseded"}
                                /\ pc \in {"registering", "superseded", "registered", "failing"},
         pc \in {"releasing", "retracting"} => op[o].sess \in live' /\ rec'[op[o].sess].closing
  PROVE  Waiting'
  <1> USE DEF OwnershipInv, Waiting
  <1>1. /\ \A p \in Ops \ {o} : op'[p] = op[p]
        /\ op'[o].pc = pc /\ op'[o].kind = op[o].kind /\ op'[o].sess = op[o].sess /\ op'[o].src = op[o].src
    BY GotoFields
  <1>2. OneOpener'
    BY <1>1 DEF OneOpener, Opener
  <1>3. QueueDistinct'
    BY DEF QueueDistinct
  <1>4. WaitersServed'
    <2> SUFFICES ASSUME NEW q \in Ops
                 PROVE  /\ op'[q].pc = "joined" => (PendingOpen(op[q].sess) /\ ~OpenSettled(op[q].sess))'
                        /\ op'[q].pc \in {"waitClose", "releasing", "retracting"} =>
                               op'[q].sess \in live' /\ rec'[op'[q].sess].closing
                        /\ op'[q].pc = "evicting" => op'[q].victim \in live' /\ rec'[op'[q].victim].closing
                        /\ op'[q].pc \in LockPCs <=> \E i \in DOMAIN queue' : queue'[i] = q
                        /\ op'[q].pc \in {"evicting", "evicted", "evictFailed"} => HoldsLock(q)'
      BY DEF WaitersServed, LockPCs
    <2>1. op'[q].pc = "joined" => (PendingOpen(op[q].sess) /\ ~OpenSettled(op[q].sess))'
      BY <1>1 DEF WaitersServed, PendingOpen, OpenSettled, LockPCs
    <2>2. op'[q].pc \in {"waitClose", "releasing", "retracting"} => op'[q].sess \in live' /\ rec'[op'[q].sess].closing
      BY <1>1 DEF WaitersServed, RecordsKept
    <2>3. op'[q].pc = "evicting" => op'[q].victim \in live' /\ rec'[op'[q].victim].closing
      BY <1>1 DEF WaitersServed, RecordsKept, LockPCs
    <2>4. op'[q].pc \in LockPCs <=> \E i \in DOMAIN queue' : queue'[i] = q
      BY <1>1 DEF WaitersServed, LockPCs
    <2>5. op'[q].pc \in {"evicting", "evicted", "evictFailed"} => HoldsLock(q)'
      BY <1>1 DEF WaitersServed, HoldsLock, LockPCs
    <2> QED BY <2>1, <2>2, <2>3, <2>4, <2>5
  <1> QED BY <1>2, <1>3, <1>4

(* A call that moves without taking over a session leaves one writer per   *)
(* file.                                                                   *)
LEMMA GotoWrites ==
  ASSUME OwnershipInv, NEW o \in Ops, NEW pc, Goto(o, pc),
         op[o].pc # "free", RecordsKept,
         disk' \subseteq disk \cup {op[o].sess}, live' \subseteq live \cup {op[o].sess},
         op[o].kind \in {"create", "job"} /\ pc \in NewPCs =>
             op[o].pc \in NewPCs /\ op[o].sess \notin disk' \cup live',
         op[o].kind = "open" => /\ op[o].pc \in {"building", "registering", "superseded"}
                                /\ pc \in {"registering", "superseded", "registered", "failing"},
         op[o].sess \in live' \ live => /\ op[o].pc = "registering" /\ pc \in {"registered", "snapshot"}
                                        /\ rec'[op[o].sess].source = op[o].kind
  PROVE  Writers'
  <1> USE DEF OwnershipInv, Writers
  <1>1. /\ \A p \in Ops \ {o} : op'[p] = op[p]
        /\ op'[o].pc = pc /\ op'[o].kind = op[o].kind /\ op'[o].sess = op[o].sess /\ op'[o].src = op[o].src
    BY GotoFields
  <1>2. NewUnknown'
    BY <1>1 DEF NewUnknown
  <1>3. OpenAlone'
    <2> SUFFICES ASSUME NEW q \in Ops, Opener(q)', op'[q].pc \notin {"registered", "refreshing"},
                        op'[q].sess \in live'
                 PROVE  rec'[op'[q].sess].source = "fork"
      BY DEF OpenAlone
    <2>1. Opener(q) /\ op[q].pc \notin {"registered", "refreshing"} /\ op'[q].sess = op[q].sess
      BY <1>1 DEF Opener
    <2>2. CASE op[q].sess \in live
      BY <2>1, <2>2 DEF OpenAlone, RecordsKept
    <2>3. CASE op[q].sess \notin live
      <3>1. op[o].sess = op[q].sess /\ op[o].pc = "registering" /\ q # o
            /\ rec'[op[o].sess].source = op[o].kind
        BY <1>1, <2>1, <2>3 DEF Opener
      <3>2. op[o].kind \notin {"create", "job"}
        BY <3>1 DEF NewUnknown, NewPCs
      <3>3. op[o].kind # "open"
        BY <2>1, <3>1 DEF Waiting, OneOpener, Opener
      <3>4. op[o].kind = "fork"
        BY <3>2, <3>3 DEF TypeOK, OpRecord, Kinds
      <3> QED BY <2>1, <3>1, <3>4
    <2> QED BY <2>2, <2>3
  <1> QED BY <1>2, <1>3

(* A call returns: it holds nothing any more, and no one waits for it.     *)
LEMMA ReturnKeeps ==
  ASSUME OwnershipInv, NEW o \in Ops, Return(o),
         op[o].pc \notin LockPCs, UNCHANGED <<live, disk, queue, temporary, shutdown>>, RecordsKept,
         reserved' \subseteq reserved, forkHold' \in {forkHold, forkHold \ {o}}, o \notin temporary,
         o \notin reserved' \cup forkHold',
         op[o].kind = "open" => op[o].pc \in {"free", "reopen", "joinDone", "refreshing"}
  PROVE  Holdings' /\ Waiting' /\ Writers'
  <1> USE DEF OwnershipInv
  <1>0. reserved \subseteq Ops /\ forkHold \subseteq Ops /\ temporary \subseteq Ops
    BY DEF TypeOK
  <1>1. /\ \A p \in Ops \ {o} : op'[p] = op[p]
        /\ op'[o].pc = "free" /\ op'[o].kind = "create" /\ op'[o].sess = NoSession /\ op'[o].src = NoSession
    BY FreeFields DEF Return, TypeOK
  <1>2. Holdings'
    <2> USE DEF Holdings
    <2>1. KindsOfPCs'
      BY <1>1 DEF KindsOfPCs, KindAllowed
    <2>2. SlotsOwned'
      BY <1>0, <1>1 DEF SlotsOwned
    <2>3. SourcesHeld'
      BY <1>0, <1>1 DEF SourcesHeld
    <2>4. TemporariesOwned'
      BY <1>0, <1>1 DEF TemporariesOwned
    <2>5. SourcesSafe'
      BY <1>0, <1>1 DEF SourcesSafe, RecordsKept
    <2>6. NoneOutlivesDispose'
      BY DEF NoneOutlivesDispose, RecordsKept
    <2> QED BY <2>1, <2>2, <2>3, <2>4, <2>5, <2>6
  <1>3. Waiting'
    <2> USE DEF Waiting
    <2>1. OneOpener' /\ QueueDistinct'
      BY <1>1 DEF OneOpener, Opener, QueueDistinct
    <2>2. WaitersServed'
      BY <1>1 DEF WaitersServed, PendingOpen, OpenSettled, HoldsLock, RecordsKept, LockPCs
    <2> QED BY <2>1, <2>2
  <1>4. Writers'
    <2> USE DEF Writers
    <2>1. \A p \in Ops : op[p].pc # "free" => op[p].sess # NoSession
      BY NullAssumption DEF SlotsHeld
    <2>2. NewUnknown'
      BY <1>1, <2>1 DEF NewUnknown, NewPCs, LockPCs
    <2>3. OpenAlone'
      BY <1>1 DEF OpenAlone, Opener, RecordsKept
    <2> QED BY <2>2, <2>3
  <1> QED BY <1>2, <1>3, <1>4

(* A call rejects, and with it the opens that share its promise.           *)
LEMMA RejectKeeps ==
  ASSUME OwnershipInv, NEW o \in Ops, Reject(o), UNCHANGED <<live, rec, shutdown>>, disk' \subseteq disk,
         \/ UNCHANGED queue /\ op[o].pc \notin LockPCs
         \/ HoldsLock(o) /\ queue' = Tail(queue),
         op[o].pc # "free", reserved' \subseteq reserved, forkHold' = forkHold \ {o}, temporary' \subseteq temporary,
         o \notin reserved', o \notin temporary'
  PROVE  Holdings' /\ Waiting' /\ Writers'
  <1> USE DEF OwnershipInv
  <1>0. reserved \subseteq Ops /\ forkHold \subseteq Ops /\ temporary \subseteq Ops
    BY DEF TypeOK
  <1> DEFINE Gone == {o} \cup SharedWith(o)
  <1>1. /\ \A p \in Ops \ Gone : op'[p] = op[p]
        /\ \A p \in Gone : /\ op'[p].pc = "free" /\ op'[p].kind = "create"
                           /\ op'[p].sess = NoSession /\ op'[p].src = NoSession
        /\ Gone \subseteq Ops
    BY FreeFields DEF Reject, TypeOK, SharedWith
  <1>2. \A p \in SharedWith(o) : op[p].pc = "joined" /\ op[p].kind = "open" /\ op[p].sess = op[o].sess
    BY DEF SharedWith, Holdings, KindsOfPCs, KindAllowed
  <1>3. \A p \in Ops : op[p].pc = "joined" /\ op[o].kind = "open" /\ op[p].sess = op[o].sess => p \in SharedWith(o)
    BY DEF SharedWith
  <1> HIDE DEF Gone
  <1>g. \A p \in Gone : p = o \/ p \in SharedWith(o)
    BY DEF Gone
  <1>h. o \in Gone /\ SharedWith(o) \subseteq Gone
    BY DEF Gone
  <1>4. Holdings'
    <2> USE DEF Holdings
    <2>1. KindsOfPCs'
      BY <1>1 DEF KindsOfPCs, KindAllowed
    <2>2. SlotsOwned'
      BY <1>0, <1>1, <1>2, <1>g DEF SlotsOwned, SlotPCs
    <2>3. SourcesHeld'
      BY <1>0, <1>1, <1>2, <1>g, <1>h DEF SourcesHeld
    <2>4. TemporariesOwned'
      BY <1>0, <1>1, <1>2, <1>g DEF TemporariesOwned
    <2>5. SourcesSafe'
      BY <1>0, <1>1, <1>2, <1>g DEF SourcesSafe, SourcesHeld
    <2>6. NoneOutlivesDispose'
      BY DEF NoneOutlivesDispose
    <2> QED BY <2>1, <2>2, <2>3, <2>4, <2>5, <2>6
  <1>5. Waiting'
    <2> USE DEF Waiting
    <2>1. OneOpener'
      BY <1>1 DEF OneOpener, Opener
    <2>q. CASE UNCHANGED queue /\ op[o].pc \notin LockPCs
      <3>1. QueueDistinct'
        BY <2>q DEF QueueDistinct
      <3>2. WaitersServed'
        BY <2>q, <1>1, <1>2, <1>3, <1>g, <1>h DEF WaitersServed, PendingOpen, OpenSettled, HoldsLock, LockPCs
      <3> QED BY <2>1, <3>1, <3>2
    <2>t. CASE HoldsLock(o) /\ queue' = Tail(queue)
      <3>1. QueueDistinct' /\ \A p \in Ops : (\E i \in DOMAIN queue' : queue'[i] = p)
                                        <=> (\E i \in DOMAIN queue : queue[i] = p) /\ p # o
        BY <2>t, LockPasses
      <3>2. \A p \in Ops : op[p].pc \in {"evicting", "evicted", "evictFailed"} => p = o
        BY <2>t DEF WaitersServed, HoldsLock
      <3>3. WaitersServed'
        <4> SUFFICES ASSUME NEW q \in Ops \ Gone
                     PROVE  /\ op[q].pc = "joined" => (PendingOpen(op[q].sess) /\ ~OpenSettled(op[q].sess))'
                            /\ op[q].pc \in {"waitClose", "releasing", "retracting"} => op[q].sess \in live /\ rec[op[q].sess].closing
                            /\ op[q].pc # "evicting"
                            /\ op[q].pc \in LockPCs <=> \E i \in DOMAIN queue' : queue'[i] = q
                            /\ op[q].pc \notin {"evicting", "evicted", "evictFailed"}
          BY <1>1, <1>2, <1>g, <3>1 DEF WaitersServed, LockPCs
        <4>1. op[q].pc = "joined" => (PendingOpen(op[q].sess) /\ ~OpenSettled(op[q].sess))'
          BY <1>1, <1>2, <1>3, <1>g, <1>h DEF WaitersServed, PendingOpen, OpenSettled
        <4> QED BY <1>h, <3>1, <3>2, <4>1 DEF WaitersServed, LockPCs
      <3> QED BY <2>1, <3>1, <3>3
    <2> QED BY <2>q, <2>t
  <1>6. Writers'
    <2> USE DEF Writers
    <2>1. \A p \in Ops : op[p].pc # "free" => op[p].sess # NoSession
      BY NullAssumption DEF SlotsHeld
    <2>2. NewUnknown'
      BY <1>1, <2>1 DEF NewUnknown, NewPCs, LockPCs
    <2>3. OpenAlone'
      BY <1>1 DEF OpenAlone, Opener
    <2> QED BY <2>2, <2>3
  <1> QED BY <1>4, <1>5, <1>6

(* A new call waits for the capacity lock.  Its session is new, or no one  *)
(* has it open or is opening it; the source of a fork is open and idle.    *)
LEMMA StartKeeps ==
  ASSUME OwnershipInv, NEW o \in Ops, NEW kind \in Kinds, NEW s \in Sessions, NEW src, Start(o, kind, s, src),
         op[o].pc \in {"free", "reopen"}, shutdown = "no",
         queue' = Append(queue, o), UNCHANGED <<live, rec, disk, reserved, temporary, shutdown>>,
         forkHold' = IF kind = "fork" THEN forkHold \cup {o} ELSE forkHold,
         kind = "fork" => src \in live /\ rec[src].owner = NoOp,
         kind # "fork" => src = NoSession,
         kind = "open" => /\ s \notin live /\ ~PendingOpen(s)
                          /\ s \in disk \/ s = op[o].sess,
         kind # "open" => Fresh(s)
  PROVE  Holdings' /\ Waiting' /\ Writers'
  <1> USE DEF OwnershipInv
  <1>0. reserved \subseteq Ops /\ forkHold \subseteq Ops /\ temporary \subseteq Ops
    BY DEF TypeOK
  <1>1. /\ \A p \in Ops \ {o} : op'[p] = op[p]
        /\ op'[o].pc = "queued" /\ op'[o].kind = kind /\ op'[o].sess = s /\ op'[o].src = src
    BY DEF Start, TypeOK, FreeOp
  <1>2. o \notin reserved /\ o \notin forkHold /\ o \notin temporary
    BY DEF Holdings, SlotsOwned, SlotPCs, SourcesHeld, TemporariesOwned, KindsOfPCs, KindAllowed
  <1>3. Holdings'
    <2> USE DEF Holdings
    <2>1. KindsOfPCs'
      BY <1>1 DEF KindsOfPCs, KindAllowed
    <2>2. SlotsOwned'
      BY <1>0, <1>1, <1>2 DEF SlotsOwned
    <2>3. SourcesHeld'
      BY <1>0, <1>1, <1>2 DEF SourcesHeld
    <2>4. TemporariesOwned'
      BY <1>0, <1>1, <1>2 DEF TemporariesOwned
    <2>5. SourcesSafe'
      BY <1>0, <1>1, <1>2 DEF SourcesSafe
    <2>6. NoneOutlivesDispose'
      BY DEF NoneOutlivesDispose
    <2> QED BY <2>1, <2>2, <2>3, <2>4, <2>5, <2>6
  <1>4. Waiting'
    <2> USE DEF Waiting
    <2>1. \A i \in DOMAIN queue : queue[i] # o
      BY DEF WaitersServed
    <2>2. /\ QueueDistinct'
          /\ \A p \in Ops : (\E i \in DOMAIN queue' : queue'[i] = p)
                            <=> (\E i \in DOMAIN queue : queue[i] = p) \/ p = o
          /\ \A p \in Ops : HoldsLock(p) => HoldsLock(p)'
      BY <2>1, LockAwaited
    <2>3. OneOpener'
      BY <1>1 DEF OneOpener, Opener, PendingOpen, LockPCs
    <2>4. WaitersServed'
      <3> SUFFICES ASSUME NEW q \in Ops \ {o}
                   PROVE  /\ op[q].pc = "joined" => (PendingOpen(op[q].sess) /\ ~OpenSettled(op[q].sess))'
                          /\ op[q].pc \in {"waitClose", "releasing", "retracting"} => op[q].sess \in live /\ rec[op[q].sess].closing
                          /\ op[q].pc = "evicting" => op[q].victim \in live /\ rec[op[q].victim].closing
                          /\ op[q].pc \in LockPCs <=> \E i \in DOMAIN queue' : queue'[i] = q
                          /\ op[q].pc \in {"evicting", "evicted", "evictFailed"} => HoldsLock(q)'
        BY <1>1, <2>2 DEF WaitersServed, LockPCs
      <3>1. op[q].pc = "joined" => (PendingOpen(op[q].sess) /\ ~OpenSettled(op[q].sess))'
        BY <1>1 DEF WaitersServed, PendingOpen, OpenSettled
      <3> QED BY <2>2, <3>1 DEF WaitersServed, LockPCs
    <2> QED BY <2>2, <2>3, <2>4
  <1>5. Writers'
    <2> USE DEF Writers
    <2>0. \A p \in Ops : op[p].pc # "free" => op[p].sess # NoSession
      BY NullAssumption DEF SlotsHeld
    <2>1. NewUnknown'
      BY <1>1, <2>0 DEF NewUnknown, Fresh, NewPCs, LockPCs
    <2>2. OpenAlone'
      BY <1>1 DEF OpenAlone, Opener, LockPCs
    <2> QED BY <2>1, <2>2
  <1> QED BY <1>3, <1>4, <1>5

(* open() waits for a close, or joins an open under way.                   *)
LEMMA WaitKeeps ==
  ASSUME OwnershipInv, NEW o \in Ops, NEW s \in Sessions, NEW pc \in {"waitClose", "joined", "joinDone"},
         op' = [op EXCEPT ![o] = [FreeOp EXCEPT !.pc = pc, !.kind = "open", !.sess = s]],
         op[o].pc \in {"free", "reopen"}, shutdown = "no",
         UNCHANGED <<live, rec, disk, queue, reserved, forkHold, temporary, shutdown>>,
         s \in disk \/ s = op[o].sess,
         pc = "waitClose" => s \in live /\ rec[s].closing,
         pc = "joined" => PendingOpen(s) /\ ~OpenSettled(s)
  PROVE  Holdings' /\ Waiting' /\ Writers'
  <1> USE DEF OwnershipInv
  <1>0. reserved \subseteq Ops /\ forkHold \subseteq Ops /\ temporary \subseteq Ops
    BY DEF TypeOK
  <1>1. /\ \A p \in Ops \ {o} : op'[p] = op[p]
        /\ op'[o].pc = pc /\ op'[o].kind = "open" /\ op'[o].sess = s /\ op'[o].src = NoSession
    BY DEF TypeOK, FreeOp
  <1>2. o \notin reserved /\ o \notin forkHold /\ o \notin temporary
    BY DEF Holdings, SlotsOwned, SlotPCs, SourcesHeld, TemporariesOwned, KindsOfPCs, KindAllowed
  <1>3. Holdings'
    <2> USE DEF Holdings
    <2>1. KindsOfPCs'
      BY <1>1 DEF KindsOfPCs, KindAllowed
    <2>2. SlotsOwned' /\ SourcesHeld' /\ TemporariesOwned'
      BY <1>0, <1>1, <1>2 DEF SlotsOwned, SourcesHeld, TemporariesOwned
    <2>3. SourcesSafe'
      BY <1>0, <1>1, <1>2 DEF SourcesSafe
    <2>4. NoneOutlivesDispose'
      BY DEF NoneOutlivesDispose
    <2> QED BY <2>1, <2>2, <2>3, <2>4
  <1>4. Waiting'
    <2> USE DEF Waiting
    <2>1. OneOpener' /\ QueueDistinct'
      BY <1>1 DEF OneOpener, Opener, LockPCs, QueueDistinct
    <2>2. WaitersServed'
      BY <1>1 DEF WaitersServed, PendingOpen, OpenSettled, HoldsLock
    <2> QED BY <2>1, <2>2
  <1>5. Writers'
    <2> USE DEF Writers
    <2>0. \A p \in Ops : op[p].pc # "free" => op[p].sess # NoSession
      BY NullAssumption DEF SlotsHeld
    <2>1. NewUnknown'
      BY <1>1, <2>0 DEF NewUnknown, NewPCs, LockPCs
    <2>2. OpenAlone'
      BY <1>1 DEF OpenAlone, Opener, LockPCs
    <2> QED BY <2>1, <2>2
  <1> QED BY <1>3, <1>4, <1>5
-----------------------------------------------------------------------------
(* The capacity lock.                                                      *)

(* The grant of a slot passes the capacity lock on and takes nothing else. *)
LEMMA ReserveSlotKeeps ==
  ASSUME OwnershipInv, NEW o \in Ops, ReserveSlot(o)
  PROVE  Holdings' /\ Waiting' /\ Writers'
  <1> USE DEF OwnershipInv
  <1> DEFINE pc == CASE op[o].kind = "job" -> "leased"
                     [] op[o].kind = "fork" -> "granted"
                     [] OTHER -> "building"
  <1>0. reserved \subseteq Ops /\ forkHold \subseteq Ops /\ temporary \subseteq Ops
    BY DEF TypeOK
  <1>o. op' = [op EXCEPT ![o].victim = NoSession, ![o].pc = pc]
    BY DEF ReserveSlot
  <1>1. /\ op[o].pc \in {"queued", "evicted"} /\ HoldsLock(o) /\ queue' = Tail(queue)
        /\ reserved' = reserved \cup {o} /\ UNCHANGED <<live, rec, disk, forkHold, temporary, shutdown>>
    BY DEF ReserveSlot, AdmittedToLoop
  <1>2. /\ pc \in {"leased", "granted", "building"} /\ (pc = "leased" <=> op[o].kind = "job")
        /\ (pc = "granted" <=> op[o].kind = "fork")
    OBVIOUS
  <1> HIDE DEF pc
  <1>3. /\ \A p \in Ops \ {o} : op'[p] = op[p]
        /\ op'[o].pc = pc /\ op'[o].kind = op[o].kind /\ op'[o].sess = op[o].sess /\ op'[o].src = op[o].src
    BY <1>o DEF TypeOK, OpRecord
  <1>4. Holdings'
    <2> USE DEF Holdings
    <2>1. KindsOfPCs'
      BY <1>2, <1>3 DEF KindsOfPCs, KindAllowed
    <2>2. SlotsOwned'
      BY <1>0, <1>1, <1>2, <1>3 DEF SlotsOwned, SlotPCs
    <2>3. SourcesHeld'
      BY <1>0, <1>1, <1>2, <1>3 DEF SourcesHeld
    <2>4. TemporariesOwned'
      BY <1>0, <1>1, <1>3 DEF TemporariesOwned
    <2>5. SourcesSafe'
      BY <1>0, <1>1, <1>3 DEF SourcesSafe
    <2>6. NoneOutlivesDispose'
      BY <1>1 DEF NoneOutlivesDispose
    <2> QED BY <2>1, <2>2, <2>3, <2>4, <2>5, <2>6
  <1>5. Waiting'
    <2> USE DEF Waiting
    <2>1. OneOpener'
      BY <1>1, <1>3 DEF OneOpener, Opener, LockPCs
    <2>2. QueueDistinct' /\ \A p \in Ops : (\E i \in DOMAIN queue' : queue'[i] = p)
                                      <=> (\E i \in DOMAIN queue : queue[i] = p) /\ p # o
      BY <1>1, LockPasses
    <2>3. \A p \in Ops : op[p].pc \in {"evicting", "evicted", "evictFailed"} => p = o
      BY <1>1 DEF WaitersServed, HoldsLock
    <2>4. WaitersServed'
      <3>1. \A q \in Ops : op'[q].pc \in LockPCs <=> \E i \in DOMAIN queue' : queue'[i] = q
        BY <1>2, <1>3, <2>2 DEF WaitersServed, LockPCs
      <3>2. \A q \in Ops : op'[q].pc \notin {"evicting", "evicted", "evictFailed"}
        BY <1>2, <1>3, <2>3
      <3>3. \A q \in Ops : op'[q].pc = "joined" => (PendingOpen(op[q].sess) /\ ~OpenSettled(op[q].sess))'
        BY <1>1, <1>2, <1>3 DEF WaitersServed, PendingOpen, OpenSettled
      <3>4. \A q \in Ops : op'[q].pc \in {"waitClose", "releasing", "retracting"} =>
                               op'[q].sess \in live' /\ rec'[op'[q].sess].closing
        BY <1>1, <1>2, <1>3 DEF WaitersServed
      <3>5. \A q \in Ops : op'[q].sess = op[q].sess
        BY <1>3
      <3> QED BY <3>1, <3>2, <3>3, <3>4, <3>5 DEF WaitersServed, LockPCs
    <2> QED BY <2>1, <2>2, <2>4
  <1>6. Writers'
    <2> USE DEF Writers
    <2>1. NewUnknown'
      BY <1>1, <1>3 DEF NewUnknown, NewPCs, LockPCs
    <2>2. OpenAlone'
      BY <1>1, <1>3 DEF OpenAlone, Opener, LockPCs
    <2> QED BY <2>1, <2>2
  <1> QED BY <1>4, <1>5, <1>6

(* The victim of an eviction is no fork's source.                          *)
LEMMA EvictKeeps ==
  ASSUME OwnershipInv, NEW o \in Ops, Evict(o)
  PROVE  Holdings' /\ Waiting' /\ Writers'
  <1> USE DEF OwnershipInv
  <1>0. reserved \subseteq Ops /\ forkHold \subseteq Ops /\ temporary \subseteq Ops /\ live \subseteq Sessions
    BY DEF TypeOK
  <1>1. PICK v \in LeastRecentlyUsedIdle(op[o].src) :
             /\ rec' = [rec EXCEPT ![v].closing = TRUE]
             /\ op' = [op EXCEPT ![o].pc = "evicting", ![o].victim = v]
    BY DEF Evict
  <1>2. v \in live /\ ~HasForkReservation(v)
    BY DEF LeastRecentlyUsedIdle, Evictable
  <1>3. /\ op[o].pc \in {"queued", "evicted"} /\ HoldsLock(o)
        /\ UNCHANGED <<live, disk, queue, reserved, forkHold, temporary, shutdown>>
    BY DEF Evict, AdmittedToLoop
  <1>4. /\ \A p \in Ops \ {o} : op'[p] = op[p]
        /\ op'[o].pc = "evicting" /\ op'[o].kind = op[o].kind /\ op'[o].sess = op[o].sess /\ op'[o].src = op[o].src
        /\ op'[o].victim = v
    BY <1>1 DEF TypeOK, OpRecord
  <1>5. /\ \A t \in Sessions \ {v} : rec'[t] = rec[t]
        /\ rec'[v].closing /\ rec'[v].owner = rec[v].owner /\ rec'[v].source = rec[v].source
    BY <1>0, <1>1, <1>2 DEF TypeOK, RecRecord
  <1>6. Holdings'
    <2> USE DEF Holdings
    <2>1. KindsOfPCs'
      BY <1>4 DEF KindsOfPCs, KindAllowed
    <2>2. SlotsOwned'
      BY <1>0, <1>3, <1>4 DEF SlotsOwned, SlotPCs
    <2>3. SourcesHeld'
      BY <1>0, <1>3, <1>4 DEF SourcesHeld
    <2>4. TemporariesOwned'
      BY <1>0, <1>3, <1>4 DEF TemporariesOwned
    <2>5. SourcesSafe'
      BY <1>0, <1>2, <1>3, <1>4, <1>5 DEF SourcesSafe, HasForkReservation
    <2>6. NoneOutlivesDispose'
      BY <1>0, <1>3, <1>5 DEF NoneOutlivesDispose
    <2> QED BY <2>1, <2>2, <2>3, <2>4, <2>5, <2>6
  <1>7. Waiting'
    <2> USE DEF Waiting
    <2>1. OneOpener' /\ QueueDistinct'
      BY <1>3, <1>4 DEF OneOpener, Opener, LockPCs, QueueDistinct
    <2>2. \A t \in live : rec[t].closing => rec'[t].closing
      BY <1>0, <1>5
    <2>3. WaitersServed'
      BY <1>2, <1>3, <1>4, <1>5, <2>2 DEF WaitersServed, PendingOpen, OpenSettled, HoldsLock
    <2> QED BY <2>1, <2>3
  <1>8. Writers'
    <2> USE DEF Writers
    <2>1. NewUnknown'
      BY <1>3, <1>4 DEF NewUnknown, NewPCs, LockPCs
    <2>2. OpenAlone'
      BY <1>0, <1>3, <1>4, <1>5 DEF OpenAlone, Opener, LockPCs
    <2> QED BY <2>1, <2>2
  <1> QED BY <1>6, <1>7, <1>8

(* A record leaves the indexes; whoever awaited its disposal moves on.     *)
LEMMA DisposeSettledKeeps ==
  ASSUME OwnershipInv, NEW s \in Sessions, NEW ok \in BOOLEAN, DisposeSettled(s, ok)
  PROVE  Holdings' /\ Waiting' /\ Writers'
  <1> USE DEF OwnershipInv
  <1>0. reserved \subseteq Ops /\ forkHold \subseteq Ops /\ temporary \subseteq Ops /\ live \subseteq Sessions
    BY DEF TypeOK
  <1>1. /\ s \in live /\ rec[s].closing /\ live' = live \ {s}
        /\ \A t \in live' : rec'[t] = rec[t]
        /\ UNCHANGED <<disk, queue, reserved, forkHold, temporary, shutdown>>
    BY <1>0 DEF DisposeSettled, TypeOK
  <1>2. ASSUME NEW p \in Ops
        PROVE  \/ /\ op'[p] = op[p]
                  /\ ~(op[p].pc = "evicting" /\ op[p].victim = s)
                  /\ ~(op[p].pc \in {"waitClose", "releasing", "retracting"} /\ op[p].sess = s)
               \/ /\ op[p].pc \in {"waitClose", "releasing"} /\ op[p].sess = s
                  /\ op'[p].pc = "free" /\ op'[p].kind = "create" /\ op'[p].sess = NoSession /\ op'[p].src = NoSession
               \/ /\ op[p].pc = "retracting" /\ op[p].sess = s /\ op'[p].pc = "failing"
                  /\ op'[p].kind = op[p].kind /\ op'[p].sess = op[p].sess /\ op'[p].src = op[p].src
               \/ /\ op[p].pc = "evicting" /\ op'[p].pc \in {"evicted", "evictFailed"}
                  /\ op'[p].kind = op[p].kind /\ op'[p].sess = op[p].sess /\ op'[p].src = op[p].src
               \/ /\ op[p].pc = "waitClose" /\ op[p].sess = s /\ op'[p].pc = "reopen"
                  /\ op'[p].kind = op[p].kind /\ op'[p].sess = op[p].sess /\ op'[p].src = op[p].src
    BY FreeFields DEF DisposeSettled, TypeOK, OpRecord
  <1>3. \A p \in Ops : /\ op[p].pc \in {"waitClose", "releasing"} => op[p].kind \in {"open", "job"}
                       /\ op[p].pc = "retracting" => op[p].kind = "fork"
    BY DEF Holdings, KindsOfPCs, KindAllowed
  <1>4. Holdings'
    <2> USE DEF Holdings
    <2>1. KindsOfPCs'
      BY <1>2, <1>3 DEF KindsOfPCs, KindAllowed
    <2>2. SlotsOwned'
      BY <1>0, <1>1, <1>2 DEF SlotsOwned, SlotPCs
    <2>3. SourcesHeld'
      BY <1>0, <1>1, <1>2, <1>3 DEF SourcesHeld
    <2>4. TemporariesOwned'
      BY <1>0, <1>1, <1>2, <1>3 DEF TemporariesOwned
    <2>5. SourcesSafe'
      BY <1>0, <1>1, <1>2, <1>3 DEF SourcesSafe, SourcesHeld
    <2>6. NoneOutlivesDispose'
      BY <1>1 DEF NoneOutlivesDispose
    <2> QED BY <2>1, <2>2, <2>3, <2>4, <2>5, <2>6
  <1>5. Waiting'
    <2> USE DEF Waiting
    <2>1. OneOpener' /\ QueueDistinct'
      BY <1>1, <1>2, <1>3 DEF OneOpener, Opener, LockPCs, QueueDistinct
    <2>2. \A q \in Ops : op'[q].pc = "joined" => (PendingOpen(op[q].sess) /\ ~OpenSettled(op[q].sess))'
      BY <1>2 DEF WaitersServed, PendingOpen, OpenSettled
    <2>3. \A q \in Ops : op'[q].pc = "joined" => op'[q].sess = op[q].sess
      BY <1>2
    <2>4. \A q \in Ops : op'[q].pc \in {"waitClose", "releasing", "retracting"} =>
                             op'[q].sess \in live' /\ rec'[op'[q].sess].closing
      BY <1>1, <1>2 DEF WaitersServed
    <2>5. \A q \in Ops : op'[q].pc = "evicting" => op'[q].victim \in live' /\ rec'[op'[q].victim].closing
      BY <1>1, <1>2 DEF WaitersServed
    <2>6. \A q \in Ops : op'[q].pc \in LockPCs <=> op[q].pc \in LockPCs
      BY <1>2 DEF LockPCs
    <2>7. \A q \in Ops : op'[q].pc \in {"evicting", "evicted", "evictFailed"} =>
                             op[q].pc \in {"evicting", "evicted", "evictFailed"}
      BY <1>2
    <2>8. WaitersServed'
      BY <1>1, <2>2, <2>3, <2>4, <2>5, <2>6, <2>7 DEF WaitersServed, LockPCs, HoldsLock
    <2> QED BY <2>1, <2>8
  <1>6. Writers'
    <2> USE DEF Writers
    <2>0. \A p \in Ops : op[p].pc # "free" => op[p].sess # NoSession
      BY NullAssumption DEF SlotsHeld
    <2>1. NewUnknown'
      BY <1>1, <1>2, <2>0 DEF NewUnknown, NewPCs, LockPCs
    <2>2. OpenAlone'
      BY <1>1, <1>2, <1>3 DEF OpenAlone, Opener, LockPCs
    <2> QED BY <2>1, <2>2
  <1> QED BY <1>4, <1>5, <1>6

(* create() returns; open() has a slot no more, and tells those who share. *)
LEMMA SlotReturnedKeeps ==
  ASSUME OwnershipInv, NEW o \in Ops, SlotReturned(o)
  PROVE  Holdings' /\ Waiting' /\ Writers'
  <1> USE DEF OwnershipInv
  <1>0. reserved \subseteq Ops /\ forkHold \subseteq Ops /\ temporary \subseteq Ops
    BY DEF TypeOK
  <1>1. /\ op[o].pc = "registered" /\ op[o].kind \in {"create", "open"} /\ reserved' = reserved \ {o}
        /\ UNCHANGED <<live, rec, disk, queue, forkHold, temporary, shutdown>>
    BY DEF SlotReturned
  <1>2. ASSUME NEW p \in Ops
        PROVE  \/ p # o /\ op'[p] = op[p] /\ ~(op[o].kind = "open" /\ op[p].pc = "joined" /\ op[p].sess = op[o].sess)
               \/ /\ p = o /\ op[o].kind = "create"
                  /\ op'[p].pc = "free" /\ op'[p].kind = "create" /\ op'[p].sess = NoSession /\ op'[p].src = NoSession
               \/ /\ p = o /\ op[o].kind = "open" /\ op'[p].pc = "refreshing"
                  /\ op'[p].kind = op[p].kind /\ op'[p].sess = op[p].sess /\ op'[p].src = op[p].src
               \/ /\ p # o /\ op[p].pc = "joined" /\ op[p].sess = op[o].sess /\ op'[p].pc = "joinDone"
                  /\ op'[p].kind = op[p].kind /\ op'[p].sess = op[p].sess /\ op'[p].src = op[p].src
    BY FreeFields DEF SlotReturned, SharedWith, TypeOK, OpRecord
  <1>3. \A p \in Ops : op[p].pc = "joined" => op[p].kind = "open"
    BY DEF Holdings, KindsOfPCs, KindAllowed
  <1>4. Holdings'
    <2> USE DEF Holdings
    <2>1. KindsOfPCs'
      BY <1>1, <1>2, <1>3 DEF KindsOfPCs, KindAllowed
    <2>2. SlotsOwned'
      BY <1>0, <1>1, <1>2 DEF SlotsOwned, SlotPCs
    <2>3. SourcesHeld'
      BY <1>0, <1>1, <1>2, <1>3 DEF SourcesHeld
    <2>4. TemporariesOwned'
      BY <1>0, <1>1, <1>2 DEF TemporariesOwned
    <2>5. SourcesSafe'
      BY <1>0, <1>1, <1>2, <1>3 DEF SourcesSafe, SourcesHeld
    <2>6. NoneOutlivesDispose'
      BY <1>1 DEF NoneOutlivesDispose
    <2> QED BY <2>1, <2>2, <2>3, <2>4, <2>5, <2>6
  <1>5. Waiting'
    <2> USE DEF Waiting
    <2>1. OneOpener' /\ QueueDistinct'
      BY <1>1, <1>2 DEF OneOpener, Opener, LockPCs, QueueDistinct
    <2>2. WaitersServed'
      BY <1>1, <1>2 DEF WaitersServed, PendingOpen, OpenSettled, HoldsLock
    <2> QED BY <2>1, <2>2
  <1>6. Writers'
    <2> USE DEF Writers
    <2>0. \A p \in Ops : op[p].pc # "free" => op[p].sess # NoSession
      BY NullAssumption DEF SlotsHeld
    <2>1. NewUnknown'
      BY <1>1, <1>2, <2>0 DEF NewUnknown, NewPCs, LockPCs
    <2>2. OpenAlone'
      BY <1>1, <1>2 DEF OpenAlone, Opener, LockPCs
    <2> QED BY <2>1, <2>2
  <1> QED BY <1>4, <1>5, <1>6
-----------------------------------------------------------------------------
(* Clients, Pi, failures and shutdown.                                     *)

(* An event changes neither whose a record is nor whether it is closing.   *)
LEMMA EventFields ==
  ASSUME NEW r \in RecRecord, NEW st
  PROVE  /\ StatusEvent(r, st).closing = r.closing /\ StatusEvent(r, st).owner = r.owner
         /\ StatusEvent(r, st).source = r.source
  BY DEF StatusEvent, RecRecord

(* Aborts and failures change neither the owner nor the closing of a       *)
(* record.                                                                 *)
LEMMA AbortFields ==
  ASSUME NEW r \in RecRecord
  PROVE  /\ AbortRec(r).closing = r.closing /\ AbortRec(r).owner = r.owner /\ AbortRec(r).source = r.source
         /\ AbortedRec(r).closing = r.closing /\ AbortedRec(r).owner = r.owner /\ AbortedRec(r).source = r.source
         /\ FailedRec(r).closing = r.closing /\ FailedRec(r).owner = r.owner /\ FailedRec(r).source = r.source
  <1>1. StatusEvent(r, "aborting") \in RecRecord /\ StatusEvent(r, "idle") \in RecRecord
    BY StatusEventType
  <1>2. [r EXCEPT !.terminal = TRUE] \in RecRecord
    BY DEF RecRecord
  <1>3. StatusEvent([r EXCEPT !.terminal = TRUE], "error") \in RecRecord
    BY <1>2, StatusEventType
  <1>4. /\ [r EXCEPT !.terminal = TRUE].closing = r.closing /\ [r EXCEPT !.terminal = TRUE].owner = r.owner
        /\ [r EXCEPT !.terminal = TRUE].source = r.source
    BY DEF RecRecord
  <1>5. AbortRec(r).closing = r.closing /\ AbortRec(r).owner = r.owner /\ AbortRec(r).source = r.source
    BY <1>1, EventFields DEF AbortRec, RecRecord
  <1>6. AbortedRec(r).closing = r.closing /\ AbortedRec(r).owner = r.owner /\ AbortedRec(r).source = r.source
    <2> DEFINE q == IF r.status = "aborting" THEN StatusEvent(r, "idle") ELSE r
    <2>1. q \in RecRecord /\ q.closing = r.closing /\ q.owner = r.owner /\ q.source = r.source
      BY <1>1, EventFields
    <2>2. AbortedRec(r) = [q EXCEPT !.abort = FALSE, !.pi = IF r.pi = "held" THEN "none" ELSE r.pi]
      BY DEF AbortedRec
    <2> HIDE DEF q
    <2> QED BY <2>1, <2>2 DEF RecRecord
  <1>7. FailedRec(r).closing = r.closing /\ FailedRec(r).owner = r.owner /\ FailedRec(r).source = r.source
    <2> DEFINE q == StatusEvent([r EXCEPT !.terminal = TRUE], "error")
    <2>1. q \in RecRecord /\ q.closing = r.closing /\ q.owner = r.owner /\ q.source = r.source
      BY <1>2, <1>3, <1>4, EventFields
    <2>2. FailedRec(r) = [q EXCEPT !.pi = IF r.pi \in {"running", "ended"} THEN "ended" ELSE "none"]
      BY DEF FailedRec
    <2> HIDE DEF q
    <2> QED BY <2>1, <2>2 DEF RecRecord
  <1> QED BY <1>5, <1>6, <1>7

(* A step on a record that moves no call: at most it starts to close a     *)
(* record that no fork holds, and writes the file of a live one.           *)
OnlyRecords ==
    /\ \A p \in Ops : /\ op'[p].pc = op[p].pc /\ op'[p].kind = op[p].kind /\ op'[p].sess = op[p].sess
                      /\ op'[p].src = op[p].src /\ op'[p].victim = op[p].victim
    /\ UNCHANGED <<live, queue, reserved, forkHold, temporary>>
    /\ shutdown' = "disposed" <=> shutdown = "disposed"
    /\ \A t \in live : /\ rec'[t].owner = rec[t].owner /\ rec'[t].source = rec[t].source
                       /\ rec[t].closing => rec'[t].closing
                       /\ rec'[t].closing => rec[t].closing \/ ~HasForkReservation(t)
    /\ disk' \subseteq disk \cup live

(* A step that changes only what conversations do keeps every holding.     *)
LEMMA OnlyRecordsKeeps ==
  ASSUME OwnershipInv, OnlyRecords
  PROVE  Holdings' /\ Waiting' /\ Writers'
  <1> USE DEF OwnershipInv, OnlyRecords
  <1>0. reserved \subseteq Ops /\ forkHold \subseteq Ops /\ temporary \subseteq Ops
    BY DEF TypeOK
  <1>1. Holdings'
    <2> USE DEF Holdings
    <2>1. KindsOfPCs'
      BY DEF KindsOfPCs
    <2>2. SlotsOwned' /\ SourcesHeld' /\ TemporariesOwned'
      BY <1>0 DEF SlotsOwned, SourcesHeld, TemporariesOwned
    <2>3. SourcesSafe'
      BY <1>0 DEF SourcesSafe, HasForkReservation
    <2>4. NoneOutlivesDispose'
      BY DEF NoneOutlivesDispose
    <2> QED BY <2>1, <2>2, <2>3, <2>4
  <1>2. Waiting'
    <2> USE DEF Waiting
    <2>1. OneOpener' /\ QueueDistinct'
      BY DEF OneOpener, Opener, QueueDistinct
    <2>2. WaitersServed'
      BY DEF WaitersServed, PendingOpen, OpenSettled, HoldsLock
    <2> QED BY <2>1, <2>2
  <1>3. Writers'
    <2> USE DEF Writers
    <2>1. NewUnknown'
      BY DEF NewUnknown
    <2>2. OpenAlone'
      BY DEF OpenAlone, Opener
    <2> QED BY <2>1, <2>2
  <1> QED BY <1>1, <1>2, <1>3

(* Prompts, aborts, closes and failures of a conversation move no call and *)
(* close no fork's source.                                                 *)
LEMMA SessionStepRecords ==
  ASSUME OwnershipInv, NEW s \in Sessions, Run(s) \/ Client(s) \/ AbortSettled(s) \/ RuntimeFailure(s)
  PROVE  OnlyRecords
  <1> USE DEF OwnershipInv
  <1>r. rec[s] \in RecRecord /\ rec \in [Sessions -> RecRecord] /\ live \subseteq Sessions
    BY DEF TypeOK
  <1>1. ASSUME NEW r, rec' = [rec EXCEPT ![s] = r],
               r.closing = rec[s].closing, r.owner = rec[s].owner, r.source = rec[s].source,
               UNCHANGED <<live, queue, reserved, forkHold, temporary, shutdown>>, disk' \subseteq disk \cup live,
               \A p \in Ops : /\ op'[p].pc = op[p].pc /\ op'[p].kind = op[p].kind /\ op'[p].sess = op[p].sess
                              /\ op'[p].src = op[p].src /\ op'[p].victim = op[p].victim
        PROVE  OnlyRecords
    <2>1. \A t \in live : /\ rec'[t].owner = rec[t].owner /\ rec'[t].source = rec[t].source
                          /\ rec'[t].closing = rec[t].closing
      BY <1>1, <1>r
    <2> QED BY <1>1, <2>1 DEF OnlyRecords
  <1>2. CASE PiStart(s)
    <2> DEFINE r == [StatusEvent(rec[s], "streaming") EXCEPT !.pi = "running"]
    <2>1. StatusEvent(rec[s], "streaming") \in RecRecord
      BY <1>r, StatusEventType
    <2>2. r.closing = rec[s].closing /\ r.owner = rec[s].owner /\ r.source = rec[s].source
      BY <1>r, <2>1, EventFields DEF RecRecord
    <2>3. PiEvent(s, {"preflight"}, r, disk \cup {s}, TRUE)
      BY <1>2 DEF PiStart
    <2> HIDE DEF r
    <2>4. OnlyRecords
      BY <1>1, <2>2, <2>3 DEF PiEvent
    <2> QED BY <2>4
  <1>3. CASE PiReject(s)
    <2> DEFINE r == [rec[s] EXCEPT !.pi = "none"]
    <2>1. r.closing = rec[s].closing /\ r.owner = rec[s].owner /\ r.source = rec[s].source
      BY <1>r DEF RecRecord
    <2>2. PiEvent(s, {"preflight"}, r, disk, FALSE)
      BY <1>3 DEF PiReject
    <2> HIDE DEF r
    <2>3. OnlyRecords
      BY <1>1, <2>1, <2>2 DEF PiEvent
    <2> QED BY <2>3
  <1>4. CASE AgentEnd(s)
    <2> DEFINE r == [StatusEvent(rec[s], "idle") EXCEPT
                       !.pi = IF rec[s].pi = "running" THEN "ended" ELSE "none"]
    <2>1. StatusEvent(rec[s], "idle") \in RecRecord
      BY <1>r, StatusEventType
    <2>2. r.closing = rec[s].closing /\ r.owner = rec[s].owner /\ r.source = rec[s].source
      BY <1>r, <2>1, EventFields DEF RecRecord
    <2>3. PiEvent(s, {"running", "held"}, r, disk, TRUE)
      BY <1>4 DEF AgentEnd
    <2> HIDE DEF r
    <2>4. OnlyRecords
      BY <1>1, <2>2, <2>3 DEF PiEvent
    <2> QED BY <2>4
  <1>5. CASE PiSettle(s)
    <2> DEFINE r == [rec[s] EXCEPT !.pi = IF rec[s].pi = "running" THEN "held" ELSE "none"]
    <2>1. r.closing = rec[s].closing /\ r.owner = rec[s].owner /\ r.source = rec[s].source
      BY <1>r DEF RecRecord
    <2>2. PiEvent(s, {"running", "ended"}, r, disk, FALSE)
      BY <1>5 DEF PiSettle
    <2> HIDE DEF r
    <2>3. OnlyRecords
      BY <1>1, <2>1, <2>2 DEF PiEvent
    <2> QED BY <2>3
  <1>6. CASE Prompt(s)
    <2> DEFINE r == [rec[s] EXCEPT !.pi = "preflight"]
    <2>1. r.closing = rec[s].closing /\ r.owner = rec[s].owner /\ r.source = rec[s].source
      BY <1>r DEF RecRecord
    <2>2. rec' = [rec EXCEPT ![s] = r]
      BY <1>6, <1>r DEF Prompt
    <2> HIDE DEF r
    <2>3. OnlyRecords
      BY <1>1, <1>6, <2>1, <2>2 DEF Prompt
    <2> QED BY <2>3
  <1>7. CASE Abort(s)
    <2> DEFINE r == IF IsBusy(s) THEN AbortRec(rec[s]) ELSE rec[s]
    <2>1. r.closing = rec[s].closing /\ r.owner = rec[s].owner /\ r.source = rec[s].source
      BY <1>r, AbortFields
    <2>2. rec' = [rec EXCEPT ![s] = r]
      BY <1>7, <1>r DEF Abort
    <2>3. \A p \in Ops : /\ op'[p].pc = op[p].pc /\ op'[p].kind = op[p].kind /\ op'[p].sess = op[p].sess
                         /\ op'[p].src = op[p].src /\ op'[p].victim = op[p].victim
      BY <1>7 DEF Abort, TypeOK, OpRecord
    <2> HIDE DEF r
    <2>4. OnlyRecords
      BY <1>1, <1>7, <2>1, <2>2, <2>3 DEF Abort
    <2> QED BY <2>4
  <1>8. CASE Close(s)
    <2>1. /\ \A t \in Sessions \ {s} : rec'[t] = rec[t]
          /\ rec'[s].owner = rec[s].owner /\ rec'[s].source = rec[s].source /\ rec'[s].closing
      BY <1>8, <1>r DEF Close, RecRecord
    <2>2. OnlyRecords
      BY <1>8, <1>r, <2>1 DEF Close, OnlyRecords
    <2> QED BY <2>2
  <1>9. CASE AbortSettled(s)
    <2>1. OnlyRecords
      BY <1>1, <1>9, <1>r, AbortFields DEF AbortSettled
    <2> QED BY <2>1
  <1>10. CASE RuntimeFailure(s)
    <2>1. OnlyRecords
      BY <1>1, <1>10, <1>r, AbortFields DEF RuntimeFailure
    <2> QED BY <2>1
  <1> QED BY <1>2, <1>3, <1>4, <1>5, <1>6, <1>7, <1>8, <1>9, <1>10 DEF Run, Client

(* So does the beginning of shutdown.                                      *)
LEMMA ShutdownRecords ==
  ASSUME TypeOK, BeginShutdown
  PROVE  OnlyRecords
  <1>r. rec \in [Sessions -> RecRecord] /\ live \subseteq Sessions
    BY DEF TypeOK
  <1>1. \A p \in Ops : /\ op'[p].pc = op[p].pc /\ op'[p].kind = op[p].kind /\ op'[p].sess = op[p].sess
                       /\ op'[p].src = op[p].src /\ op'[p].victim = op[p].victim
    BY DEF BeginShutdown, TypeOK, OpRecord
  <1>2. \A t \in live : /\ rec'[t].owner = rec[t].owner /\ rec'[t].source = rec[t].source
                        /\ rec'[t].closing = rec[t].closing
    BY <1>r, AbortFields DEF BeginShutdown
  <1> QED BY <1>1, <1>2 DEF BeginShutdown, OnlyRecords

(* Shutdown and dispose keep what calls in flight hold.                    *)
LEMMA ShutdownKeeps ==
  ASSUME OwnershipInv, BeginShutdown \/ DisposeAll \/ UNCHANGED vars
  PROVE  Holdings' /\ Waiting' /\ Writers'
  <1> USE DEF OwnershipInv
  <1>r. rec \in [Sessions -> RecRecord] /\ live \subseteq Sessions
    BY DEF TypeOK
  <1>1. CASE BeginShutdown
    BY <1>1, ShutdownRecords, OnlyRecordsKeeps
  <1>2. CASE DisposeAll
    <2>1. /\ UNCHANGED <<live, disk, op, queue, reserved, forkHold>> /\ temporary' = {} /\ shutdown' = "disposed"
          /\ \A t \in live : rec'[t].closing /\ rec'[t].source = rec[t].source /\ rec'[t].owner = rec[t].owner
      BY <1>2, <1>r DEF DisposeAll, RecRecord
    <2>2. Holdings'
      BY <2>1 DEF Holdings, KindsOfPCs, SlotsOwned, SourcesHeld, TemporariesOwned, SourcesSafe, NoneOutlivesDispose
    <2>3. Waiting'
      <3>1. OneOpener' /\ QueueDistinct'
        BY <2>1 DEF Waiting, OneOpener, Opener, QueueDistinct
      <3>2. WaitersServed'
        BY <2>1 DEF Waiting, WaitersServed, PendingOpen, OpenSettled, HoldsLock
      <3> QED BY <3>1, <3>2 DEF Waiting
    <2>4. Writers'
      BY <2>1 DEF Writers, NewUnknown, OpenAlone, Opener
    <2> QED BY <2>2, <2>3, <2>4
  <1>3. CASE UNCHANGED vars
    <2>1. OnlyRecords
      BY <1>3 DEF vars, OnlyRecords
    <2> QED BY <2>1, OnlyRecordsKeeps
  <1> QED BY <1>1, <1>2, <1>3
-----------------------------------------------------------------------------
(* Calls arrive.                                                           *)

(* open() waits for a close, returns the live record, joins the open under *)
(* way or starts its own.                                                  *)
LEMMA OpenLookupKeeps ==
  ASSUME OwnershipInv, NEW o \in Ops, NEW s \in Sessions, OpenLookup(o, s),
         op[o].pc \in {"free", "reopen"}, Accepting, s \in disk \/ s = op[o].sess,
         UNCHANGED <<live, rec, disk, reserved, forkHold, temporary, shutdown>>
  PROVE  Holdings' /\ Waiting' /\ Writers'
  <1>0. shutdown = "no"
    BY DEF Accepting
  <1>1. CASE s \in live /\ rec[s].closing
    <2>1. op' = [op EXCEPT ![o] = [FreeOp EXCEPT !.pc = "waitClose", !.kind = "open", !.sess = s]] /\ UNCHANGED queue
      BY <1>1 DEF OpenLookup
    <2> QED BY <1>0, <1>1, <2>1, WaitKeeps
  <1>2. CASE s \in live /\ ~rec[s].closing
    <2>1. Return(o) /\ UNCHANGED queue
      BY <1>2 DEF OpenLookup
    <2>2. RecordsKept
      BY DEF RecordsKept
    <2>3. o \notin temporary \cup reserved \cup forkHold
      BY <1>0 DEF OwnershipInv, Holdings, SlotsOwned, SlotPCs, SourcesHeld, TemporariesOwned, KindsOfPCs, KindAllowed
    <2>4. op[o].pc \notin LockPCs
      BY DEF LockPCs
    <2> QED BY <2>1, <2>2, <2>3, <2>4, ReturnKeeps
  <1>3. CASE s \notin live /\ PendingOpen(s)
    <2> DEFINE pc == IF OpenSettled(s) THEN "joinDone" ELSE "joined"
    <2>1. op' = [op EXCEPT ![o] = [FreeOp EXCEPT !.pc = pc, !.kind = "open", !.sess = s]] /\ UNCHANGED queue
      BY <1>3 DEF OpenLookup, FreeOp
    <2>2. pc \in {"joined", "joinDone"} /\ (pc = "joined" => ~OpenSettled(s))
      OBVIOUS
    <2> HIDE DEF pc
    <2> QED BY <1>0, <1>3, <2>1, <2>2, WaitKeeps
  <1>4. CASE s \notin live /\ ~PendingOpen(s)
    <2>1. Start(o, "open", s, NoSession) /\ queue' = Append(queue, o)
      BY <1>4 DEF OpenLookup
    <2> QED BY <1>0, <1>4, <2>1, StartKeeps DEF Kinds
  <1> QED BY <1>1, <1>2, <1>3, <1>4

(* A call that arrives begins with no holding of an earlier one.           *)
LEMMA RequestKeeps ==
  ASSUME OwnershipInv, NEW o \in Ops, Request(o)
  PROVE  Holdings' /\ Waiting' /\ Writers'
  <1> PICK s \in Sessions : \/ \E kind \in Calls \cap {"create", "job"} : RequestNew(o, kind, s)
                            \/ "open" \in Calls /\ RequestOpen(o, s)
                            \/ "fork" \in Calls /\ \E src \in Sessions : RequestFork(o, src, s)
    BY DEF Request
  <1>1. ASSUME NEW kind \in {"create", "job"}, RequestNew(o, kind, s)
        PROVE  Holdings' /\ Waiting' /\ Writers'
    <2>1. /\ Start(o, kind, s, NoSession) /\ op[o].pc = "free" /\ shutdown = "no" /\ Fresh(s)
          /\ queue' = Append(queue, o)
          /\ UNCHANGED <<live, rec, disk, reserved, forkHold, temporary, shutdown>>
      BY <1>1 DEF RequestNew, Accepting
    <2> QED BY <2>1, StartKeeps DEF Kinds
  <1>2. CASE RequestOpen(o, s)
    <2>1. /\ Accepting /\ op[o].pc = "free" /\ s \in disk /\ OpenLookup(o, s)
          /\ UNCHANGED <<live, rec, disk, reserved, forkHold, temporary, shutdown>>
      BY <1>2 DEF RequestOpen
    <2> QED BY <2>1, OpenLookupKeeps
  <1>3. ASSUME NEW src \in Sessions, RequestFork(o, src, s)
        PROVE  Holdings' /\ Waiting' /\ Writers'
    <2>1. /\ Start(o, "fork", s, src) /\ op[o].pc = "free" /\ shutdown = "no" /\ Fresh(s)
          /\ queue' = Append(queue, o) /\ forkHold' = forkHold \cup {o}
          /\ UNCHANGED <<live, rec, disk, reserved, temporary, shutdown>>
          /\ src \in live /\ rec[src].owner = NoOp
      BY <1>3 DEF RequestFork, Accepting, AssertForkSource
    <2> QED BY <2>1, StartKeeps DEF Kinds
  <1> QED BY <1>1, <1>2, <1>3
-----------------------------------------------------------------------------
(* Calls go on.                                                            *)

(* A call that holds a slot and a runtime to be goes on building it, or    *)
(* gives up.                                                               *)
LEMMA BuildKeeps ==
  ASSUME OwnershipInv, NEW o \in Ops,
         Built(o) \/ ForkReplaced(o) \/ ForkRejected(o) \/ ForkProceeds(o)
  PROVE  Holdings' /\ Waiting' /\ Writers'
  <1> USE DEF OwnershipInv
  <1>a. /\ op[o].pc \in {"granted", "building", "forking"} /\ op[o].sess \in Sessions
        /\ KindAllowed(op[o].kind, op[o].pc) /\ op[o].kind \in Kinds
    BY DEF Built, ForkReplaced, ForkRejected, ForkProceeds, SlotsHeld, Holdings, KindsOfPCs, TypeOK, OpRecord
  <1>b. PICK pc \in {"building", "forking", "registering", "failing", "stranded"} :
             /\ Goto(o, pc)
             /\ pc \in {"building", "forking", "stranded"} => op[o].kind = "fork"
             /\ op[o].kind \in {"create", "job"} /\ pc = "registering" => op[o].pc = "building" /\ UNCHANGED disk
             /\ op[o].kind = "open" => op[o].pc = "building" /\ pc \in {"registering", "failing"}
             /\ reserved' \subseteq reserved
             /\ pc = "failing" /\ op[o].kind = "job" => o \notin reserved'
             /\ temporary' \subseteq temporary \cup {o}
             /\ o \in temporary' => pc \in {"forking", "registering", "failing"}
                                    /\ (op[o].kind = "fork" \/ o \in temporary)
             /\ disk' \subseteq disk \cup {op[o].sess}
             /\ UNCHANGED <<live, rec, queue, forkHold, shutdown>>
    <2>1. CASE Built(o)
      <3>1. CASE Accepting
        <4> WITNESS (IF op[o].kind = "fork" THEN "forking" ELSE "registering")
                      \in {"building", "forking", "registering", "failing", "stranded"}
        <4> QED BY <1>a, <2>1, <3>1 DEF Built
      <3>2. CASE ~Accepting
        <4> WITNESS "failing" \in {"building", "forking", "registering", "failing", "stranded"}
        <4> QED BY <1>a, <2>1, <3>2 DEF Built, Fail
      <3> QED BY <3>1, <3>2
    <2>2. CASE ForkReplaced(o)
      <3> WITNESS (IF Accepting THEN "registering" ELSE "failing")
                      \in {"building", "forking", "registering", "failing", "stranded"}
      <3> QED BY <1>a, <2>2 DEF ForkReplaced, KindAllowed
    <2>3. CASE ForkRejected(o)
      <3> WITNESS "failing" \in {"building", "forking", "registering", "failing", "stranded"}
      <3> QED BY <1>a, <2>3 DEF ForkRejected, KindAllowed
    <2>4. CASE ForkProceeds(o)
      <3> WITNESS (IF op[o].src \in live THEN "building" ELSE "stranded")
                      \in {"building", "forking", "registering", "failing", "stranded"}
      <3>1. o \notin temporary
        BY <2>4 DEF ForkProceeds, Holdings, TemporariesOwned
      <3> QED BY <1>a, <2>4, <3>1 DEF ForkProceeds, KindAllowed
    <2> QED BY <2>1, <2>2, <2>3, <2>4
  <1>c. RecordsKept
    BY <1>b DEF RecordsKept
  <1>d. o \in temporary => op[o].kind = "fork"
    BY DEF Holdings, TemporariesOwned
  <1>1. Holdings'
    BY <1>a, <1>b, <1>c, <1>d, GotoHolds DEF KindAllowed, SlotPCs
  <1>2. Waiting'
    BY <1>a, <1>b, <1>c, GotoWaits DEF LockPCs
  <1>3. Writers'
    <2>1. op[o].kind \in {"create", "job"} /\ pc \in NewPCs =>
             op[o].pc \in NewPCs /\ op[o].sess \notin disk' \cup live'
      BY <1>a, <1>b DEF NewPCs, LockPCs, Writers, NewUnknown
    <2> QED BY <1>a, <1>b, <1>c, <2>1, GotoWrites
  <1> QED BY <1>1, <1>2, <1>3

(* #register inserts a record whose session no one else writes, returns    *)
(* the one it finds, or fails.                                             *)
LEMMA RegisterKeeps ==
  ASSUME OwnershipInv, NEW o \in Ops, Register(o)
  PROVE  Holdings' /\ Waiting' /\ Writers'
  <1> USE DEF OwnershipInv
  <1> DEFINE s == op[o].sess
  <1>a. /\ op[o].pc = "registering" /\ s \in Sessions /\ op[o].kind \in Kinds
        /\ UNCHANGED <<disk, queue, forkHold, shutdown>>
    BY DEF Register, SlotsHeld, TypeOK, OpRecord
  <1>b. PICK pc \in {"failing", "superseded", "registered", "snapshot"} :
             /\ Goto(o, pc)
             /\ pc = "snapshot" => op[o].kind = "fork"
             /\ pc = "registered" => op[o].kind # "fork"
             /\ pc = "superseded" => op[o].kind \in {"create", "open"}
             /\ reserved' \subseteq reserved
             /\ pc = "failing" /\ op[o].kind = "job" => o \notin reserved'
             /\ pc = "snapshot" => o \notin reserved'
             /\ temporary' \subseteq temporary
             /\ pc # "failing" => o \notin temporary'
             /\ \/ UNCHANGED <<live, rec>>
                \/ /\ shutdown = "no" /\ s \notin live /\ live' = live \cup {s} /\ pc \in {"registered", "snapshot"}
                   /\ \A t \in live : rec'[t] = rec[t]
                   /\ rec'[s].source = op[o].kind
                   /\ op[o].kind # "job" => rec'[s].owner = NoOp
    <2>1. CASE (~Accepting \/ (s \in live /\ op[o].kind \in {"fork", "job"})) /\ UNCHANGED <<live, rec, temporary>> /\ Fail(o)
      <3> WITNESS "failing" \in {"failing", "superseded", "registered", "snapshot"}
      <3> QED BY <2>1 DEF Fail
    <2>2. CASE /\ s \in live /\ op[o].kind \in {"create", "open"} /\ Goto(o, "superseded")
               /\ UNCHANGED <<live, rec, reserved, temporary>>
      <3> WITNESS "superseded" \in {"failing", "superseded", "registered", "snapshot"}
      <3>1. o \notin temporary
        BY <2>2 DEF Holdings, TemporariesOwned
      <3> QED BY <2>2, <3>1
    <2>3. CASE /\ Accepting /\ s \notin live /\ live' = live \cup {s}
               /\ rec' = [rec EXCEPT ![s] = NewRec(op[o].kind, IF op[o].kind = "job" THEN o ELSE NoOp)]
               /\ reserved' = IF op[o].kind \in {"fork", "job"} THEN reserved \ {o} ELSE reserved
               /\ temporary' = temporary \ {o}
               /\ Goto(o, IF op[o].kind = "fork" THEN "snapshot" ELSE "registered")
      <3> WITNESS (IF op[o].kind = "fork" THEN "snapshot" ELSE "registered") \in {"failing", "superseded", "registered", "snapshot"}
      <3>1. /\ \A t \in live : rec'[t] = rec[t]
            /\ rec'[s].source = op[o].kind /\ (op[o].kind # "job" => rec'[s].owner = NoOp)
        BY <1>a, <2>3 DEF TypeOK, NewRec
      <3> QED BY <2>3, <3>1 DEF Accepting
    <2> QED BY <2>1, <2>2, <2>3 DEF Register
  <1>c. RecordsKept
    BY <1>a, <1>b DEF RecordsKept
  <1>d. o \in temporary => op[o].kind = "fork"
    BY DEF Holdings, TemporariesOwned
  <1>e. \A p \in forkHold : op[p].src \in live' \ live => rec'[op[p].src].owner = NoOp
    <2> SUFFICES ASSUME NEW p \in forkHold, op[p].src \in live' \ live
                 PROVE  rec'[op[p].src].owner = NoOp
      OBVIOUS
    <2>1. op[p].src = s /\ s \notin live /\ (op[o].kind # "job" => rec'[s].owner = NoOp)
      BY <1>b
    <2>2. op[p].kind = "fork" /\ p \in Ops
      BY DEF Holdings, SourcesHeld, TypeOK
    <2>3. op[o].kind # "job"
      BY <1>a, <2>1, <2>2 DEF Writers, NewUnknown, NewPCs
    <2> QED BY <2>1, <2>3
  <1>1. Holdings'
    BY <1>a, <1>b, <1>c, <1>d, <1>e, GotoHolds DEF KindAllowed, SlotPCs
  <1>2. Waiting'
    <2>1. op[o].pc \notin LockPCs /\ pc \notin LockPCs \cup {"joined", "waitClose"}
      BY <1>a, <1>b DEF LockPCs
    <2> QED BY <1>a, <1>b, <1>c, <2>1, GotoWaits
  <1>3. Writers'
    <2>1. pc \notin NewPCs
      BY <1>b DEF NewPCs, LockPCs
    <2> QED BY <1>a, <1>b, <1>c, <2>1, GotoWrites
  <1> QED BY <1>1, <1>2, <1>3

(* The end of a job: its own record starts to close, or it returns.        *)
LEMMA JobReleaseKeeps ==
  ASSUME OwnershipInv, NEW o \in Ops, JobRelease(o), op[o].kind = "job",
         op[o].pc \in {"registered", "titling", "prompting", "postHook"},
         UNCHANGED <<live, disk, queue, reserved, forkHold, temporary, shutdown>>
  PROVE  Holdings' /\ Waiting' /\ Writers'
  <1> USE DEF OwnershipInv
  <1>a. /\ o \notin temporary
        /\ o \notin reserved \cup forkHold
    BY DEF Holdings, TemporariesOwned, SlotsOwned, SourcesHeld, SlotsHeld, SlotPCs
  <1>b. op[o].pc \notin LockPCs /\ op[o].pc # "free"
    BY DEF LockPCs
  <1>1. CASE Owned(o)
    <2> DEFINE s == op[o].sess
    <2>1. /\ Goto(o, "releasing") /\ s \in live /\ rec[s].owner = o
          /\ \A t \in live \ {s} : rec'[t] = rec[t]
          /\ rec'[s].closing /\ rec'[s].source = rec[s].source /\ rec'[s].owner = rec[s].owner
      <3>1. s \in Sessions /\ s \in live /\ rec[s].owner = o /\ rec[s] \in RecRecord
        BY <1>1 DEF Owned, TypeOK
      <3>2. Goto(o, "releasing") /\ rec' = [rec EXCEPT ![s].closing = TRUE]
        BY <1>1 DEF JobRelease
      <3> QED BY <3>1, <3>2 DEF TypeOK, RecRecord
    <2>2. RecordsKept
      BY <2>1 DEF RecordsKept
    <2>3. "releasing" \notin LockPCs \cup NewPCs /\ KindAllowed("job", "releasing")
      BY DEF LockPCs, NewPCs, KindAllowed
    <2>4. Holdings'
      BY <1>a, <1>b, <2>1, <2>2, <2>3, GotoHolds
    <2>5. Waiting'
      BY <1>b, <2>1, <2>2, <2>3, GotoWaits
    <2>6. Writers'
      BY <1>b, <2>1, <2>2, <2>3, GotoWrites
    <2> QED BY <2>4, <2>5, <2>6
  <1>2. CASE ~Owned(o)
    <2>1. Return(o) /\ UNCHANGED rec
      BY <1>2 DEF JobRelease
    <2>2. RecordsKept
      BY <2>1 DEF RecordsKept
    <2> QED BY <1>a, <1>b, <2>1, <2>2, ReturnKeeps
  <1> QED BY <1>1, <1>2

(* A job goes from one await to the next.                                  *)
LEMMA JobKeeps ==
  ASSUME OwnershipInv, NEW o \in Ops,
         \/ \E b \in BOOLEAN : JobLeased(o, b) \/ JobPrompts(o, b) \/ JobPromptSettled(o, b)
         \/ JobTitles(o) \/ JobPostHookSettled(o)
  PROVE  Holdings' /\ Waiting' /\ Writers'
  <1> USE DEF OwnershipInv
  <1>a. /\ op[o].pc \in {"leased", "registered", "titling", "prompting", "postHook"}
        /\ op[o].kind = "job" /\ o \notin temporary /\ op[o].sess \in Sessions
        /\ o \notin forkHold
        /\ op[o].pc # "leased" => o \notin reserved
    <2>1. op[o].pc \in {"leased", "registered", "titling", "prompting", "postHook"} /\ op[o].kind = "job"
      BY DEF JobLeased, JobPromptSettled, JobTitles, JobPrompts, JobPostHookSettled, Holdings, KindsOfPCs, KindAllowed
    <2> QED BY <2>1 DEF Holdings, TemporariesOwned, SlotsOwned, SourcesHeld, SlotsHeld, SlotPCs
  <1>b. op[o].pc \notin LockPCs /\ op[o].pc # "free"
    BY <1>a DEF LockPCs
  (* A job whose records stay as they are, but for what Pi is doing.       *)
  <1>1. ASSUME NEW pc \in {"building", "titling", "prompting", "postHook"}, Goto(o, pc),
               pc = "building" => op[o].pc = "leased",
               pc # "building" => op[o].pc # "leased",
               \A t \in live : /\ rec'[t].closing = rec[t].closing /\ rec'[t].owner = rec[t].owner
                               /\ rec'[t].source = rec[t].source,
               UNCHANGED <<live, disk, queue, reserved, forkHold, temporary, shutdown>>
        PROVE  Holdings' /\ Waiting' /\ Writers'
    <2>1. RecordsKept
      BY <1>1 DEF RecordsKept
    <2>2. KindAllowed("job", pc) /\ pc \notin LockPCs \cup {"joined", "waitClose"}
      BY <1>1 DEF KindAllowed, LockPCs
    <2>3. Holdings'
      BY <1>1, <1>a, <1>b, <2>1, <2>2, GotoHolds DEF SlotPCs
    <2>4. Waiting'
      BY <1>1, <1>a, <1>b, <2>1, <2>2, GotoWaits
    <2>5. pc \in NewPCs => op[o].pc \in NewPCs /\ op[o].sess \notin disk' \cup live'
      BY <1>1, <1>a DEF NewPCs, LockPCs, Writers, NewUnknown
    <2>6. Writers'
      BY <1>1, <1>a, <1>b, <2>1, <2>5, GotoWrites
    <2> QED BY <2>3, <2>4, <2>6
  <1>2. ASSUME NEW b \in BOOLEAN, JobLeased(o, b)
        PROVE  Holdings' /\ Waiting' /\ Writers'
    <2>1. CASE b /\ ~op[o].stop /\ Accepting
      BY <1>1, <1>2, <2>1 DEF JobLeased
    <2>2. CASE ~(b /\ ~op[o].stop /\ Accepting)
      <3>1. /\ Return(o) /\ reserved' = reserved \ {o}
            /\ UNCHANGED <<live, rec, disk, queue, forkHold, temporary, shutdown>>
        BY <1>2, <2>2 DEF JobLeased
      <3>2. RecordsKept
        BY <3>1 DEF RecordsKept
      <3> QED BY <1>a, <1>b, <3>1, <3>2, ReturnKeeps
    <2> QED BY <2>1, <2>2
  <1>3. CASE JobTitles(o)
    <2>1. CASE Accepting /\ Owned(o)
      BY <1>1, <1>3, <2>1 DEF JobTitles
    <2>2. CASE ~(Accepting /\ Owned(o))
      BY <1>3, <1>a, <2>2, JobReleaseKeeps DEF JobTitles
    <2> QED BY <2>1, <2>2
  <1>4. ASSUME NEW b \in BOOLEAN, JobPrompts(o, b)
        PROVE  Holdings' /\ Waiting' /\ Writers'
    <2> DEFINE s == op[o].sess
    <2>1. CASE b /\ Accepting /\ ~op[o].stop /\ Owned(o) /\ rec[s].status = "idle" /\ ~IsStreaming(s)
      <3>1. /\ Goto(o, "prompting") /\ rec' = [rec EXCEPT ![s].pi = "preflight"] /\ op[o].pc = "titling"
            /\ UNCHANGED <<live, disk, queue, reserved, forkHold, temporary, shutdown>>
        BY <1>4, <2>1 DEF JobPrompts
      <3>2. \A t \in live : /\ rec'[t].closing = rec[t].closing /\ rec'[t].owner = rec[t].owner
                            /\ rec'[t].source = rec[t].source
        BY <1>a, <3>1 DEF TypeOK, RecRecord
      <3> QED BY <1>1, <3>1, <3>2
    <2>2. CASE ~(b /\ Accepting /\ ~op[o].stop /\ Owned(o) /\ rec[s].status = "idle" /\ ~IsStreaming(s))
      <3>1. /\ JobRelease(o) /\ op[o].pc = "titling"
            /\ UNCHANGED <<live, disk, queue, reserved, forkHold, temporary, shutdown>>
        BY <1>4, <2>2 DEF JobPrompts
      <3> QED BY <1>a, <3>1, JobReleaseKeeps
    <2> QED BY <2>1, <2>2
  <1>5. ASSUME NEW b \in BOOLEAN, JobPromptSettled(o, b)
        PROVE  Holdings' /\ Waiting' /\ Writers'
    <2>1. CASE b /\ ~op[o].stop /\ Accepting /\ ~(Owned(o) /\ rec[op[o].sess].terminal)
      BY <1>1, <1>5, <2>1 DEF JobPromptSettled
    <2>2. CASE ~(b /\ ~op[o].stop /\ Accepting /\ ~(Owned(o) /\ rec[op[o].sess].terminal))
      BY <1>5, <1>a, <2>2, JobReleaseKeeps DEF JobPromptSettled
    <2> QED BY <2>1, <2>2
  <1>6. CASE JobPostHookSettled(o)
    BY <1>6, <1>a, JobReleaseKeeps DEF JobPostHookSettled
  <1> QED BY <1>2, <1>3, <1>4, <1>5, <1>6

(* A call returns, or rejects, and lets go of what it holds.               *)
LEMMA EndKeeps ==
  ASSUME OwnershipInv, NEW o \in Ops,
         Joined(o) \/ Refreshed(o) \/ CapacityRefused(o) \/ BuildRejected(o) \/ Failed(o)
  PROVE  Holdings' /\ Waiting' /\ Writers'
  <1> USE DEF OwnershipInv
  <1>1. CASE Joined(o)
    <2>1. /\ op[o].pc = "joinDone" /\ Return(o)
          /\ UNCHANGED <<live, rec, disk, queue, reserved, forkHold, temporary, shutdown>>
      BY <1>1 DEF Joined
    <2>2. o \notin temporary /\ o \notin reserved \cup forkHold
      BY <2>1 DEF Holdings, TemporariesOwned, SlotsOwned, SourcesHeld, SlotPCs, KindsOfPCs, KindAllowed
    <2>3. RecordsKept /\ op[o].pc \notin LockPCs
      BY <2>1 DEF RecordsKept, LockPCs
    <2> QED BY <2>1, <2>2, <2>3, ReturnKeeps
  <1>2. CASE Refreshed(o)
    <2>1. /\ op[o].pc = "refreshing" /\ Return(o) /\ reserved' = reserved \ {o} /\ forkHold' = forkHold \ {o}
          /\ UNCHANGED <<live, rec, disk, queue, temporary, shutdown>>
      BY <1>2 DEF Refreshed, Release
    <2>2. o \notin temporary
      BY <2>1 DEF Holdings, TemporariesOwned
    <2>3. RecordsKept /\ op[o].pc \notin LockPCs
      BY <2>1 DEF RecordsKept, LockPCs
    <2> QED BY <2>1, <2>2, <2>3, ReturnKeeps
  <1>3. CASE CapacityRefused(o)
    <2>1. /\ op[o].pc \in LockPCs /\ HoldsLock(o) /\ queue' = Tail(queue) /\ Reject(o) /\ forkHold' = forkHold \ {o}
          /\ UNCHANGED <<live, rec, disk, reserved, temporary, shutdown>>
      BY <1>3 DEF CapacityRefused, Refused, AdmittedToLoop, LockPCs
    <2>2. o \notin temporary /\ o \notin reserved /\ op[o].pc # "free"
      BY <2>1 DEF Holdings, TemporariesOwned, SlotsOwned, SlotPCs, LockPCs
    <2> QED BY <2>1, <2>2, RejectKeeps
  <1>4. CASE BuildRejected(o)
    <2>1. /\ op[o].pc = "building" /\ Reject(o) /\ reserved' = reserved \ {o} /\ forkHold' = forkHold \ {o}
          /\ UNCHANGED <<live, rec, disk, queue, temporary, shutdown>>
      BY <1>4 DEF BuildRejected, Release
    <2>2. o \notin temporary /\ op[o].pc \notin LockPCs
      BY <2>1 DEF Holdings, TemporariesOwned, LockPCs
    <2> QED BY <2>1, <2>2, RejectKeeps
  <1>5. CASE Failed(o)
    <2>1. /\ op[o].pc = "failing" /\ Reject(o) /\ reserved' = reserved \ {o} /\ forkHold' = forkHold \ {o}
          /\ temporary' = temporary \ {o} /\ disk' \subseteq disk
          /\ UNCHANGED <<live, rec, queue, shutdown>>
      BY <1>5 DEF Failed, Release
    <2>2. op[o].pc \notin LockPCs
      BY <2>1 DEF LockPCs
    <2> QED BY <2>1, <2>2, RejectKeeps
  <1> QED BY <1>1, <1>2, <1>3, <1>4, <1>5

(* fork()'s catch block closes at most the record the fork registered.     *)
LEMMA RetractRecords ==
  ASSUME TypeOK, NEW o \in Ops, Retract(o)
  PROVE  \/ Goto(o, "failing") /\ UNCHANGED rec
         \/ /\ Goto(o, "retracting") /\ op[o].sess \in live /\ rec'[op[o].sess].closing
            /\ rec'[op[o].sess].owner = rec[op[o].sess].owner /\ rec'[op[o].sess].source = rec[op[o].sess].source
            /\ \A t \in live \ {op[o].sess} : rec'[t] = rec[t]
  BY DEF Retract, TypeOK, RecRecord

(* A fork that has registered takes its snapshot, or fails.                *)
LEMMA SnapshotKeeps ==
  ASSUME OwnershipInv, NEW o \in Ops,
         ForkSnapshot(o) \/ SnapshotTaken(o) \/ SnapshotMissing(o) \/ SnapshotFailed(o)
  PROVE  Holdings' /\ Waiting' /\ Writers'
  <1> USE DEF OwnershipInv
  <1>1. /\ op[o].pc \in {"snapshot", "checking", "missing"} /\ op[o].kind = "fork" /\ op[o].sess \in Sessions
        /\ disk' \subseteq disk /\ UNCHANGED <<live, queue, reserved, forkHold, temporary, shutdown>>
    BY DEF ForkSnapshot, SnapshotTaken, SnapshotMissing, SnapshotFailed, Holdings, KindsOfPCs, KindAllowed, SlotsHeld
  <1>2. PICK pc \in {"checking", "missing", "refreshing", "retracting", "failing"} :
           /\ Goto(o, pc)
           /\ pc = "retracting" => op[o].sess \in live /\ rec'[op[o].sess].closing
           /\ \A t \in live : /\ rec'[t].owner = rec[t].owner /\ rec'[t].source = rec[t].source
                              /\ rec[t].closing => rec'[t].closing
    <2>1. CASE Retract(o)
      BY <2>1, RetractRecords
    <2>2. CASE ForkSnapshot(o) /\ ~Retract(o)
      BY <2>2 DEF ForkSnapshot
    <2>3. CASE SnapshotTaken(o)
      BY <2>3 DEF SnapshotTaken
    <2>4. CASE SnapshotMissing(o)
      <3>1. \A t \in live : /\ rec'[t].owner = rec[t].owner /\ rec'[t].source = rec[t].source
                            /\ rec'[t].closing = rec[t].closing
        BY <1>1, <2>4 DEF SnapshotMissing, TypeOK, RecRecord
      <3> QED BY <2>4, <3>1 DEF SnapshotMissing
    <2> QED BY <2>1, <2>2, <2>3, <2>4 DEF SnapshotFailed
  <1>3. o \notin temporary /\ o \notin reserved
    BY <1>1 DEF Holdings, TemporariesOwned, SlotsOwned, SlotPCs
  <1>4. RecordsKept
    BY <1>1, <1>2 DEF RecordsKept
  <1>5. /\ op[o].pc \notin LockPCs /\ pc \notin LockPCs \cup {"joined", "waitClose"} /\ pc # "free"
        /\ KindAllowed(op[o].kind, pc)
    BY <1>1, <1>2 DEF LockPCs, KindAllowed
  <1>6. Holdings'
    BY <1>1, <1>2, <1>3, <1>4, <1>5, GotoHolds
  <1>7. Waiting'
    BY <1>1, <1>2, <1>4, <1>5, GotoWaits
  <1>8. Writers'
    BY <1>1, <1>2, <1>4, GotoWrites
  <1> QED BY <1>6, <1>7, <1>8

(* An open that was overtaken returns the other's record, or fails.        *)
LEMMA SupersededKeeps ==
  ASSUME OwnershipInv, NEW o \in Ops, NEW ok \in BOOLEAN, Superseded(o, ok)
  PROVE  Holdings' /\ Waiting' /\ Writers'
  <1> USE DEF OwnershipInv
  <1>1. /\ op[o].pc = "superseded" /\ op[o].kind \in {"create", "open"}
        /\ UNCHANGED <<live, rec, disk, queue, forkHold, temporary, shutdown>>
    BY DEF Superseded, Holdings, KindsOfPCs, KindAllowed
  <1>2. PICK pc \in {"registered", "failing"} : Goto(o, pc) /\ reserved' \subseteq reserved
    BY DEF Superseded, Fail
  <1>3. o \notin temporary /\ RecordsKept
    BY <1>1 DEF Holdings, TemporariesOwned, RecordsKept
  <1>4. /\ op[o].pc \notin LockPCs /\ pc \notin LockPCs \cup NewPCs \cup {"joined", "waitClose"} /\ pc # "free"
        /\ KindAllowed(op[o].kind, pc) /\ pc \in SlotPCs
    BY <1>1, <1>2 DEF LockPCs, NewPCs, SlotPCs, KindAllowed
  <1>5. Holdings'
    BY <1>1, <1>2, <1>3, <1>4, GotoHolds
  <1>6. Waiting'
    BY <1>1, <1>2, <1>3, <1>4, GotoWaits
  <1>7. Writers'
    BY <1>1, <1>2, <1>3, <1>4, GotoWrites
  <1> QED BY <1>5, <1>6, <1>7

(* Every continuation of a call keeps or returns what it holds.            *)
LEMMA ContinueKeeps ==
  ASSUME OwnershipInv, NEW o \in Ops, Continue(o)
  PROVE  Holdings' /\ Waiting' /\ Writers'
  <1> USE DEF OwnershipInv
  <1>1. CASE Reopen(o)
    <2>1. op[o].pc = "reopen" /\ UNCHANGED <<live, rec, disk, reserved, forkHold, temporary, shutdown>>
      BY <1>1 DEF Reopen
    <2>2. CASE Accepting
      <3>1. OpenLookup(o, op[o].sess) /\ op[o].sess \in Sessions
        BY <1>1, <2>1, <2>2 DEF Reopen, SlotsHeld
      <3> QED BY <2>1, <2>2, <3>1, OpenLookupKeeps
    <2>3. CASE ~Accepting
      <3>1. Return(o) /\ UNCHANGED queue
        BY <1>1, <2>3 DEF Reopen
      <3>2. o \notin temporary /\ o \notin reserved \cup forkHold
        BY <2>1 DEF Holdings, TemporariesOwned, SlotsOwned, SourcesHeld, SlotPCs, KindsOfPCs, KindAllowed
      <3>3. RecordsKept /\ op[o].pc \notin LockPCs
        BY <2>1 DEF RecordsKept, LockPCs
      <3> QED BY <2>1, <3>1, <3>2, <3>3, ReturnKeeps
    <2> QED BY <2>2, <2>3
  <1> QED BY <1>1, ReserveSlotKeeps, EvictKeeps, BuildKeeps, RegisterKeeps, SupersededKeeps, SlotReturnedKeeps,
             SnapshotKeeps, JobKeeps, EndKeeps DEF Continue
-----------------------------------------------------------------------------
(* The theorems.                                                           *)

(* The registry starts with no call, no record and nothing held.           *)
LEMMA InitOwnership == Init => OwnershipInv
  <1> SUFFICES ASSUME Init PROVE OwnershipInv
    OBVIOUS
  <1>1. TypeOK /\ SlotsHeld
    BY InitInv DEF Inv
  <1>2. /\ live = {} /\ queue = <<>> /\ reserved = {} /\ forkHold = {} /\ temporary = {} /\ shutdown = "no"
        /\ \A o \in Ops : op[o].pc = "free" /\ op[o].kind = "create"
        /\ DOMAIN queue = {}
    BY FreeFields DEF Init
  <1>3. Holdings
    BY <1>2 DEF Holdings, KindsOfPCs, KindAllowed, SlotsOwned, SourcesHeld, TemporariesOwned, SourcesSafe,
                NoneOutlivesDispose
  <1>4. OneOpener /\ QueueDistinct
    BY <1>2 DEF OneOpener, Opener, QueueDistinct
  <1>5. WaitersServed
    BY <1>2 DEF WaitersServed
  <1>6. Writers
    BY <1>2 DEF Writers, NewUnknown, NewPCs, LockPCs, OpenAlone, Opener
  <1> QED BY <1>1, <1>3, <1>4, <1>5, <1>6 DEF OwnershipInv, Waiting

(* Every step of every handler preserves who owns what.                    *)
LEMMA StepOwnership == OwnershipInv /\ Inv' /\ [Next]_vars => OwnershipInv'
  <1> SUFFICES ASSUME OwnershipInv, Inv', [Next]_vars PROVE OwnershipInv'
    OBVIOUS
  <1>1. ASSUME NEW o \in Ops, Request(o)
        PROVE  Holdings' /\ Waiting' /\ Writers'
    BY <1>1, RequestKeeps
  <1>2. ASSUME NEW o \in Ops, Continue(o)
        PROVE  Holdings' /\ Waiting' /\ Writers'
    BY <1>2, ContinueKeeps
  <1>3. ASSUME NEW s \in Sessions, Settle(s)
        PROVE  Holdings' /\ Waiting' /\ Writers'
    BY <1>3, DisposeSettledKeeps DEF Settle
  <1>4. ASSUME NEW s \in Sessions, Run(s) \/ Client(s) \/ AbortSettled(s) \/ RuntimeFailure(s)
        PROVE  Holdings' /\ Waiting' /\ Writers'
    BY <1>4, SessionStepRecords, OnlyRecordsKeeps
  <1>5. ASSUME BeginShutdown \/ DisposeAll \/ Terminated \/ UNCHANGED vars
        PROVE  Holdings' /\ Waiting' /\ Writers'
    BY <1>5, ShutdownKeeps DEF Terminated
  <1>6. Holdings' /\ Waiting' /\ Writers'
    BY <1>1, <1>2, <1>3, <1>4, <1>5 DEF Next
  <1> QED BY <1>6 DEF OwnershipInv, Inv

(* Who owns what is an invariant of every behaviour of the registry.       *)
THEOREM Ownership == Spec => []OwnershipInv
  BY InitOwnership, StepOwnership, Invariance, PTL DEF Spec

(* A call that has returned or rejected, on whichever path, has given back *)
(* its slot, its hold on a fork source and its temporary runtime.          *)
THEOREM HoldingsReturned == Spec => []NothingLeaks
  <1>1. OwnershipInv => NothingLeaks
    BY DEF OwnershipInv, NothingLeaks, Holdings, TemporariesOwned, SlotsOwned, SlotPCs, SourcesHeld
  <1> QED BY <1>1, Ownership, PTL

(* No call closes the source of a fork under way, but the fork that made   *)
(* this source and fails.                                                  *)
LEMMA ContinueSources ==
  ASSUME OwnershipInv, NEW q \in Ops, Continue(q)
  PROVE  SourcesKept
  <1> USE DEF OwnershipInv
  <1> SUFFICES ASSUME NEW o \in forkHold, NEW s, s = op[o].src, s \in live, ~rec[s].closing,
                      ~(s \in live' /\ ~rec'[s].closing)
               PROVE  \E p \in Ops : op[p].kind = "fork" /\ op[p].sess = s /\ op'[p].pc = "retracting"
    BY DEF SourcesKept
  <1>0. /\ rec[s].owner = NoOp /\ s \in Sessions /\ rec \in [Sessions -> RecRecord]
        /\ \A p \in Ops : op[p].kind \in Kinds
    BY DEF Holdings, SourcesSafe, TypeOK, OpRecord
  <1>1. CASE UNCHANGED <<live, rec>>
    BY <1>1
  <1>2. CASE Evict(q)
    <2>1. PICK v \in LeastRecentlyUsedIdle(op[q].src) : rec' = [rec EXCEPT ![v].closing = TRUE]
      BY <1>2 DEF Evict
    <2>2. v # s
      BY DEF LeastRecentlyUsedIdle, Evictable, HasForkReservation
    <2> QED BY <1>0, <1>2, <2>1, <2>2 DEF Evict
  <1>3. CASE Register(q)
    BY <1>0, <1>3 DEF Register
  <1>4. CASE SnapshotMissing(q)
    BY <1>0, <1>4 DEF SnapshotMissing, RecRecord
  <1>5. ASSUME JobRelease(q), UNCHANGED live
        PROVE  FALSE
    <2>1. CASE Owned(q)
      <3>1. op[q].sess # s
        BY <1>0, <2>1, NullAssumption DEF Owned
      <3> QED BY <1>0, <1>5, <2>1, <3>1 DEF JobRelease
    <2>2. CASE ~Owned(q)
      BY <1>5, <2>2 DEF JobRelease
    <2> QED BY <2>1, <2>2
  <1>6. CASE \/ \E b \in BOOLEAN : JobPrompts(q, b) \/ JobPromptSettled(q, b)
             \/ JobTitles(q) \/ JobPostHookSettled(q)
    <2>1. UNCHANGED live
      BY <1>6 DEF JobPrompts, JobPromptSettled, JobTitles, JobPostHookSettled
    <2>2. CASE UNCHANGED rec \/ JobRelease(q)
      BY <1>1, <1>5, <2>1, <2>2
    <2>3. CASE rec' = [rec EXCEPT ![op[q].sess].pi = "preflight"]
      BY <1>0, <2>1, <2>3 DEF RecRecord
    <2> QED BY <1>6, <2>2, <2>3 DEF JobPrompts, JobPromptSettled, JobTitles, JobPostHookSettled
  <1>7. CASE ForkSnapshot(q) \/ SnapshotFailed(q)
    <2>1. UNCHANGED live /\ op[q].kind = "fork"
      BY <1>7 DEF ForkSnapshot, SnapshotFailed, Holdings, KindsOfPCs, KindAllowed
    <2>2. CASE Retract(q)
      <3>1. op[q].sess = s /\ Goto(q, "retracting")
        BY <1>1, <2>1, <2>2, RetractRecords
      <3> QED BY <2>1, <3>1, GotoFields
    <2>3. CASE UNCHANGED rec
      BY <1>1, <2>1, <2>3
    <2> QED BY <1>7, <2>2, <2>3 DEF ForkSnapshot, SnapshotFailed
  <1>8. CASE \/ Reopen(q) \/ Joined(q) \/ ReserveSlot(q) \/ CapacityRefused(q) \/ ForkProceeds(q)
             \/ Built(q) \/ BuildRejected(q) \/ ForkReplaced(q) \/ ForkRejected(q) \/ SlotReturned(q)
             \/ SnapshotTaken(q) \/ Refreshed(q) \/ Failed(q)
             \/ \E b \in BOOLEAN : Superseded(q, b) \/ JobLeased(q, b)
    <2>1. UNCHANGED <<live, rec>>
      BY <1>8 DEF Reopen, Joined, ReserveSlot, CapacityRefused, ForkProceeds, Built, BuildRejected, ForkReplaced,
                  ForkRejected, SlotReturned, SnapshotTaken, Refreshed, Failed, Superseded, JobLeased
    <2> QED BY <1>1, <2>1
  <1> QED BY <1>2, <1>3, <1>4, <1>6, <1>7, <1>8 DEF Continue

(* No step closes or evicts the source of a fork under way, with the two   *)
(* exceptions ForkSourceProtected names.                                   *)
LEMMA StepSources == OwnershipInv /\ [Next]_vars => [SourcesKept]_vars
  <1> SUFFICES ASSUME OwnershipInv, Next PROVE SourcesKept
    OBVIOUS
  <1>1. ASSUME UNCHANGED <<live, rec>>
        PROVE  SourcesKept
    BY <1>1 DEF SourcesKept
  <1>2. ASSUME OnlyRecords
        PROVE  SourcesKept
    BY <1>2 DEF OnlyRecords, SourcesKept, HasForkReservation
  <1>3. ASSUME NEW o \in Ops, Request(o)
        PROVE  SourcesKept
    BY <1>1, <1>3 DEF Request, RequestNew, RequestOpen, RequestFork
  <1>4. ASSUME NEW o \in Ops, Continue(o)
        PROVE  SourcesKept
    BY <1>4, ContinueSources
  <1>5. ASSUME NEW s \in Sessions, NEW ok \in BOOLEAN, DisposeSettled(s, ok)
        PROVE  SourcesKept
    <2>1. rec[s].closing /\ live' = live \ {s} /\ rec' = [rec EXCEPT ![s] = NoRec]
      BY <1>5 DEF DisposeSettled
    <2> QED BY <2>1 DEF SourcesKept, OwnershipInv, TypeOK
  <1>6. ASSUME NEW s \in Sessions, Run(s) \/ Client(s) \/ AbortSettled(s) \/ RuntimeFailure(s)
        PROVE  SourcesKept
    BY <1>2, <1>6, SessionStepRecords
  <1>7. CASE BeginShutdown
    BY <1>2, <1>7, ShutdownRecords DEF OwnershipInv
  <1>8. CASE DisposeAll
    BY <1>8 DEF DisposeAll, SourcesKept
  <1>9. CASE Terminated
    BY <1>1, <1>9 DEF Terminated, vars
  <1> QED BY <1>3, <1>4, <1>5, <1>6, <1>7, <1>8, <1>9 DEF Next, Settle

(* Nothing but dispose() and the error path of the fork that made it       *)
(* closes or evicts the source of a fork while fork() is under way.        *)
THEOREM ForkSourcesProtected == Spec => ForkSourceProtected
  BY Ownership, StepSources, PTL DEF Spec, ForkSourceProtected

(* No record escapes dispose(): none is registered after it has run.       *)
THEOREM DisposeTakesAll == Spec => []NoneOutlivesDispose
  <1>1. OwnershipInv => NoneOutlivesDispose
    BY DEF OwnershipInv, Holdings
  <1> QED BY <1>1, Ownership, PTL

(* No wakeup is lost: whoever awaits an open, a close, an eviction or the  *)
(* capacity lock has a counterpart that is still going to settle it.       *)
THEOREM NoWakeupLost == Spec => []WaitersServed
  <1>1. OwnershipInv => WaitersServed
    BY DEF OwnershipInv, Waiting
  <1> QED BY <1>1, Ownership, PTL

(* A session's file has one writer: open() calls share one construction,   *)
(* and none goes on beside a record, that of a fork it lost to excepted.   *)
THEOREM OneWriterPerFile == Spec => []SingleWriter
  <1>1. OwnershipInv => SingleWriter
    <2> SUFFICES ASSUME OwnershipInv, NEW s \in Sessions
                 PROVE  LET opening == {o \in Ops : /\ op[o].kind = "open" /\ op[o].sess = s
                                                    /\ op[o].pc \in {"building", "registering", "superseded",
                                                                     "failing"}}
                        IN /\ Cardinality(opening) <= 1
                           /\ s \in live /\ opening # {} => rec[s].source = "fork"
      BY DEF SingleWriter
    <2> DEFINE opening == {o \in Ops : /\ op[o].kind = "open" /\ op[o].sess = s
                                       /\ op[o].pc \in {"building", "registering", "superseded", "failing"}}
    <2>1. \A o, p \in opening : o = p
      BY DEF OwnershipInv, Waiting, OneOpener, Opener
    <2>2. \A o \in opening : s \in live => rec[s].source = "fork"
      BY DEF OwnershipInv, Writers, OpenAlone, Opener
    <2> HIDE DEF opening
    <2>3. opening = {} \/ \E o : opening = {o}
      BY <2>1
    <2>4. Cardinality(opening) <= 1
      <3>1. CASE opening = {}
        BY <3>1, FS_EmptySet
      <3>2. ASSUME NEW o, opening = {o}
            PROVE  Cardinality(opening) <= 1
        <4>1. Cardinality({o}) = 1
          BY FS_Singleton, Zenon
        <4> QED BY <3>2, <4>1
      <3> QED BY <2>3, <3>1, <3>2
    <2>5. s \in live /\ opening # {} => rec[s].source = "fork"
      BY <2>2
    <2> QED BY <2>4, <2>5 DEF opening
  <1> QED BY <1>1, Ownership, PTL
==============================================================================
