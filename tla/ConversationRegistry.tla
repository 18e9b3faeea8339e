------------------------- MODULE ConversationRegistry -------------------------
(***************************************************************************)
(* The process-wide owner of live conversation runtimes                    *)
(* (src/server/conversation-registry.ts), together with the part of        *)
(* JobRunner.#execute that uses it and of PiConversationRuntime it drives. *)
(*                                                                         *)
(* The server is one JavaScript thread: an action is the code that runs    *)
(* between two awaits.  An element of Ops is one asynchronous call in      *)
(* flight (create, open, fork, or a job's use of the registry) and its pc  *)
(* names the await it is suspended at.  An element of Sessions is a Pi     *)
(* session: its id and its canonical file, which the registry indexes      *)
(* together.  A call that will create a session is given its (fresh)       *)
(* identity when it starts.                                                *)
(***************************************************************************)
EXTENDS Naturals, Sequences, FiniteSets

CONSTANTS
    Ops,        \* slots for calls in flight
    Sessions,   \* Pi session identities
    MaxLive,    \* #maxLiveConversations
    Calls,      \* which calls arrive (a bound of the instance)
    MaxPrompted,    \* bound: browsers prompt while fewer conversations are busy
    NoOp, NoSession

Kinds == {"create", "open", "fork", "job"}

ASSUME CallsAssumption == Calls \subseteq Kinds
ASSUME MaxLiveAssumption == MaxLive \in Nat \ {0}
ASSUME FiniteAssumption == IsFiniteSet(Ops) /\ IsFiniteSet(Sessions)
ASSUME NullAssumption == NoOp \notin Ops /\ NoSession \notin Sessions

VARIABLES
    live,       \* #byId / #bySessionFile: the sessions that have a record
    rec,        \* the record of each live session
    older,      \* <<a, b>>: lastActiveAt of a is before that of b
    disk,       \* the sessions whose JSONL file exists
    op,         \* the calls in flight
    queue,      \* #capacityTail: calls waiting for the capacity lock; the head holds it
    reserved,   \* #capacityReservations, as the calls whose slot is not yet released
    forkHold,   \* #forkSourceReservations, as the forks that still hold their source
    temporary,  \* #temporaryRuntimes, as the forks that own one
    shutdown    \* "no", "begun" (beginShutdown), "disposed" (dispose called)

vars == <<live, rec, older, disk, op, queue, reserved, forkHold, temporary, shutdown>>

(* The await at which a call is suspended.                                 *)
PCs == {"free",
        "queued",       \* #reserveCapacity: await previous
        "evicting",     \* await #disposeRecord(candidate, "evict")
        "evicted",      \* that promise resolved: re-test the loop condition
        "evictFailed",  \* that promise rejected
        "granted",      \* reserveFork resolved, fork() not yet resumed
        "leased",       \* a job holds a lease (its pre-run hook runs here)
        "building",     \* await createPersistent / openPersistent
        "forking",      \* await temporary.fork
        "registering",  \* #register: await canonicalFile
        "superseded",   \* #register: await disposal of a duplicate's runtime
        "registered",   \* record inserted, #register's caller not yet past its next await
        "snapshot",     \* fork: registered, getState not yet called
        "checking",     \* fork: getState awaits #refreshDurability
        "missing",      \* ... which found no file: await #refreshHistory
        "refreshing",   \* await #refreshHistory before returning
        "retracting",   \* fork's error path: await #disposeRecord(registered)
        "failing",      \* error path: await disposal of the runtime
        "stranded",     \* fork() rejected without releasing what it had reserved
        "waitClose",    \* open: await the pending close of the existing record
        "reopen",       \* ... which resolved: open again
        "joined",       \* open: await another call's #openAndRegister
        "joinDone",     \* ... which resolved
        "titling",      \* job: await setJobConversationTitle
        "prompting",    \* job: await runJobPrompt
        "postHook",     \* job: await the post-run hook
        "releasing"}    \* job: await releaseJobConversation

FreeOp == [pc |-> "free", kind |-> "create", sess |-> NoSession,
           src |-> NoSession, victim |-> NoSession, stop |-> FALSE]

(* The record #register inserts, for its source and owner.                 *)
NewRec(source, owner) ==
    [status |-> "idle", terminal |-> FALSE, closing |-> FALSE, abort |-> FALSE,
     pi |-> "none", source |-> source, owner |-> owner]

NoRec == NewRec("create", NoOp)

OpRecord == [pc : PCs, kind : Kinds, sess : Sessions \cup {NoSession},
             src : Sessions \cup {NoSession}, victim : Sessions \cup {NoSession},
             stop : BOOLEAN]

RecRecord == [status : {"idle", "streaming", "aborting", "error"},
              terminal : BOOLEAN, closing : BOOLEAN, abort : BOOLEAN,
              pi : {"none", "preflight", "running", "ended", "held"},
              source : Kinds, owner : Ops \cup {NoOp}]

(* The type invariant: the registry's indexes, records and calls in flight *)
(* keep their shapes through every handler.                                *)
TypeOK ==
    /\ live \subseteq Sessions
    /\ rec \in [Sessions -> RecRecord]
    /\ older \subseteq Sessions \X Sessions
    /\ disk \subseteq Sessions
    /\ op \in [Ops -> OpRecord]
    /\ queue \in Seq(Ops)
    /\ reserved \subseteq Ops
    /\ forkHold \subseteq Ops
    /\ temporary \subseteq Ops
    /\ shutdown \in {"no", "begun", "disposed"}

Init ==
    /\ live = {}
    /\ rec = [s \in Sessions |-> NoRec]
    /\ older = {}
    /\ disk \in SUBSET Sessions
    /\ op = [o \in Ops |-> FreeOp]
    /\ queue = <<>>
    /\ reserved = {}
    /\ forkHold = {}
    /\ temporary = {}
    /\ shutdown = "no"

-----------------------------------------------------------------------------
(* Predicates the handlers test.                                           *)

AcceptingAlways == TRUE                               \* mutant: the test is dropped

Accepting == shutdown = "no"                          \* #assertAcceptingWork

IsStreaming(s) == rec[s].pi \in {"running", "ended"}  \* session.isStreaming

IsBusy(s) == rec[s].status \in {"streaming", "aborting"} \/ IsStreaming(s)

HasForkReservation(s) == \E f \in forkHold : op[f].src = s

AssertForkSource(s) ==
    /\ s \in live
    /\ rec[s].owner = NoOp
    /\ rec[s].status = "idle"
    /\ ~IsStreaming(s)
    /\ ~rec[s].closing

(* Mutant: the pending open is published only once a slot is reserved.     *)
PendingOpenTooLate(s) ==
    \E o \in Ops : /\ op[o].kind = "open" /\ op[o].sess = s
                   /\ op[o].pc \in {"building", "registering", "registered", "refreshing"}

(* #pendingOpens has the file of s until the opening call has returned.    *)
PendingOpen(s) ==
    \E o \in Ops : /\ op[o].kind = "open" /\ op[o].sess = s
                   /\ op[o].pc \in {"queued", "evicting", "evicted", "evictFailed", "building",
                                    "registering", "superseded", "registered", "refreshing",
                                    "failing"}

OpenSettled(s) == \E o \in Ops : /\ op[o].kind = "open" /\ op[o].sess = s
                                 /\ op[o].pc = "refreshing"

(* #requiredOwned: the record is registered, carries this run as its owner *)
(* and is not closing.                                                     *)
Owned(o) == LET s == op[o].sess
            IN s \in live /\ rec[s].owner = o /\ ~rec[s].closing

Fresh(s) == s \notin disk \cup live /\ \A o \in Ops : op[o].sess # s /\ op[o].src # s

-----------------------------------------------------------------------------
(* State transformers shared by the handlers.                              *)

(* #touch, given the set L of records after the step.                      *)
Touched(s, L) == {p \in older : p[1] # s} \cup {<<t, s>> : t \in L \ {s}}

(* #emitConversationEvent for a conversation.status event.                 *)
StatusEvent(r, st) ==
    IF r.closing \/ (r.terminal /\ st # "error") THEN r
    ELSE [r EXCEPT !.status = st, !.terminal = r.terminal \/ st = "error"]

(* Mutant: eviction overlooks fork sources.                                *)
EvictableForkSource(protected) ==
    {s \in live : /\ s # protected
                  /\ rec[s].status = "idle"
                  /\ ~IsStreaming(s)
                  /\ ~rec[s].closing}

(* The idle candidates for eviction, and the least recently used of them.  *)
Evictable(protected) ==
    {s \in live : /\ s # protected
                  /\ rec[s].status = "idle"
                  /\ ~IsStreaming(s)
                  /\ ~rec[s].closing
                  /\ ~HasForkReservation(s)}

LeastRecentlyUsedIdle(protected) ==
    {s \in Evictable(protected) :
        \A t \in Evictable(protected) : <<t, s>> \notin older}

Goto(o, pc) == op' = [op EXCEPT ![o].pc = pc]

Return(o) == op' = [op EXCEPT ![o] = FreeOp]

SharedWithNone(o) == {}     \* mutant: the shared promise is never settled

(* The calls that share the pending open of o, and settle with it.         *)
SharedWith(o) == {p \in Ops : /\ op[o].kind = "open"
                              /\ op[p].pc = "joined" /\ op[p].sess = op[o].sess}

Reject(o) == op' = [p \in Ops |-> IF p \in {o} \cup SharedWith(o) THEN FreeOp ELSE op[p]]

(* Mutant: the hold on the fork source is not given back.                  *)
ReleaseSlotOnly(o) == reserved' = reserved \ {o} /\ UNCHANGED forkHold

Release(o) == reserved' = reserved \ {o} /\ forkHold' = forkHold \ {o}
-----------------------------------------------------------------------------
(* Calls arrive.                                                           *)

Start(o, kind, s, src) ==
    op' = [op EXCEPT ![o] = [FreeOp EXCEPT !.pc = "queued", !.kind = kind, !.sess = s, !.src = src]]

(* create() and, for a job, reserveRuntimeCapacity(): both go straight to  *)
(* the capacity lock.                                                      *)
RequestNew(o, kind, s) ==
    /\ Accepting
    /\ op[o].pc = "free"
    /\ Fresh(s)
    /\ Start(o, kind, s, NoSession)
    /\ queue' = Append(queue, o)
    /\ UNCHANGED <<live, rec, older, disk, reserved, forkHold, temporary, shutdown>>

(* open(), from the lookup of the canonical file on.                       *)
OpenLookup(o, s) ==
    \/ /\ s \in live /\ rec[s].closing
       /\ op' = [op EXCEPT ![o] = [FreeOp EXCEPT !.pc = "waitClose", !.kind = "open", !.sess = s]]
       /\ UNCHANGED <<older, queue>>
    \/ /\ s \in live /\ ~rec[s].closing
       /\ Return(o)
       /\ older' = Touched(s, live)
       /\ UNCHANGED queue
    \/ /\ s \notin live /\ PendingOpen(s)
       /\ op' = [op EXCEPT ![o] =
                    [FreeOp EXCEPT !.kind = "open", !.sess = s,
                                   !.pc = IF OpenSettled(s) THEN "joinDone" ELSE "joined"]]
       /\ UNCHANGED <<older, queue>>
    \/ /\ s \notin live /\ ~PendingOpen(s)
       /\ Start(o, "open", s, NoSession)
       /\ queue' = Append(queue, o)
       /\ UNCHANGED older

RequestOpen(o, s) ==
    /\ Accepting
    /\ op[o].pc = "free"
    /\ s \in disk
    /\ OpenLookup(o, s)
    /\ UNCHANGED <<live, rec, disk, reserved, forkHold, temporary, shutdown>>

(* The awaited close settled: open() starts over.                          *)
Reopen(o) ==
    /\ op[o].pc = "reopen"
    /\ IF Accepting THEN OpenLookup(o, op[o].sess) ELSE Return(o) /\ UNCHANGED <<older, queue>>
    /\ UNCHANGED <<live, rec, disk, reserved, forkHold, temporary, shutdown>>

(* The other call's pending open resolved; the record it produced, if it   *)
(* is still there, is touched.                                             *)
Joined(o) ==
    /\ op[o].pc = "joinDone"
    /\ Return(o)
    /\ older' = IF op[o].sess \in live THEN Touched(op[o].sess, live) ELSE older
    /\ UNCHANGED <<live, rec, disk, queue, reserved, forkHold, temporary, shutdown>>

(* fork() up to the lock: reserveFork validates and protects the source    *)
(* before it waits.                                                        *)
RequestFork(o, src, s) ==
    /\ Accepting
    /\ op[o].pc = "free"
    /\ AssertForkSource(src)
    /\ Fresh(s)
    /\ Start(o, "fork", s, src)
    /\ forkHold' = forkHold \cup {o}
    /\ queue' = Append(queue, o)
    /\ UNCHANGED <<live, rec, older, disk, reserved, temporary, shutdown>>
-----------------------------------------------------------------------------
(* #reserveCapacity, run by the call at the head of the queue.             *)

HoldsLock(o) == queue # <<>> /\ Head(queue) = o

(* Admission and the fork's re-validation are tested once, before the loop.*)
AdmittedToLoop(o) ==
    \/ /\ op[o].pc = "queued"
       /\ Accepting
       /\ op[o].kind = "fork" => AssertForkSource(op[o].src)
    \/ op[o].pc = "evicted"

(* Mutant: off by one.                                                     *)
FullOffByOne == Cardinality(live) + Cardinality(reserved) > MaxLive

Full == Cardinality(live) + Cardinality(reserved) >= MaxLive

ReserveSlot(o) ==
    /\ HoldsLock(o)
    /\ AdmittedToLoop(o)
    /\ ~Full
    /\ reserved' = reserved \cup {o}
    /\ queue' = Tail(queue)
    /\ op' = [op EXCEPT ![o].victim = NoSession,
                        ![o].pc = CASE op[o].kind = "job" -> "leased"
                                    [] op[o].kind = "fork" -> "granted"
                                    [] OTHER -> "building"]
    /\ UNCHANGED <<live, rec, older, disk, forkHold, temporary, shutdown>>

(* #disposeRecord: unsubscribe and start the disposal; the record stays in *)
(* the indexes until the runtime is torn down.                             *)
Evict(o) ==
    /\ HoldsLock(o)
    /\ AdmittedToLoop(o)
    /\ Full
    /\ \E v \in LeastRecentlyUsedIdle(op[o].src) :
          /\ rec' = [rec EXCEPT ![v].closing = TRUE]
          /\ op' = [op EXCEPT ![o].pc = "evicting", ![o].victim = v]
    /\ UNCHANGED <<live, older, disk, queue, reserved, forkHold, temporary, shutdown>>

(* Shutting down, source no longer forkable, no candidate, or the eviction *)
(* failed: the lock is released and the call rejects.                      *)
Refused(o) ==
    \/ op[o].pc = "queued" /\ ~AdmittedToLoop(o)
    \/ AdmittedToLoop(o) /\ Full /\ Evictable(op[o].src) = {}
    \/ op[o].pc = "evictFailed"

CapacityRefused(o) ==
    /\ HoldsLock(o)
    /\ Refused(o)
    /\ queue' = Tail(queue)
    /\ Reject(o)
    /\ forkHold' = forkHold \ {o}
    /\ UNCHANGED <<live, rec, older, disk, reserved, temporary, shutdown>>

(* The runtime's disposal settles: the record leaves the indexes whether   *)
(* or not it succeeded, and the calls awaiting it continue or reject.      *)
DisposeSettled(s, ok) ==
    /\ s \in live
    /\ rec[s].closing
    /\ live' = live \ {s}
    /\ rec' = [rec EXCEPT ![s] = NoRec]
    /\ older' = {p \in older : p[1] # s /\ p[2] # s}
    /\ op' = [o \in Ops |->
                CASE op[o].pc = "evicting" /\ op[o].victim = s ->
                        [op[o] EXCEPT !.pc = IF ok THEN "evicted" ELSE "evictFailed"]
                  [] op[o].pc = "waitClose" /\ op[o].sess = s ->
                        IF ok THEN [op[o] EXCEPT !.pc = "reopen"] ELSE FreeOp
                  [] op[o].pc = "releasing" /\ op[o].sess = s -> FreeOp
                  [] op[o].pc = "retracting" /\ op[o].sess = s -> [op[o] EXCEPT !.pc = "failing"]
                  [] OTHER -> op[o]]
    /\ UNCHANGED <<disk, queue, reserved, forkHold, temporary, shutdown>>
-----------------------------------------------------------------------------
(* Construction and registration.                                          *)

(* fork() resumes.  Its lookup of the source stands outside its try block: *)
(* when the source has gone, neither reservation is ever given back.       *)
ForkProceeds(o) ==
    /\ op[o].pc = "granted"
    /\ IF op[o].src \in live THEN Goto(o, "building") ELSE Goto(o, "stranded")
    /\ UNCHANGED <<live, rec, older, disk, queue, reserved, forkHold, temporary, shutdown>>

(* The error path that still owns a runtime.  createJobConversation gives  *)
(* its lease back before it disposes the runtime, the others after.        *)
Fail(o) ==
    /\ Goto(o, "failing")
    /\ reserved' = IF op[o].kind = "job" THEN reserved \ {o} ELSE reserved

(* The runtime factory resolves; admission is tested again.                *)
Built(o) ==
    /\ op[o].pc = "building"
    /\ temporary' = IF op[o].kind = "fork" THEN temporary \cup {o} ELSE temporary
    /\ IF Accepting
       THEN /\ Goto(o, IF op[o].kind = "fork" THEN "forking" ELSE "registering")
            /\ UNCHANGED reserved
       ELSE Fail(o)
    /\ UNCHANGED <<live, rec, older, disk, queue, forkHold, shutdown>>

(* The factory rejects: there is no runtime to dispose.                    *)
BuildRejected(o) ==
    /\ op[o].pc = "building"
    /\ Reject(o)
    /\ Release(o)
    /\ UNCHANGED <<live, rec, older, disk, queue, temporary, shutdown>>

(* temporary.fork resolves: the fork's file exists, and #register starts   *)
(* with another admission test.                                            *)
ForkReplaced(o) ==
    /\ op[o].pc = "forking"
    /\ o \in temporary
    /\ disk' = disk \cup {op[o].sess}
    /\ Goto(o, IF Accepting THEN "registering" ELSE "failing")
    /\ UNCHANGED <<live, rec, older, queue, reserved, forkHold, temporary, shutdown>>

(* temporary.fork rejects or is cancelled; it rejects when dispose() has   *)
(* already torn the temporary runtime down.                                *)
ForkRejected(o) ==
    /\ op[o].pc = "forking"
    /\ Goto(o, "failing")
    /\ UNCHANGED <<live, rec, older, disk, queue, reserved, forkHold, temporary, shutdown>>

(* #register after its await: admission, duplicate check and insertion in  *)
(* one step.  Of two runtimes of a session the later one is disposed; fork *)
(* and job then fail, create and open return the record there is.          *)
Register(o) ==
    LET s == op[o].sess IN
    /\ op[o].pc = "registering"
    /\ \/ /\ ~Accepting \/ (s \in live /\ op[o].kind \in {"fork", "job"})
          /\ Fail(o)
          /\ UNCHANGED <<live, rec, older, temporary>>
       \/ /\ Accepting /\ s \in live /\ op[o].kind \in {"create", "open"}
          /\ Goto(o, "superseded")
          /\ UNCHANGED <<live, rec, older, reserved, temporary>>
       \/ /\ Accepting /\ s \notin live
          /\ live' = live \cup {s}
          /\ rec' = [rec EXCEPT ![s] = NewRec(op[o].kind, IF op[o].kind = "job" THEN o ELSE NoOp)]
          /\ older' = Touched(s, live \cup {s})
          /\ reserved' = IF op[o].kind \in {"fork", "job"} THEN reserved \ {o} ELSE reserved
          /\ temporary' = temporary \ {o}
          /\ Goto(o, IF op[o].kind = "fork" THEN "snapshot" ELSE "registered")
    /\ UNCHANGED <<disk, queue, forkHold, shutdown>>

(* The duplicate's runtime is disposed, or its disposal rejects.           *)
Superseded(o, ok) ==
    LET s == op[o].sess IN
    /\ op[o].pc = "superseded"
    /\ op[o].kind \in {"create", "open"}
    /\ IF ok THEN Goto(o, "registered") /\ UNCHANGED reserved ELSE Fail(o)
    /\ older' = IF ok /\ s \in live THEN Touched(s, live) ELSE older
    /\ UNCHANGED <<live, rec, disk, queue, forkHold, temporary, shutdown>>

(* create(): #refreshHistory, then the finally block.  open(): the finally *)
(* block of #openAndRegister, then #refreshHistory.                        *)
SlotReturned(o) ==
    /\ op[o].pc = "registered"
    /\ op[o].kind \in {"create", "open"}
    /\ reserved' = reserved \ {o}
    /\ op' = [p \in Ops |->
                 CASE p = o /\ op[o].kind = "create" -> FreeOp
                   [] p = o /\ op[o].kind = "open" -> [op[p] EXCEPT !.pc = "refreshing"]
                   [] p \in SharedWith(o) -> [op[p] EXCEPT !.pc = "joinDone"]
                   [] OTHER -> op[p]]
    /\ UNCHANGED <<live, rec, older, disk, queue, forkHold, temporary, shutdown>>

(* fork()'s catch block: the record it registered, when it is still there, *)
(* is closed like any other, or its close under way is awaited.            *)
Retract(o) ==
    LET s == op[o].sess IN
    IF s \in live /\ rec[s].source = "fork"
    THEN Goto(o, "retracting") /\ rec' = [rec EXCEPT ![s].closing = TRUE]
    ELSE Goto(o, "failing") /\ UNCHANGED rec

(* fork(): getState(registered.id), which rejects while the record closes  *)
(* and when it has gone, and otherwise looks for the file.                 *)
ForkSnapshot(o) ==
    LET s == op[o].sess IN
    /\ op[o].pc = "snapshot"
    /\ IF s \in live /\ ~rec[s].closing
       THEN Goto(o, "checking") /\ UNCHANGED rec
       ELSE Retract(o)
    /\ UNCHANGED <<live, older, disk, queue, reserved, forkHold, temporary, shutdown>>

(* #refreshDurability: the file is there; the file system reports another  *)
(* error; or a file known to have existed was removed, and the record is   *)
(* locked in "error".                                                      *)
SnapshotTaken(o) ==
    LET s == op[o].sess IN
    /\ op[o].pc = "checking"
    /\ Goto(o, "refreshing")
    /\ older' = IF s \in live THEN Touched(s, live) ELSE older
    /\ UNCHANGED <<live, rec, disk, queue, reserved, forkHold, temporary, shutdown>>

SnapshotMissing(o) ==
    LET s == op[o].sess IN
    /\ op[o].pc = "checking"
    /\ s \in disk
    /\ disk' = disk \ {s}
    /\ Goto(o, "missing")
    /\ rec' = IF s \in live THEN [rec EXCEPT ![s].terminal = TRUE, ![s].status = "error"] ELSE rec
    /\ UNCHANGED <<live, older, queue, reserved, forkHold, temporary, shutdown>>

SnapshotFailed(o) ==
    /\ op[o].pc \in {"checking", "missing"}
    /\ Retract(o)
    /\ UNCHANGED <<live, older, disk, queue, reserved, forkHold, temporary, shutdown>>

(* open() and fork() return after #refreshHistory.                         *)
Refreshed(o) ==
    /\ op[o].pc = "refreshing"
    /\ Return(o)
    /\ Release(o)
    /\ UNCHANGED <<live, rec, older, disk, queue, temporary, shutdown>>

(* The error path ends: the runtime or the record is disposed, then        *)
(* #cleanupFailedForkFile unlinks the fork's file unless it is registered, *)
(* and the finally block releases what is held.                            *)
Failed(o) ==
    LET s == op[o].sess IN
    /\ op[o].pc = "failing"
    /\ disk' = IF op[o].kind = "fork" /\ s \notin live THEN disk \ {s} ELSE disk
    /\ Reject(o)
    /\ Release(o)
    /\ temporary' = temporary \ {o}
    /\ UNCHANGED <<live, rec, older, queue, shutdown>>
-----------------------------------------------------------------------------
(* A job run's use of the registry (JobRunner.#execute and the job-only    *)
(* methods of the registry).                                               *)

(* The finally block of #execute: releaseJobConversation disposes a record *)
(* this run still owns and otherwise rejects, which is only logged.        *)
JobRelease(o) ==
    IF Owned(o)
    THEN Goto(o, "releasing") /\ rec' = [rec EXCEPT ![op[o].sess].closing = TRUE]
    ELSE Return(o) /\ UNCHANGED rec

(* The pre-run hook succeeded and createJobConversation begins, or the run *)
(* stops here and gives its lease back.                                    *)
JobLeased(o, hookOk) ==
    /\ op[o].pc = "leased"
    /\ IF hookOk /\ ~op[o].stop /\ Accepting
       THEN Goto(o, "building") /\ UNCHANGED reserved
       ELSE Return(o) /\ reserved' = reserved \ {o}
    /\ UNCHANGED <<live, rec, older, disk, queue, forkHold, temporary, shutdown>>

(* createJobConversation resolved; setJobConversationTitle.                *)
JobTitles(o) ==
    /\ op[o].pc = "registered"
    /\ op[o].kind = "job"
    /\ IF Accepting /\ Owned(o)
       THEN Goto(o, "titling") /\ older' = Touched(op[o].sess, live) /\ UNCHANGED rec
       ELSE JobRelease(o) /\ UNCHANGED older
    /\ UNCHANGED <<live, disk, queue, reserved, forkHold, temporary, shutdown>>

(* The title is stored or setJobConversationTitle rejects; runJobPrompt:   *)
(* the owned, idle record is handed to Pi.                                 *)
JobPrompts(o, titled) ==
    LET s == op[o].sess IN
    /\ op[o].pc = "titling"
    /\ IF titled /\ Accepting /\ ~op[o].stop /\ Owned(o) /\ rec[s].status = "idle" /\ ~IsStreaming(s)
       THEN /\ Goto(o, "prompting")
            /\ rec' = [rec EXCEPT ![s].pi = "preflight"]
            /\ older' = Touched(s, live)
       ELSE JobRelease(o) /\ UNCHANGED older
    /\ UNCHANGED <<live, disk, queue, reserved, forkHold, temporary, shutdown>>

(* Pi's prompt promise settles.  A successful run with a post-run hook     *)
(* keeps its conversation, now idle, until the hook has finished.          *)
JobPromptSettled(o, hook) ==
    /\ op[o].pc = "prompting"
    /\ Owned(o) => rec[op[o].sess].pi = "none"
    /\ IF hook /\ ~op[o].stop /\ Accepting /\ ~(Owned(o) /\ rec[op[o].sess].terminal)
       THEN Goto(o, "postHook") /\ UNCHANGED rec
       ELSE JobRelease(o)
    /\ UNCHANGED <<live, older, disk, queue, reserved, forkHold, temporary, shutdown>>

JobPostHookSettled(o) ==
    /\ op[o].pc = "postHook"
    /\ JobRelease(o)
    /\ UNCHANGED <<live, older, disk, queue, reserved, forkHold, temporary, shutdown>>
-----------------------------------------------------------------------------
(* Operations on a live conversation, and the runtime's events.            *)

(* prompt() up to Pi's preflight.  A second prompt in the preflight window *)
(* reaches Pi too, which accepts one run.                                  *)
Prompt(s) ==
    /\ Accepting
    /\ s \in live
    /\ rec[s].owner = NoOp
    /\ ~HasForkReservation(s)
    /\ rec[s].status = "idle" /\ ~IsStreaming(s)
    /\ Cardinality({t \in live : rec[t].pi # "none"}) < MaxPrompted
    /\ ~rec[s].closing      \* otherwise the disposed runtime rejects (#assertUsable)
    /\ rec' = [rec EXCEPT ![s].pi = "preflight"]
    /\ older' = Touched(s, live)
    /\ UNCHANGED <<live, disk, op, queue, reserved, forkHold, temporary, shutdown>>

(* abort(): an owning job run is told to stop; an abort already pending is *)
(* shared; an idle conversation has nothing to abort.                      *)
AbortRec(r) == IF r.abort THEN r ELSE [StatusEvent(r, "aborting") EXCEPT !.abort = TRUE]

Abort(s) ==
    /\ s \in live
    /\ IsBusy(s) \/ rec[s].owner # NoOp
    /\ op' = [o \in Ops |-> IF o = rec[s].owner THEN [op[o] EXCEPT !.stop = TRUE] ELSE op[o]]
    /\ rec' = IF IsBusy(s) THEN [rec EXCEPT ![s] = AbortRec(rec[s])] ELSE rec
    /\ older' = IF rec'[s].status # rec[s].status THEN Touched(s, live) ELSE older
    /\ UNCHANGED <<live, disk, queue, reserved, forkHold, temporary, shutdown>>

(* runtime.abort() resolves once Pi is idle; that of a failed, and so      *)
(* disposed, runtime rejects at once.                                      *)
AbortedRec(r) == [(IF r.status = "aborting" THEN StatusEvent(r, "idle") ELSE r)
                     EXCEPT !.abort = FALSE, !.pi = IF r.pi = "held" THEN "none" ELSE r.pi]

AbortSettled(s) ==
    /\ s \in live
    /\ rec[s].abort
    /\ rec[s].terminal \/ ~IsStreaming(s)
    /\ rec' = [rec EXCEPT ![s] = AbortedRec(rec[s])]
    /\ older' = IF rec'[s].status # rec[s].status THEN Touched(s, live) ELSE older
    /\ UNCHANGED <<live, disk, op, queue, reserved, forkHold, temporary, shutdown>>

(* close(): idle or error conversations that no job owns and no fork holds.*)
Close(s) ==
    /\ s \in live
    /\ rec[s].owner = NoOp
    /\ ~IsBusy(s)
    /\ ~HasForkReservation(s)
    /\ rec' = [rec EXCEPT ![s].closing = TRUE]
    /\ UNCHANGED <<live, older, disk, op, queue, reserved, forkHold, temporary, shutdown>>

(* #handleRuntimeFailure: a fatal failure of the runtime, of an abort or   *)
(* of event handling.  The record stays, locked in "error"; its runtime is *)
(* disposed, so that no more of Pi's events arrive, but the session is     *)
(* streaming until the run it cancels has ended.  A closing record has     *)
(* been unsubscribed.                                                      *)
FailedRec(r) == [StatusEvent([r EXCEPT !.terminal = TRUE], "error")
                    EXCEPT !.pi = IF r.pi \in {"running", "ended"} THEN "ended" ELSE "none"]

RuntimeFailure(s) ==
    /\ s \in live
    /\ ~rec[s].closing
    /\ ~rec[s].terminal
    /\ rec' = [rec EXCEPT ![s] = FailedRec(rec[s])]
    /\ older' = Touched(s, live)
    /\ UNCHANGED <<live, disk, op, queue, reserved, forkHold, temporary, shutdown>>

(* External: one Pi run.  Pi accepts or rejects the prompt at the end of   *)
(* its preflight; the first user message is persisted when the run starts. *)
(* Only what reaches the registry as an event touches the record.          *)
PiEvent(s, from, r, d, event) ==
    /\ s \in live
    /\ ~rec[s].closing
    /\ rec[s].pi \in from
    /\ rec' = [rec EXCEPT ![s] = r]
    /\ older' = IF event THEN Touched(s, live) ELSE older
    /\ disk' = d
    /\ UNCHANGED <<live, op, queue, reserved, forkHold, temporary, shutdown>>

PiStart(s) == PiEvent(s, {"preflight"}, [StatusEvent(rec[s], "streaming") EXCEPT !.pi = "running"],
                      disk \cup {s}, TRUE)

PiReject(s) == PiEvent(s, {"preflight"}, [rec[s] EXCEPT !.pi = "none"], disk, FALSE)

(* agent_end reaches the registry before or after isStreaming falls: it is *)
(* held back while a sandbox worker is being replaced.                     *)
AgentEnd(s) == PiEvent(s, {"running", "held"},
                       [StatusEvent(rec[s], "idle") EXCEPT
                           !.pi = IF rec[s].pi = "running" THEN "ended" ELSE "none"], disk, TRUE)

PiSettle(s) == PiEvent(s, {"running", "ended"},
                       [rec[s] EXCEPT !.pi = IF rec[s].pi = "running" THEN "held" ELSE "none"], disk,
                       FALSE)
-----------------------------------------------------------------------------
(* Shutdown.  beginShutdown and abortActive run in one synchronous call    *)
(* of RuntimeCoordinator.beginShutdown, which also stops every job run.    *)
BeginShutdown ==
    /\ shutdown = "no"
    /\ shutdown' = "begun"
    /\ op' = [o \in Ops |-> IF op[o].kind = "job" /\ op[o].pc # "free"
                            THEN [op[o] EXCEPT !.stop = TRUE] ELSE op[o]]
    /\ rec' = [s \in Sessions |-> IF s \in live /\ IsBusy(s) THEN AbortRec(rec[s]) ELSE rec[s]]
    /\ UNCHANGED <<live, older, disk, queue, reserved, forkHold, temporary>>

(* dispose(): every record and every temporary runtime.                    *)
DisposeAll ==
    /\ shutdown = "begun"
    /\ shutdown' = "disposed"
    /\ rec' = [s \in Sessions |-> IF s \in live THEN [rec[s] EXCEPT !.closing = TRUE] ELSE rec[s]]
    /\ temporary' = {}
    /\ UNCHANGED <<live, older, disk, op, queue, reserved, forkHold>>

(* Nothing is left to do after shutdown.                                   *)
Terminated ==
    /\ shutdown = "disposed"
    /\ live = {}
    /\ \A o \in Ops : op[o].pc \in {"free", "stranded"}
    /\ UNCHANGED vars
-----------------------------------------------------------------------------
Request(o) ==
    \E s \in Sessions : \/ \E kind \in Calls \cap {"create", "job"} : RequestNew(o, kind, s)
                        \/ "open" \in Calls /\ RequestOpen(o, s)
                        \/ "fork" \in Calls /\ \E src \in Sessions : RequestFork(o, src, s)

(* The continuation of a call, which the event loop eventually runs.       *)
Continue(o) ==
    \/ Reopen(o) \/ Joined(o)
    \/ ReserveSlot(o) \/ Evict(o) \/ CapacityRefused(o)
    \/ ForkProceeds(o) \/ Built(o) \/ BuildRejected(o) \/ ForkReplaced(o) \/ ForkRejected(o)
    \/ Register(o) \/ SlotReturned(o) \/ Refreshed(o) \/ Failed(o)
    \/ ForkSnapshot(o) \/ SnapshotTaken(o) \/ SnapshotMissing(o) \/ SnapshotFailed(o)
    \/ \E b \in BOOLEAN : \/ Superseded(o, b) \/ JobLeased(o, b)
                           \/ JobPrompts(o, b) \/ JobPromptSettled(o, b)
    \/ JobTitles(o) \/ JobPostHookSettled(o)

(* The continuation of a disposal and of a Pi run.                         *)
Settle(s) == \E ok \in BOOLEAN : DisposeSettled(s, ok)

Run(s) == PiStart(s) \/ PiReject(s) \/ AgentEnd(s) \/ PiSettle(s)

Client(s) == Prompt(s) \/ Abort(s) \/ Close(s)

Next ==
    \/ \E o \in Ops : Request(o) \/ Continue(o)
    \/ \E s \in Sessions : \/ Settle(s) \/ Run(s) \/ Client(s)
                           \/ AbortSettled(s) \/ RuntimeFailure(s)
    \/ BeginShutdown \/ DisposeAll \/ Terminated

Spec == Init /\ [][Next]_vars
-----------------------------------------------------------------------------
(* Properties.                                                             *)

(* Slots held by calls whose runtime has not become a record.              *)
Unregistered == {o \in reserved : op[o].pc # "registered"}

Constructing == {o \in Ops : op[o].pc \in {"building", "forking", "registering", "superseded"}}

(* The live-runtime limit: registered runtimes together with those being   *)
(* constructed by concurrent create, open, fork and job calls never exceed *)
(* maxLiveConversations, whatever is evicted, closed or fails meanwhile.   *)
RuntimesBounded == Cardinality(live) + Cardinality(Constructing) <= MaxLive

(* What makes RuntimesBounded inductive: a call that has been granted a    *)
(* slot keeps it until its runtime is registered or gone, the slot of a    *)
(* registered job is already given back, and the records together with the *)
(* slots of unregistered runtimes fit the limit.                           *)
SlotsHeld ==
    \A o \in Ops :
        /\ op[o].pc \in {"granted", "leased", "building", "forking", "registering", "superseded"}
              => o \in reserved
        /\ op[o].kind = "job" /\ op[o].pc = "registered" => o \notin reserved
        /\ op[o].pc # "free" => op[o].sess \in Sessions

SlotsBounded == Cardinality(live) + Cardinality(Unregistered) <= MaxLive

(* One writer per JSONL file: at most one open() per session has or is     *)
(* building a runtime, and none while a record of the session, closing or  *)
(* not, still owns one.  Only a fork can be overtaken: its file is listed  *)
(* before it is registered, and #register then disposes the runtime of the *)
(* open() that lost.                                                       *)
SingleWriter ==
    \A s \in Sessions :
        LET opening == {o \in Ops : /\ op[o].kind = "open" /\ op[o].sess = s
                                    /\ op[o].pc \in {"building", "registering", "superseded",
                                                     "failing"}}
        IN /\ Cardinality(opening) <= 1
           /\ s \in live /\ opening # {} => rec[s].source = "fork"

(* A step keeps the source of each fork under way registered and open, or  *)
(* is dispose(), or retracts the source: it is itself the record of a fork *)
(* that fails before it has returned.                                      *)
SourcesKept ==
    \A o \in forkHold :
        LET s == op[o].src IN
        (s \in live /\ ~rec[s].closing) =>
            \/ s \in live' /\ ~rec'[s].closing
            \/ shutdown' = "disposed"
            \/ \E p \in Ops : op[p].kind = "fork" /\ op[p].sess = s /\ op'[p].pc = "retracting"

(* While a fork is under way, from its wait for the capacity lock to its   *)
(* return, nothing but dispose() and the error path of the fork that made  *)
(* the source closes or evicts its source.                                 *)
ForkSourceProtected == [][SourcesKept]_vars

(* The comment on reserveFork: the reservation protects the idle source    *)
(* from closing and eviction until it is released.                         *)
SourceKept ==
    \A o \in forkHold : shutdown # "disposed" =>
        op[o].src \in live /\ ~rec[op[o].src].closing

(* docs/jobs-design.md on creation at the live limit: it never evicts an   *)
(* active runtime.  A job run is active from its conversation's insertion  *)
(* to its release, also before its prompt and during its post-run hook,    *)
(* when #leastRecentlyUsedIdle finds the record idle.                      *)
JobRunsNotEvicted ==
    \A o \in Ops : op[o].pc = "evicting" => rec[op[o].victim].owner = NoOp

(* No path through create, open, fork or a job run, successful or failing, *)
(* leaks its capacity slot, its hold on a fork source, or a temporary      *)
(* runtime.  The one exception is a fork that finds its source gone when   *)
(* its slot is granted; it has no temporary runtime.                       *)
NothingLeaks ==
    \A o \in Ops : /\ op[o].pc = "free" => o \notin reserved \cup forkHold
                   /\ op[o].pc \in {"free", "stranded"} => o \notin temporary

(* dispose() takes every record: one registered by a call still in flight  *)
(* when it ran would never be disposed.                                    *)
NoneOutlivesDispose ==
    shutdown = "disposed" => \A s \in live : rec[s].closing

(* Whoever waits is served: every call that awaits another's promise has   *)
(* its counterpart still under way, so that no wakeup is lost.  A shared   *)
(* open has its opening call, a close, eviction or release its closing     *)
(* record, and the capacity lock, held by the head of the queue, passes to *)
(* the next call in line.                                                  *)
WaitersServed ==
    \A o \in Ops :
        LET s == op[o].sess
            Closing(t) == t \in live /\ rec[t].closing
        IN /\ op[o].pc = "joined" => PendingOpen(s) /\ ~OpenSettled(s)
           /\ op[o].pc \in {"waitClose", "releasing", "retracting"} => Closing(s)
           /\ op[o].pc = "evicting" => Closing(op[o].victim)
           /\ op[o].pc \in {"queued", "evicting", "evicted", "evictFailed"}
                 <=> \E i \in DOMAIN queue : queue[i] = o
           /\ op[o].pc \in {"evicting", "evicted", "evictFailed"} => HoldsLock(o)

=============================================================================
