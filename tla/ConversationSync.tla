--------------------------- MODULE ConversationSync ---------------------------
(***************************************************************************)
(* How one browser follows one conversation: the revision stream of the    *)
(* registry, the socket protocol (src/server/protocol.ts), and the         *)
(* browser's client and reducer (src/web/src/api/client.ts, state.ts).     *)
(*                                                                         *)
(* The registry registers the conversation anew each time it is opened; an *)
(* epoch is one registration, and revisions count from 0 in each.  The     *)
(* content of the conversation at a revision is the set of the events that *)
(* led to it.  The conversation is durable, and is the one the browser has *)
(* selected in its selected workspace.                                     *)
(*                                                                         *)
(* The socket is OutboundChannel: ordered, it may lose cumulative messages *)
(* (tool.updated and uncorrelated history) and may break off.              *)
(***************************************************************************)
EXTENDS Naturals, Sequences, FiniteSets, SequencesExt

CONSTANTS
    MaxEpoch,   \* bound: registrations
    MaxRev,     \* bound: revisions of a registration
    Ids,        \* request ids; one is free again when nothing in flight carries it
    Faults,     \* which of the following happen
    NoCmd, NoProj

FaultKinds == {"drop", "timeout", "disconnect", "close", "reject"}

ASSUME BoundsAssumption == MaxEpoch \in Nat \ {0} /\ MaxRev \in Nat /\ Faults \subseteq FaultKinds

VARIABLES
    live,       \* the registry has a record
    epoch,      \* the latest registration
    rev,        \* record.revision of each registration
    inbox,      \* commands on their way to the server or in the socket's tail
    serving,    \* the command of this socket being handled, and what it holds
    refresh,    \* #historyRefreshes: the loop that lists and broadcasts
    subscribed, \* #historySubscriptions has the socket
    down,       \* messages on their way to the browser
    page        \* the browser: ChatSocketClient and its state

registry == <<live, epoch, rev>>
syncVars == <<registry, inbox, serving, refresh, subscribed, down, page>>

Epochs == 1..MaxEpoch
Revs == 0..MaxRev
Statuses == {"live", "closed"}

Content(e, r) == {<<e, i>> : i \in 1..r}

Commands == [id : Ids, type : {"history", "open", "state"}]

WireMessages ==
    [type : {"ready"}] \cup [type : {"event"}, epoch : Epochs, rev : Revs, droppable : BOOLEAN]
    \cup [type : {"state"}, id : Ids, epoch : Epochs, rev : Revs]
    \cup [type : {"history"}, id : Ids \cup {0}, status : Statuses]
    \cup [type : {"error"}, id : Ids]

(* The type invariant of the server's and the browser's state.             *)
SyncTypeOK ==
    /\ live \in BOOLEAN /\ epoch \in Epochs /\ rev \in [Epochs -> Revs]
    /\ inbox \in Seq(Commands)
    /\ serving = NoCmd \/ /\ serving.cmd \in Commands
                          /\ serving.epoch \in Epochs /\ serving.rev \in Revs
                          /\ serving.stage \in {"await", "built"}
                          /\ serving.status \in Statuses
    /\ refresh \in [stage : {"idle", "listing", "captured"}, requested : BOOLEAN, status : Statuses]
    /\ subscribed \in BOOLEAN
    /\ down \in Seq(WireMessages)
    /\ page.conn \in {"down", "opening", "connected"}
    /\ page.proj = NoProj \/ page.proj.rev \in Revs
    /\ page.resync \in BOOLEAN /\ page.resyncing \in BOOLEAN /\ page.failed \in BOOLEAN
    /\ page.hist \in Statuses \cup {"unknown"}
    /\ page.pending \subseteq [id : Ids, type : {"history", "open", "state"},
                            purpose : {"recover", "resync", "user"}]

SyncInit ==
    /\ live \in BOOLEAN /\ epoch = 1 /\ rev = [e \in Epochs |-> 0]
    /\ inbox = <<>> /\ serving = NoCmd
    /\ refresh = [stage |-> "idle", requested |-> FALSE, status |-> "live"]
    /\ subscribed = FALSE
    /\ down = <<>>
    /\ page = [conn |-> "down", proj |-> NoProj, resync |-> FALSE, resyncing |-> FALSE,
            hist |-> "unknown", failed |-> FALSE, pending |-> {}, out |-> <<>>]
-----------------------------------------------------------------------------
(* The server.                                                             *)

(* The status a history list gives the session (summaryStatus).            *)
Status == IF live THEN "live" ELSE "closed"

(* #send: nothing is sent to a socket that is not open.                    *)
Delivered(ms) == IF page.conn = "down" THEN down ELSE down \o ms

(* Mutant: a change during a list is not remembered.                       *)
ScheduledOnce(r) == IF subscribed /\ r.stage = "idle" THEN [r EXCEPT !.stage = "listing"] ELSE r

(* #scheduleHistoryBroadcast                                               *)
Scheduled(r) ==
    IF ~subscribed THEN r
    ELSE IF r.stage = "idle" THEN [r EXCEPT !.stage = "listing"]
    ELSE [r EXCEPT !.requested = TRUE]

(* #emitConversationEvent and the metadata changes: one revision, one      *)
(* message to every socket.  Status events also schedule a history list.   *)
(* A cumulative update is never the last event: tool.completed follows.    *)
Emit(droppable, isStatus) ==
    /\ live /\ rev[epoch] < MaxRev
    /\ droppable => ~isStatus /\ rev[epoch] + 1 < MaxRev
    /\ rev' = [rev EXCEPT ![epoch] = @ + 1]
    /\ down' = Delivered(<<[type |-> "event", epoch |-> epoch, rev |-> rev[epoch] + 1,
                            droppable |-> droppable]>>)
    /\ refresh' = IF isStatus THEN Scheduled(refresh) ELSE refresh
    /\ UNCHANGED <<live, epoch, inbox, serving, subscribed, page>>

(* The record is closed or evicted, or opened for another browser.         *)
RecordClosed ==
    /\ "close" \in Faults
    /\ live
    /\ live' = FALSE
    /\ refresh' = Scheduled(refresh)
    /\ UNCHANGED <<epoch, rev, inbox, serving, subscribed, down, page>>

OpenedElsewhere ==
    /\ ~live /\ epoch < MaxEpoch
    /\ live' = TRUE /\ epoch' = epoch + 1
    /\ refresh' = Scheduled(refresh)
    /\ UNCHANGED <<rev, inbox, serving, subscribed, down, page>>

(* #normalizeListedSession reads the live status of this session; the      *)
(* listing goes on to others before it is sent.                            *)
RefreshCaptures ==
    /\ refresh.stage = "listing"
    /\ refresh' = [refresh EXCEPT !.stage = "captured", !.status = Status]
    /\ UNCHANGED <<registry, inbox, serving, subscribed, down, page>>

RefreshBroadcasts ==
    /\ refresh.stage = "captured"
    /\ refresh' = [refresh EXCEPT !.stage = IF refresh.requested THEN "listing" ELSE "idle",
                                  !.requested = FALSE]
    /\ down' = IF subscribed
               THEN Delivered(<<[type |-> "history", id |-> 0, status |-> refresh.status]>>)
               ELSE down
    /\ UNCHANGED <<registry, inbox, serving, subscribed, page>>

(* The list fails: the finally block starts over only for a subscriber.    *)
RefreshFails ==
    /\ "reject" \in Faults
    /\ refresh.stage = "listing"
    /\ refresh' = [refresh EXCEPT !.stage = IF refresh.requested /\ subscribed THEN "listing" ELSE "idle",
                                  !.requested = FALSE]
    /\ UNCHANGED <<registry, inbox, serving, subscribed, down, page>>

(* #handleMessage takes the next command of the socket and dispatches it.  *)
(* A command on a conversation that is not registered, or that is being    *)
(* closed, fails at once; open registers it (or fails: the live limit, a   *)
(* runtime that does not start).                                           *)
TakeCommand ==
    /\ inbox # <<>> /\ serving = NoCmd
    /\ inbox' = Tail(inbox)
    /\ LET c == Head(inbox)
           opens == c.type = "open" /\ ~live
           e == IF opens THEN epoch + 1 ELSE epoch
       IN \/ /\ c.type = "history" \/ live \/ (opens /\ epoch < MaxEpoch)
             /\ serving' = [cmd |-> c, stage |-> "await", epoch |-> e, rev |-> 0, status |-> "closed"]
             /\ live' = (live \/ opens) /\ epoch' = e
             /\ refresh' = IF opens THEN Scheduled(refresh) ELSE refresh
             /\ UNCHANGED <<rev, down>>
          \/ /\ c.type # "history"
             /\ ~live \/ (c.type = "state" /\ "close" \in Faults)
             /\ c.type = "open" => epoch = MaxEpoch \/ "reject" \in Faults
             /\ down' = Delivered(<<[type |-> "error", id |-> c.id]>>)
             /\ UNCHANGED <<registry, serving, refresh>>
    /\ UNCHANGED <<subscribed, page>>

(* getState after #refreshDurability, or this session's turn in the list:  *)
(* the answer is built here and sent some microtasks later.  open looks    *)
(* the conversation up again by its id, and may find a later registration. *)
BuildAnswer ==
    /\ serving # NoCmd /\ serving.stage = "await"
    /\ \E e \in {serving.epoch, epoch} :
          /\ e # serving.epoch => serving.cmd.type = "open" /\ live
          /\ serving' = [serving EXCEPT !.stage = "built", !.status = Status,
                                        !.epoch = e, !.rev = rev[e]]
    /\ UNCHANGED <<registry, inbox, refresh, subscribed, down, page>>

(* The response is sent; only then is a history list a subscription, and   *)
(* only then does open announce the change.                                *)
SendAnswer ==
    /\ serving # NoCmd /\ serving.stage = "built"
    /\ serving' = NoCmd
    /\ LET c == serving.cmd IN
       /\ down' = Delivered(IF c.type = "history"
                            THEN <<[type |-> "history", id |-> c.id, status |-> serving.status]>>
                            ELSE <<[type |-> "state", id |-> c.id, epoch |-> serving.epoch,
                                    rev |-> serving.rev]>>)
       /\ subscribed' = (subscribed \/ c.type = "history")
       /\ refresh' = IF c.type = "open" THEN Scheduled(refresh) ELSE refresh
    /\ UNCHANGED <<registry, inbox, page>>

(* The command rejects after its await, open also because the record has   *)
(* been closed meanwhile: an error response.                               *)
AnswerRejected ==
    /\ serving # NoCmd /\ serving.stage = "await"
    /\ "reject" \in Faults \/ (serving.cmd.type = "open" /\ ~live)
    /\ serving' = NoCmd
    /\ down' = Delivered(<<[type |-> "error", id |-> serving.cmd.id]>>)
    /\ UNCHANGED <<registry, inbox, refresh, subscribed, page>>
-----------------------------------------------------------------------------
(* The browser.  Its transformers take and return the browser's state; the *)
(* commands it sends collect in the field out.                             *)

IdsInFlight ==
    {m.id : m \in page.pending} \cup {inbox[i].id : i \in DOMAIN inbox}
    \cup (IF serving = NoCmd THEN {} ELSE {serving.cmd.id})
    \cup {down[i].id : i \in {j \in DOMAIN down : down[j].type \in {"state", "history", "error"}}}

(* send(): the request is recorded as pending and goes out.                *)
Requested(c, type, purpose) ==
    LET used == IdsInFlight \cup {m.id : m \in c.pending}
        id == CHOOSE i \in Ids : i \notin used
    IN [c EXCEPT !.pending = @ \cup {[id |-> id, type |-> type, purpose |-> purpose]},
                 !.out = Append(@, [id |-> id, type |-> type])]

(* Mutant: a gap is noted but no snapshot is requested.                    *)
GapsUnanswered(c) == c

(* #syncRevisionGaps, which follows every change of state.                 *)
SyncRevisionGaps(c) ==
    IF c.conn = "connected" /\ c.resync /\ ~c.resyncing
    THEN Requested([c EXCEPT !.resyncing = TRUE], "state", "resync")
    ELSE c

(* Mutants of decideEventRevision and decideSnapshotRevision: any newer    *)
(* event is applied; any snapshot replaces.                                *)
EventAppliesIfNewer(current, incoming) ==
    IF incoming <= current THEN "ignore" ELSE "apply"

SnapshotReplaces(current, incoming) == "replace"

DecideEventRevision(current, incoming) ==
    IF incoming <= current THEN "ignore"
    ELSE IF incoming = current + 1 THEN "apply" ELSE "resync"

DecideSnapshotRevision(current, incoming) ==
    IF incoming < current THEN "ignore" ELSE "replace"

ReplaceConversation(c, r, content) ==
    SyncRevisionGaps([c EXCEPT !.proj = [rev |-> r, has |-> content], !.resync = FALSE])

RequestResync(c) == IF c.resync THEN c ELSE SyncRevisionGaps([c EXCEPT !.resync = TRUE])

(* The reducer, for an event, a snapshot, a history list and an error; the *)
(* field failed is lastError, as far as the transport has set it.          *)
OnEvent(c, m) ==
    IF c.proj = NoProj THEN RequestResync(c)
    ELSE CASE DecideEventRevision(c.proj.rev, m.rev) = "ignore" -> c
           [] DecideEventRevision(c.proj.rev, m.rev) = "resync" -> RequestResync(c)
           [] OTHER -> ReplaceConversation(c, m.rev, c.proj.has \cup {<<m.epoch, m.rev>>})

OnSnapshot(c, m) ==
    IF c.proj # NoProj /\ DecideSnapshotRevision(c.proj.rev, m.rev) = "ignore" THEN c
    ELSE ReplaceConversation(c, m.rev, Content(m.epoch, m.rev))

OnHistory(c, m) ==
    SyncRevisionGaps(IF m.status = "closed"
                     THEN [c EXCEPT !.hist = "closed", !.proj = NoProj, !.resync = FALSE]
                     ELSE [c EXCEPT !.hist = "live"])

OnError(c) == SyncRevisionGaps([c EXCEPT !.failed = TRUE])

(* What awaits a request continues when it settles.  #recover goes on from *)
(* the history list to the selected conversation, and ends silently if the *)
(* server rejects that; a failed resynchronising request reports an error  *)
(* and only then is no longer in progress.                                 *)
Resolved(c, p) ==
    CASE p.purpose = "resync" -> [c EXCEPT !.resyncing = FALSE]
      [] p.purpose = "recover" /\ p.type = "history" ->
            Requested(c, IF c.hist = "closed" THEN "open" ELSE "state", "recover")
      [] OTHER -> c

Rejected(c, p, timedOut) ==
    CASE p.purpose = "resync" -> [OnError(c) EXCEPT !.resyncing = FALSE]
      [] p.purpose = "recover" /\ (p.type = "history" \/ timedOut) -> OnError(c)
      [] OTHER -> c

Settles(c, p) == [c EXCEPT !.pending = @ \ {p}]

(* #acceptMessage: a correlated response whose request is no longer        *)
(* pending changes nothing.                                                *)
Accept(c, m) ==
    CASE m.type = "ready" ->
            Requested(SyncRevisionGaps([c EXCEPT !.conn = "connected", !.failed = FALSE]),
                      "history", "recover")
      [] m.type = "event" -> OnEvent(c, m)
      [] m.type = "history" /\ m.id = 0 -> OnHistory(c, m)
      [] OTHER ->
            IF \A p \in c.pending : p.id # m.id THEN c
            ELSE LET p == CHOOSE p \in c.pending : p.id = m.id
                     d == Settles(c, p)
                 IN CASE m.type = "error" -> Rejected(d, p, FALSE)
                      [] m.type = "state" -> Resolved(OnSnapshot(d, m), p)
                      [] m.type = "history" -> Resolved(OnHistory(d, m), p)

Browser(c) == page' = [c EXCEPT !.out = <<>>] /\ inbox' = inbox \o c.out

Receive ==
    /\ page.conn # "down" /\ down # <<>>
    /\ down' = Tail(down)
    /\ Browser(Accept(page, Head(down)))
    /\ UNCHANGED <<registry, serving, refresh, subscribed>>

(* The command timer of a pending request.                                 *)
Timeout ==
    /\ "timeout" \in Faults
    /\ Cardinality(IdsInFlight) < Cardinality(Ids) - 2
    /\ \E p \in page.pending : Browser(Rejected(Settles(page, p), p, TRUE))
    /\ UNCHANGED <<registry, serving, refresh, subscribed, down>>

(* The user selects the conversation in the list.                          *)
Select ==
    /\ page.conn = "connected"
    /\ \A p \in page.pending : p.purpose # "user"
    /\ page.hist = "closed" \/ (page.hist = "live" /\ page.proj = NoProj)
    /\ Cardinality(IdsInFlight) < Cardinality(Ids) - 2
    /\ Browser(Requested(page, IF page.hist = "closed" THEN "open" ELSE "state", "user"))
    /\ UNCHANGED <<registry, serving, refresh, subscribed, down>>

(* The socket opens and the server greets it; it closes, and what was in   *)
(* flight is lost.  A command the server already has still runs, but all   *)
(* it can do for the next socket is what OpenedElsewhere does.             *)
Connect ==
    /\ page.conn = "down"
    /\ page' = [page EXCEPT !.conn = "opening"]
    /\ down' = <<[type |-> "ready"]>>
    /\ UNCHANGED <<registry, inbox, serving, refresh, subscribed>>

Disconnect ==
    /\ "disconnect" \in Faults
    /\ page.conn # "down"
    /\ page' = [page EXCEPT !.conn = "down", !.pending = {}, !.resyncing = FALSE]
    /\ down' = <<>> /\ inbox' = <<>> /\ serving' = NoCmd
    /\ subscribed' = FALSE
    /\ UNCHANGED <<registry, refresh>>

(* OutboundFlow drops or coalesces a cumulative message.                   *)
IsDroppable(m) == IF m.type = "event" THEN m.droppable ELSE m.type = "history" /\ m.id = 0

Drop ==
    /\ "drop" \in Faults
    /\ \E i \in DOMAIN down : IsDroppable(down[i]) /\ down' = RemoveAt(down, i)
    /\ UNCHANGED <<registry, inbox, serving, refresh, subscribed, page>>
-----------------------------------------------------------------------------
Serve == TakeCommand \/ BuildAnswer \/ SendAnswer \/ AnswerRejected

Refresh == RefreshCaptures \/ RefreshBroadcasts \/ RefreshFails

SyncNext ==
    \/ \E droppable, isStatus \in BOOLEAN : Emit(droppable, isStatus)
    \/ RecordClosed \/ OpenedElsewhere
    \/ Serve \/ Refresh
    \/ Receive \/ Timeout \/ Select \/ Connect \/ Disconnect \/ Drop

(* The event loop runs what is queued, messages arrive while the socket is *)
(* open, and the browser reconnects.                                       *)
SyncFairness ==
    /\ WF_syncVars(Serve)
    /\ WF_syncVars(Refresh)
    /\ WF_syncVars(Receive)
    /\ WF_syncVars(Connect)

SyncSpec == SyncInit /\ [][SyncNext]_syncVars

SyncFairSpec == SyncSpec /\ SyncFairness
-----------------------------------------------------------------------------
(* The browser shows a state the conversation really had: what its         *)
(* projection contains is the content of one registration at its revision, *)
(* however events, snapshots and lists were lost, delayed or overtaken.    *)
(* It holds of a conversation that is registered once; when one is closed  *)
(* and opened again, the reducer compares revisions of two registrations   *)
(* (state.ts 633-680) and may append the events of one to the other.       *)
ProjectionFaithful ==
    page.proj # NoProj => \E e \in Epochs : page.proj.has = Content(e, page.proj.rev)

(* A projection never goes back: its revision never decreases, and a       *)
(* snapshot overtaken by later events, or the late answer to an earlier    *)
(* request, removes nothing already shown.  Something disappears only when *)
(* the snapshot of one registration replaces what another contributed.     *)
NeverBackwards ==
    [][page.proj # NoProj /\ page'.proj # NoProj
       => /\ page.proj.rev <= page'.proj.rev
          /\ \/ page.proj.has \subseteq page'.proj.has
             \/ \E e \in Epochs, x \in page.proj.has :
                   x[1] # e /\ page'.proj.has = Content(e, page'.proj.rev)]_syncVars

(* docs/revision-semantics.md: an event beyond the next revision is not    *)
(* applied, and conversation.state is requested.  So a browser that is     *)
(* connected, has had no error and for which nothing is under way shows    *)
(* the latest revision.  requestResync asks once: an event that overtakes  *)
(* the snapshot already built is not applied and not asked for.            *)
GapsAskedFor ==
    /\ page.conn = "connected" /\ page.proj # NoProj /\ ~page.failed
    /\ live /\ page.pending = {} /\ down = <<>>
    => page.proj.rev = rev[epoch]

(* A noticed gap is not forgotten: the browser that waits for a snapshot   *)
(* receives one, or shows an error, or loses its connection.               *)
GapsHealed == page.resync ~> (~page.resync \/ page.failed \/ page.conn # "connected")

(* A closure is told to the browsers that follow the workspace, also when  *)
(* it happens while a list is being made or sent: the loop of              *)
(* #scheduleHistoryBroadcast lists again.                                  *)
SubscribersTold ==
    (~live /\ subscribed /\ refresh.stage # "idle") ~> (live \/ page.hist = "closed")
=============================================================================
