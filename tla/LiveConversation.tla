-------------------------- MODULE LiveConversation --------------------------
(***************************************************************************)
(* One live conversation from Pi's session to the timeline on the screen:  *)
(*   normalize-events.ts      Pi's events as protocol events,              *)
(*   serialize.ts             Pi's entries as messages, live and in a      *)
(*                            snapshot,                                    *)
(*   conversation-registry.ts the record's title, durability and status,   *)
(*                            and the snapshot of getState,                *)
(*   state.ts                 the browser's projection of snapshots and    *)
(*                            events,                                      *)
(*   MessageTimeline.tsx, ToolCallCard.tsx   what of it is shown.          *)
(* ConversationSync has the delivery: here an event or a snapshot reaches  *)
(* the browser in revision order.  Pi is external.  It emits one event at  *)
(* a time and yields after each, so that a deferred completion runs before *)
(* the next event; it ends tool calls in any order and stores their        *)
(* results in the order of the calls.  Text is the number of its deltas;   *)
(* images, usage figures, notices other than a completed compaction, the   *)
(* prompt queue and the status of an abort under way are left out.         *)
(***************************************************************************)
EXTENDS Integers, Sequences, SequencesExt, FiniteSets

CONSTANTS
    Calls,          \* tool call identities
    MaxEntries,     \* bound on the entries of the session
    MaxParts,       \* bound on the content parts of an assistant message
    MaxDeltas,      \* bound on the deltas of a part
    MaxReads,       \* bound on getState and rename calls
    None

\* A content block, an entry of the session, an identity on the timeline and
\* a message there.
Blocks == [type : {"text", "thinking", "tool-call", "tool-result"}, call : Calls \cup {None},
           text : Nat, status : {"none", "pending", "running", "succeeded", "failed"}]
Entries == [role : {"user", "assistant", "toolResult"}, call : Calls \cup {None},
            failed : BOOLEAN, parts : Seq(Blocks)]
MessageIds == [kind : {"stream", "entry"}, n : Nat]
Messages == [entryId : MessageIds, role : {"user", "assistant"}, stopReason : BOOLEAN,
             blocks : Seq(Blocks)]

\* The registry's record of the conversation, and the browser's projection.
Records == [title : {"untitled", "first", "name"}, durable : BOOLEAN,
            status : {"idle", "streaming", "error"}]
Screens == [messages : Seq(Messages), status : {"idle", "streaming", "error"},
            title : {"untitled", "first", "name"}, durable : BOOLEAN, usage : Nat \cup {None}]

\* None is neither a call nor a block, an entry or an identity.
NoneIsNothing == None \notin Calls \cup Blocks \cup Entries \cup MessageIds

ASSUME LiveAssumption ==
    /\ {MaxEntries, MaxParts, MaxDeltas, MaxReads} \subseteq Nat \ {0}
    /\ NoneIsNothing

VARIABLES
    agent,      \* Pi's agent: idle, prompted or running
    now,        \* the message that Pi is producing, or None
    branch,     \* the messages of the active branch, in order
    tool,       \* how far Pi is with each tool call
    compacted,  \* a compaction since the last assistant message
    named,      \* the session has a name
    file,       \* the session file exists
    ending,     \* the completion deferred to a microtask, or None
    lastAssistant,  \* #lastAssistantEntryId
    record,     \* title, durability and status of the registry's record
    reading,    \* how far each call of #refreshDurability is
    reads,
    shown,      \* the browser's projection
    overlooked  \* history: calls that ended unseen before a snapshot

pi == <<agent, now, branch, tool, compacted, named, file>>
server == <<ending, lastAssistant, record, reading, reads>>
browser == <<shown, overlooked>>
liveVars == <<pi, server, browser>>

-----------------------------------------------------------------------------
(* serialize.ts                                                            *)

\* The position of a message in the branch stands for both of its identities.
StreamId(k) == [kind |-> "stream", n |-> k]
EntryId(k) == [kind |-> "entry", n |-> k]

Block(type, call, text, status) ==
    [type |-> type, call |-> call, text |-> text, status |-> status]

\* The output of a tool call, before and after it ends.
Partial == 1
Final == 2

\* The calls with a stored result, and what it says.
CollectToolOutcomes(entries) ==
    [c \in Calls |->
        IF \E i \in DOMAIN entries : entries[i].role = "toolResult" /\ entries[i].call = c
        THEN IF \E i \in DOMAIN entries : /\ entries[i].role = "toolResult"
                                          /\ entries[i].call = c
                                          /\ entries[i].failed
             THEN "failed" ELSE "succeeded"
        ELSE "pending"]

NoOutcomes == [c \in Calls |-> "pending"]

SerializeToolResult(m) ==
    Block("tool-result", m.call, Final, IF m.failed THEN "failed" ELSE "succeeded")

SerializeBlocks(m, outcomes) ==
    IF m.role = "toolResult" THEN <<SerializeToolResult(m)>>
    ELSE [i \in DOMAIN m.parts |->
            IF m.parts[i].type = "tool-call"
            THEN Block("tool-call", m.parts[i].call, 0, outcomes[m.parts[i].call])
            ELSE m.parts[i]]

\* A stored tool result becomes a message of the assistant; only an answer of
\* the model has a stop reason.
SerializeEntry(m, id, outcomes) ==
    [entryId |-> id,
     role |-> IF m.role = "user" THEN "user" ELSE "assistant",
     stopReason |-> m.role = "assistant",
     blocks |-> SerializeBlocks(m, outcomes)]

SerializeLiveMessage(m, id) == SerializeEntry(m, id, NoOutcomes)

SerializeActiveBranch(entries) ==
    [i \in DOMAIN entries |-> SerializeEntry(entries[i], EntryId(i), CollectToolOutcomes(entries))]

\* Pi's estimate: unknown after a compaction, until the assistant has answered.
ContextUsage == IF compacted THEN None ELSE Len(branch)

-----------------------------------------------------------------------------
(* state.ts: the projection                                                *)

HasCall(m, c) ==
    /\ m.role = "assistant"
    /\ \E i \in DOMAIN m.blocks : m.blocks[i].call = c

(* Mutant: a completion only replaces the message with its own identity. *)
ReplaceMessageExact(messages, m, completed) ==
    LET index == SelectInSeq(messages, LAMBDA x : x.entryId = m.entryId)
    IN IF index = 0 THEN Append(messages, m) ELSE [messages EXCEPT ![index] = m]

\* The message with the same identity, or for a completion the latest of the
\* same role that is still streaming, is replaced; otherwise it is appended.
ReplaceMessage(messages, m, completed) ==
    LET exact == SelectInSeq(messages, LAMBDA x : x.entryId = m.entryId)
        stream == SelectLastInSeq(messages, LAMBDA x : x.role = m.role /\ x.entryId.kind = "stream")
        index == IF exact = 0 /\ completed THEN stream ELSE exact
    IN IF index = 0 THEN Append(messages, m) ELSE [messages EXCEPT ![index] = m]

\* The message that a tool event is about: by entry, by call, or the latest
\* of the assistant.
ToolMessage(messages, id, c) ==
    LET byId == SelectInSeq(messages, LAMBDA x : x.entryId = id)
        byCall == IF c = None THEN 0 ELSE SelectInSeq(messages, LAMBDA x : HasCall(x, c))
        last == SelectLastInSeq(messages, LAMBDA x : x.role = "assistant")
    IN IF byId # 0 THEN byId ELSE IF byCall # 0 THEN byCall ELSE last

\* Op is applied to the blocks of that message.
UpdateAssistant(messages, id, Op(_), c) ==
    LET index == ToolMessage(messages, id, c)
    IN IF index = 0 \/ messages[index].role # "assistant" THEN messages
       ELSE [messages EXCEPT ![index].blocks = Op(@)]

(* Mutant: the block of the call keeps its status. *)
UpdateToolCallStatusNot(blocks, c, status) == blocks

UpdateToolCallStatus(blocks, c, status) ==
    [i \in DOMAIN blocks |->
        IF blocks[i].type = "tool-call" /\ blocks[i].call = c
        THEN [blocks[i] EXCEPT !.status = status] ELSE blocks[i]]

\* Replaces the block of the same type and call, or appends it.
PutBlock(blocks, b) ==
    LET index == SelectInSeq(blocks, LAMBDA x : x.type = b.type /\ x.call = b.call)
    IN IF index = 0 THEN Append(blocks, b) ELSE [blocks EXCEPT ![index] = b]

\* A delta extends its block, opens the next one, or is ignored.
ApplyDelta(blocks, index, type) ==
    IF index = Len(blocks) + 1 THEN Append(blocks, Block(type, None, 1, "none"))
    ELSE IF index \in DOMAIN blocks /\ blocks[index].type = type
         THEN [blocks EXCEPT ![index].text = @ + 1]
         ELSE blocks

ApplyMessageEvent(messages, e) ==
    CASE e.type = "message.started" -> ReplaceMessage(messages, e.message, FALSE)
      [] e.type = "message.completed" -> ReplaceMessage(messages, e.message, TRUE)
      [] e.type = "message.delta" ->
            [i \in DOMAIN messages |->
                IF messages[i].entryId = e.id /\ messages[i].role = "assistant"
                THEN [messages[i] EXCEPT !.blocks = ApplyDelta(@, e.index, e.block)]
                ELSE messages[i]]
      [] e.type = "tool.started" ->
            UpdateAssistant(messages, e.id,
                LAMBDA b : PutBlock(b, Block("tool-call", e.call, 0, "running")), None)
      [] e.type = "tool.updated" ->
            UpdateAssistant(messages, None,
                LAMBDA b : PutBlock(UpdateToolCallStatus(b, e.call, "running"),
                                    Block("tool-result", e.call, Partial, "succeeded")), e.call)
      [] e.type = "tool.completed" ->
            UpdateAssistant(messages, None,
                LAMBDA b : PutBlock(UpdateToolCallStatus(b, e.call, e.status),
                                    Block("tool-result", e.call, Final, e.status)), e.call)
      [] OTHER -> messages

\* The other fields that an event carries.
ApplyFields(s, e) ==
    CASE e.type = "message.completed" -> [s EXCEPT !.usage = e.usage]
      [] e.type = "conversation.status" -> [s EXCEPT !.status = e.status]
      [] e.type = "conversation.metadata" ->
            [s EXCEPT !.title = e.record.title, !.durable = e.record.durable,
                      !.status = e.record.status]
      [] e.type = "compaction.completed" -> [s EXCEPT !.usage = None]
      [] OTHER -> s

ApplyConversationEvent(s, e) ==
    [ApplyFields(s, e) EXCEPT !.messages = ApplyMessageEvent(@, e)]

EmitEvent(e) == shown' = ApplyConversationEvent(shown, e)

-----------------------------------------------------------------------------
(* conversation-registry.ts: the record                                    *)

TitleOf == IF named THEN "name" ELSE IF Len(branch) > 0 THEN "first" ELSE "untitled"

\* Every change of the record is told as one metadata event.
MetadataEvent == [type |-> "conversation.metadata", record |-> record']

\* A status event is dropped when it changes nothing, or after a failure.
EmitStatus(status) ==
    IF record.status \in {status, "error"} THEN UNCHANGED <<record, shown>>
    ELSE /\ record' = [record EXCEPT !.status = status]
         /\ EmitEvent([type |-> "conversation.status", status |-> status])

\* The record after a message of Pi's has been stored.
Persisted(role) ==
    [record EXCEPT !.title = TitleOf,
                   !.durable = @ \/ role \in {"user", "assistant"}]

Snapshot(r) ==
    [messages |-> SerializeActiveBranch(branch), status |-> r.status,
     title |-> r.title, durable |-> r.durable, usage |-> ContextUsage]

\* A getState, a rename, and the getState with which a rename ends.
Reads == {"state", "rename", "renamed"}

\* No call; one whose access() has found the file or not; one that has told a
\* change of the record and awaits #refreshHistory.
ReadStages == {"none", "found", "absent", "told"}

\* What access() finds is fixed when it is called and used later.
Access == IF file THEN "found" ELSE "absent"

Begin(op) ==
    /\ reading[op] = "none" /\ reads < MaxReads
    /\ reading' = [reading EXCEPT ![op] = Access]
    /\ reads' = reads + 1

GetState ==
    /\ Begin("state")
    /\ UNCHANGED <<pi, ending, lastAssistant, record, browser>>

Rename ==
    /\ ~named
    /\ Begin("rename")
    /\ named' = TRUE
    /\ UNCHANGED <<agent, now, branch, tool, compacted, file, ending, lastAssistant,
                   record, browser>>

\* The file of a durable conversation is gone: the record fails for good.
DeclareMissing ==
    /\ record' = [record EXCEPT !.status = "error"]
    /\ IF record.status = "error" THEN UNCHANGED shown ELSE EmitEvent(MetadataEvent)
    /\ UNCHANGED overlooked

\* The snapshot replaces the projection; a call that has ended and whose
\* result is not stored is in it without its outcome.
AcceptSnapshot ==
    /\ shown' = Snapshot(record')
    /\ overlooked' = overlooked \cup {c \in Calls : tool[c] \in {"succeeded", "failed"}}

\* The record is reconciled: getState answers with the snapshot, a rename
\* goes on to a getState of its own.
Continues(op) ==
    /\ record' = record
    /\ IF op = "rename"
       THEN /\ reading' = [reading EXCEPT !.rename = "none", !.renamed = Access]
            /\ UNCHANGED browser
       ELSE /\ reading' = [reading EXCEPT ![op] = "none"]
            /\ AcceptSnapshot

\* access() has settled: the file is missing, or the record has changed,
\* which is told before the call goes on, or nothing is to be done.
Refreshed(op) ==
    LET missing == reading[op] = "absent" /\ record.durable
        current == [record EXCEPT !.title = TitleOf, !.durable = @ \/ reading[op] = "found"]
    IN /\ reading[op] \in {"found", "absent"}
       /\ \/ /\ missing
             /\ DeclareMissing
             /\ reading' = [reading EXCEPT ![op] = "none"]
          \/ /\ ~missing /\ current # record
             /\ record' = current
             /\ EmitEvent(MetadataEvent)
             /\ reading' = [reading EXCEPT ![op] = "told"]
             /\ UNCHANGED overlooked
          \/ ~missing /\ current = record /\ Continues(op)
       /\ UNCHANGED <<pi, ending, lastAssistant, reads>>

\* #refreshHistory has settled.
HistoryRefreshed(op) ==
    /\ reading[op] = "told"
    /\ Continues(op)
    /\ UNCHANGED <<pi, ending, lastAssistant, reads>>

\* access() fails with an error other than ENOENT: the call rejects.
AccessFails(op) ==
    /\ reading[op] \in {"found", "absent"}
    /\ reading' = [reading EXCEPT ![op] = "none"]
    /\ UNCHANGED <<pi, ending, lastAssistant, record, reads, browser>>

-----------------------------------------------------------------------------
(* normalize-events.ts, driven by Pi                                       *)

\* Pi emits an event: the completion deferred by an earlier one has run.
Yielded == ending = None

Unstored == {c \in Calls : tool[c] \notin {"none", "stored"}}

\* A prompt is accepted: the agent starts after Pi's preflight.
Prompt ==
    /\ agent = "idle" /\ record.status = "idle" /\ Len(branch) + 1 < MaxEntries
    /\ agent' = "prompted"
    /\ UNCHANGED <<now, branch, tool, compacted, named, file, server, browser>>

AgentStarts ==
    /\ Yielded /\ agent = "prompted"
    /\ agent' = "running"
    /\ EmitStatus("streaming")
    /\ UNCHANGED <<now, branch, tool, compacted, named, file, ending, lastAssistant,
                   reading, reads, overlooked>>

AnswerDue ==
    /\ branch # <<>>
    /\ LET last == Last(branch) IN last.role # "assistant"

\* The agent is done: the last message is an answer without open tool calls.
AgentEnds ==
    /\ Yielded /\ agent = "running" /\ now = None
    /\ branch # <<>> /\ ~AnswerDue /\ Unstored = {}
    /\ agent' = "idle"
    /\ EmitStatus("idle")
    /\ UNCHANGED <<now, branch, tool, compacted, named, file, ending, lastAssistant,
                   reading, reads, overlooked>>

MessageStart(m) ==
    /\ Yielded /\ agent = "running" /\ now = None /\ Len(branch) < MaxEntries
    /\ now' = m
    /\ EmitEvent([type |-> "message.started",
             message |-> SerializeLiveMessage(m, StreamId(Len(branch) + 1))])
    /\ UNCHANGED <<agent, branch, tool, compacted, named, file, server, overlooked>>

PiMessage(role, call, failed, parts) ==
    [role |-> role, call |-> call, failed |-> failed, parts |-> parts]

\* A prompt, or a message queued while the agent was running.
UserStarts ==
    /\ Unstored = {}
    /\ MessageStart(PiMessage("user", None, FALSE, <<Block("text", None, 1, "none")>>))

AssistantStarts ==
    /\ Unstored = {} /\ AnswerDue
    /\ MessageStart(PiMessage("assistant", None, FALSE, <<>>))

\* Results are stored in the order of the calls.
ResultStarts(c) ==
    /\ tool[c] \in {"succeeded", "failed"}
    /\ \E i \in DOMAIN branch : \E j \in DOMAIN branch[i].parts :
          /\ branch[i].parts[j].call = c
          /\ \A k \in 1..(j - 1) : branch[i].parts[k].call \notin Unstored
    /\ MessageStart(PiMessage("toolResult", c, tool[c] = "failed", <<>>))

Delta(type) ==
    LET index == IF now.parts # <<>> /\ Last(now.parts).type = type
                 THEN Len(now.parts) ELSE Len(now.parts) + 1
    IN /\ Yielded /\ now # None /\ now.role = "assistant"
       /\ index <= MaxParts
       /\ index \in DOMAIN now.parts => now.parts[index].text < MaxDeltas
       /\ now' = [now EXCEPT !.parts = ApplyDelta(@, index, type)]
       /\ EmitEvent([type |-> "message.delta", id |-> StreamId(Len(branch) + 1),
                index |-> index, block |-> type])
       /\ UNCHANGED <<agent, branch, tool, compacted, named, file, server, overlooked>>

\* Pi adds a tool call to the message; only its completion shows it.
CallPart(c) ==
    /\ Yielded /\ now # None /\ now.role = "assistant" /\ Len(now.parts) < MaxParts
    /\ tool[c] = "none"
    /\ now' = [now EXCEPT !.parts = Append(@, Block("tool-call", c, 0, "pending"))]
    /\ tool' = [tool EXCEPT ![c] = "named"]
    /\ UNCHANGED <<agent, branch, compacted, named, file, server, browser>>

\* message_end: the listener defers the completion, then Pi stores the entry.
\* The calls of an aborted or failed message are never executed.
MessageEnds(aborted) ==
    /\ Yielded /\ now # None
    /\ aborted => now.role = "assistant"
    /\ ending' = now /\ now' = None
    /\ branch' = Append(branch, now)
    /\ file' = TRUE
    /\ compacted' = (compacted /\ now.role # "assistant")
    /\ tool' = [c \in Calls |->
                  IF c = now.call THEN "stored"
                  ELSE IF tool[c] = "named" THEN IF aborted THEN "stored" ELSE "requested"
                  ELSE tool[c]]
    /\ UNCHANGED <<agent, named, lastAssistant, record, reading, reads, browser>>

\* The identity that Pi gave to the entry: the message is in the branch when
\* the deferred completion looks for it, so that the fallback to the temporary
\* identity is not taken.
PersistedEntryId == EntryId(Len(branch))

\* The deferred completion: message.completed, then the record.
Completes ==
    LET completed == [type |-> "message.completed",
                      message |-> SerializeLiveMessage(ending, PersistedEntryId),
                      usage |-> ContextUsage]
    IN /\ ending # None
       /\ ending' = None
       /\ lastAssistant' = IF ending.role = "assistant" THEN PersistedEntryId
                           ELSE lastAssistant
       /\ record' = Persisted(ending.role)
       /\ shown' = LET s == ApplyConversationEvent(shown, completed)
                   IN IF record' = record THEN s ELSE ApplyConversationEvent(s, MetadataEvent)
       /\ UNCHANGED <<pi, reading, reads, overlooked>>

ToolEvent(c, from, to, e) ==
    /\ Yielded /\ now = None
    /\ tool[c] \in from
    /\ tool' = [tool EXCEPT ![c] = to]
    /\ EmitEvent(e)
    /\ UNCHANGED <<agent, now, branch, compacted, named, file, server, overlooked>>

ToolStarts(c) ==
    ToolEvent(c, {"requested"}, "running",
              [type |-> "tool.started", id |-> lastAssistant, call |-> c])

ToolUpdates(c) ==
    ToolEvent(c, {"running"}, "running", [type |-> "tool.updated", call |-> c])

ToolEnds(c, status) ==
    ToolEvent(c, {"running"}, status, [type |-> "tool.completed", call |-> c, status |-> status])

\* A compaction completes between two answers.
Compacts ==
    /\ Yielded /\ now = None /\ Unstored = {} /\ branch # <<>> /\ ~compacted
    /\ compacted' = TRUE
    /\ EmitEvent([type |-> "compaction.completed"])
    /\ UNCHANGED <<agent, now, branch, tool, named, file, server, overlooked>>

\* Somebody removes the session file.
FileLost ==
    /\ file /\ agent = "idle"
    /\ file' = FALSE
    /\ UNCHANGED <<agent, now, branch, tool, compacted, named, server, browser>>

-----------------------------------------------------------------------------
Untitled == [title |-> "untitled", durable |-> FALSE, status |-> "idle"]

\* A new conversation, and the snapshot that its creation answers with.
LiveInit ==
    /\ agent = "idle" /\ now = None /\ branch = <<>>
    /\ tool = [c \in Calls |-> "none"]
    /\ compacted = FALSE /\ named = FALSE /\ file = FALSE
    /\ ending = None /\ lastAssistant = None
    /\ record = Untitled
    /\ reading = [op \in Reads |-> "none"] /\ reads = 0
    /\ shown = [messages |-> <<>>, status |-> "idle", title |-> "untitled",
                durable |-> FALSE, usage |-> 0]
    /\ overlooked = {}

LiveNext ==
    \/ GetState \/ Rename
    \/ \E op \in Reads : Refreshed(op) \/ HistoryRefreshed(op) \/ AccessFails(op)
    \/ Prompt \/ AgentStarts \/ AgentEnds \/ UserStarts \/ AssistantStarts
    \/ \E c \in Calls : ResultStarts(c) \/ CallPart(c) \/ ToolStarts(c) \/ ToolUpdates(c)
    \/ \E c \in Calls, status \in {"succeeded", "failed"} : ToolEnds(c, status)
    \/ \E type \in {"text", "thinking"} : Delta(type)
    \/ \E aborted \in BOOLEAN : MessageEnds(aborted)
    \/ Completes \/ Compacts \/ FileLost

LiveSpec == LiveInit /\ [][LiveNext]_liveVars

-----------------------------------------------------------------------------
(* What the timeline shows of a sequence of messages                       *)

ToolCallIds(messages) ==
    {c \in Calls : \E i \in DOMAIN messages : \E j \in DOMAIN messages[i].blocks :
        messages[i].blocks[j].type = "tool-call" /\ messages[i].blocks[j].call = c}

\* The last result of a call in the messages, or None.
ToolResult(messages, c) ==
    LET At(m) == SelectLastInSeq(m.blocks, LAMBDA b : b.type = "tool-result" /\ b.call = c)
        index == SelectLastInSeq(messages, LAMBDA m : At(m) # 0)
    IN IF index = 0 THEN None ELSE messages[index].blocks[At(messages[index])]

\* The outcome on a tool card: an open call hides the result that it has.
DisplayStatus(b, result) ==
    IF b.status \in {"pending", "running"} \/ result = None THEN b.status ELSE result.status

\* Calls in the set except are shown without their status.
Rendered(messages, b, except) ==
    IF b.type # "tool-call" THEN b
    ELSE LET result == ToolResult(messages, b.call)
         IN Block(b.type, b.call, IF result = None THEN 0 ELSE result.text,
                  IF b.call \in except THEN "any" ELSE DisplayStatus(b, result))

\* A result is shown on the card of its call, if there is one.
VisibleBlock(messages, b) == b.type # "tool-result" \/ b.call \notin ToolCallIds(messages)

\* The blocks and the messages that are shown, at their positions.
RenderedMessage(messages, m, except) ==
    [m EXCEPT !.blocks =
        [i \in {j \in DOMAIN @ : VisibleBlock(messages, @[j])} |->
            Rendered(messages, @[i], except)]]

HasVisibleContent(messages, m) ==
    \/ m.role = "user" \/ m.stopReason
    \/ \E i \in DOMAIN m.blocks : VisibleBlock(messages, m.blocks[i])

Timeline(messages, except) ==
    [i \in {j \in DOMAIN messages : HasVisibleContent(messages, messages[j])} |->
        RenderedMessage(messages, messages[i], except)]

-----------------------------------------------------------------------------
(* Properties                                                              *)

LiveTypeOK ==
    /\ agent \in {"idle", "prompted", "running"}
    /\ compacted \in BOOLEAN /\ named \in BOOLEAN /\ file \in BOOLEAN
    /\ branch \in Seq(Entries) /\ now \in Entries \cup {None} /\ ending \in Entries \cup {None}
    /\ tool \in [Calls -> {"none", "named", "requested", "running", "succeeded", "failed",
                           "stored"}]
    /\ lastAssistant \in MessageIds \cup {None}
    /\ record \in Records
    /\ reading \in [Reads -> ReadStages] /\ reads \in Nat
    /\ shown \in Screens
    /\ overlooked \subseteq Calls

Streaming(m) == m.entryId.kind = "stream"

\* Every stored message is on the browser's timeline once, in the order of
\* Pi's branch, under its permanent identity, however a snapshot falls between
\* message_start, message_end and the deferred completion; the one message
\* under a temporary identity is the last, and only while Pi is producing it.
EntriesInOrder ==
    LET n == Len(shown.messages)
        stored == IF n > 0 /\ Streaming(shown.messages[n]) THEN n - 1 ELSE n
    IN /\ \A i \in 1..stored : shown.messages[i].entryId = EntryId(i)
       /\ stored = Len(branch) \/ (ending # None /\ stored = Len(branch) - 1)
       /\ stored < n => now # None \/ ending # None

AtRest == agent = "idle" /\ ending = None

\* Once the agent has ended, the projection that events have built shows what
\* a fresh snapshot would show: the same messages, text, tool outcomes, title,
\* status, durability and context usage.  Excepted is the outcome of a call
\* that had ended, without a stored result, when a snapshot was taken.
ViewsAgree ==
    AtRest =>
        /\ Timeline(shown.messages, overlooked)
             = Timeline(SerializeActiveBranch(branch), overlooked)
        /\ shown.status = record.status /\ shown.title = record.title
        /\ shown.durable = record.durable /\ shown.usage = ContextUsage
=============================================================================
