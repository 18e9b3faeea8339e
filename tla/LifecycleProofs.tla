-------------------------- MODULE LifecycleProofs --------------------------
(***************************************************************************)
(* What the process keeps from its first line to its exit, for any number  *)
(* of hooks, browsers and commands: no query is issued outside the life of *)
(* the SQLite connection, no change of the conversations is lost on a      *)
(* subscriber, and no hook told to terminate leaves a process behind.      *)
(***************************************************************************)
EXTENDS Lifecycle, TLAPS

Starting == {"config", "probe", "factory", "recover", "bind"}

\* Which phases of startup and shutdown go together, and that storage is open
\* in all of them but the first and the last.
Phases ==
    /\ boot \in Starting => stage = "no"
    /\ boot = "failed" => stage # "no"
    /\ stage = "done" => boot = "failed" \/ proc \in {"exited", "expired"}
    /\ db = "open" \/ boot = "config" \/ stage = "done"

\* Runs exist once the scheduler has started, and a shutdown has sealed them.
RunsInv ==
    /\ boot \in {"config", "probe", "factory"} => ~admitting
    /\ boot \in Starting \ {"bind"} => \A h \in Hooks : run[h] = "none"
    /\ stage # "no" => /\ ~admitting
                       /\ sealed \/ \A h \in Hooks : run[h] = "none"
                       /\ \A h \in Hooks : hook[h].st # "run"
    /\ stage = "draining" => Disposed

\* A hook begins after its run, is told once, and ends told only by SIGKILL.
HooksInv ==
    \A h \in Hooks :
       /\ run[h] \in {"none", "ready"} => hook[h].st = "none"
       /\ hook[h].st \in {"none", "run"} => ~hook[h].told
       /\ hook[h].st = "done" /\ hook[h].told => hook[h].group = "dead"

\* Browsers exist only while the process serves, and only they subscribe.
ClientsInv ==
    /\ boot # "serving" => /\ ~accepting /\ ~refresh.running
                           /\ \A s \in Sockets : socket[s] = "none"
    /\ owed \subseteq subs
    /\ \A s \in Sockets : socket[s] = "none" =>
          s \notin subs /\ queue[s] = <<>> /\ busy[s] = None
    /\ RefreshOwed

LifecycleInv == TypeOK /\ NoLateQuery /\ Phases /\ RunsInv /\ HooksInv /\ ClientsInv

-----------------------------------------------------------------------------
(* Types.                                                                  *)

\* Terminate changes the state of a running hook and remembers that it did.
LEMMA TerminateFields ==
  ASSUME TypeOK, NEW h \in Hooks
  PROVE  LET k == Terminate(hook[h]) IN
         /\ k \in HookStates
         /\ k.st # "run" /\ k.group = hook[h].group
         /\ hook[h].st # "run" => k = hook[h]
         /\ hook[h].st = "run" => k.st = "term"
BY DEF TypeOK, HookStates, Terminate

\* Every command has a segment, and each of them uses SQLite or does not.
LEMMA StepsTyped ==
  ASSUME NEW c
  PROVE  Steps(c) \in Seq({"db", "free"}) /\ Steps(c) # <<>>
<1> DEFINE All == {<<"db">>, <<"db", "free">>, <<"free", "free">>, <<"free", "free", "free">>,
                   <<"db", "free", "free", "free">>, <<"free", "db", "free", "free">>,
                   <<"db", "db", "free", "free", "free">>,
                   <<"free", "db", "db", "free", "free", "free">>}
<1>1. \A q \in All : q \in Seq({"db", "free"}) /\ q # <<>>
  <2> DEFINE Steps1 == Seq({"db", "free"}) \ {<<>>}
  <2>1. <<"db">> \in Steps1 /\ <<"db", "free">> \in Steps1 /\ <<"free", "free">> \in Steps1
    OBVIOUS
  <2>2. <<"free", "free", "free">> \in Steps1 /\ <<"db", "free", "free", "free">> \in Steps1
    OBVIOUS
  <2>3. <<"free", "db", "free", "free">> \in Steps1
    OBVIOUS
  <2>4. <<"db", "db", "free", "free", "free">> \in Steps1
    OBVIOUS
  <2>5. <<"free", "db", "db", "free", "free", "free">> \in Steps1
    OBVIOUS
  <2>6. \A q \in Steps1 : q \in Seq({"db", "free"}) /\ q # <<>>
    OBVIOUS
  <2> HIDE DEF Steps1
  <2> QED
    BY <2>1, <2>2, <2>3, <2>4, <2>5, <2>6, Zenon
<1>2. /\ <<"db">> \in All /\ <<"db", "free">> \in All /\ <<"free", "free">> \in All
      /\ <<"free", "free", "free">> \in All /\ <<"db", "free", "free", "free">> \in All
      /\ <<"free", "db", "free", "free">> \in All
      /\ <<"db", "db", "free", "free", "free">> \in All
      /\ <<"free", "db", "db", "free", "free", "free">> \in All
  OBVIOUS
<1> HIDE DEF All
<1>3. WorkspaceSteps(c) \in All
  BY <1>2 DEF WorkspaceSteps
<1>4. JobSteps(c) \in All
  BY <1>2 DEF JobSteps
<1>5. ConversationSteps(c) \in All
  BY <1>2 DEF ConversationSteps
<1> QED
  BY <1>1, <1>3, <1>4, <1>5 DEF Steps

\* What is left of a command after a segment that was not its last.
LEMMA TailTyped ==
  ASSUME NEW q \in Seq({"db", "free"}), q # <<>>, Len(q) # 1
  PROVE  Tail(q) \in Seq({"db", "free"}) \ {<<>>}
<1>1. Tail(q) \in Seq({"db", "free"}) /\ Len(Tail(q)) = Len(q) - 1
  OBVIOUS
<1>2. Len(q) \in Nat /\ Len(q) # 0
  OBVIOUS
<1>3. Len(Tail(q)) # 0 /\ Len(<<>>) = 0
  BY <1>1, <1>2
<1>4. Tail(q) # <<>>
  BY <1>3
<1> QED
  BY <1>1, <1>4

\* Every step keeps the types.
LEMMA TypeStep ==
  ASSUME LifecycleAssumption, TypeOK, [Next]_vars
  PROVE  TypeOK'
<1> USE DEF process, storage, jobs, clients
<1>1. CASE OpenStorage \/ Probe \/ Construct \/ Bind
  <2>1. CASE OpenStorage
    BY <2>1 DEF OpenStorage, TypeOK
  <2>2. CASE Probe
    BY <2>2 DEF Probe, TypeOK
  <2>3. CASE Construct
    BY <2>3 DEF Construct, TypeOK
  <2>4. CASE Bind
    BY <2>4 DEF Bind, TypeOK
  <2> QED
    BY <1>1, <2>1, <2>2, <2>3, <2>4
<1>20. CASE Recover
  <2>1. run' \in [Hooks -> {"none", "ready", "hook", "prompt", "done"}]
    BY <1>20 DEF TypeOK, Recover
  <2> QED
    BY <1>20, <2>1 DEF TypeOK, Recover, Query
<1>2. CASE Unwinds \/ Drains \/ EarlySignal \/ Completes
  BY <1>2 DEF TypeOK, Unwinds, Drains, EarlySignal, Completes, CloseStorage
<1>3. CASE AbortsSettle \/ DisposeSettles \/ Deadline
  BY <1>3 DEF TypeOK, AbortsSettle, DisposeSettles, Deadline, CloseStorage
<1>4. ASSUME CoordinatorBegins
      PROVE  /\ hook' \in [Hooks -> HookStates]
             /\ admitting' \in BOOLEAN /\ late' \in BOOLEAN /\ sealed' \in BOOLEAN
             /\ stop' \subseteq Hooks
  BY <1>4, TerminateFields DEF CoordinatorBegins, Query, Active, TypeOK
<1>21. [refresh EXCEPT !.requested = FALSE] \in Refreshes
  BY DEF TypeOK, Refreshes
<1>5. CASE Signal
  BY <1>4, <1>5, <1>21 DEF Signal, ShutdownBegins, TypeOK
<1>6. CASE StartupFails
  <2>1. CASE boot = "bind" /\ ShutdownBegins
    BY <1>4, <1>6, <1>21, <2>1 DEF StartupFails, ShutdownBegins, TypeOK
  <2>2. CASE CoordinatorBegins /\ stage' = "unwinding" /\ UNCHANGED <<db, run, script, clients>>
    BY <1>4, <1>6, <2>2 DEF StartupFails, TypeOK
  <2>3. CASE /\ db' = IF db = "open" THEN "closed" ELSE db
             /\ stage' = "done"
             /\ UNCHANGED <<late, sealed, jobs, clients>>
    BY <1>6, <2>3 DEF StartupFails, TypeOK
  <2> QED
    BY <1>6, <2>1, <2>2, <2>3 DEF StartupFails
<1>7. CASE ScriptChanges
  <2>1. script' \in Scripts
    BY <1>7 DEF ScriptChanges, TypeOK, Scripts
  <2> QED
    BY <1>7, <2>1 DEF ScriptChanges, TypeOK
<1>8. ASSUME NEW h \in Hooks, RunProceeds(h) \/ RunResumes(h) \/ PromptEnds(h) \/ Dispatch(h)
      PROVE  TypeOK'
  <2>1. late' \in BOOLEAN
    BY <1>8 DEF TypeOK, RunProceeds, RunResumes, PromptEnds, Dispatch, Query
  <2>2. run' \in [Hooks -> {"none", "ready", "hook", "prompt", "done"}]
    <3>1. \E x \in {"ready", "hook", "prompt", "done"} : run' = [run EXCEPT ![h] = x]
      BY <1>8 DEF RunProceeds, RunResumes, PromptEnds, Dispatch
    <3> QED
      BY <3>1 DEF TypeOK
  <2>3. hook' \in [Hooks -> HookStates]
    <3> DEFINE k == [hook[h] EXCEPT !.st = "run", !.group = "live"]
    <3>1. k \in HookStates
      BY DEF TypeOK, HookStates
    <3>2. hook' = hook \/ hook' = [hook EXCEPT ![h] = k]
      BY <1>8 DEF TypeOK, RunProceeds, RunResumes, PromptEnds, Dispatch
    <3> QED
      BY <3>1, <3>2 DEF TypeOK
  <2> QED
    BY <1>8, <2>1, <2>2, <2>3 DEF TypeOK, RunProceeds, RunResumes, PromptEnds, Dispatch
<1>9. ASSUME NEW h \in Hooks, GroupShrinks(h) \/ HookTerminates(h) \/ ChildCloses(h)
                              \/ Escalate(h) \/ Output(h) \/ Abort(h)
      PROVE  TypeOK'
  <2>1. Terminate(hook[h]) \in HookStates
    BY TerminateFields
  <2>2. hook[h] \in HookStates
    BY DEF TypeOK
  <2>3. \E k \in HookStates : hook' = [hook EXCEPT ![h] = k]
    <3>1. ASSUME NEW g \in {"mute", "dead"}
          PROVE  [hook[h] EXCEPT !.group = g] \in HookStates
      BY <2>2 DEF HookStates
    <3>2. CASE GroupShrinks(h)
      <4>1. PICK g \in {"mute", "dead"} : hook' = [hook EXCEPT ![h].group = g]
        BY <3>2 DEF GroupShrinks
      <4> QED
        BY <4>1, <3>1
    <3>3. CASE HookTerminates(h) \/ Abort(h)
      BY <3>3, <2>1 DEF HookTerminates, Abort
    <3>4. ASSUME NEW ok \in BOOLEAN
          PROVE  [hook[h] EXCEPT !.closed = TRUE, !.st = "done", !.ok = ok] \in HookStates
      BY <2>2 DEF HookStates
    <3>5. [hook[h] EXCEPT !.closed = TRUE] \in HookStates
      BY <2>2 DEF HookStates
    <3>6. CASE ChildCloses(h)
      <4>1. CASE hook[h].st = "term"
        BY <3>5, <3>6, <4>1 DEF ChildCloses
      <4>2. CASE hook[h].st # "term"
        <5>1. PICK ok \in BOOLEAN :
                hook' = [hook EXCEPT ![h].closed = TRUE, ![h].st = "done", ![h].ok = ok]
          BY <3>6, <4>2 DEF ChildCloses
        <5> QED
          BY <3>4, <5>1
      <4> QED
        BY <4>1, <4>2
    <3>7. [hook[h] EXCEPT !.st = "done", !.group = "dead"] \in HookStates
      BY <2>2 DEF HookStates
    <3>8. CASE Escalate(h)
      BY <3>7, <3>8 DEF Escalate
    <3>9. CASE Output(h) /\ hook[h].out < MaxOutput
      <4> DEFINE n == hook[h].out + 1
      <4>1. n \in 0..MaxOutput
        BY <2>2, <3>9 DEF HookStates, LifecycleAssumption
      <4>2. hook' = [hook EXCEPT ![h].out = n]
        BY <3>9 DEF Output
      <4> HIDE DEF n
      <4>3. [hook[h] EXCEPT !.out = n] \in HookStates
        BY <2>2, <4>1 DEF HookStates
      <4> QED
        BY <4>2, <4>3
    <3>10. CASE Output(h) /\ ~(hook[h].out < MaxOutput)
      BY <2>1, <3>10 DEF Output
    <3> QED
      BY <1>9, <3>2, <3>3, <3>6, <3>8, <3>9, <3>10
  <2>4. hook' \in [Hooks -> HookStates]
    BY <2>3 DEF TypeOK
  <2>5. stop' \subseteq Hooks
    BY <1>9 DEF TypeOK, GroupShrinks, HookTerminates, ChildCloses, Escalate, Output, Abort
  <2> QED
    BY <1>9, <2>4, <2>5 DEF TypeOK, GroupShrinks, HookTerminates, ChildCloses, Escalate, Output,
       Abort
<1>11. ASSUME NEW s \in Sockets, Connect(s) \/ SocketCloses(s) \/ Reject(s)
       PROVE  TypeOK'
  <2>1. socket' \in [Sockets -> {"none", "open", "closing", "gone"}]
    BY <1>11 DEF TypeOK, Connect, SocketCloses, Reject
  <2>2. busy' \in [Sockets -> {None} \cup Work]
    BY <1>11 DEF TypeOK, Connect, SocketCloses, Reject
  <2> QED
    BY <1>11, <2>1, <2>2 DEF TypeOK, Connect, SocketCloses, Reject
<1>12. ASSUME NEW s \in Sockets, NEW c \in Commands, Receive(s, c)
       PROVE  TypeOK'
  <2>1. Append(queue[s], c) \in Seq(Commands)
    BY DEF TypeOK
  <2>2. queue' \in [Sockets -> Seq(Commands)]
    BY <1>12, <2>1 DEF TypeOK, Receive
  <2>3. spent' \in 0..MaxEvents
    BY <1>12 DEF TypeOK, Receive, LifecycleAssumption
  <2> QED
    BY <1>12, <2>2, <2>3 DEF TypeOK, Receive
<1>13. ASSUME NEW current, ScheduleRefresh(current), current \subseteq Sockets
       PROVE  /\ refresh' \in Refreshes
              /\ owed' \subseteq Sockets /\ late' \in BOOLEAN
  <2>1. /\ Idle \in Refreshes /\ [running |-> TRUE, requested |-> FALSE] \in Refreshes
        /\ [refresh EXCEPT !.requested = TRUE] \in Refreshes
    BY DEF TypeOK, Refreshes, Idle
  <2> QED
    BY <1>13, <2>1 DEF TypeOK, ScheduleRefresh, Query
<1>14. CASE RegistryEvent
  <2>1. spent' \in 0..MaxEvents
    BY <1>14 DEF TypeOK, RegistryEvent, LifecycleAssumption
  <2>2. subs \subseteq Sockets /\ ScheduleRefresh(subs)
    BY <1>14 DEF TypeOK, RegistryEvent
  <2>3. /\ refresh' \in Refreshes
        /\ owed' \subseteq Sockets /\ late' \in BOOLEAN
    BY <1>13, <2>2
  <2> QED
    BY <1>14, <2>1, <2>3 DEF TypeOK, RegistryEvent
<1>19. CASE RefreshSettles
  <2>1. /\ refresh' \in Refreshes
        /\ owed' \subseteq Sockets /\ late' \in BOOLEAN
    <3>1. Idle \in Refreshes /\ [running |-> TRUE, requested |-> FALSE] \in Refreshes
      BY DEF Refreshes, Idle
    <3> QED
      BY <1>19, <3>1 DEF TypeOK, RefreshSettles, Query
  <2> QED
    BY <1>19, <2>1 DEF TypeOK, RefreshSettles
<1>15. ASSUME NEW s \in Sockets, NEW c \in Commands, Reply(s, c),
              late' \in BOOLEAN \/ UNCHANGED late
       PROVE  /\ refresh' \in Refreshes
              /\ owed' \subseteq Sockets /\ subs' \subseteq Sockets
              /\ busy' \in [Sockets -> {None} \cup Work]
  BY <1>13, <1>15 DEF TypeOK, Reply
<1>16. ASSUME NEW s \in Sockets, Begin(s)
       PROVE  TypeOK'
  <2> DEFINE c == Head(queue[s])
             w == [cmd |-> c, rest |-> Tail(Steps(c))]
  <2>1. c \in Commands /\ queue' \in [Sockets -> Seq(Commands)]
    BY <1>16 DEF Begin, TypeOK
  <2>2. late' \in BOOLEAN
    BY <1>16 DEF Begin, Query, TypeOK
  <2>3. Len(Steps(c)) # 1 => w \in Work
    BY <2>1, StepsTyped, TailTyped DEF Work
  <2> HIDE DEF w
  <2>4. \/ UNCHANGED <<busy, subs, refresh, owed>>
        \/ Reply(s, c)
        \/ /\ Len(Steps(c)) # 1 /\ busy' = [busy EXCEPT ![s] = w]
           /\ UNCHANGED <<subs, refresh, owed>>
    BY <1>16 DEF Begin, w
  <2> HIDE DEF c
  <2>5. /\ refresh' \in Refreshes
        /\ owed' \subseteq Sockets /\ subs' \subseteq Sockets
        /\ busy' \in [Sockets -> {None} \cup Work]
    <3>1. CASE Reply(s, c)
      BY <1>15, <2>1, <2>2, <3>1
    <3>2. CASE ~Reply(s, c)
      BY <2>3, <2>4, <3>2 DEF TypeOK
    <3> QED
      BY <3>1, <3>2
  <2> QED
    BY <1>16, <2>1, <2>2, <2>5 DEF Begin, TypeOK
<1>17. ASSUME NEW s \in Sockets, Resume(s)
       PROVE  TypeOK'
  <2> DEFINE b == busy[s]
             w == [busy[s] EXCEPT !.rest = Tail(busy[s].rest)]
  <2>1. b \in Work
    BY <1>17 DEF Resume, TypeOK
  <2>2. Len(b.rest) # 1 => w \in Work
    BY <2>1, TailTyped DEF Work
  <2>3. \/ Reply(s, b.cmd) /\ (b.cmd \notin Affecting => UNCHANGED late)
        \/ /\ Len(b.rest) # 1
           /\ busy' = [busy EXCEPT ![s] = w]
           /\ late' \in BOOLEAN
           /\ UNCHANGED <<subs, refresh, owed>>
    <3>1. [busy EXCEPT ![s].rest = Tail(@)] = [busy EXCEPT ![s] = w]
      OBVIOUS
    <3> QED
      BY <1>17, <3>1 DEF Resume, Query, TypeOK
  <2>4. b.cmd \in Commands
    BY <2>1 DEF Work
  <2>5. late' \in BOOLEAN
    <3>1. CASE Reply(s, b.cmd) /\ b.cmd \in Affecting
      BY <3>1, <1>13, <2>4 DEF Reply, TypeOK
    <3> QED
      BY <2>3, <3>1 DEF TypeOK
  <2> HIDE DEF w
  <2>6. /\ refresh' \in Refreshes
        /\ owed' \subseteq Sockets /\ subs' \subseteq Sockets
        /\ busy' \in [Sockets -> {None} \cup Work]
    BY <1>15, <2>2, <2>3, <2>4, <2>5 DEF TypeOK
  <2> QED
    BY <1>17, <2>5, <2>6 DEF Resume, TypeOK
<1>18. CASE UNCHANGED vars
  BY <1>18 DEF vars, TypeOK
<1> QED
  BY <1>1, <1>2, <1>3, <1>5, <1>6, <1>7, <1>8, <1>9, <1>11, <1>12, <1>14, <1>16, <1>17,
     <1>18, <1>19, <1>20 DEF Next, Ended

-----------------------------------------------------------------------------
(* Storage.                                                                *)

\* The phases of startup and shutdown follow one another, and only the end of
\* a shutdown or of an unwinding closes storage.
LEMMA PhasesStep ==
  ASSUME TypeOK, Phases, [Next]_vars
  PROVE  Phases'
<1> USE DEF process, storage, jobs, clients, Phases, Starting, Up
<1>1. CASE OpenStorage \/ Probe \/ Construct \/ Bind \/ Recover
  BY <1>1 DEF OpenStorage, Probe, Construct, Bind, Recover
<1>2. CASE Unwinds \/ Completes \/ Deadline
  <2>1. boot \in {"failed", "serving"}
    BY <1>2 DEF Unwinds, Completes, Deadline, TypeOK
  <2> QED
    BY <1>2, <2>1 DEF Unwinds, Completes, Deadline, CloseStorage
<1>3. CASE Drains \/ EarlySignal
  BY <1>3 DEF Drains, EarlySignal
<1>4. CASE AbortsSettle \/ DisposeSettles
  BY <1>4 DEF AbortsSettle, DisposeSettles
<1>5. CASE Signal
  BY <1>5 DEF Signal, ShutdownBegins, CoordinatorBegins
<1>6. CASE StartupFails
  BY <1>6 DEF StartupFails, ShutdownBegins, CoordinatorBegins
<1>7. CASE ScriptChanges \/ RegistryEvent \/ RefreshSettles
  BY <1>7 DEF ScriptChanges, RegistryEvent, RefreshSettles
<1>8. ASSUME NEW h \in Hooks,
             \/ RunProceeds(h) \/ GroupShrinks(h) \/ Output(h) \/ HookTerminates(h)
             \/ ChildCloses(h) \/ Escalate(h) \/ RunResumes(h) \/ PromptEnds(h)
             \/ Dispatch(h) \/ Abort(h)
      PROVE  Phases'
  BY <1>8 DEF RunProceeds, GroupShrinks, Output, HookTerminates, ChildCloses, Escalate,
     RunResumes, PromptEnds, Dispatch, Abort
<1>9. ASSUME NEW s \in Sockets,
             \/ Connect(s) \/ SocketCloses(s) \/ Begin(s) \/ Resume(s) \/ Reject(s)
             \/ \E c \in Commands : Receive(s, c)
      PROVE  Phases'
  BY <1>9 DEF Connect, SocketCloses, Begin, Resume, Reject, Receive
<1>10. CASE UNCHANGED vars
  BY <1>10 DEF vars
<1> QED
  BY <1>1, <1>2, <1>3, <1>4, <1>5, <1>6, <1>7, <1>8, <1>9, <1>10 DEF Next, Ended

\* Whoever can still query SQLite does so while it is open: an unsealed run, a
\* connection's command, a refresh or a conversation's event.
LEMMA QueriersFindItOpen ==
  ASSUME TypeOK, Phases, RunsInv, ClientsInv, Up
  PROVE  /\ boot \in {"probe", "factory", "recover", "bind", "serving"} => db = "open"
         /\ ~sealed /\ (\E h \in Hooks : run[h] # "none") => db = "open"
         /\ refresh.running => db = "open"
         /\ \A s \in Sockets : queue[s] # <<>> \/ busy[s] # None => db = "open"
<1>1. boot \in {"probe", "factory", "recover", "bind", "serving"} => db = "open"
  BY DEF Phases, Starting, Up
<1>2. ~sealed /\ (\E h \in Hooks : run[h] # "none") => db = "open"
  BY DEF Phases, RunsInv, Starting
<1>3. ASSUME boot # "serving" PROVE ~refresh.running
  BY <1>3 DEF ClientsInv, Idle
<1>4. ASSUME NEW s \in Sockets, boot # "serving" PROVE queue[s] = <<>> /\ busy[s] = None
  BY <1>4 DEF ClientsInv
<1> QED
  BY <1>1, <1>2, <1>3, <1>4

\* Every step that queries SQLite finds it open.
LEMMA LateStep ==
  ASSUME TypeOK, NoLateQuery, Phases, RunsInv, ClientsInv, [Next]_vars
  PROVE  NoLateQuery'
<1> USE DEF process, storage, jobs, clients, NoLateQuery
<1>1. CASE OpenStorage \/ Probe \/ Construct \/ Bind
  BY <1>1 DEF OpenStorage, Probe, Construct, Bind
<1>2. CASE Unwinds \/ Completes \/ Deadline \/ Drains \/ EarlySignal \/ AbortsSettle
             \/ DisposeSettles \/ ScriptChanges
  BY <1>2 DEF Unwinds, Completes, Deadline, Drains, EarlySignal, AbortsSettle, DisposeSettles,
     ScriptChanges
<1>3. CASE Recover
  BY <1>3, QueriersFindItOpen DEF Recover, Query
<1>4. CASE Signal
  BY <1>4, QueriersFindItOpen DEF Signal, ShutdownBegins, CoordinatorBegins, Query
<1>5. CASE StartupFails
  BY <1>5, QueriersFindItOpen DEF StartupFails, ShutdownBegins, CoordinatorBegins, Query
<1>6. CASE RegistryEvent
  BY <1>6, QueriersFindItOpen DEF RegistryEvent, ScheduleRefresh, Query
<1>7. CASE RefreshSettles
  BY <1>7, QueriersFindItOpen DEF RefreshSettles, Query
<1>8. ASSUME NEW h \in Hooks, \/ GroupShrinks(h) \/ Output(h) \/ HookTerminates(h)
                              \/ ChildCloses(h) \/ Escalate(h) \/ Abort(h)
      PROVE  NoLateQuery'
  BY <1>8 DEF GroupShrinks, Output, HookTerminates, ChildCloses, Escalate, Abort
<1>9. ASSUME NEW h \in Hooks, RunProceeds(h) \/ RunResumes(h) \/ PromptEnds(h) \/ Dispatch(h)
      PROVE  NoLateQuery'
  BY <1>9, QueriersFindItOpen DEF RunProceeds, RunResumes, PromptEnds, Dispatch, Query
<1>10. ASSUME NEW s \in Sockets, Connect(s) \/ SocketCloses(s) \/ Reject(s)
                                 \/ \E c \in Commands : Receive(s, c)
       PROVE  NoLateQuery'
  BY <1>10 DEF Connect, SocketCloses, Reject, Receive
<1>11. ASSUME NEW s \in Sockets, Begin(s)
       PROVE  NoLateQuery'
  BY <1>11, QueriersFindItOpen DEF Begin, Query
<1>12. ASSUME NEW s \in Sockets, Resume(s)
       PROVE  NoLateQuery'
  <2>1. db = "open"
    BY <1>12, QueriersFindItOpen DEF Resume
  <2> QED
    BY <1>12, <2>1 DEF Resume, Query, Reply, ScheduleRefresh
<1>13. CASE UNCHANGED vars
  BY <1>13 DEF vars
<1> QED
  BY <1>1, <1>2, <1>3, <1>4, <1>5, <1>6, <1>7, <1>8, <1>9, <1>10, <1>11, <1>12, <1>13
     DEF Next, Ended

-----------------------------------------------------------------------------
(* Hooks and runs.                                                         *)

\* The beginning of a shutdown leaves no hook running and ends none.
LEMMA CoordinatorEffect ==
  ASSUME TypeOK, CoordinatorBegins
  PROVE  /\ ~admitting' /\ sealed'
         /\ \A h \in Hooks : /\ hook'[h] = Terminate(hook[h])
                             /\ hook'[h].st # "run"
                             /\ hook[h].st \in {"none", "done"} => hook'[h] = hook[h]
                             /\ hook[h].st \in {"run", "term"} => hook'[h].st = "term"
<1>1. \A h \in Hooks : hook'[h] = Terminate(hook[h])
  BY DEF CoordinatorBegins
<1>2. \A h \in Hooks : hook[h].st = "term" => Terminate(hook[h]) = hook[h]
  BY TerminateFields
<1> QED
  BY <1>1, <1>2, TerminateFields DEF CoordinatorBegins

\* Every step keeps the relation of runs, hooks and their process groups.
LEMMA HooksStep ==
  ASSUME TypeOK, RunsInv, HooksInv, [Next]_vars
  PROVE  HooksInv'
<1> USE DEF process, storage, jobs, clients
<1>1. CASE OpenStorage \/ Probe \/ Construct \/ Bind
  BY <1>1 DEF OpenStorage, Probe, Construct, Bind, HooksInv
<1>2. CASE Unwinds \/ Completes \/ Deadline \/ Drains \/ EarlySignal \/ AbortsSettle
             \/ DisposeSettles \/ ScriptChanges
  BY <1>2 DEF Unwinds, Completes, Deadline, Drains, EarlySignal, AbortsSettle, DisposeSettles,
     ScriptChanges, HooksInv
<1>3. CASE Recover
  BY <1>3 DEF Recover, HooksInv, RunsInv, Starting
<1>4. ASSUME CoordinatorBegins, UNCHANGED run
      PROVE  HooksInv'
  BY <1>4, CoordinatorEffect DEF HooksInv, TypeOK, HookStates
<1>5. CASE Signal
  BY <1>4, <1>5 DEF Signal, ShutdownBegins
<1>6. CASE StartupFails
  BY <1>4, <1>6 DEF StartupFails, ShutdownBegins, HooksInv
<1>7. CASE RegistryEvent \/ RefreshSettles
  BY <1>7 DEF RegistryEvent, RefreshSettles, HooksInv
<1>8. ASSUME NEW h \in Hooks, RunProceeds(h)
      PROVE  HooksInv'
  <2>1. \A g \in Hooks \ {h} : run'[g] = run[g] /\ hook'[g] = hook[g]
    BY <1>8 DEF RunProceeds, TypeOK
  <2>2. \/ run'[h] = "done" /\ hook'[h] = hook[h]
        \/ run'[h] = "hook" /\ hook'[h].st = "run" /\ hook'[h].told = hook[h].told
    BY <1>8 DEF RunProceeds, TypeOK, HookStates
  <2>3. hook[h].st = "none"
    BY <1>8 DEF RunProceeds, HooksInv
  <2> QED
    BY <2>1, <2>2, <2>3 DEF HooksInv
<1>9. ASSUME NEW h \in Hooks, RunResumes(h) \/ PromptEnds(h) \/ Dispatch(h)
      PROVE  HooksInv'
  BY <1>9 DEF RunResumes, PromptEnds, Dispatch, HooksInv, TypeOK, HookStates
<1>10. ASSUME NEW h \in Hooks, GroupShrinks(h) \/ ChildCloses(h) \/ Escalate(h)
       PROVE  HooksInv'
  <2>1. \A g \in Hooks \ {h} : hook'[g] = hook[g]
    BY <1>10 DEF GroupShrinks, ChildCloses, Escalate, TypeOK
  <2>2. hook'[h].told = hook[h].told /\ UNCHANGED run
    BY <1>10 DEF GroupShrinks, ChildCloses, Escalate, TypeOK, HookStates
  <2>3. CASE GroupShrinks(h)
    <3>1. hook'[h].st = hook[h].st /\ hook[h].group # "dead"
      BY <2>3 DEF GroupShrinks, TypeOK, HookStates
    <3> QED
      BY <2>1, <2>2, <3>1 DEF HooksInv
  <2>4. CASE ChildCloses(h)
    <3>1. \/ hook[h].st = "term" /\ hook'[h].st = "term"
          \/ hook[h].st = "run" /\ hook'[h].st = "done"
      BY <2>4 DEF ChildCloses, TypeOK, HookStates
    <3> QED
      BY <2>1, <2>2, <3>1 DEF HooksInv
  <2>5. CASE Escalate(h)
    <3>1. hook[h].st = "term" /\ hook'[h].st = "done" /\ hook'[h].group = "dead"
      BY <2>5 DEF Escalate, TypeOK, HookStates
    <3> QED
      BY <2>1, <2>2, <3>1 DEF HooksInv
  <2> QED
    BY <1>10, <2>3, <2>4, <2>5
<1>11. ASSUME NEW h \in Hooks, Output(h) \/ HookTerminates(h) \/ Abort(h)
       PROVE  HooksInv'
  <2>1. UNCHANGED run /\ \A g \in Hooks \ {h} : hook'[g] = hook[g]
    BY <1>11 DEF Output, HookTerminates, Abort, TypeOK
  <2>2. \/ hook'[h] = Terminate(hook[h])
        \/ hook'[h].st = hook[h].st /\ hook'[h].told = hook[h].told
           /\ hook'[h].group = hook[h].group
    BY <1>11 DEF Output, HookTerminates, Abort, TypeOK, HookStates
  <2>3. \/ hook'[h].st = "term" /\ hook[h].st = "run"
        \/ hook'[h].st = hook[h].st /\ hook'[h].told = hook[h].told
           /\ hook'[h].group = hook[h].group
    BY <2>2, TerminateFields
  <2> QED
    BY <2>1, <2>3 DEF HooksInv
<1>12. ASSUME NEW s \in Sockets,
             \/ Connect(s) \/ SocketCloses(s) \/ Begin(s) \/ Resume(s) \/ Reject(s)
             \/ \E c \in Commands : Receive(s, c)
      PROVE  HooksInv'
  BY <1>12 DEF Connect, SocketCloses, Begin, Resume, Reject, Receive, HooksInv
<1>13. CASE UNCHANGED vars
  BY <1>13 DEF vars, HooksInv
<1> QED
  BY <1>1, <1>2, <1>3, <1>5, <1>6, <1>7, <1>8, <1>9, <1>10, <1>11, <1>12, <1>13
     DEF Next, Ended

\* Runs exist only after the recovery, and a shutdown seals every one of them.
LEMMA RunsStep ==
  ASSUME TypeOK, Phases, RunsInv, HooksInv, [Next]_vars
  PROVE  RunsInv'
<1> USE DEF process, storage, jobs, clients, Starting
<1>1. CASE OpenStorage \/ Probe \/ Construct \/ Bind
  BY <1>1 DEF OpenStorage, Probe, Construct, Bind, RunsInv, Disposed, Phases
<1>2. CASE Drains \/ EarlySignal \/ ScriptChanges \/ RegistryEvent \/ RefreshSettles
  BY <1>2 DEF Drains, EarlySignal, ScriptChanges, RegistryEvent, RefreshSettles, RunsInv, Disposed
<1>3. CASE Unwinds \/ Completes \/ Deadline
  BY <1>3 DEF Unwinds, Completes, Deadline, CloseStorage, RunsInv, Disposed
<1>4. CASE AbortsSettle \/ DisposeSettles
  BY <1>4 DEF AbortsSettle, DisposeSettles, RunsInv, Disposed
<1>5. CASE Recover
  BY <1>5 DEF Recover, RunsInv, Phases, Disposed
<1>6. CASE Signal
  BY <1>6, CoordinatorEffect DEF Signal, ShutdownBegins, RunsInv, Disposed
<1>7. CASE StartupFails
  <2>1. CASE CoordinatorBegins /\ stage' \in {"aborting", "unwinding"} /\ UNCHANGED run
    BY <1>7, <2>1, CoordinatorEffect DEF StartupFails, RunsInv, Disposed
  <2>2. CASE /\ boot \in {"config", "probe", "factory"}
             /\ stage' = "done"
             /\ UNCHANGED <<late, sealed, jobs, clients>>
    BY <1>7, <2>2 DEF StartupFails, RunsInv, HooksInv, Disposed
  <2> QED
    BY <1>7, <2>1, <2>2 DEF StartupFails, ShutdownBegins
<1>8. ASSUME NEW h \in Hooks, RunProceeds(h)
      PROVE  RunsInv'
  <2>1. UNCHANGED <<process, sealed, admitting>> /\ run[h] = "ready"
    BY <1>8 DEF RunProceeds
  <2>2. \A g \in Hooks \ {h} : run'[g] = run[g] /\ hook'[g] = hook[g]
    BY <1>8 DEF RunProceeds, TypeOK
  <2>3. run'[h] \in {"done", "hook"} /\ (~admitting => run'[h] = "done" /\ hook'[h] = hook[h])
    BY <1>8 DEF RunProceeds, TypeOK
  <2>4. boot \notin Starting \ {"bind"}
    BY <2>1 DEF RunsInv
  <2>5. stage # "no" => ~admitting /\ sealed
    BY <2>1 DEF RunsInv
  <2>6. stage # "draining"
    BY <2>1 DEF RunsInv, Disposed
  <2> QED
    BY <2>1, <2>2, <2>3, <2>4, <2>5, <2>6 DEF RunsInv
<1>9. ASSUME NEW h \in Hooks, RunResumes(h) \/ PromptEnds(h)
      PROVE  RunsInv'
  <2>1. UNCHANGED <<process, sealed, admitting, hook>> /\ run[h] \in {"hook", "prompt"}
    BY <1>9 DEF RunResumes, PromptEnds
  <2>2. \A g \in Hooks \ {h} : run'[g] = run[g]
    BY <1>9 DEF RunResumes, PromptEnds, TypeOK
  <2>3. boot \notin Starting \ {"bind"} /\ (stage # "no" => sealed) /\ stage # "draining"
    BY <2>1 DEF RunsInv, Disposed
  <2> QED
    BY <2>1, <2>2, <2>3 DEF RunsInv
<1>10. ASSUME NEW h \in Hooks, Dispatch(h)
       PROVE  RunsInv'
  BY <1>10 DEF Dispatch, RunsInv, Disposed
<1>11. ASSUME NEW h \in Hooks, GroupShrinks(h) \/ ChildCloses(h) \/ Escalate(h) \/ Output(h)
                               \/ HookTerminates(h) \/ Abort(h)
       PROVE  RunsInv'
  <2>1. UNCHANGED <<process, sealed, admitting, run>>
    BY <1>11 DEF GroupShrinks, ChildCloses, Escalate, Output, HookTerminates, Abort
  <2>2. \A g \in Hooks \ {h} : hook'[g] = hook[g]
    BY <1>11 DEF GroupShrinks, ChildCloses, Escalate, Output, HookTerminates, Abort, TypeOK
  <2>3. hook'[h].st \in {"run", "term"} => hook[h].st \in {"run", "term"}
    BY <1>11, TerminateFields DEF GroupShrinks, ChildCloses, Escalate, Output, HookTerminates,
       Abort, TypeOK, HookStates
  <2>4. hook'[h].st = "run" => hook[h].st = "run"
    BY <1>11, TerminateFields DEF GroupShrinks, ChildCloses, Escalate, Output, HookTerminates,
       Abort, TypeOK, HookStates
  <2> QED
    BY <2>1, <2>2, <2>3, <2>4 DEF RunsInv, Disposed
<1>12. ASSUME NEW s \in Sockets,
             \/ Connect(s) \/ SocketCloses(s) \/ Begin(s) \/ Resume(s) \/ Reject(s)
             \/ \E c \in Commands : Receive(s, c)
      PROVE  RunsInv'
  BY <1>12 DEF Connect, SocketCloses, Begin, Resume, Reject, Receive, RunsInv, Disposed
<1>13. CASE UNCHANGED vars
  BY <1>13 DEF vars, RunsInv, Disposed
<1> QED
  BY <1>1, <1>2, <1>3, <1>4, <1>5, <1>6, <1>7, <1>8, <1>9, <1>10, <1>11, <1>12, <1>13
     DEF Next, Ended

-----------------------------------------------------------------------------
(* Browsers.                                                               *)

\* A refresh is scheduled for the current subscribers only, and whoever is owed
\* a listing afterwards has a round requested.
LEMMA ScheduleEffect ==
  ASSUME TypeOK, NEW current \in SUBSET Sockets, owed \subseteq current, RefreshOwed,
         ScheduleRefresh(current), UNCHANGED <<disposed, socket>>
  PROVE  owed' \subseteq current /\ RefreshOwed'
<1>1. CASE disposed \/ current = {}
  BY <1>1 DEF ScheduleRefresh, RefreshOwed
<1>2. CASE ~(disposed \/ current = {}) /\ refresh.running
  <2>1. refresh' = [refresh EXCEPT !.requested = TRUE] /\ owed' = owed \cup current
    BY <1>2 DEF ScheduleRefresh
  <2>2. refresh'.running /\ refresh'.requested
    BY <1>2, <2>1 DEF TypeOK, Refreshes
  <2> QED
    BY <2>1, <2>2 DEF RefreshOwed
<1>3. CASE ~(disposed \/ current = {}) /\ ~refresh.running
  <2>1. owed' = {}
    BY <1>3 DEF ScheduleRefresh
  <2> QED
    BY <2>1 DEF RefreshOwed
<1> QED
  BY <1>1, <1>2, <1>3

\* The end of a command subscribes only its own connection.
LEMMA ReplyEffect ==
  ASSUME TypeOK, NEW s \in Sockets, NEW c \in Commands, owed \subseteq subs, RefreshOwed,
         Reply(s, c), UNCHANGED <<disposed, socket>>
  PROVE  /\ owed' \subseteq subs' /\ RefreshOwed'
         /\ subs \subseteq subs' /\ subs' \subseteq subs \cup {s}
         /\ \A r \in Sockets \ {s} : busy'[r] = busy[r]
<1>1. /\ subs \subseteq subs' /\ subs' \subseteq subs \cup {s}
      /\ \A r \in Sockets \ {s} : busy'[r] = busy[r]
  BY DEF Reply, TypeOK
<1>2. CASE c \in Affecting
  <2>1. ScheduleRefresh(subs') /\ subs' \in SUBSET Sockets /\ owed \subseteq subs'
    BY <1>1, <1>2 DEF Reply, TypeOK
  <2> HIDE DEF ScheduleRefresh
  <2> QED
    BY <1>1, <2>1, ScheduleEffect
<1>3. CASE c \notin Affecting
  BY <1>1, <1>3 DEF Reply, RefreshOwed
<1> QED
  BY <1>1, <1>2, <1>3

\* Connections, subscriptions and refreshes begin and end with serving, and no
\* step forgets a browser that is owed a listing.
LEMMA ClientsStep ==
  ASSUME TypeOK, ClientsInv, [Next]_vars
  PROVE  ClientsInv'
<1> USE DEF process, storage, jobs, clients
<1>1. CASE OpenStorage \/ Probe \/ Construct \/ Recover \/ Bind
  BY <1>1 DEF OpenStorage, Probe, Construct, Recover, Bind, ClientsInv, RefreshOwed
<1>2. CASE Unwinds \/ Completes \/ Drains \/ EarlySignal \/ AbortsSettle
             \/ DisposeSettles \/ ScriptChanges
  BY <1>2 DEF Unwinds, Completes, CloseStorage, Drains, EarlySignal, AbortsSettle,
     DisposeSettles, ScriptChanges, ClientsInv, RefreshOwed
<1>3. CASE Deadline
  BY <1>3 DEF Deadline, CloseStorage, ClientsInv, RefreshOwed, TypeOK
<1>4. ASSUME ShutdownBegins, boot' = boot \/ boot # "serving"
      PROVE  ClientsInv'
  <2>1. \A s \in Sockets : socket'[s] = "none" <=> socket[s] = "none"
    BY <1>4 DEF ShutdownBegins, TypeOK
  <2>2. subs' = {} /\ owed' = {} /\ ~accepting' /\ UNCHANGED <<queue, busy>>
    BY <1>4 DEF ShutdownBegins
  <2>3. refresh'.running = refresh.running
    BY <1>4 DEF ShutdownBegins, TypeOK, Refreshes
  <2> QED
    BY <1>4, <2>1, <2>2, <2>3 DEF ClientsInv, RefreshOwed
<1>5. CASE Signal
  BY <1>4, <1>5 DEF Signal
<1>6. CASE StartupFails
  BY <1>4, <1>6 DEF StartupFails, ClientsInv, RefreshOwed
<1>7. CASE RegistryEvent
  <2>1. subs \in SUBSET Sockets /\ owed \subseteq subs /\ RefreshOwed /\ ScheduleRefresh(subs)
    BY <1>7 DEF RegistryEvent, ClientsInv, TypeOK
  <2>2. owed' \subseteq subs /\ RefreshOwed'
    BY <1>7, <2>1, ScheduleEffect DEF RegistryEvent
  <2> QED
    BY <1>7, <2>2 DEF RegistryEvent, ClientsInv
<1>8. CASE RefreshSettles
  <2>1. boot = "serving"
    BY <1>8 DEF RefreshSettles, ClientsInv, Idle
  <2>2. UNCHANGED <<disposed, socket, subs, queue, busy, boot>>
    BY <1>8 DEF RefreshSettles
  <2>3. CASE owed' = {}
    BY <2>1, <2>2, <2>3 DEF ClientsInv, RefreshOwed
  <2>4. CASE owed' = owed /\ (~refresh.requested \/ disposed \/ subs = {})
    BY <2>1, <2>2, <2>4 DEF ClientsInv, RefreshOwed
  <2> QED
    BY <1>8, <2>3, <2>4 DEF RefreshSettles
<1>9. ASSUME NEW h \in Hooks,
             \/ RunProceeds(h) \/ GroupShrinks(h) \/ Output(h) \/ HookTerminates(h)
             \/ ChildCloses(h) \/ Escalate(h) \/ RunResumes(h) \/ PromptEnds(h)
             \/ Dispatch(h) \/ Abort(h)
      PROVE  ClientsInv'
  BY <1>9 DEF RunProceeds, GroupShrinks, Output, HookTerminates, ChildCloses, Escalate,
     RunResumes, PromptEnds, Dispatch, Abort, ClientsInv, RefreshOwed
<1>10. ASSUME NEW s \in Sockets, Connect(s)
       PROVE  ClientsInv'
  <2>1. boot = "serving" /\ s \notin subs
    BY <1>10 DEF Connect, ClientsInv
  <2>2. /\ \A r \in Sockets \ {s} : socket'[r] = socket[r]
        /\ socket'[s] = "open"
        /\ UNCHANGED <<boot, disposed, subs, owed, refresh, queue, busy>>
    BY <1>10 DEF Connect, TypeOK
  <2> QED
    BY <2>1, <2>2 DEF ClientsInv, RefreshOwed, TypeOK
<1>11. ASSUME NEW s \in Sockets, SocketCloses(s)
       PROVE  ClientsInv'
  BY <1>11 DEF SocketCloses, ClientsInv, RefreshOwed, TypeOK
<1>12. ASSUME NEW s \in Sockets, NEW c \in Commands, Receive(s, c)
       PROVE  ClientsInv'
  BY <1>12 DEF Receive, ClientsInv, RefreshOwed, TypeOK
<1>13. ASSUME NEW s \in Sockets, Reject(s)
       PROVE  ClientsInv'
  BY <1>13 DEF Reject, ClientsInv, RefreshOwed, TypeOK
<1>14. ASSUME NEW s \in Sockets, Begin(s)
       PROVE  ClientsInv'
  <2>1. Head(queue[s]) \in Commands /\ socket[s] # "none" /\ boot = "serving"
    BY <1>14 DEF Begin, ClientsInv, TypeOK
  <2>2. /\ UNCHANGED <<boot, accepting, disposed, socket>>
        /\ \A r \in Sockets \ {s} : queue'[r] = queue[r]
    BY <1>14 DEF Begin, TypeOK
  <2>3. /\ owed' \subseteq subs' /\ RefreshOwed' /\ subs' \subseteq subs \cup {s}
        /\ \A r \in Sockets \ {s} : busy'[r] = busy[r]
    <3>1. CASE Reply(s, Head(queue[s]))
      BY <2>1, <2>2, <3>1, ReplyEffect DEF ClientsInv
    <3>2. CASE ~Reply(s, Head(queue[s]))
      BY <1>14, <2>2, <3>2 DEF Begin, ClientsInv, RefreshOwed, TypeOK
    <3> QED
      BY <3>1, <3>2
  <2> QED
    BY <2>1, <2>2, <2>3 DEF ClientsInv
<1>15. ASSUME NEW s \in Sockets, Resume(s)
       PROVE  ClientsInv'
  <2>1. busy[s] \in Work /\ socket[s] # "none" /\ boot = "serving"
    BY <1>15 DEF Resume, ClientsInv, TypeOK
  <2>2. busy[s].cmd \in Commands
    BY <2>1 DEF Work
  <2>3. UNCHANGED <<boot, accepting, disposed, socket, queue>>
    BY <1>15 DEF Resume
  <2>4. /\ owed' \subseteq subs' /\ RefreshOwed' /\ subs' \subseteq subs \cup {s}
        /\ \A r \in Sockets \ {s} : busy'[r] = busy[r]
    <3>1. CASE Reply(s, busy[s].cmd)
      BY <2>2, <2>3, <3>1, ReplyEffect DEF ClientsInv
    <3>2. CASE ~Reply(s, busy[s].cmd)
      BY <1>15, <2>3, <3>2 DEF Resume, ClientsInv, RefreshOwed, TypeOK
    <3> QED
      BY <3>1, <3>2
  <2> QED
    BY <2>1, <2>3, <2>4 DEF ClientsInv
<1>16. CASE UNCHANGED vars
  BY <1>16 DEF vars, ClientsInv, RefreshOwed
<1> QED
  BY <1>1, <1>2, <1>3, <1>5, <1>6, <1>7, <1>8, <1>9, <1>10, <1>11, <1>12, <1>13, <1>14, <1>15,
     <1>16 DEF Next, Ended

-----------------------------------------------------------------------------
(* Theorems.                                                               *)

\* The invariant holds when the process starts.
LEMMA LifecycleInit ==
  ASSUME LifecycleAssumption, Init
  PROVE  LifecycleInv
<1>1. TypeOK
  <2>1. NoHook \in HookStates
    BY DEF NoHook, HookStates, LifecycleAssumption
  <2>2. script \in Scripts
    BY DEF Init, Scripts
  <2>3. Idle \in Refreshes
    BY DEF Idle, Refreshes
  <2>4. queue \in [Sockets -> Seq(Commands)] /\ busy \in [Sockets -> {None} \cup Work]
    BY DEF Init
  <2>5. spent \in 0..MaxEvents
    BY DEF Init, LifecycleAssumption
  <2> QED
    BY <2>1, <2>2, <2>3, <2>4, <2>5 DEF Init, TypeOK
<1>2. NoLateQuery /\ Phases
  BY DEF Init, NoLateQuery, Phases, Starting
<1>3. RunsInv
  BY DEF Init, RunsInv, Starting
<1>4. HooksInv
  BY DEF Init, HooksInv, NoHook
<1>5. ClientsInv
  BY DEF Init, ClientsInv, RefreshOwed, Idle
<1> QED
  BY <1>1, <1>2, <1>3, <1>4, <1>5 DEF LifecycleInv

\* The invariant holds throughout: startup in dependency order, its unwinding,
\* the signal, the graceful shutdown and its deadline keep it.
THEOREM LifecycleInvariance == Spec => []LifecycleInv
<1>1. Init => LifecycleInv
  BY LifecycleInit, LifecycleAssumption
<1>2. LifecycleInv /\ [Next]_vars => LifecycleInv'
  BY LifecycleAssumption, TypeStep, PhasesStep, LateStep, HooksStep, RunsStep, ClientsStep
     DEF LifecycleInv
<1> QED
  BY <1>1, <1>2, PTL DEF Spec

\* Every variable of the process, its hooks and its connections keeps its type.
THEOREM LifecycleTypeCorrect == Spec => []TypeOK
<1>1. LifecycleInv => TypeOK
  BY DEF LifecycleInv
<1> QED
  BY <1>1, LifecycleInvariance, PTL

\* closeStorage comes after everything that queries: no run, command, refresh or
\* conversation event finds the SQLite connection closed, whatever the shutdown
\* or the unwinding of a failed startup left in progress.
THEOREM StorageOutlivesItsUsers == Spec => []NoLateQuery
<1>1. LifecycleInv => NoLateQuery
  BY DEF LifecycleInv
<1> QED
  BY <1>1, LifecycleInvariance, PTL

\* A change that #scheduleHistoryRefresh meets while a listing is in progress is
\* listed again for every browser that is still subscribed.
THEOREM NoRefreshLost == Spec => []RefreshOwed
<1>1. LifecycleInv => RefreshOwed
  BY DEF LifecycleInv, ClientsInv
<1> QED
  BY <1>1, LifecycleInvariance, PTL

\* A hook that was told to terminate leaves no process behind, and none is left
\* unfinished by a process that shut down or unwound, for every grace period;
\* one that reached the deadline had told every hook to terminate, and leaves
\* none when its grace period exceeds that of the hooks.
THEOREM HookGroupsReaped == Spec => []HooksReaped
<1>1. Init => HooksReaped
  BY DEF Init, HooksReaped, NoHook
<1>2. ASSUME LifecycleInv, LifecycleInv', HooksReaped, [Next]_vars
      PROVE  HooksReaped'
  <2>1. \A h \in Hooks : hook'[h].st = "done" /\ hook'[h].told => hook'[h].group = "dead"
    BY <1>2 DEF LifecycleInv, HooksInv
  <2>2. CASE ~Up
    <3>1. (\E g \in Hooks : GroupShrinks(g)) \/ UNCHANGED vars
      BY <1>2, <2>2 DEF Next, Ended, OpenStorage, Probe, Construct, Recover, Bind, StartupFails,
         Unwinds, Drains, EarlySignal, Signal, AbortsSettle, DisposeSettles, Completes, Deadline,
         ScriptChanges, RegistryEvent, RefreshSettles, RunProceeds, Output, HookTerminates,
         ChildCloses, Escalate, RunResumes, PromptEnds, Dispatch, Abort, Connect, SocketCloses,
         Begin, Resume, Reject, Receive
    <3>2. proc' = proc /\ \A h \in Hooks : hook'[h].st = hook[h].st
      <4>1. ASSUME NEW g \in Hooks, GroupShrinks(g)
            PROVE  proc' = proc /\ \A h \in Hooks : hook'[h].st = hook[h].st
        <5>1. hook \in [Hooks -> HookStates]
          BY <1>2 DEF LifecycleInv, TypeOK
        <5> QED
          BY <4>1, <5>1 DEF GroupShrinks, HookStates, process
      <4>2. CASE UNCHANGED vars
        BY <4>2 DEF vars, jobs, process
      <4> QED
        BY <3>1, <4>1, <4>2
    <3> QED
      BY <1>2, <2>1, <3>2 DEF HooksReaped
  <2>3. CASE Up /\ proc' \in {"up", "killed"}
    BY <2>1, <2>3 DEF HooksReaped
  <2>4. CASE Up /\ proc' \notin {"up", "killed"}
    <3>1. \A h \in Hooks : hook[h].st \in {"none", "run", "term", "done"}
      BY <1>2 DEF LifecycleInv, TypeOK, HookStates
    <3>2. Unwinds \/ Drains \/ Completes \/ Deadline
      BY <1>2, <2>4 DEF Up, Next, Ended, OpenStorage, Probe, Construct, Recover, Bind, StartupFails,
         EarlySignal, Signal, AbortsSettle, DisposeSettles, vars, process,
         ScriptChanges, RegistryEvent, RefreshSettles, RunProceeds, Output, HookTerminates,
         ChildCloses, Escalate, RunResumes, PromptEnds, Dispatch, Abort, Connect, SocketCloses,
         Begin, Resume, Reject, Receive, GroupShrinks
    <3>3. UNCHANGED hook
      BY <3>2 DEF Unwinds, Drains, Completes, Deadline, jobs
    <3>4. CASE Unwinds \/ Drains
      BY <2>1, <3>1, <3>3, <3>4 DEF Unwinds, Drains, Disposed, HooksReaped
    <3>5. CASE Completes
      BY <1>2, <2>1, <3>1, <3>3, <3>5 DEF Completes, LifecycleInv, RunsInv, Disposed, HooksReaped
    <3>6. CASE Deadline
      <4>1. proc' = "expired" /\ \A h \in Hooks : hook[h].st # "run"
        BY <1>2, <2>4, <3>6 DEF Deadline, CloseStorage, Up, LifecycleInv, RunsInv
      <4> QED
        BY <2>1, <3>3, <3>6, <4>1 DEF Deadline, HooksReaped
    <3> QED
      BY <3>2, <3>4, <3>5, <3>6
  <2> QED
    BY <2>2, <2>3, <2>4
<1> QED
  BY <1>1, <1>2, LifecycleInvariance, PTL DEF Spec

=============================================================================
