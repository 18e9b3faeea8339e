-------------------------- MODULE WorkspacesProofs --------------------------
(***************************************************************************)
(* For every value of the constants:                                       *)
(*   Workspaces   a start finds a schema that its version describes, a     *)
(*                runtime holds no authority that nobody acknowledged, and *)
(*                it runs under its workspace's policy;                    *)
(*   SearchIndex  a document has the text of one version of its file, and  *)
(*                pages read to the end are that text.                     *)
(***************************************************************************)
EXTENDS Workspaces, SearchIndex, SequenceTheorems, FiniteSetTheorems,
        WellFoundedInduction, TLAPS

\* What openDatabase has still to run for a version.
Remaining(v) == IF v = 0 THEN <<0>> ELSE Chain(v)

\* The version names the migrations that were committed, and the plan of a
\* start is what they leave.
SchemaInv ==
    /\ server # "refused"
    /\ applied = 1..(version - 1)
    /\ server = "opening" => plan = Remaining(version)
    /\ server = "up" => version = Version

\* Every authority that a stored row would give was chosen or acknowledged,
\* also one that the present configuration does not put into effect.
RowsConsented == \A w \in Workspaces : rows[w] # None => Authority(rows[w]) \subseteq consent[w]

\* A command past requireUsable.
Staged(c) == calls[c].pc \in {"admitting", "constructing", "live"}

CallsInv ==
    \A c \in Calls : Staged(c) =>
        /\ Authority(calls[c].policy) \subseteq calls[c].granted
        /\ ~calls[c].raced => /\ rows[calls[c].workspace] # None
                              /\ calls[c].policy = RuntimePolicy(rows[calls[c].workspace])

WorkspacesInv == TypeOK /\ SchemaInv /\ RowsConsented /\ CallsInv

-----------------------------------------------------------------------------
(* Policy.                                                                 *)

\* A row's authority is made of the policy sets and directories there are.
LEMMA AuthorityTyped ==
  ASSUME NEW entry \in Row
  PROVE  Authority(entry) \subseteq Authorities
<1>1. \A m \in entry.mounts : m.source \in MountSources
  BY DEF Row, MountLists, Mount
<1>2. entry.set \in PolicySets
  BY DEF Row
<1> QED
  BY <1>1, <1>2 DEF Authority, Authorities

\* What requireUsable hands to a runtime has its type.
LEMMA PolicyTyped ==
  ASSUME ConstantsAssumption, config \in Configs, NEW entry \in Row, EffectiveProfile(entry) # None
  PROVE  RuntimePolicy(entry) \in Policies
<1>1. config.mode \in {"disabled", "optional", "required"}
  BY DEF ConstantsAssumption
<1>2. EffectiveProfile(entry) \in Profiles
  BY <1>1 DEF EffectiveProfile, Row, Profiles
<1>3. EffectiveNetwork(entry) \in Networks \cup {None}
  BY DEF EffectiveNetwork, Row
<1>4. entry.set \in PolicySets /\ entry.mounts \in MountLists /\ entry.path \in WorkspacePaths
  BY DEF Row
<1>5. {} \in MountLists
  BY DEF MountLists
<1> QED
  BY <1>2, <1>3, <1>4, <1>5 DEF RuntimePolicy, Policies

\* #evaluatePolicy narrows: whatever the configuration, the effective policy of
\* a row gives no authority that the row does not.
LEMMA PolicyNarrows ==
  ASSUME NullAssumption, ConstantsAssumption, config \in Configs, NEW entry \in Row
  PROVE  Authority(RuntimePolicy(entry)) \subseteq Authority(entry)
<1>1. config.mode \in {"disabled", "optional", "required"}
  BY DEF ConstantsAssumption
<1> DEFINE p == RuntimePolicy(entry)
<1>2. p.profile = "unrestricted" => entry.profile = "unrestricted"
  BY <1>1 DEF RuntimePolicy, EffectiveProfile, NullAssumption
<1>3. p.net = "managed-egress" => entry.net = "managed-egress" /\ p.set = entry.set
  BY DEF RuntimePolicy, EffectiveNetwork, NullAssumption
<1>4. p.mounts \subseteq entry.mounts
  BY DEF RuntimePolicy
<1> HIDE DEF p
<1> QED
  BY <1>2, <1>3, <1>4 DEF Authority, p

\* update's three acknowledgements cover what the new row has over the old one.
LEMMA UpdatesAcknowledged ==
  ASSUME NEW old \in Row, NEW new \in Row
  PROVE  Authority(new) \subseteq Authority(old) \cup Acknowledged(old, new)
<1>1. old.profile \in Profiles /\ new.profile \in Profiles
      /\ old.net \in Networks /\ new.net \in Networks
  BY DEF Row
<1>2. new.profile = "unrestricted" =>
        <<"host">> \in Authority(old) \cup Acknowledged(old, new)
  BY <1>1 DEF Authority, Acknowledged, DowngradeOf, Profiles
<1>3. new.net = "managed-egress" =>
        <<"egress", new.set>> \in Authority(old) \cup Acknowledged(old, new)
  BY <1>1 DEF Authority, Acknowledged, ExposureOf, Networks
<1>4. ASSUME NEW m \in new.mounts, m.access = "read-write"
      PROVE  <<"write", m.source>> \in Authority(old) \cup Acknowledged(old, new)
  BY <1>4 DEF Authority, Acknowledged, NewWritable
<1> QED
  BY <1>2, <1>3, <1>4 DEF Authority

\* A changed row is a row.
LEMMA ChangedTyped ==
  ASSUME NEW entry \in Row, NEW ch \in Changes
  PROVE  Changed(entry, ch) \in Row
<1>1. /\ ch.path \in WorkspacePaths \cup {Keep} /\ ch.profile \in Profiles \cup {Keep}
      /\ ch.net \in Networks \cup {Keep} /\ ch.set \in PolicySets \cup {Keep}
      /\ ch.mounts \in MountLists \cup {Keep}
  BY DEF Changes
<1> QED
  BY <1>1 DEF Changed, Row

-----------------------------------------------------------------------------
(* The schema.                                                             *)

\* The chain of migrations loses its first when that one is committed.
LEMMA ChainSteps ==
  ASSUME NEW v \in 1..Version, Chain(v) # <<>>
  PROVE  /\ v \in 1..LastStep /\ Head(Chain(v)) = v
         /\ Tail(Chain(v)) = Chain(v + 1)
         /\ Chain(v) \in Seq(0..LastStep)
<1>1. v # Version
  BY DEF Chain, Version, LastStep
<1>2. v \in 1..8 /\ Version - v \in 1..8
  BY <1>1 DEF Version, LastStep
<1>3. Chain(v) \in Seq(0..LastStep) /\ Len(Chain(v)) = Version - v
  BY <1>2 DEF Chain, Version, LastStep
<1>4. Head(Chain(v)) = v
  BY <1>2 DEF Chain
<1>5. Tail(Chain(v)) = Chain(v + 1)
  BY <1>2, <1>3 DEF Chain, Version, LastStep
<1> QED
  BY <1>2, <1>3, <1>4, <1>5 DEF LastStep

\* Every step of a start, a crash or the repository keeps version, schema and
\* plan together.
LEMMA SchemaStep ==
  ASSUME TypeOK, SchemaInv, [Next]_vars
  PROVE  /\ SchemaInv' /\ plan' \in Seq(0..LastStep) /\ version' \in 0..Version
         /\ applied' \subseteq 1..LastStep /\ server' \in {"down", "opening", "refused", "up"}
<1> USE DEF TypeOK, SchemaInv
<1>1. CASE UNCHANGED <<server, plan, version, applied>>
  BY <1>1
<1>2. CASE Boot
  <2>1. version # 0 => Chain(version) \in Seq(0..LastStep)
    <3>1. SUFFICES ASSUME version # 0
                   PROVE  Chain(version) \in Seq(0..LastStep)
      OBVIOUS
    <3>2. version \in 1..Version
      BY <3>1 DEF Version, LastStep
    <3>3. CASE Chain(version) # <<>>
      BY <3>2, <3>3, ChainSteps
    <3>4. CASE Chain(version) = <<>>
      BY <3>4
    <3> QED
      BY <3>3, <3>4
  <2>2. <<0>> \in Seq(0..LastStep)
    BY DEF LastStep
  <2> QED
    BY <1>2, <2>1, <2>2 DEF Boot, Remaining
<1>3. CASE Migrate /\ version = 0
  <2>1. plan = <<0>>
    BY <1>3 DEF Migrate, Remaining
  <2>2. Head(plan) = 0 /\ Tail(plan) = <<>>
    BY <2>1
  <2>3. 0 \notin applied
    BY <1>3
  <2>4. applied' = 1..LastStep /\ version' = Version /\ plan' = <<>> /\ server' = "opening"
    BY <1>3, <2>2, <2>3 DEF Migrate
  <2>5. Remaining(Version) = <<>>
    BY DEF Remaining, Chain, Version, LastStep
  <2> QED
    BY <2>4, <2>5 DEF Version, LastStep
<1>4. CASE Migrate /\ version # 0
  <2>1. plan = Chain(version) /\ plan # <<>> /\ version \in 1..Version
    BY <1>4 DEF Migrate, Remaining
  <2>2. version \in 1..LastStep /\ Head(plan) = version /\ Tail(plan) = Chain(version + 1)
    BY <2>1, ChainSteps
  <2>3. version \notin applied
    BY <2>2 DEF LastStep
  <2>4. /\ applied' = applied \cup {version} /\ version' = version + 1
        /\ plan' = Tail(plan) /\ server' = "opening"
    BY <1>4, <2>2, <2>3 DEF Migrate, LastStep
  <2>5. applied' = 1..version
    BY <2>2, <2>4 DEF LastStep
  <2>6. plan' \in Seq(0..LastStep)
    BY <2>1, <2>4
  <2> QED
    BY <2>2, <2>4, <2>5, <2>6 DEF Remaining, Version, LastStep
<1>5. CASE Opened
  <2>1. version = Version
    <3>1. plan = <<>> /\ plan = Remaining(version)
      BY <1>5 DEF Opened
    <3>2. version # 0
      BY <3>1 DEF Remaining
    <3>3. Len(Chain(version)) = Version - version
      BY <3>2 DEF Chain, Version, LastStep
    <3> QED
      BY <3>1, <3>2, <3>3 DEF Remaining, Version, LastStep
  <2> QED
    BY <1>5, <2>1 DEF Opened
<1>6. CASE Crash
  BY <1>6 DEF Crash
<1>7. CASE FileSystemChanges
  BY <1>1, <1>7 DEF FileSystemChanges, database
<1>8. ASSUME NEW w \in Workspaces,
             Create(w) \/ Update(w) \/ Delete(w) \/ JobCreate(w) \/ JobDelete(w)
      PROVE  UNCHANGED <<server, plan, version, applied>>
  BY <1>8 DEF Create, Update, Delete, JobCreate, JobDelete, database
<1>9. ASSUME NEW c \in Calls,
             \/ \E w \in Workspaces : CreateConversation(c, w) \/ OpenConversation(c, w)
             \/ Listed(c) \/ Admit(c) \/ Fails(c) \/ Construct(c) \/ Close(c)
      PROVE  UNCHANGED <<server, plan, version, applied>>
  BY <1>9 DEF CreateConversation, OpenConversation, Listed, Admit, Fails, Construct, Close, database
<1> QED
  BY <1>1, <1>2, <1>3, <1>4, <1>5, <1>6, <1>7, <1>8, <1>9 DEF Next, vars

-----------------------------------------------------------------------------
(* Rows and commands.                                                      *)

\* The part of the invariant that the repository and the commands change.
RecordsInv ==
    /\ config \in Configs
    /\ rows \in [Workspaces -> Row \cup {None}]
    /\ calls \in [Calls -> Commands]
    /\ consent \in [Workspaces -> SUBSET Authorities]
    /\ RowsConsented /\ CallsInv

\* A command that is past requireUsable has a policy.
LEMMA StagedTyped ==
  ASSUME calls \in [Calls -> Commands], NEW c \in Calls
  PROVE  Staged(c) <=> calls[c] \in Building
BY DEF Commands, Building, Staged, Idle

\* A step that leaves the rows alone keeps the invariant when the command it
\* moves keeps it.
LEMMA OneCallKeeps ==
  ASSUME RecordsInv, NEW c \in Calls, NEW k \in Commands, calls' = [calls EXCEPT ![c] = k],
         UNCHANGED <<config, rows, consent>>,
         k \in Building =>
            /\ Authority(k.policy) \subseteq k.granted
            /\ ~k.raced => rows[k.workspace] # None /\ k.policy = RuntimePolicy(rows[k.workspace])
  PROVE  RecordsInv'
<1> USE DEF RecordsInv
<1>1. calls' \in [Calls -> Commands] /\ calls'[c] = k /\ \A d \in Calls \ {c} : calls'[d] = calls[d]
  OBVIOUS
<1>2. RowsConsented'
  BY DEF RowsConsented
<1>3. \A entry : RuntimePolicy(entry)' = RuntimePolicy(entry)
  BY DEF RuntimePolicy, EffectiveProfile, EffectiveNetwork
<1>4. Staged(c)' <=> k \in Building
  BY <1>1 DEF Commands, Building, Staged, Idle
<1>5. CallsInv'
  BY <1>1, <1>3, <1>4 DEF CallsInv, Staged
<1> QED
  BY <1>1, <1>2, <1>5

\* requireUsable gives a command its row's policy and the authority its user has
\* granted, or nothing.
LEMMA RequireUsableKeeps ==
  ASSUME NullAssumption, ConstantsAssumption, RecordsInv, NEW c \in Calls, NEW w \in Workspaces,
         NEW session \in WorkspacePaths \cup {None}, RequireUsable(c, w, session),
         UNCHANGED <<config, rows, consent>>
  PROVE  RecordsInv'
<1> DEFINE policy == RuntimePolicy(rows[w])
           sandboxed == policy.profile = "workspace-sandboxed"
           todo == IF sandboxed THEN {policy.path} \cup {m.source : m \in policy.mounts} ELSE {}
           k == [pc |-> IF sandboxed THEN "admitting" ELSE "constructing",
                 workspace |-> w, session |-> session, policy |-> policy,
                 todo |-> todo, granted |-> consent[w], raced |-> FALSE]
<1>1. CASE rows[w] = None \/ ~Usable(rows[w])
  <2>1. calls' = [calls EXCEPT ![c] = Idle]
    BY <1>1 DEF RequireUsable
  <2>2. Idle \in Commands /\ Idle \notin Building
    BY DEF Commands, Idle, Building
  <2> QED
    BY <2>1, <2>2, OneCallKeeps
<1>2. CASE ~(rows[w] = None \/ ~Usable(rows[w]))
  <2>1. calls' = [calls EXCEPT ![c] = k]
    BY <1>2 DEF RequireUsable
  <2>2. rows[w] \in Row /\ config \in Configs /\ EffectiveProfile(rows[w]) # None
    BY <1>2 DEF RecordsInv, Usable
  <2>3. policy \in Policies /\ Authority(policy) \subseteq Authority(rows[w])
    BY <2>2, PolicyTyped, PolicyNarrows
  <2>4. Authority(policy) \subseteq consent[w] /\ consent[w] \in SUBSET Authorities
    BY <1>2, <2>3 DEF RecordsInv, RowsConsented
  <2>5. todo \in SUBSET Directories
    BY <2>3 DEF Policies, MountLists, Mount, ConstantsAssumption
  <2> HIDE DEF policy, todo
  <2>6. k \in Building /\ k.workspace = w /\ k.policy = policy /\ k.granted = consent[w]
    BY <2>3, <2>4, <2>5 DEF Building
  <2>7. k \in Commands
    BY <2>6 DEF Commands, Building
  <2> HIDE DEF k
  <2> QED
    BY <1>2, <2>1, <2>4, <2>6, <2>7, OneCallKeeps DEF policy
<1> QED
  BY <1>1, <1>2

\* Each step of a command keeps the invariant.
LEMMA CommandKeeps ==
  ASSUME NullAssumption, ConstantsAssumption, RecordsInv, NEW c \in Calls,
         \/ \E w \in Workspaces : CreateConversation(c, w) \/ OpenConversation(c, w)
         \/ Listed(c) \/ Admit(c) \/ Fails(c) \/ Construct(c) \/ Close(c)
  PROVE  RecordsInv'
<1> USE DEF database
<1>0. UNCHANGED <<config, rows, consent>>
  BY DEF CreateConversation, OpenConversation, Listed, Admit, Fails, Construct, Close
<1>1. ASSUME NEW w \in Workspaces, CreateConversation(c, w)
      PROVE  RecordsInv'
  BY <1>0, <1>1, RequireUsableKeeps DEF CreateConversation
<1>2. ASSUME NEW w \in Workspaces, OpenConversation(c, w)
      PROVE  RecordsInv'
  <2> DEFINE k == [pc |-> "listing", workspace |-> w, session |-> rows[w].path]
  <2>1. rows[w].path \in WorkspacePaths
    BY <1>2 DEF OpenConversation, RecordsInv, Row
  <2>2. k \in Commands /\ k \notin Building
    BY <2>1 DEF Commands, Building
  <2>3. calls' = [calls EXCEPT ![c] = k]
    BY <1>2 DEF OpenConversation
  <2> HIDE DEF k
  <2> QED
    BY <1>0, <2>2, <2>3, OneCallKeeps
<1>3. CASE Listed(c)
  <2>1. calls[c].workspace \in Workspaces /\ calls[c].session \in WorkspacePaths
    BY <1>3 DEF Listed, RecordsInv, Commands, Building, Idle
  <2> QED
    BY <1>0, <1>3, <2>1, RequireUsableKeeps DEF Listed
<1>4. CASE Fails(c) \/ Close(c)
  <2>1. calls' = [calls EXCEPT ![c] = Idle]
    BY <1>4 DEF Fails, Close
  <2>2. Idle \in Commands /\ Idle \notin Building
    BY DEF Commands, Idle, Building
  <2> QED
    BY <1>0, <2>1, <2>2, OneCallKeeps
<1>5. ASSUME Staged(c), NEW next \in {"admitting", "constructing", "live"},
             NEW todo \in SUBSET Directories,
             calls' = [calls EXCEPT ![c] = [calls[c] EXCEPT !.todo = todo, !.pc = next]]
      PROVE  RecordsInv'
  <2> DEFINE k == [calls[c] EXCEPT !.todo = todo, !.pc = next]
  <2>1. calls[c] \in Building
    BY <1>5, StagedTyped DEF RecordsInv
  <2>2. /\ k \in Building /\ k.workspace = calls[c].workspace /\ k.policy = calls[c].policy
        /\ k.granted = calls[c].granted /\ k.raced = calls[c].raced
    BY <2>1 DEF Building
  <2>3. k \in Commands
    BY <2>2 DEF Commands, Building
  <2>4. /\ Authority(calls[c].policy) \subseteq calls[c].granted
        /\ ~calls[c].raced => /\ rows[calls[c].workspace] # None
                              /\ calls[c].policy = RuntimePolicy(rows[calls[c].workspace])
    BY <1>5 DEF RecordsInv, CallsInv
  <2>5. calls' = [calls EXCEPT ![c] = k]
    BY <1>5
  <2> HIDE DEF k
  <2> QED
    BY <1>0, <2>2, <2>3, <2>4, <2>5, OneCallKeeps
<1>6. CASE Admit(c)
  <2>1. Staged(c)
    BY <1>6 DEF Admit, Staged
  <2>2. calls[c].todo \in SUBSET Directories
    BY <2>1, StagedTyped DEF RecordsInv, Building
  <2>3. PICK d \in calls[c].todo :
          calls' = [calls EXCEPT ![c].todo = calls[c].todo \ {d},
                                 ![c].pc = IF calls[c].todo = {d}
                                           THEN "constructing" ELSE "admitting"]
    BY <1>6 DEF Admit
  <2> DEFINE next == IF calls[c].todo = {d} THEN "constructing" ELSE "admitting"
             todo == calls[c].todo \ {d}
  <2>4. next \in {"admitting", "constructing", "live"} /\ todo \in SUBSET Directories
    BY <2>2
  <2>5. calls' = [calls EXCEPT ![c] = [calls[c] EXCEPT !.todo = todo, !.pc = next]]
    BY <2>3
  <2> HIDE DEF next, todo
  <2> QED
    BY <1>5, <2>1, <2>4, <2>5
<1>7. CASE Construct(c)
  <2>1. Staged(c)
    BY <1>7 DEF Construct, Staged
  <2>2. calls[c] \in Building
    BY <2>1, StagedTyped DEF RecordsInv
  <2>3. [calls[c] EXCEPT !.pc = "live"] = [calls[c] EXCEPT !.todo = calls[c].todo, !.pc = "live"]
    BY <2>2 DEF Building
  <2>4. calls' = [calls EXCEPT ![c] = [calls[c] EXCEPT !.todo = calls[c].todo, !.pc = "live"]]
    BY <1>7, <2>3 DEF Construct
  <2>5. calls[c].todo \in SUBSET Directories
    BY <2>2 DEF Building
  <2> QED
    BY <1>5, <2>1, <2>4, <2>5
<1> QED
  BY <1>1, <1>2, <1>3, <1>4, <1>6, <1>7

\* A row that the repository replaces or deletes marks the commands that carry
\* its old policy; a live runtime of the workspace does not let it.
LEMMA ReplacingKeeps ==
  ASSUME RecordsInv, NEW w \in Workspaces, NEW entry \in Row \cup {None},
         NEW granted \in SUBSET Authorities, entry # None => Authority(entry) \subseteq granted,
         ~Live(w), calls' = Raced(w), rows' = [rows EXCEPT ![w] = entry],
         consent' = [consent EXCEPT ![w] = granted], UNCHANGED config
  PROVE  RecordsInv'
<1> USE DEF RecordsInv
<1>1. /\ rows' \in [Workspaces -> Row \cup {None}]
      /\ rows'[w] = entry /\ \A v \in Workspaces \ {w} : rows'[v] = rows[v]
  OBVIOUS
<1>2. /\ consent' \in [Workspaces -> SUBSET Authorities]
      /\ consent'[w] = granted /\ \A v \in Workspaces \ {w} : consent'[v] = consent[v]
  OBVIOUS
<1>3. RowsConsented'
  BY <1>1, <1>2 DEF RowsConsented
<1>4. ASSUME NEW c \in Calls
      PROVE  /\ calls'[c] \in Commands
             /\ Staged(c)' => Staged(c) /\ calls'[c].policy = calls[c].policy
                              /\ calls'[c].granted = calls[c].granted
                              /\ calls'[c].workspace = calls[c].workspace
                              /\ calls[c].workspace \in Workspaces
             /\ Staged(c)' /\ ~calls'[c].raced => calls[c].workspace # w /\ ~calls[c].raced
  <2>1. CASE calls[c].pc \in {"admitting", "constructing"} /\ calls[c].workspace = w
    <3> DEFINE k == [calls[c] EXCEPT !.raced = TRUE]
    <3>1. calls'[c] = k
      BY <2>1 DEF Raced
    <3>2. Staged(c) /\ calls[c] \in Building
      BY <2>1, StagedTyped DEF Staged
    <3>3. /\ k \in Building /\ k.raced = TRUE /\ k.policy = calls[c].policy
          /\ k.granted = calls[c].granted /\ k.workspace = calls[c].workspace
      BY <3>2 DEF Building
    <3>4. calls[c].workspace \in Workspaces
      BY <3>2 DEF Building
    <3> HIDE DEF k
    <3> QED
      BY <3>1, <3>2, <3>3, <3>4 DEF Commands
  <2>2. CASE ~(calls[c].pc \in {"admitting", "constructing"} /\ calls[c].workspace = w)
    <3>1. calls'[c] = calls[c]
      BY <2>2 DEF Raced
    <3>2. Staged(c)' <=> Staged(c)
      BY <3>1 DEF Staged
    <3>3. Staged(c) => calls[c].workspace # w
      BY <2>2 DEF Staged, Live
    <3>4. Staged(c) => calls[c].workspace \in Workspaces
      BY StagedTyped DEF Building
    <3> QED
      BY <3>1, <3>2, <3>3, <3>4
  <2> QED
    BY <2>1, <2>2
<1>5. calls' \in [Calls -> Commands]
  BY <1>4 DEF Raced
<1>6. \A r : RuntimePolicy(r)' = RuntimePolicy(r)
  BY DEF RuntimePolicy, EffectiveProfile, EffectiveNetwork
<1>7. CallsInv'
  <2>1. SUFFICES ASSUME NEW c \in Calls, Staged(c)'
                 PROVE  /\ Authority(calls'[c].policy) \subseteq calls'[c].granted
                        /\ ~calls'[c].raced =>
                              /\ rows'[calls'[c].workspace] # None
                              /\ (calls[c].policy = RuntimePolicy(rows[calls[c].workspace]))'
    BY DEF CallsInv
  <2>2. /\ Authority(calls[c].policy) \subseteq calls[c].granted
        /\ ~calls[c].raced => /\ rows[calls[c].workspace] # None
                              /\ calls[c].policy = RuntimePolicy(rows[calls[c].workspace])
    BY <1>4, <2>1 DEF CallsInv
  <2>3. Authority(calls'[c].policy) \subseteq calls'[c].granted
    BY <1>4, <2>1, <2>2
  <2>4. ASSUME ~calls'[c].raced
        PROVE  /\ rows'[calls'[c].workspace] # None
               /\ (calls[c].policy = RuntimePolicy(rows[calls[c].workspace]))'
    <3>1. calls'[c].workspace = calls[c].workspace /\ calls[c].workspace \in Workspaces \ {w}
      BY <1>4, <2>1, <2>4
    <3>2. rows'[calls'[c].workspace] = rows[calls[c].workspace]
      BY <1>1, <3>1
    <3> QED
      BY <1>4, <1>6, <2>1, <2>2, <2>4, <3>2
  <2> QED
    BY <2>3, <2>4
<1> QED
  BY <1>1, <1>2, <1>3, <1>5, <1>7

\* A step of the repository, of a start or of the file system keeps the records.
LEMMA RecordsStep ==
  ASSUME NullAssumption, ConstantsAssumption, RecordsInv, [Next]_vars
  PROVE  RecordsInv'
<1> USE DEF database
<1>1. CASE UNCHANGED <<config, rows, consent, calls>>
  <2>1. \A r : RuntimePolicy(r)' = RuntimePolicy(r)
    BY <1>1 DEF RuntimePolicy, EffectiveProfile, EffectiveNetwork
  <2> QED
    BY <1>1, <2>1 DEF RecordsInv, RowsConsented, CallsInv, Staged
<1>2. CASE Boot \/ Migrate \/ Opened \/ FileSystemChanges
  BY <1>1, <1>2 DEF Boot, Migrate, Opened, FileSystemChanges
<1>3. CASE Crash
  <2>1. Idle \in Commands /\ Idle.pc = "idle"
    BY DEF Commands, Idle
  <2>2. calls' \in [Calls -> Commands] /\ \A c \in Calls : calls'[c].pc = "idle"
    BY <1>3, <2>1 DEF Crash
  <2>3. CallsInv'
    BY <2>2 DEF CallsInv, Staged
  <2>4. RowsConsented'
    BY <1>3 DEF Crash, RecordsInv, RowsConsented
  <2> QED
    BY <1>3, <2>2, <2>3, <2>4 DEF Crash, RecordsInv
<1>4. ASSUME NEW w \in Workspaces, Create(w)
      PROVE  RecordsInv'
  <2>1. PICK entry \in Row : /\ rows' = [rows EXCEPT ![w] = entry]
                           /\ consent' = [consent EXCEPT ![w] = Authority(entry)]
    BY <1>4 DEF Create
  <2>2. rows[w] = None /\ UNCHANGED <<config, calls>>
    BY <1>4 DEF Create
  <2>3. Authority(entry) \subseteq Authorities
    BY AuthorityTyped
  <2>4. RowsConsented'
    BY <2>1 DEF RecordsInv, RowsConsented
  <2>5. \A r : RuntimePolicy(r)' = RuntimePolicy(r)
    BY <2>2 DEF RuntimePolicy, EffectiveProfile, EffectiveNetwork
  <2>6. \A c \in Calls : Staged(c) => calls[c].workspace \in Workspaces
    BY StagedTyped DEF RecordsInv, Building
  <2>7. \A v \in Workspaces \ {w} : rows'[v] = rows[v]
    BY <2>1 DEF RecordsInv
  <2>8. CallsInv'
    BY <2>2, <2>5, <2>6, <2>7 DEF RecordsInv, CallsInv, Staged
  <2> QED
    BY <2>1, <2>2, <2>3, <2>4, <2>8 DEF RecordsInv
<1>5. ASSUME NEW w \in Workspaces, Update(w)
      PROVE  RecordsInv'
  <2>1. rows[w] \in Row /\ ~Live(w) /\ calls' = Raced(w) /\ UNCHANGED config
    BY <1>5 DEF Update, RecordsInv
  <2>2. PICK ch \in Changes :
          /\ rows' = [rows EXCEPT ![w] = Changed(rows[w], ch)]
          /\ consent' = [consent EXCEPT ![w] =
               (consent[w] \cup Acknowledged(rows[w], Changed(rows[w], ch)))
                   \cap Authority(Changed(rows[w], ch))]
    BY <1>5 DEF Update
  <2> DEFINE new == Changed(rows[w], ch)
             granted == (consent[w] \cup Acknowledged(rows[w], new)) \cap Authority(new)
  <2>3. new \in Row
    BY <2>1, ChangedTyped
  <2> HIDE DEF new
  <2>4. Authority(new) \subseteq Authority(rows[w]) \cup Acknowledged(rows[w], new)
    BY <2>1, <2>3, UpdatesAcknowledged
  <2>5. Authority(rows[w]) \subseteq consent[w]
    BY <1>5 DEF Update, RecordsInv, RowsConsented
  <2>6. granted \in SUBSET Authorities /\ Authority(new) \subseteq granted
    BY <2>3, <2>4, <2>5, AuthorityTyped
  <2>7. rows' = [rows EXCEPT ![w] = new] /\ consent' = [consent EXCEPT ![w] = granted]
    BY <2>2 DEF new
  <2> HIDE DEF granted
  <2> QED
    BY <2>1, <2>3, <2>6, <2>7, ReplacingKeeps
<1>6. ASSUME NEW w \in Workspaces, Delete(w)
      PROVE  RecordsInv'
  <2>1. /\ ~Live(w) /\ calls' = Raced(w) /\ rows' = [rows EXCEPT ![w] = None]
        /\ consent' = [consent EXCEPT ![w] = {}] /\ UNCHANGED config
    BY <1>6 DEF Delete
  <2>2. None \in Row \cup {None} /\ {} \in SUBSET Authorities
    OBVIOUS
  <2> QED
    BY <2>1, <2>2, ReplacingKeeps
<1>7. ASSUME NEW w \in Workspaces, JobCreate(w) \/ JobDelete(w)
      PROVE  RecordsInv'
  BY <1>1, <1>7 DEF JobCreate, JobDelete
<1> QED
  BY <1>1, <1>2, <1>3, <1>4, <1>5, <1>6, <1>7, CommandKeeps DEF Next, vars

-----------------------------------------------------------------------------
(* The theorems.                                                           *)

\* The counters, the jobs' workspaces and the file system keep their types.
LEMMA RestTyped ==
  ASSUME ConstantsAssumption, TypeOK, [Next]_vars
  PROVE  /\ jobs' \subseteq Workspaces /\ present' \subseteq Directories
         /\ restarts' \in 0..MaxRestarts /\ writes' \in 0..MaxWrites
<1> USE DEF ConstantsAssumption, database, Counted
<1>1. jobs \subseteq Workspaces /\ present \subseteq Directories
      /\ restarts \in 0..MaxRestarts /\ writes \in 0..MaxWrites
  BY DEF TypeOK
<1>2. CASE UNCHANGED vars
  BY <1>1, <1>2 DEF vars
<1>3. CASE Boot \/ Migrate \/ Opened
  BY <1>1, <1>3 DEF Boot, Migrate, Opened
<1>4. CASE Crash
  BY <1>1, <1>4 DEF Crash
<1>5. CASE FileSystemChanges
  BY <1>1, <1>5 DEF FileSystemChanges
<1>6. ASSUME NEW w \in Workspaces, Create(w) \/ Update(w) \/ Delete(w)
      PROVE  UNCHANGED <<jobs, present, restarts>> /\ writes' = writes + 1 /\ writes < MaxWrites
  BY <1>6 DEF Create, Update, Delete
<1>7. ASSUME NEW w \in Workspaces, JobCreate(w) \/ JobDelete(w)
      PROVE  UNCHANGED <<present, restarts, writes>> /\ jobs' \subseteq Workspaces
  BY <1>1, <1>7 DEF JobCreate, JobDelete
<1>8. ASSUME NEW c \in Calls,
             \/ \E w \in Workspaces : CreateConversation(c, w) \/ OpenConversation(c, w)
             \/ Listed(c) \/ Admit(c) \/ Fails(c) \/ Construct(c) \/ Close(c)
      PROVE  UNCHANGED <<jobs, present, restarts, writes>>
  BY <1>8 DEF CreateConversation, OpenConversation, Listed, Admit, Fails, Construct, Close
<1> QED
  BY <1>1, <1>2, <1>3, <1>4, <1>5, <1>6, <1>7, <1>8 DEF Next

\* A database of any earlier version satisfies the invariant.
LEMMA WorkspacesInit ==
  ASSUME ConstantsAssumption, Init
  PROVE  WorkspacesInv
<1> USE DEF Init
<1>1. PICK old \in [Workspaces -> {OldRow(d) : d \in WorkspacePaths} \cup {None}] :
        /\ rows = old
        /\ consent = [w \in Workspaces |-> IF old[w] = None THEN {} ELSE Authority(old[w])]
  OBVIOUS
<1>2. \A d \in WorkspacePaths : OldRow(d) \in Row
  BY DEF OldRow, Row, Profiles, Networks, MountLists, ConstantsAssumption
<1>3. \A w \in Workspaces : rows[w] \in Row \cup {None}
  BY <1>1, <1>2
<1>4. rows \in [Workspaces -> Row \cup {None}]
  BY <1>1, <1>3
<1>5. \A w \in Workspaces : rows[w] # None => Authority(rows[w]) \subseteq Authorities
  BY <1>3, AuthorityTyped
<1>6. consent \in [Workspaces -> SUBSET Authorities] /\ RowsConsented
  BY <1>1, <1>5 DEF RowsConsented
<1>7. Idle \in Commands /\ Idle.pc = "idle"
  BY DEF Commands, Idle
<1>8. calls \in [Calls -> Commands] /\ CallsInv
  BY <1>7 DEF CallsInv, Staged
<1>9. SchemaInv
  BY DEF SchemaInv
<1>10. plan \in Seq(0..LastStep) /\ version \in 0..Version /\ applied \subseteq 1..LastStep
  BY DEF Version, LastStep
<1>11. restarts \in 0..MaxRestarts /\ writes \in 0..MaxWrites
  BY DEF ConstantsAssumption
<1> QED
  BY <1>4, <1>6, <1>8, <1>9, <1>10, <1>11 DEF WorkspacesInv, TypeOK

\* Every step of the database, the repository, the commands and the file system
\* keeps the invariant.
THEOREM WorkspacesInvariance == Spec => []WorkspacesInv
<1>1. Init => WorkspacesInv
  BY WorkspacesInit, ConstantsAssumption
<1>2. WorkspacesInv /\ [Next]_vars => WorkspacesInv'
  <2>1. SUFFICES ASSUME WorkspacesInv, [Next]_vars
                 PROVE  WorkspacesInv'
    OBVIOUS
  <2>2. TypeOK /\ SchemaInv /\ RecordsInv
    BY <2>1 DEF WorkspacesInv, RecordsInv, TypeOK
  <2>3. /\ SchemaInv' /\ plan' \in Seq(0..LastStep) /\ version' \in 0..Version
        /\ applied' \subseteq 1..LastStep /\ server' \in {"down", "opening", "refused", "up"}
    BY <2>1, <2>2, SchemaStep
  <2>4. RecordsInv'
    BY <2>1, <2>2, RecordsStep, NullAssumption, ConstantsAssumption
  <2>5. /\ jobs' \subseteq Workspaces /\ present' \subseteq Directories
        /\ restarts' \in 0..MaxRestarts /\ writes' \in 0..MaxWrites
    BY <2>1, <2>2, RestTyped, ConstantsAssumption
  <2> QED
    BY <2>3, <2>4, <2>5 DEF WorkspacesInv, TypeOK, RecordsInv
<1> QED
  BY <1>1, <1>2, PTL DEF Spec

\* Type correctness of the repository, the database and the commands.
THEOREM WorkspacesTypeCorrect == Spec => []TypeOK
<1>1. WorkspacesInv => TypeOK
  BY DEF WorkspacesInv
<1> QED
  BY <1>1, WorkspacesInvariance, PTL

\* Whatever version the database file had and wherever earlier starts ended, no
\* start of openDatabase is refused by a migration that was already applied, and
\* the repository runs on the whole schema only.
THEOREM SchemaComplete == Spec => []SchemaMatchesVersion
<1>1. WorkspacesInv => SchemaMatchesVersion
  BY DEF WorkspacesInv, SchemaInv, SchemaMatchesVersion, Version, LastStep
<1> QED
  BY <1>1, WorkspacesInvariance, PTL

\* After any sequence of updates, restarts under other configurations and races
\* of a command with them, a live runtime has only authority that the user chose
\* at creation or acknowledged in an update.
THEOREM RuntimesConsented == Spec => []AuthorityAcknowledged
<1>1. WorkspacesInv => AuthorityAcknowledged
  BY DEF WorkspacesInv, CallsInv, Staged, AuthorityAcknowledged, LiveCalls
<1> QED
  BY <1>1, WorkspacesInvariance, PTL

\* A live runtime that no write overtook between requireUsable and the registry's
\* insertion runs under the policy that its workspace's row gives now.
THEOREM RuntimesCurrent == Spec => []LiveIsCurrent
<1>1. WorkspacesInv => LiveIsCurrent
  BY DEF WorkspacesInv, CallsInv, Staged, LiveIsCurrent, LiveCalls
<1> QED
  BY <1>1, WorkspacesInvariance, PTL

-----------------------------------------------------------------------------
(* SearchIndex                                                             *)

(* The image of a finite set under a function is finite.                   *)
LEMMA ImageFinite ==
  ASSUME NEW S, IsFiniteSet(S), NEW f, f = [x \in S |-> f[x]]
  PROVE  IsFiniteSet({f[x] : x \in S})
  <1> DEFINE T == {f[x] : x \in S}
  <1>1. f \in Surjection(S, T)
    BY DEF Surjection
  <1> QED BY <1>1, FS_Surjection

(* The finite sets of the instance are the finite sets ...                 *)
LEMMA SameFinite == \A S : IsFiniteSet(S) <=> IsFiniteSet(S)
  BY Zenon DEF IsFiniteSet, IsFiniteSet
(* ... and count the same.                                                 *)
LEMMA SameCardinality == \A S : Cardinality(S) = Cardinality(S)
  BY Zenon DEF Cardinality, Cardinality, IsFiniteSet, IsFiniteSet

(* A value that has the locals of a pass.                                  *)
IsPass(p) ==
    p \in [todo : {p.todo}, taken : {p.taken}, force : {p.force}, w : {p.w}, prev : {p.prev},
           disc : {p.disc}, space : {p.space}, cand : {p.cand}, sid : {p.sid}, text : {p.text},
           version : {p.version}, doomed : {p.doomed}]

(* Deletions only, and finitely many of them.                              *)
Doomed(D) == IsFiniteSet(D) /\ \A t \in D : t.kind \in {"delete", "remove"}

(* Where the pass holds the text that it has read.                         *)
Holding == {"checkpoint", "revalidate", "publish"}

PassInv ==
    /\ IsPass(pass) /\ Doomed(pass.doomed)
    /\ pc \in Holding => pass.text = pass.cand.fp

(* A transaction that would publish publishes one whole reading.           *)
WholeWrite(t) ==
    /\ t.kind \in {"sync", "publish", "seen", "delete", "remove"}
    /\ t.kind = "publish" => t.text = t.fp

StoreInv ==
    /\ DOMAIN doc = WorkspaceIds /\ \A w \in WorkspaceIds : DOMAIN doc[w] = Sessions
    /\ \A w \in WorkspaceIds, s \in Sessions : doc[w][s] # Null => doc[w][s].text = doc[w][s].fp
    /\ late # Null => WholeWrite(late)

(* What a transaction leaves are whole documents.                          *)
LEMMA EffectWhole ==
  ASSUME StoreInv, NEW t, WholeWrite(t), t.w \in WorkspaceIds
  PROVE  LET d == Effect(t).doc IN
         /\ DOMAIN d = Sessions
         /\ \A s \in Sessions : d[s] # Null => d[s].text = d[s].fp
  <1> DEFINE same == [ok |-> TRUE, row |-> row[t.w], doc |-> doc[t.w]]
             d == Effect(t).doc
             p == [version |-> Fresh, rev |-> t.rev, path |-> t.path,
                   fp |-> t.fp, text |-> t.text, space |-> t.space]
  <1>1. \/ d = doc[t.w] \/ d = NoDocuments
        \/ t.kind = "publish" /\ d = [doc[t.w] EXCEPT ![t.sid] = p]
        \/ d = [doc[t.w] EXCEPT ![t.sid] = Null]
    BY DEF Effect, WholeWrite
  <1>2. p.text = t.text /\ p.fp = t.fp
    OBVIOUS
  <1> HIDE DEF d, p
  <1>3. /\ DOMAIN d = Sessions
        /\ \A s \in Sessions : d[s] # Null => d[s].text = d[s].fp
    BY <1>1, <1>2 DEF StoreInv, WholeWrite, NoDocuments
  <1> QED BY <1>3 DEF d

(* A transaction that is committed leaves whole documents.                 *)
LEMMA ApplyWhole ==
  ASSUME StoreInv, NEW t, WholeWrite(t), Apply(t), late' = Null \/ late' = late
  PROVE  StoreInv'
  <1> DEFINE d == Effect(t).doc
  <1>1. doc' = [doc EXCEPT ![t.w] = d]
    BY DEF Apply
  <1>2. t.w \in WorkspaceIds => /\ DOMAIN d = Sessions
                              /\ \A s \in Sessions : d[s] # Null => d[s].text = d[s].fp
    BY EffectWhole
  <1> HIDE DEF d
  <1> QED BY <1>1, <1>2 DEF StoreInv

(* A transaction of the pass publishes the text that it has read whole.    *)
LEMMA WritesWhole ==
  ASSUME PassInv, NEW t \in Writes
  PROVE  WholeWrite(t)
  BY DEF PassInv, Writes, WholeWrite, Doomed, Holding

(* Between two passes nothing is doomed.                                   *)
LEMMA NoPassIs == IsPass(NoPass) /\ Doomed(NoPass.doomed)
  BY FS_EmptySet DEF IsPass, NoPass, Doomed

(* Going on to the next candidate dooms nothing more.                      *)
LEMMA ToCandidateIs ==
  ASSUME NEW p, IsPass(p)
  PROVE  IsPass(ToCandidate(p)) /\ ToCandidate(p).doomed = p.doomed
  <1> DEFINE c == [p.disc EXCEPT !.cands = @ \ {p.cand}]
             q == [p EXCEPT !.disc = c, !.cand = Null, !.sid = Null, !.text = Null, !.version = Null]
  <1>1. ToCandidate(p) = q
    BY DEF ToCandidate, IsPass
  <1> HIDE DEF c
  <1> QED BY <1>1 DEF IsPass

(* Going on to the next workspace dooms nothing more.                      *)
LEMMA ToNextIs ==
  ASSUME NEW p, IsPass(p)
  PROVE  IsPass(ToNext(p)) /\ ToNext(p).doomed = p.doomed
  BY DEF ToNext, IsPass

(* A pass that moves on without the text, or with nothing but the label    *)
(* changed.                                                                *)
LEMMA SkipsKeep ==
  ASSUME PassInv, SkipCandidate \/ SkipWorkspace
  PROVE  PassInv'
  <1>1. IsPass(pass') /\ pass'.doomed = pass.doomed /\ pc' \notin Holding
    BY ToCandidateIs, ToNextIs DEF PassInv, SkipCandidate, SkipWorkspace, Holding
  <1> QED BY <1>1 DEF PassInv, IsPass

(* A step of the pass from one label to another keeps PassInv when it      *)
(* holds a text only as it was read.                                       *)
LEMMA MovesKeep ==
  ASSUME PassInv, NEW p, IsPass(p), Doomed(p.doomed), NEW label,
         label \in Holding => p.text = p.cand.fp,
         pass' = p, pc' = label
  PROVE  PassInv'
  BY DEF PassInv, IsPass

(* Requests, and what happens around the indexer, leave the pass alone.    *)
LEMMA RequestsKeep ==
  ASSUME PassInv,
         \/ Tick \/ Initialized \/ InitializeFails
         \/ \E w \in WorkspaceIds, force \in BOOLEAN : ClientRefresh(w, force)
         \/ CloseSearch \/ Finalize
  PROVE  PassInv' /\ pass' = pass /\ doc' = doc /\ late' = late
  <1>1. pass' = pass /\ doc' = doc /\ late' = late /\ (pc' \in Holding => pc' = pc)
    BY DEF Tick, Initialized, InitializeFails, ClientRefresh, CloseSearch,
           Finalize, Queue, Refresh, store, indexer, Holding
  <1> QED BY <1>1 DEF PassInv, IsPass

(* What readers, sessions on disk and the settings do leaves the pass      *)
(* alone.                                                                  *)
LEMMA OutsideKeeps ==
  ASSUME PassInv,
         \/ \E w \in WorkspaceIds, s \in Sessions : ReadFirst(w, s)
         \/ ReadNext
         \/ \E w \in WorkspaceIds, p \in Paths :
               DeleteFile(w, p) \/ \E s \in Holds[p] : WriteFile(w, p, s)
         \/ \E w \in WorkspaceIds : Edit(w)
         \/ \E m \in Spaces : Serve(m)
  PROVE  PassInv' /\ pass' = pass /\ doc' = doc /\ late' = late
  <1>1. pass' = pass /\ doc' = doc /\ late' = late /\ pc' = pc
    BY DEF ReadFirst, ReadNext, DeleteFile, WriteFile, Edit, Serve,
           store, indexer
  <1> QED BY <1>1 DEF PassInv, IsPass

(* The steps of the pass between two transactions.                         *)
LEMMA ReadingKeeps ==
  ASSUME PassInv, Finite,
         \/ Drain \/ NextWorkspace \/ Discover \/ DiscoverPartly
         \/ ResolveSpace \/ NextCandidate \/ Open \/ Snapshot
         \/ Embed \/ CandidateFails \/ Revalidate \/ Prune
         \/ Pruned \/ Recheck \/ Orphans \/ PassEnds
  PROVE  PassInv' /\ doc' = doc /\ late' = late
  <1> USE DEF Goto, Step, store
  <1>0. IsPass(pass) /\ Doomed(pass.doomed)
    BY DEF PassInv
  <1>1. CASE Drain
    <2>1. ASSUME NEW a, NEW f, NEW t, pc' \notin Holding,
                 pass' = [NoPass EXCEPT !.taken = a, !.force = f, !.todo = t]
          PROVE  PassInv'
      <3>1. IsPass(pass') /\ pass'.doomed = {}
        BY <2>1 DEF IsPass, NoPass
      <3> QED BY <2>1, <3>1, FS_EmptySet DEF PassInv, Doomed, IsPass
    <2>2. CASE pass' = pass /\ pc' = "ended"
      BY <1>0, <1>1, <2>2 DEF PassInv, IsPass, Holding, Drain
    <2> QED BY <1>1, <2>1, <2>2 DEF Drain, Holding
  <1>2. CASE NextWorkspace
    <2>1. /\ doc' = doc /\ late' = late
          /\ \/ \E x, y : pass' = [pass EXCEPT !.w = x, !.prev = y] /\ pc' \in {"discover", "sync"}
             \/ \E x : pass' = [pass EXCEPT !.todo = x] /\ pc' \in {"next", "drain"}
      BY <1>2, Zenon DEF NextWorkspace, Refresh
    <2>2. IsPass(pass') /\ pass'.doomed = pass.doomed /\ pc' \notin Holding
      BY <1>0, <2>1 DEF IsPass, Holding
    <2> QED BY <1>0, <2>1, <2>2 DEF PassInv, IsPass
  <1>3. CASE Discover
    <2>1. \E d : pass' = [pass EXCEPT !.disc = d] /\ pc' = AfterDiscovery(d)
      BY <1>3 DEF Discover
    <2>2. IsPass(pass') /\ pass'.doomed = pass.doomed /\ pc' \notin Holding
      BY <1>0, <2>1 DEF IsPass, Holding, AfterDiscovery
    <2> QED BY <1>0, <1>3, <2>2 DEF PassInv, IsPass, Discover
  <1>4. CASE DiscoverPartly
    <2>1. CASE SkipWorkspace
      BY <1>4, <2>1, SkipsKeep DEF DiscoverPartly
    <2>2. CASE \E d : pass' = [pass EXCEPT !.disc = d] /\ pc' = AfterDiscovery(d)
      <3>1. IsPass(pass') /\ pass'.doomed = pass.doomed /\ pc' \notin Holding
        BY <1>0, <2>2 DEF IsPass, Holding, AfterDiscovery
      <3> QED BY <1>0, <1>4, <3>1 DEF PassInv, IsPass, DiscoverPartly
    <2> QED BY <1>4, <2>1, <2>2, Zenon DEF DiscoverPartly
  <1>5. CASE ResolveSpace
    <2>1. IsPass(pass') /\ pass'.doomed = pass.doomed /\ pc' \notin Holding
      BY <1>0, <1>5 DEF IsPass, Holding, ResolveSpace
    <2> QED BY <1>0, <1>5, <2>1 DEF PassInv, IsPass, ResolveSpace
  <1>6. CASE NextCandidate
    <2>1. /\ doc' = doc /\ late' = late
          /\ \/ pass' = pass /\ pc' = "recheck"
             \/ \E c : pass' = [pass EXCEPT !.cand = c] /\ pc' = "read"
             \/ \E c, s, v : pass' = [pass EXCEPT !.cand = c, !.sid = s, !.version = v] /\ pc' = "unchanged"
      <3>1. doc' = doc /\ late' = late
        BY <1>6 DEF NextCandidate
      <3>2. CASE pass.disc.cands = {}
        BY <1>6, <3>1, <3>2 DEF NextCandidate
      <3>3. CASE pass.disc.cands # {}
        <4>1. \/ \E c \in pass.disc.cands : Goto("read", [pass EXCEPT !.cand = c])
              \/ \E c \in pass.disc.cands : \E s \in Documents(pass.w) :
                    Goto("unchanged", [pass EXCEPT !.cand = c, !.sid = s,
                                                  !.version = doc[pass.w][s].version])
          <5> HIDE DEF Goto
          <5> QED BY <1>6, <3>3, Zenon DEF NextCandidate
        <4> QED BY <3>1, <4>1, Zenon
      <3> QED BY <3>2, <3>3
    <2>2. IsPass(pass') /\ pass'.doomed = pass.doomed /\ pc' \notin Holding
      BY <1>0, <2>1 DEF IsPass, Holding
    <2> QED BY <1>0, <2>1, <2>2 DEF PassInv, IsPass
  <1>7. CASE Open
    <2>1. CASE SkipCandidate
      BY <1>7, <2>1, SkipsKeep DEF Open
    <2>2. CASE pass' = pass /\ pc' = "reading"
      BY <1>0, <1>7, <2>2 DEF PassInv, IsPass, Open, Holding
    <2> QED BY <1>7, <2>1, <2>2 DEF Open
  <1>8. CASE Snapshot
    <2> DEFINE f == file[<<pass.w, pass.taken[pass.w].rev>>][pass.cand.path]
    <2>1. CASE SkipCandidate
      BY <1>8, <2>1, SkipsKeep DEF Snapshot
    <2>2. CASE /\ SourceCurrent /\ pc' = "checkpoint"
               /\ pass' = [pass EXCEPT !.sid = f.sid,
                               !.text = IF f.fp = pass.cand.fp THEN f.fp ELSE Torn]
      <3>1. f.fp = pass.cand.fp
        BY <2>2 DEF SourceCurrent
      <3>2. pass' = [pass EXCEPT !.sid = f.sid, !.text = f.fp]
        BY <2>2, <3>1
      <3> HIDE DEF f
      <3>3. IsPass(pass') /\ pass'.doomed = pass.doomed /\ pass'.text = pass'.cand.fp
        BY <1>0, <3>1, <3>2 DEF IsPass
      <3> QED BY <1>0, <1>8, <3>3 DEF PassInv, IsPass, Snapshot
    <2> QED BY <1>8, <2>1, <2>2 DEF Snapshot
  <1>9. CASE Embed
    <2>1. /\ pass' = [pass EXCEPT !.version = Expected(pass.w, pass.sid)]
          /\ pc = "checkpoint" /\ doc' = doc /\ late' = late
      BY <1>9 DEF Embed
    <2>2. IsPass(pass') /\ pass'.doomed = pass.doomed /\ pass'.text = pass'.cand.fp
      BY <1>0, <2>1 DEF IsPass, PassInv, Holding
    <2> QED BY <1>0, <2>1, <2>2 DEF PassInv, IsPass
  <1>10. CASE CandidateFails
    BY <1>10, SkipsKeep DEF CandidateFails
  <1>11. CASE Revalidate
    <2>1. CASE SkipCandidate
      BY <1>11, <2>1, SkipsKeep DEF Revalidate
    <2>2. CASE pass' = pass /\ pc' = IF pc = "unchanged" THEN "seen" ELSE "publish"
      BY <1>0, <1>11, <2>2 DEF PassInv, IsPass, Revalidate, Holding
    <2> QED BY <1>11, <2>1, <2>2 DEF Revalidate
  <1>12. CASE Pruned
    <2>1. SkipCandidate \/ SkipWorkspace
      BY <1>12 DEF Pruned
    <2> QED BY <1>12, <2>1, SkipsKeep DEF Pruned
  <1>13. CASE Recheck
    <2>1. CASE SkipWorkspace
      BY <1>13, <2>1, SkipsKeep DEF Recheck
    <2>2. CASE pass' = pass /\ pc' = "prune"
      BY <1>0, <1>13, <2>2 DEF PassInv, IsPass, Recheck, Holding
    <2>3. CASE pass' = ToNext(pass) /\ pc' = "next"
      BY <1>0, <1>13, <2>3, ToNextIs DEF PassInv, IsPass, Recheck, Holding
    <2> QED BY <1>13, <2>1, <2>2, <2>3 DEF Recheck, Refresh
  <1>14. CASE PassEnds
    BY <1>14, NoPassIs DEF PassInv, IsPass, PassEnds, Holding
  <1>15. CASE Prune \/ Orphans
    <2>1. \E D : Doomed(D) /\ pass' = [pass EXCEPT !.doomed = D] /\ pc' \in {"deleting", "removing"}
      <3>1. CASE Prune
        <4> DEFINE old == {s \in Documents(pass.w) :
                      /\ doc[pass.w][s].rev = pass.taken[pass.w].rev
                      /\ IF pass.cand # Null
                         THEN doc[pass.w][s].path = pass.cand.path /\ s # pass.sid
                         ELSE doc[pass.w][s].path \notin pass.disc.seen}
                   f == [s \in old |-> [kind |-> "delete", w |-> pass.w, rev |-> pass.taken[pass.w].rev,
                                        sid |-> s, version |-> doc[pass.w][s].version]]
                   D == {f[s] : s \in old}
        <4>1. pass' = [pass EXCEPT !.doomed = D] /\ pc' = "deleting"
          BY <3>1, Zenon DEF Prune
        <4>2. IsFiniteSet(old)
          BY FS_Subset, SameFinite DEF Finite, Sessions, Documents
        <4>3. \A t \in D : t.kind = "delete"
          <5>1. ASSUME NEW s \in old PROVE f[s].kind = "delete"
            OBVIOUS
          <5> HIDE DEF f, old
          <5> QED BY <5>1
        <4>4. f = [s \in old |-> f[s]]
          OBVIOUS
        <4> HIDE DEF f, old
        <4>5. IsFiniteSet(D)
          BY <4>2, <4>4, ImageFinite
        <4> HIDE DEF D
        <4> QED BY <4>1, <4>3, <4>5 DEF Doomed
      <3>2. CASE Orphans
        <4> DEFINE old == {x \in WorkspaceIds : row[x] # Null /\ ~IsLive(x)}
                   f == [w \in old |-> [kind |-> "remove", w |-> w, rev |-> row[w].rev, version |-> Null]]
                   D == {f[w] : w \in old}
        <4>1. pass' = [pass EXCEPT !.doomed = D] /\ pc' = "removing"
          BY <3>2, Zenon DEF Orphans
        <4>2. IsFiniteSet(old)
          BY FS_Subset, SameFinite DEF Finite
        <4>3. \A t \in D : t.kind = "remove"
          <5>1. ASSUME NEW s \in old PROVE f[s].kind = "remove"
            OBVIOUS
          <5> HIDE DEF f, old
          <5> QED BY <5>1
        <4>4. f = [s \in old |-> f[s]]
          OBVIOUS
        <4> HIDE DEF f, old
        <4>5. IsFiniteSet(D)
          BY <4>2, <4>4, ImageFinite
        <4> HIDE DEF D
        <4> QED BY <4>1, <4>3, <4>5 DEF Doomed
      <3> QED BY <1>15, <3>1, <3>2
    <2>2. doc' = doc /\ late' = late
      BY <1>15 DEF Prune, Orphans
    <2>3. IsPass(pass') /\ Doomed(pass'.doomed) /\ pc' \notin Holding
      BY <1>0, <2>1 DEF IsPass, Holding
    <2> QED BY <2>2, <2>3 DEF PassInv, IsPass
  <1> QED BY <1>1, <1>2, <1>3, <1>4, <1>5, <1>6, <1>7, <1>8, <1>9, <1>10, <1>11, <1>12, <1>13, <1>14, <1>15

(* A transaction of the pass commits: whole documents stay whole, and the  *)
(* pass goes on, skips or ends.                                            *)
LEMMA CommitKeeps ==
  ASSUME PassInv, StoreInv, Commit
  PROVE  PassInv' /\ StoreInv' /\ late' = late
  <1> USE DEF Goto, Step
  <1>0. IsPass(pass) /\ Doomed(pass.doomed)
    BY DEF PassInv
  <1>1. PICK t \in Writes :
          /\ Apply(t)
          /\ IF Effect(t).ok
             THEN CASE pc = "sync" -> Goto("discover", [pass EXCEPT !.prev = Null])
                    [] pc = "seen" -> SkipCandidate
                    [] pc = "publish" -> Goto("prune", pass)
                    [] OTHER -> Goto(pc, [pass EXCEPT !.doomed = @ \ {t}])
             ELSE IF pc = "sync" \/ row[t.w] = Null THEN Goto("drain", NoPass)
             ELSE SkipCandidate
    <2> HIDE DEF Goto
    <2> QED BY Zenon DEF Commit
  <1>2. late' = late
    BY DEF Commit
  <1>3. StoreInv'
    BY <1>1, <1>2, ApplyWhole, WritesWhole
  <1>4. pc \notin {"sync", "seen", "publish"} => pc \notin Holding
    BY <1>1 DEF Writes, Holding
  <1>5. CASE SkipCandidate
    BY <1>2, <1>3, <1>5, SkipsKeep
  <1>6. CASE pc' = "drain" /\ pass' = NoPass
    BY <1>2, <1>3, <1>6, NoPassIs DEF PassInv, IsPass, Holding
  <1>7. CASE pc' = "discover" /\ pass' = [pass EXCEPT !.prev = Null]
    <2>1. IsPass(pass') /\ pass'.doomed = pass.doomed
      BY <1>0, <1>7 DEF IsPass
    <2> QED BY <1>0, <1>2, <1>3, <1>7, <2>1 DEF PassInv, IsPass, Holding
  <1>8. CASE pc' = "prune" /\ pass' = pass
    BY <1>0, <1>2, <1>3, <1>8 DEF PassInv, IsPass, Holding
  <1>9. CASE pc \notin {"sync", "seen", "publish"} /\ pc' = pc /\ pass' = [pass EXCEPT !.doomed = @ \ {t}]
    <2>1. IsPass(pass') /\ pass'.doomed = pass.doomed \ {t}
      BY <1>0, <1>9 DEF IsPass
    <2>2. Doomed(pass'.doomed)
      BY <1>0, <2>1, FS_RemoveElement DEF Doomed
    <2> QED BY <1>2, <1>3, <1>4, <1>9, <2>1, <2>2 DEF PassInv, IsPass
  <1>10. \/ SkipCandidate
         \/ pc' = "drain" /\ pass' = NoPass
         \/ pc' = "discover" /\ pass' = [pass EXCEPT !.prev = Null]
         \/ pc' = "prune" /\ pass' = pass
         \/ pc \notin {"sync", "seen", "publish"} /\ pc' = pc /\ pass' = [pass EXCEPT !.doomed = @ \ {t}]
    BY <1>1, Zenon
  <1> QED BY <1>5, <1>6, <1>7, <1>8, <1>9, <1>10

(* A pass that ends under a transaction, whose COMMIT may be left behind;  *)
(* and that COMMIT when it is carried out.                                 *)
LEMMA LateKeeps ==
  ASSUME PassInv, StoreInv,
         TransactionFails \/ Cancelled \/ Restart \/ LateCommit
  PROVE  PassInv' /\ StoreInv'
  <1>1. CASE TransactionFails \/ Cancelled \/ Restart
    <2>1. /\ doc' = doc /\ pass' = NoPass /\ pc' \in {"drain", "off"}
          /\ late' = late \/ \E t \in Writes : late' = t
      BY <1>1 DEF TransactionFails, Cancelled, Restart, Goto
    <2>2. PassInv'
      BY <2>1, NoPassIs DEF PassInv, IsPass, Holding
    <2>3. StoreInv'
      BY <2>1, WritesWhole DEF StoreInv
    <2> QED BY <2>2, <2>3
  <1>2. CASE LateCommit
    <2>1. late # Null /\ Apply(late) /\ late' = Null /\ pass' = pass /\ pc' = pc
      BY <1>2 DEF LateCommit, indexer
    <2>2. WholeWrite(late)
      BY <2>1 DEF StoreInv
    <2>3. StoreInv'
      BY <2>1, <2>2, ApplyWhole
    <2> QED BY <2>1, <2>3 DEF PassInv, IsPass
  <1> QED BY <1>1, <1>2

(* Every step keeps the pass and the store.                                *)
LEMMA SearchStep ==
  ASSUME PassInv, StoreInv, Finite, [SearchNext]_searchVars
  PROVE  PassInv' /\ StoreInv'
  <1>1. ASSUME doc' = doc, late' = late PROVE StoreInv'
    BY <1>1 DEF StoreInv
  <1>2. CASE \/ Tick \/ Initialized \/ InitializeFails
             \/ \E w \in WorkspaceIds, force \in BOOLEAN : ClientRefresh(w, force)
             \/ CloseSearch \/ Finalize
    BY <1>1, <1>2, RequestsKeep
  <1>3. CASE \/ \E w \in WorkspaceIds, s \in Sessions : ReadFirst(w, s)
             \/ ReadNext
             \/ \E w \in WorkspaceIds, p \in Paths :
                   DeleteFile(w, p) \/ \E s \in Holds[p] : WriteFile(w, p, s)
             \/ \E w \in WorkspaceIds : Edit(w)
             \/ \E m \in Spaces : Serve(m)
    BY <1>1, <1>3, OutsideKeeps
  <1>4. CASE \/ Drain \/ NextWorkspace \/ Discover \/ DiscoverPartly
             \/ ResolveSpace \/ NextCandidate \/ Open \/ Snapshot
             \/ Embed \/ CandidateFails \/ Revalidate \/ Prune
             \/ Pruned \/ Recheck \/ Orphans \/ PassEnds
    BY <1>1, <1>4, ReadingKeeps
  <1>5. CASE Commit
    BY <1>5, CommitKeeps
  <1>6. CASE TransactionFails \/ Cancelled \/ Restart \/ LateCommit
    BY <1>6, LateKeeps
  <1>7. CASE UNCHANGED searchVars
    BY <1>7 DEF searchVars, store, indexer, PassInv, IsPass, StoreInv
  <1> QED BY <1>2, <1>3, <1>4, <1>5, <1>6, <1>7 DEF SearchNext, Indexing

(* A fresh server over an empty index.                                     *)
LEMMA SearchInitially == SearchInit => PassInv /\ StoreInv
  BY NoPassIs DEF SearchInit, PassInv, StoreInv, IsPass, Holding, NoDocuments

(* Every published document is one whole reading of a session file, in     *)
(* every behaviour of the indexer: whatever is written while it reads,     *)
(* whatever fails, is given up on, commits late or restarts.               *)
THEOREM DocumentsWhole ==
  SearchSpec => []Whole
  <1>0. Finite
    BY SearchAssumption
  <1>1. SearchInit => PassInv /\ StoreInv
    BY <1>0, SearchInitially
  <1>2. (PassInv /\ StoreInv) /\ [SearchNext]_searchVars => (PassInv /\ StoreInv)'
    BY <1>0, SearchStep
  <1>3. PassInv /\ StoreInv => Whole
    BY DEF StoreInv, Whole, Documents
  <1> QED BY <1>1, <1>2, <1>3, PTL DEF SearchSpec
-----------------------------------------------------------------------------
(* Induction over the naturals, by the least one that is missing.          *)
LEMMA Induction ==
  ASSUME NEW S \in SUBSET Nat, 0 \in S, \A n \in S : n + 1 \in S
  PROVE  \A n \in Nat : n \in S
  <1>1. SUFFICES ASSUME Nat \ S # {} PROVE FALSE
    OBVIOUS
  <1>2. PICK x \in Nat \ S : \A y \in Nat \ S : ~ (<<y, x>> \in OpToRel(<, Nat))
    <2>1. Nat \ S \in SUBSET Nat
      OBVIOUS
    <2> QED BY <1>1, <2>1, NatLessThanWellFounded, WFMin
  <1>3. \A y \in Nat \ S : ~ (y < x)
    BY <1>2 DEF OpToRel
  <1>4. x # 0 /\ x - 1 \in Nat /\ x - 1 \in S
    BY <1>3
  <1> QED BY <1>4

(* A finite set misses a least positive number, and it is at most one more *)
(* than the set has elements.                                              *)
LEMMA LeastMissing ==
  ASSUME NEW R, IsFiniteSet(R)
  PROVE  \E v \in 1 .. Cardinality(R) + 1 : v \notin R /\ 1 .. v - 1 \subseteq R
  <1>0. Cardinality(R) \in Nat
    BY FS_CardinalityType
  <1> DEFINE n == Cardinality(R) + 1
             S == {m \in Nat : m <= n => 1 .. m \subseteq R}
  <1>1. SUFFICES ASSUME ~ \E v \in 1 .. n : v \notin R /\ 1 .. v - 1 \subseteq R
                 PROVE  FALSE
    OBVIOUS
  <1>2. n \in Nat \ {0}
    BY <1>0
  <1> HIDE DEF n
  <1>3. 0 \in S
    OBVIOUS
  <1>4. ASSUME NEW m \in S PROVE m + 1 \in S
    <2>1. m \in Nat /\ (m + 1) - 1 = m
      OBVIOUS
    <2>2. m + 1 <= n => 1 .. m \subseteq R /\ m + 1 \in 1 .. n
      BY <1>2, <2>1
    <2>3. m + 1 <= n => m + 1 \in R
      BY <1>1, <2>1, <2>2
    <2>4. 1 .. m + 1 = (1 .. m) \cup {m + 1}
      BY <2>1
    <2> QED BY <2>1, <2>2, <2>3, <2>4
  <1> HIDE DEF S
  <1>5. n \in S
    BY <1>2, <1>3, <1>4, Induction DEF S
  <1>6. 1 .. n \subseteq R
    BY <1>2, <1>5 DEF S
  <1>7. Cardinality(1 .. n) = n
    BY <1>2, FS_Interval
  <1>8. Cardinality(1 .. n) <= Cardinality(R)
    BY <1>6, FS_Subset
  <1> QED BY <1>0, <1>7, <1>8 DEF n

(* Finitely many versions are remembered.                                  *)
LEMMA RememberedFinite ==
  ASSUME Finite, PassInv
  PROVE  IsFiniteSet(Remembered)
  <1> DEFINE V(w) == {doc[w][s].version : s \in Documents(w)}
             U == {V(w) : w \in WorkspaceIds}
             D == {t.version : t \in pass.doomed}
             L == IF late = Null THEN {} ELSE {late.version}
             K == IF reader = Null THEN {} ELSE {reader.version}
  <1>1. ASSUME NEW w \in WorkspaceIds PROVE IsFiniteSet(V(w))
    <2> DEFINE f == [s \in Documents(w) |-> doc[w][s].version]
    <2>1. IsFiniteSet(Documents(w))
      BY FS_Subset, SameFinite DEF Finite, Sessions, Documents
    <2>2. f = [s \in Documents(w) |-> f[s]] /\ V(w) = {f[s] : s \in Documents(w)}
      OBVIOUS
    <2> HIDE DEF f, V
    <2> QED BY <2>1, <2>2, ImageFinite
  <1>2. IsFiniteSet(U)
    <2> DEFINE f == [w \in WorkspaceIds |-> V(w)]
    <2>1. IsFiniteSet(WorkspaceIds)
      BY SameFinite DEF Finite
    <2>2. f = [w \in WorkspaceIds |-> f[w]] /\ U = {f[w] : w \in WorkspaceIds}
      OBVIOUS
    <2> HIDE DEF f, V, U
    <2> QED BY <2>1, <2>2, ImageFinite
  <1>3. IsFiniteSet(UNION U)
    BY <1>1, <1>2, FS_UNION
  <1>4. IsFiniteSet(D)
    <2> DEFINE f == [t \in pass.doomed |-> t.version]
    <2>1. IsFiniteSet(pass.doomed)
      BY DEF PassInv, Doomed
    <2>2. f = [t \in pass.doomed |-> f[t]] /\ D = {f[t] : t \in pass.doomed}
      OBVIOUS
    <2> HIDE DEF f, D
    <2> QED BY <2>1, <2>2, ImageFinite
  <1>5. IsFiniteSet(L) /\ IsFiniteSet(K) /\ IsFiniteSet({pass.version})
    <2> HIDE DEF U, D
    <2>1. IsFiniteSet({}) /\ \A x : IsFiniteSet({x})
      BY FS_EmptySet, FS_Singleton
    <2> QED BY <2>1
  <1>6. Remembered = (UNION U) \cup {pass.version} \cup D \cup L \cup K
    BY DEF Remembered
  <1> HIDE DEF U, D, L, K
  <1>7. \A A, B : IsFiniteSet(A) /\ IsFiniteSet(B) => IsFiniteSet(A \cup B)
    BY FS_Union
  <1>8. IsFiniteSet((UNION U) \cup {pass.version})
    BY <1>3, <1>5, <1>7, Zenon
  <1>9. IsFiniteSet((UNION U) \cup {pass.version} \cup D)
    BY <1>4, <1>7, <1>8, Zenon
  <1>10. IsFiniteSet((UNION U) \cup {pass.version} \cup D \cup L)
    BY <1>5, <1>7, <1>9, Zenon
  <1> QED BY <1>5, <1>6, <1>7, <1>10, Zenon

(* A published document gets a version that nobody remembers.              *)
LEMMA FreshIsNew ==
  ASSUME Finite, PassInv
  PROVE  Fresh \notin Remembered
  <1> DEFINE P(v) == v \notin Remembered /\ 1 .. v - 1 \subseteq Remembered
             n == Cardinality(Remembered) + 1
  <1>1. \E v \in 1 .. n : P(v)
    BY RememberedFinite, LeastMissing
  <1>2. Fresh = CHOOSE v \in 1 .. n : P(v)
    BY SameCardinality DEF Fresh
  <1> HIDE DEF n
  <1>3. P(Fresh)
    <2> HIDE DEF P
    <2> QED BY <1>1, <1>2
  <1> QED BY <1>3
(* f begins with b and takes the steps that G tells.                       *)
Follows(f, G, b, V, n) ==
    f \in [0..n -> V] /\ f[0] = b /\ \A i \in 1..n : f[i] = G[i][f[i - 1]]

Steps(V, n) == [1..n -> [V -> V]]

(* A function that is given step by step exists.                           *)
LEMMA Stepwise ==
  ASSUME NEW V, NEW b \in V, NEW N \in Nat, NEW G \in Steps(V, N)
  PROVE  \E f : Follows(f, G, b, V, N)
  <1> USE DEF Steps, Follows
  <1> DEFINE Upto(n) == \E f : Follows(f, G, b, V, n)
             S == {n \in Nat : n <= N => Upto(n)}
  <1>1. 0 \in S
    <2> DEFINE f == [i \in 0..0 |-> b]
    <2>1. f \in [0..0 -> V] /\ f[0] = b /\ \A i \in 1..0 : f[i] = G[i][f[i - 1]]
      OBVIOUS
    <2> HIDE DEF f
    <2>2. Upto(0)
      BY <2>1
    <2> QED BY <2>2
  <1>2. ASSUME NEW n \in Nat, n + 1 <= N, Upto(n)
        PROVE  Upto(n + 1)
    <2>1. PICK g : Follows(g, G, b, V, n)
      BY <1>2
    <2> DEFINE v == G[n + 1][g[n]]
               f == [i \in 0..(n + 1) |-> IF i = n + 1 THEN v ELSE g[i]]
    <2>2. v \in V
      BY <1>2, <2>1
    <2>3. f \in [0..(n + 1) -> V]
      BY <2>1, <2>2
    <2>4. f[0] = b /\ f[n + 1] = v /\ \A i \in 0..n : f[i] = g[i]
      BY <2>1
    <2>5. \A i \in 1..(n + 1) : f[i] = G[i][f[i - 1]]
      BY <2>1, <2>4
    <2> HIDE DEF f
    <2> QED BY <2>3, <2>4, <2>5
  <1> HIDE DEF Upto
  <1>3. \A n \in S : n + 1 \in S
    BY <1>2
  <1> HIDE DEF S
  <1>4. N \in S
    BY <1>1, <1>3, Induction DEF S
  <1>5. Upto(N)
    BY <1>4 DEF S
  <1> QED BY <1>5 DEF Upto


(* The running concatenations of n sequences.                              *)
IsJoin(f, s, n, X) ==
    /\ f \in [0..n -> Seq(X)]
    /\ f[0] = <<>> /\ \A i \in 1..n : f[i] = f[i - 1] \o s[i]

(* The joins of the first 1, 2, ... sequences exist as a function.         *)
LEMMA JoinExists ==
  ASSUME NEW X, NEW s, NEW n \in Nat \ {0}, \A i \in 1..n : s[i] \in Seq(X)
  PROVE  \E f : IsJoin(f, s, n, X)
  <1> DEFINE G == [i \in 1..n |-> [x \in Seq(X) |-> x \o s[i]]]
  <1>1. G \in Steps(Seq(X), n)
    <2>1. ASSUME NEW i \in 1..n, NEW x \in Seq(X) PROVE x \o s[i] \in Seq(X)
      OBVIOUS
    <2> QED BY <2>1 DEF Steps
  <1>2. \A i \in 1..n, x \in Seq(X) : G[i][x] = x \o s[i]
    OBVIOUS
  <1> HIDE DEF G
  <1>3. PICK f : Follows(f, G, <<>>, Seq(X), n)
    <2>1. <<>> \in Seq(X)
      OBVIOUS
    <2> QED BY <1>1, <2>1, Stepwise
  <1>4. f \in [0..n -> Seq(X)] /\ f[0] = <<>> /\ \A i \in 1..n : f[i] = G[i][f[i - 1]]
    BY <1>3 DEF Follows
  <1>5. ASSUME NEW i \in 1..n PROVE f[i - 1] \in Seq(X) /\ f[i] = f[i - 1] \o s[i]
    <2>1. i - 1 \in 0..n
      OBVIOUS
    <2>2. f[i - 1] \in Seq(X)
      BY <1>4, <2>1
    <2> QED BY <1>2, <1>4, <2>2
  <1> QED BY <1>4, <1>5 DEF IsJoin

(* What a recursion that begins with the first of them computes.           *)
Recursion(f, s, n) == \A i \in 1..n : f[i] = IF i = 1 THEN s[i] ELSE f[i - 1] \o s[i]

(* They are what a recursion that begins with the first sequence computes. *)
LEMMA JoinRecursion ==
  ASSUME NEW X, NEW s, NEW n \in Nat \ {0}, \A i \in 1..n : s[i] \in Seq(X),
         NEW f, IsJoin(f, s, n, X)
  PROVE  Recursion(f, s, n)
  <1>1. \A q \in Seq(X) : <<>> \o q = q
    OBVIOUS
  <1>2. ASSUME NEW i \in 1..n PROVE f[i] = IF i = 1 THEN s[i] ELSE f[i - 1] \o s[i]
    <2>0. s[i] \in Seq(X) /\ i \in Nat
      OBVIOUS
    <2>1. s[i] \in Seq(X) /\ f[i] = f[i - 1] \o s[i] /\ f[0] = <<>> /\ i \in Nat
      BY <2>0, Zenon DEF IsJoin
    <2>2. i = 1 => i - 1 = 0
      OBVIOUS
    <2>3. i = 1 => f[i] = <<>> \o s[i]
      BY <2>1, <2>2
    <2> QED BY <1>1, <2>1, <2>3
  <1> QED BY <1>2 DEF Recursion

(* Two joins of the same sequences are equal.                              *)
LEMMA JoinUnique ==
  ASSUME NEW s, NEW t, NEW n \in Nat \ {0}, NEW f, NEW g,
         \A i \in 1..n : s[i] = t[i],
         Recursion(f, s, n), Recursion(g, t, n)
  PROVE  f[n] = g[n]
  <1> USE DEF Recursion
  <1> DEFINE E == {i \in Nat : i + 1 <= n => f[i + 1] = g[i + 1]}
  <1>1. 0 \in E
    <2>1. f[1] = g[1]
      OBVIOUS
    <2> QED BY <2>1
  <1>2. ASSUME NEW i \in E PROVE i + 1 \in E
    <2>1. i \in Nat /\ i + 1 \in Nat
      OBVIOUS
    <2>2. ASSUME (i + 1) + 1 <= n PROVE f[(i + 1) + 1] = g[(i + 1) + 1]
      <3>1. (i + 1) + 1 \in 1..n /\ (i + 1) + 1 # 1 /\ ((i + 1) + 1) - 1 = i + 1 /\ i + 1 <= n
        BY <2>1, <2>2
      <3>2. f[i + 1] = g[i + 1]
        BY <3>1
      <3> QED BY <3>1, <3>2
    <2> QED BY <2>1, <2>2
  <1> HIDE DEF E
  <1>3. n - 1 \in E
    <2>1. n - 1 \in Nat
      OBVIOUS
    <2>2. E \in SUBSET Nat
      BY DEF E
    <2> QED BY <1>1, <1>2, <2>1, <2>2, Induction
  <1>4. (n - 1) + 1 = n /\ (n - 1) + 1 <= n
    OBVIOUS
  <1> QED BY <1>3, <1>4 DEF E

(* FlattenSeq is the last of the running concatenations.                   *)
LEMMA FlattenJoins ==
  ASSUME NEW X, NEW s, NEW n \in Nat \ {0}, \A i \in 1..n : s[i] \in Seq(X), Len(s) = n
  PROVE  \E f : IsJoin(f, s, n, X) /\ FlattenSeq(s) = f[n]
  <1>1. PICK f : IsJoin(f, s, n, X)
    BY JoinExists
  <1>2. Recursion(f, s, n)
    BY <1>1, JoinRecursion
  <1> DEFINE Grown(h) == [i \in 1..n |-> IF i = 1 THEN s[i] ELSE h[i - 1] \o s[i]]
             t == CHOOSE h : h = Grown(h)
             g == [i \in 1..n |-> f[i]]
  <1>3. g = Grown(g)
    <2>1. ASSUME NEW i \in 1..n PROVE g[i] = IF i = 1 THEN s[i] ELSE g[i - 1] \o s[i]
      <3>1. i # 1 => i - 1 \in 1..n
        OBVIOUS
      <3> QED BY <1>2, <3>1 DEF Recursion
    <2>2. g = [i \in 1..n |-> g[i]]
      OBVIOUS
    <2> HIDE DEF g
    <2> QED BY <2>1, <2>2
  <1>4. t = Grown(t)
    <2> HIDE DEF g, Grown
    <2> QED BY <1>3
  <1>5. FlattenSeq(s) = t[n]
    BY DEF FlattenSeq
  <1> HIDE DEF t
  <1>6. Recursion(t, s, n)
    BY <1>4 DEF Recursion
  <1>7. t[n] = f[n]
    BY <1>2, <1>6, JoinUnique
  <1> QED BY <1>1, <1>5, <1>7

(* n sequences of t, of which s has the first n - 1.                       *)
Longer(t, s, n, X) ==
    /\ n \in Nat \ {0} /\ Len(s) = n /\ Len(t) = n + 1
    /\ \A i \in 1..n : s[i] = t[i]
    /\ \A i \in 1..n + 1 : t[i] \in Seq(X)

(* A sequence more at the end.                                             *)
LEMMA FlattenLast ==
  ASSUME NEW X, NEW s, NEW t, NEW n, Longer(t, s, n, X)
  PROVE  FlattenSeq(t) = FlattenSeq(s) \o t[n + 1]
  <1> USE DEF Longer
  <1>0. /\ n + 1 \in Nat \ {0} /\ n + 1 \in 1..n + 1 /\ n + 1 # 1 /\ (n + 1) - 1 = n
        /\ \A i \in 1..n : i \in 1..n + 1 /\ s[i] \in Seq(X)
    OBVIOUS
  <1>1. PICK f : IsJoin(f, s, n, X) /\ FlattenSeq(s) = f[n]
    BY <1>0, FlattenJoins
  <1>2. PICK g : IsJoin(g, t, n + 1, X) /\ FlattenSeq(t) = g[n + 1]
    BY <1>0, FlattenJoins
  <1>3. Recursion(f, s, n)
    BY <1>0, <1>1, JoinRecursion
  <1>4. Recursion(g, t, n + 1)
    BY <1>0, <1>2, JoinRecursion
  <1>5. Recursion(g, t, n)
    BY <1>0, <1>4 DEF Recursion
  <1>6. f[n] = g[n]
    BY <1>3, <1>5, JoinUnique
  <1>7. g[n + 1] = g[n] \o t[n + 1]
    BY <1>0, <1>4 DEF Recursion
  <1> QED BY <1>1, <1>2, <1>6, <1>7

(* The join of one sequence is that sequence.                              *)
LEMMA FlattenOne ==
  ASSUME NEW X, NEW s, Len(s) = 1, s[1] \in Seq(X)
  PROVE  FlattenSeq(s) = s[1]
  <1>0. 1 \in Nat \ {0} /\ \A i \in 1..1 : s[i] \in Seq(X)
    OBVIOUS
  <1>1. PICK f : IsJoin(f, s, 1, X) /\ FlattenSeq(s) = f[1]
    BY <1>0, FlattenJoins
  <1>2. Recursion(f, s, 1)
    BY <1>0, <1>1, JoinRecursion
  <1> QED BY <1>1, <1>2 DEF Recursion

(* The join of sequences over X is one.                                    *)
LEMMA FlattenType ==
  ASSUME NEW X, NEW s, NEW n \in Nat \ {0}, \A i \in 1..n : s[i] \in Seq(X), Len(s) = n
  PROVE  FlattenSeq(s) \in Seq(X)
  <1>1. PICK f : IsJoin(f, s, n, X) /\ FlattenSeq(s) = f[n]
    BY FlattenJoins
  <1>2. f \in [0..n -> Seq(X)]
    BY <1>1 DEF IsJoin
  <1> QED BY <1>1, <1>2

(* Bytes of an entry, and what all of them are.                            *)
Piece(x, from, to, text) ==
    [b \in 1 .. to - from |-> [text |-> text, entry |-> x, byte |-> from + b - 1]]

Sheet(text) == [text : {text}, entry : {Layout[c].entry : c \in DOMAIN Layout}, byte : Nat]

(* A piece has a line for each position that it takes.                     *)
LEMMA PieceIs ==
  ASSUME NEW text, NEW c \in DOMAIN Layout, NEW from \in Nat, NEW to \in Nat, from <= to
  PROVE  /\ Piece(Layout[c].entry, from, to, text) \in Seq(Sheet(text))
         /\ Len(Piece(Layout[c].entry, from, to, text)) = to - from
  <1>1. \A b \in 1 .. to - from :
           [text |-> text, entry |-> Layout[c].entry, byte |-> from + b - 1] \in Sheet(text)
    BY DEF Sheet
  <1>2. to - from \in Nat
    OBVIOUS
  <1> HIDE DEF Sheet
  <1> QED BY <1>1, <1>2 DEF Piece

(* Bytes of one entry that join are one run of them.                       *)
LEMMA PieceJoin ==
  ASSUME NEW text, NEW c \in DOMAIN Layout, NEW from \in Nat, NEW mid \in Nat, NEW to \in Nat,
         from <= mid, mid <= to
  PROVE  Piece(Layout[c].entry, from, mid, text) \o Piece(Layout[c].entry, mid, to, text)
             = Piece(Layout[c].entry, from, to, text)
  <1> DEFINE x == Layout[c].entry
             p == Piece(x, from, mid, text)
             q == Piece(x, mid, to, text)
             r == Piece(x, from, to, text)
  <1>1. /\ p \in Seq(Sheet(text)) /\ q \in Seq(Sheet(text)) /\ r \in Seq(Sheet(text))
        /\ Len(p) = mid - from /\ Len(q) = to - mid /\ Len(r) = to - from
    <2>1. from <= to
      OBVIOUS
    <2> HIDE DEF p, q, r
    <2>2. p \in Seq(Sheet(text)) /\ Len(p) = mid - from
      BY PieceIs DEF p
    <2>3. q \in Seq(Sheet(text)) /\ Len(q) = to - mid
      BY PieceIs DEF q
    <2>4. r \in Seq(Sheet(text)) /\ Len(r) = to - from
      BY <2>1, PieceIs DEF r
    <2> QED BY <2>2, <2>3, <2>4
  <1>2. \A i \in 1 .. mid - from : p[i] = [text |-> text, entry |-> x, byte |-> from + i - 1]
    BY DEF Piece
  <1>3. \A i \in 1 .. to - mid : q[i] = [text |-> text, entry |-> x, byte |-> mid + i - 1]
    BY DEF Piece
  <1>4. \A i \in 1 .. to - from : r[i] = [text |-> text, entry |-> x, byte |-> from + i - 1]
    BY DEF Piece
  <1> HIDE DEF p, q, r, x, Sheet
  <1>5. ASSUME NEW i \in 1 .. to - from PROVE (p \o q)[i] = r[i]
    <2>1. CASE i <= mid - from
      <3>1. i \in 1 .. mid - from
        BY <2>1
      <3>2. (p \o q)[i] = p[i]
        BY <1>1, <3>1
      <3> QED BY <1>2, <1>4, <3>1, <3>2
    <2>2. CASE i > mid - from
      <3>1. i - (mid - from) \in 1 .. to - mid /\ mid + (i - (mid - from)) - 1 = from + i - 1
        BY <2>2
      <3>2. (p \o q)[i] = q[i - (mid - from)]
        BY <1>1, <2>2
      <3>3. q[i - (mid - from)] = [text |-> text, entry |-> x, byte |-> from + i - 1]
        BY <1>3, <3>1
      <3> QED BY <1>4, <3>2, <3>3
    <2>3. i <= mid - from \/ i > mid - from
      OBVIOUS
    <2> QED BY <2>1, <2>2, <2>3, Zenon
  <1>6. p \o q \in Seq(Sheet(text)) /\ Len(p \o q) = to - from
    BY <1>1
  <1> HIDE DEF Sheet
  <1>7. p \o q = r
    BY <1>1, <1>5, <1>6, SeqEqual
  <1> QED BY <1>7 DEF p, q, r, x

(* A piece that ends where it begins has nothing.                          *)
LEMMA PieceEmpty ==
  ASSUME NEW text, NEW x, NEW from \in Nat
  PROVE  Piece(x, from, from, text) = <<>>
  BY DEF Piece

(* What WellLaid says of a chunk.                                          *)
LEMMA ChunkIs ==
  ASSUME WellLaid, NEW c \in 1 .. Len(Layout)
  PROVE  /\ Len(Layout) \in Nat /\ c \in DOMAIN Layout
         /\ Layout[c].from \in Nat /\ Layout[c].to \in Nat
         /\ Begin(c) \in Nat /\ Begin(c) < Layout[c].to
         /\ Layout[c].from <= Begin(c) /\ (Begin(c) = 0 => Layout[c].from = 0)
  <1>1. Len(Layout) \in Nat /\ DOMAIN Layout = 1 .. Len(Layout)
    BY DEF WellLaid
  <1>2. /\ Layout[c].from \in Nat /\ Layout[c].to \in Nat /\ Layout[c].from < Layout[c].to
        /\ IF c > 1 /\ Layout[c - 1].entry = Layout[c].entry
           THEN /\ Layout[c - 1].from < Layout[c].from /\ Layout[c].from <= Layout[c - 1].to
                /\ Layout[c - 1].to < Layout[c].to
           ELSE Layout[c].from = 0
    BY <1>1, Zenon DEF WellLaid
  <1>3. c > 1 => c - 1 \in 1 .. Len(Layout)
    BY <1>1
  <1>4. c > 1 => Layout[c - 1].from \in Nat /\ Layout[c - 1].to \in Nat
    BY <1>1, <1>3, Zenon DEF WellLaid
  <1> QED BY <1>1, <1>2, <1>4 DEF Begin
-----------------------------------------------------------------------------
(* What is taken from the chunks i to k when a page begins at byte at of   *)
(* the first and ends at byte e of the last.                               *)
Leaf(i, at, k, e, text, c) ==
    Piece(Layout[c].entry, IF c = i THEN at ELSE Begin(c), IF c = k THEN e ELSE Layout[c].to, text)

Leaves(i, at, k, e, text) == [j \in 1 .. k - i + 1 |-> Leaf(i, at, k, e, text, i + j - 1)]

Fits(i, at, k, e) ==
    /\ i \in 1 .. Len(Layout) /\ k \in i .. Len(Layout) /\ at \in Nat /\ e \in Nat
    /\ IF i = k THEN at <= e ELSE at <= Layout[i].to /\ Begin(k) <= e

(* A page is the join of what it takes from each chunk ...                 *)
LEMMA PageLeaves ==
  ASSUME NEW i, NEW at, NEW k, NEW e, NEW text
  PROVE  Page(i, at, k, e, text) = FlattenSeq(Leaves(i, at, k, e, text))
  BY Zenon DEF Page, Leaves, Leaf, Piece

(* ... and what it takes from each is a sequence ...                       *)
LEMMA LeafIs ==
  ASSUME WellLaid, NEW i, NEW at, NEW k, NEW e, NEW text, Fits(i, at, k, e), NEW c \in i .. k
  PROVE  Leaf(i, at, k, e, text, c) \in Seq(Sheet(text))
  <1>1. /\ Len(Layout) \in Nat /\ i \in 1 .. Len(Layout) /\ k \in i .. Len(Layout) /\ at \in Nat /\ e \in Nat
        /\ IF i = k THEN at <= e ELSE at <= Layout[i].to /\ Begin(k) <= e
    BY DEF Fits, WellLaid
  <1>2. c \in 1 .. Len(Layout)
    BY <1>1
  <1>3. /\ c \in DOMAIN Layout /\ Layout[c].to \in Nat
        /\ Begin(c) \in Nat /\ Begin(c) < Layout[c].to
    BY <1>2, ChunkIs
  <1> DEFINE from == IF c = i THEN at ELSE Begin(c)
             to == IF c = k THEN e ELSE Layout[c].to
  <1>4. from \in Nat /\ to \in Nat /\ from <= to
    BY <1>1, <1>3
  <1> HIDE DEF from, to
  <1>5. Piece(Layout[c].entry, from, to, text) \in Seq(Sheet(text))
    BY <1>3, <1>4, PieceIs
  <1> QED BY <1>5 DEF Leaf, from, to

(* ... of which there is one for each chunk.                               *)
LEMMA LeavesAre ==
  ASSUME WellLaid, NEW i, NEW at, NEW k, NEW e, NEW text, Fits(i, at, k, e)
  PROVE  /\ k - i + 1 \in Nat \ {0} /\ Len(Leaves(i, at, k, e, text)) = k - i + 1
         /\ \A j \in 1 .. k - i + 1 : /\ Leaves(i, at, k, e, text)[j] = Leaf(i, at, k, e, text, i + j - 1)
                                      /\ Leaves(i, at, k, e, text)[j] \in Seq(Sheet(text))
  <1>1. Len(Layout) \in Nat /\ i \in 1 .. Len(Layout) /\ k \in i .. Len(Layout)
    BY DEF Fits, WellLaid
  <1>2. k - i + 1 \in Nat \ {0}
    BY <1>1
  <1>3. \A j \in 1 .. k - i + 1 : Leaves(i, at, k, e, text)[j] = Leaf(i, at, k, e, text, i + j - 1)
    BY DEF Leaves
  <1>4. \A j \in 1 .. k - i + 1 : Leaf(i, at, k, e, text, i + j - 1) \in Seq(Sheet(text))
    <2>1. \A j \in 1 .. k - i + 1 : i + j - 1 \in i .. k
      BY <1>1
    <2> QED BY <2>1, LeafIs
  <1>5. Len(Leaves(i, at, k, e, text)) = k - i + 1
    BY <1>2 DEF Leaves
  <1> QED BY <1>2, <1>3, <1>4, <1>5

(* A page is a sequence of positions of the entries.                       *)
LEMMA PageType ==
  ASSUME WellLaid, NEW i, NEW at, NEW k, NEW e, NEW text, Fits(i, at, k, e)
  PROVE  Page(i, at, k, e, text) \in Seq(Sheet(text))
  <1> DEFINE s == Leaves(i, at, k, e, text)
             n == k - i + 1
  <1>1. n \in Nat \ {0} /\ Len(s) = n /\ \A j \in 1 .. n : s[j] \in Seq(Sheet(text))
    BY LeavesAre
  <1> HIDE DEF s, n
  <1>2. FlattenSeq(s) \in Seq(Sheet(text))
    BY <1>1, FlattenType
  <1> QED BY <1>2, PageLeaves DEF s

(* A page of one chunk, and a page that goes on into one chunk more.       *)
LEMMA PageOne ==
  ASSUME WellLaid, NEW i, NEW at, NEW e, NEW text, Fits(i, at, i, e)
  PROVE  Page(i, at, i, e, text) = Piece(Layout[i].entry, at, e, text)
  <1> DEFINE s == Leaves(i, at, i, e, text)
  <1>0. i \in Nat
    BY DEF Fits
  <1>1. i - i + 1 = 1 /\ i + 1 - 1 = i
    BY <1>0
  <1>2. /\ Len(s) = i - i + 1
        /\ \A j \in 1 .. i - i + 1 : /\ s[j] = Leaf(i, at, i, e, text, i + j - 1)
                                     /\ s[j] \in Seq(Sheet(text))
    BY LeavesAre
  <1> HIDE DEF s
  <1>3. Len(s) = 1 /\ s[1] = Leaf(i, at, i, e, text, i) /\ s[1] \in Seq(Sheet(text))
    BY <1>1, <1>2
  <1>4. FlattenSeq(s) = s[1]
    BY <1>3, FlattenOne
  <1>5. Leaf(i, at, i, e, text, i) = Piece(Layout[i].entry, at, e, text)
    BY DEF Leaf
  <1> QED BY <1>3, <1>4, <1>5, PageLeaves DEF s

(* A page over several chunks is a shorter page and a piece of the last.   *)
LEMMA PageMore ==
  ASSUME WellLaid, NEW i, NEW at, NEW k, NEW e, NEW text, Fits(i, at, k, e), i # k
  PROVE  /\ Fits(i, at, k - 1, Layout[k - 1].to)
         /\ Page(i, at, k, e, text)
              = Page(i, at, k - 1, Layout[k - 1].to, text)
                    \o Piece(Layout[k].entry, Begin(k), e, text)
  <1> DEFINE to == Layout[k - 1].to
             s == Leaves(i, at, k - 1, to, text)
             t == Leaves(i, at, k, e, text)
             n == k - i
  <1>1. /\ Len(Layout) \in Nat /\ i \in 1 .. Len(Layout) /\ k \in i .. Len(Layout) /\ i < k
        /\ at \in Nat /\ at <= Layout[i].to
    BY DEF Fits, WellLaid
  <1>2. k - 1 \in 1 .. Len(Layout) /\ k - 1 \in i .. Len(Layout)
    BY <1>1
  <1>3. to \in Nat /\ Begin(k - 1) <= to
    BY <1>2, ChunkIs
  <1>4. Fits(i, at, k - 1, to)
    BY <1>1, <1>2, <1>3 DEF Fits
  <1>5. n \in Nat \ {0} /\ (k - 1) - i + 1 = n /\ k - i + 1 = n + 1 /\ i + (n + 1) - 1 = k
    BY <1>1
  <1>6. /\ Len(s) = (k - 1) - i + 1
        /\ \A j \in 1 .. (k - 1) - i + 1 : s[j] = Leaf(i, at, k - 1, to, text, i + j - 1)
    BY <1>4, LeavesAre
  <1>7. /\ Len(t) = k - i + 1
        /\ \A j \in 1 .. k - i + 1 : /\ t[j] = Leaf(i, at, k, e, text, i + j - 1)
                                     /\ t[j] \in Seq(Sheet(text))
    BY LeavesAre
  <1> HIDE DEF s, t, n
  <1>8. \A j \in 1 .. n : s[j] = t[j]
    <2>1. \A j \in 1 .. n : i + j - 1 # k /\ j \in 1 .. n + 1
      BY <1>1, <1>5 DEF n
    <2>2. ASSUME NEW c, c # k
          PROVE  Leaf(i, at, k - 1, to, text, c) = Leaf(i, at, k, e, text, c)
      BY <2>2 DEF Leaf
    <2>3. \A j \in 1 .. n : Leaf(i, at, k - 1, to, text, i + j - 1) = Leaf(i, at, k, e, text, i + j - 1)
      BY <2>1, <2>2
    <2>4. \A j \in 1 .. n : s[j] = Leaf(i, at, k - 1, to, text, i + j - 1)
      BY <1>5, <1>6
    <2>5. \A j \in 1 .. n + 1 : t[j] = Leaf(i, at, k, e, text, i + j - 1)
      BY <1>5, <1>7
    <2> HIDE DEF to
    <2>6. ASSUME NEW j \in 1 .. n PROVE s[j] = t[j]
      <3>1. s[j] = Leaf(i, at, k - 1, to, text, i + j - 1)
        BY <2>4
      <3>2. t[j] = Leaf(i, at, k, e, text, i + j - 1)
        BY <2>1, <2>5
      <3>3. Leaf(i, at, k - 1, to, text, i + j - 1) = Leaf(i, at, k, e, text, i + j - 1)
        BY <2>3
      <3> QED BY <3>1, <3>2, <3>3
    <2> QED BY <2>6
  <1>9. n + 1 \in 1 .. n + 1 /\ \A j \in 1 .. n + 1 : t[j] \in Seq(Sheet(text))
    BY <1>5, <1>7
  <1>10. FlattenSeq(t) = FlattenSeq(s) \o t[n + 1]
    <2>1. Len(s) = n /\ Len(t) = n + 1
      BY <1>5, <1>6, <1>7
    <2> DEFINE X == Sheet(text)
    <2>2. n \in Nat \ {0} /\ \A j \in 1 .. n + 1 : t[j] \in Seq(X)
      BY <1>5, <1>9
    <2> HIDE DEF X
    <2>3. Longer(t, s, n, X)
      BY <1>8, <2>1, <2>2, Zenon DEF Longer
    <2> QED BY <2>3, FlattenLast
  <1>11. t[n + 1] = Leaf(i, at, k, e, text, k)
    BY <1>5, <1>7, <1>9
  <1>12. Leaf(i, at, k, e, text, k) = Piece(Layout[k].entry, Begin(k), e, text)
    BY DEF Leaf
  <1> QED BY <1>4, <1>10, <1>11, <1>12, PageLeaves DEF s, t

(* Joining is associative ...                                              *)
LEMMA Associative ==
  ASSUME NEW X
  PROVE  \A p, q, r \in Seq(X) : (p \o q) \o r = p \o (q \o r)
  BY ConcatAssociative

(* Five sequences of the same kind, the middle of which may be regrouped.  *)
AllIn(q, r, b, a, t, X) == q \in Seq(X) /\ r \in Seq(X) /\ b \in Seq(X) /\ a \in Seq(X) /\ t \in Seq(X)

Regrouped(q, r, b, a, t) == r \o b = a \o t => (q \o r) \o b = (q \o a) \o t

(* ... so a piece between two pages goes with either.                      *)
LEMMA Regroup ==
  ASSUME NEW X, NEW q, NEW r, NEW b, NEW a, NEW t, AllIn(q, r, b, a, t, X)
  PROVE  Regrouped(q, r, b, a, t)
  <1>0. q \in Seq(X) /\ r \in Seq(X) /\ b \in Seq(X) /\ a \in Seq(X) /\ t \in Seq(X)
    BY DEF AllIn
  <1>1. (q \o r) \o b = q \o (r \o b)
    BY <1>0, Associative
  <1>2. (q \o a) \o t = q \o (a \o t)
    BY <1>0, Associative
  <1> QED BY <1>1, <1>2 DEF Regrouped

(* A page that goes on in the chunk where another one ended is one page    *)
(* with it.                                                                *)
Joins(i, at, k, e, k2, e2, text) ==
    /\ Fits(i, at, k2, e2)
    /\ Page(i, at, k, e, text) \o Page(k, e, k2, e2, text) = Page(i, at, k2, e2, text)

(* A page continued within its last chunk is one page ...                  *)
LEMMA JoinSame ==
  ASSUME WellLaid, NEW i, NEW at, NEW k, NEW e, NEW e2, NEW text,
         Fits(i, at, k, e), Fits(k, e, k, e2)
  PROVE  Joins(i, at, k, e, k, e2, text)
  <1>1. /\ k \in 1 .. Len(Layout) /\ i \in 1 .. Len(Layout) /\ k \in i .. Len(Layout)
        /\ at \in Nat /\ e \in Nat /\ e2 \in Nat /\ e <= e2
    BY DEF Fits
  <1>2. k \in DOMAIN Layout /\ Begin(k) \in Nat
    BY <1>1, ChunkIs
  <1>3. Fits(i, at, k, e2)
    BY <1>1, <1>2 DEF Fits
  <1>4. Page(k, e, k, e2, text) = Piece(Layout[k].entry, e, e2, text)
    BY PageOne
  <1>5. CASE i = k
    <2>1. at <= e
      BY <1>5 DEF Fits
    <2>2. Piece(Layout[k].entry, at, e, text) \o Piece(Layout[k].entry, e, e2, text)
            = Piece(Layout[k].entry, at, e2, text)
      BY <1>1, <1>2, <2>1, PieceJoin
    <2>3. /\ Page(i, at, k, e, text) = Piece(Layout[k].entry, at, e, text)
          /\ Page(i, at, k, e2, text) = Piece(Layout[k].entry, at, e2, text)
      BY <1>3, <1>5, PageOne
    <2> QED BY <1>3, <1>4, <2>2, <2>3 DEF Joins
  <1>6. CASE i # k
    <2> DEFINE P == Page(i, at, k - 1, Layout[k - 1].to, text)
               b == Begin(k)
               q == Piece(Layout[k].entry, b, e, text)
               r == Piece(Layout[k].entry, e, e2, text)
               z == Piece(Layout[k].entry, b, e2, text)
    <2>1. b <= e
      BY <1>6 DEF Fits
    <2>2. q \o r = z
      BY <1>1, <1>2, <2>1, PieceJoin
    <2>3. Fits(i, at, k - 1, Layout[k - 1].to) /\ Page(i, at, k, e, text) = P \o q
      BY <1>6, PageMore
    <2>4. Page(i, at, k, e2, text) = P \o z
      BY <1>3, <1>6, PageMore
    <2>5. P \in Seq(Sheet(text))
      BY <2>3, PageType
    <2>6. q \in Seq(Sheet(text)) /\ r \in Seq(Sheet(text))
      BY <1>1, <1>2, <2>1, PieceIs
    <2> HIDE DEF P, q, r, z
    <2>7. (P \o q) \o r = P \o (q \o r)
      BY <2>5, <2>6, Associative
    <2>8. Page(k, e, k, e2, text) = r
      BY <1>4 DEF r
    <2> QED BY <1>3, <2>2, <2>3, <2>4, <2>7, <2>8 DEF Joins
  <1> QED BY <1>5, <1>6

(* ... and so is one continued into later chunks.                          *)
LEMMA PageJoin ==
  ASSUME WellLaid, NEW i, NEW at, NEW k, NEW e, NEW k2, NEW e2, NEW text,
         Fits(i, at, k, e), Fits(k, e, k2, e2)
  PROVE  Joins(i, at, k, e, k2, e2, text)
  <1>1. /\ k \in 1 .. Len(Layout) /\ i \in 1 .. Len(Layout) /\ k \in i .. Len(Layout)
        /\ Len(Layout) \in Nat /\ k2 \in k .. Len(Layout) /\ at \in Nat /\ e \in Nat
    BY DEF Fits, WellLaid
  <1> DEFINE S == {n \in Nat : \A z : Fits(k, e, k + n, z) => Joins(i, at, k, e, k + n, z, text)}
  <1>2. 0 \in S
    <2>1. k + 0 = k
      BY <1>1
    <2> QED BY <2>1, JoinSame
  <1>3. ASSUME NEW n \in S PROVE n + 1 \in S
    <2>1. n \in Nat /\ \A z : Fits(k, e, k + n, z) => Joins(i, at, k, e, k + n, z, text)
      OBVIOUS
    <2> HIDE DEF S
    <2>2. ASSUME NEW z, Fits(k, e, k + (n + 1), z)
          PROVE  Joins(i, at, k, e, k + (n + 1), z, text)
      <3> DEFINE m == k + (n + 1)
                 to == Layout[m - 1].to
                 A == Page(i, at, k, e, text)
                 B == Page(k, e, m - 1, to, text)
                 q == Piece(Layout[m].entry, Begin(m), z, text)
                 C == Page(i, at, m - 1, to, text)
      <3>1. m - 1 = k + n /\ m # k /\ m # i /\ m \in Nat
        BY <1>1, <2>1
      <3>2. /\ m \in 1 .. Len(Layout) /\ m \in i .. Len(Layout) /\ z \in Nat
            /\ e <= Layout[k].to /\ Begin(m) <= z
        BY <1>1, <2>2, <3>1 DEF Fits
      <3> HIDE DEF m
      <3>3. Fits(k, e, m, z)
        BY <2>2 DEF m
      <3>4. Fits(k, e, m - 1, to) /\ Page(k, e, m, z, text) = B \o q
        BY <3>1, <3>3, PageMore
      <3>5. Joins(i, at, k, e, m - 1, to, text)
        BY <2>1, <3>1, <3>4
      <3>6. Fits(i, at, m, z)
        <4>1. at <= Layout[i].to
          <5>1. CASE i = k
            <6>1. at <= e /\ Layout[k].to \in Nat
              BY <1>1, <5>1, ChunkIs DEF Fits
            <6> QED BY <1>1, <3>2, <5>1, <6>1
          <5>2. CASE i # k
            BY <5>2 DEF Fits
          <5> QED BY <5>1, <5>2
        <4> QED BY <1>1, <3>1, <3>2, <4>1 DEF Fits
      <3>7. Page(i, at, m, z, text) = C \o q
        <4>1. i # m
          BY <3>1
        <4> QED BY <3>6, <4>1, PageMore
      <3>8. A \o B = C
        BY <3>5 DEF Joins
      <3>9. A \in Seq(Sheet(text)) /\ B \in Seq(Sheet(text))
        <4>1. A \in Seq(Sheet(text))
          BY PageType
        <4>2. B \in Seq(Sheet(text))
          BY <3>4, PageType
        <4> QED BY <4>1, <4>2
      <3>10. q \in Seq(Sheet(text))
        <4>1. m \in DOMAIN Layout /\ Begin(m) \in Nat
          BY <3>2, ChunkIs
        <4> QED BY <3>2, <4>1, PieceIs
      <3> HIDE DEF A, B, C, q, to
      <3>11. A \o (B \o q) = C \o q
        <4>1. (A \o B) \o q = A \o (B \o q)
          BY <3>9, <3>10, Associative
        <4> QED BY <3>8, <4>1
      <3>12. Joins(i, at, k, e, m, z, text)
        BY <3>4, <3>6, <3>7, <3>11 DEF Joins, A
      <3> QED BY <3>12 DEF m
    <2> QED BY <2>1, <2>2 DEF S
  <1> HIDE DEF S
  <1>4. k2 - k \in S
    <2>1. k2 - k \in Nat /\ S \in SUBSET Nat
      BY <1>1 DEF S
    <2> QED BY <1>2, <1>3, <2>1, Induction
  <1>5. k + (k2 - k) = k2
    BY <1>1
  <1> QED BY <1>4, <1>5 DEF S

(* Nothing is left to take of a chunk at its end: the page that begins     *)
(* there is the one that begins with the next chunk.                       *)
LEMMA PageFromEnd ==
  ASSUME WellLaid, NEW k, NEW k2, NEW e2, NEW text, k \in 1 .. Len(Layout),
         Fits(k + 1, Begin(k + 1), k2, e2)
  PROVE  /\ Fits(k, Layout[k].to, k2, e2)
         /\ Page(k, Layout[k].to, k2, e2, text)
              = Page(k + 1, Begin(k + 1), k2, e2, text)
  <1>1. /\ Len(Layout) \in Nat /\ k \in 1 .. Len(Layout) /\ k + 1 \in 1 .. Len(Layout)
        /\ k2 \in k + 1 .. Len(Layout)
    BY DEF Fits, WellLaid
  <1> DEFINE to == Layout[k].to
             b == Begin(k + 1)
             Same(m, z) == /\ Fits(k, to, m, z)
                           /\ Page(k, to, m, z, text) = Page(k + 1, b, m, z, text)
             S == {n \in Nat : \A z : Fits(k + 1, b, k + 1 + n, z) => Same(k + 1 + n, z)}
  <1>2. k \in DOMAIN Layout /\ to \in Nat /\ b \in Nat /\ Begin(k) < to
    BY <1>1, ChunkIs
  <1>3. \A m \in k + 1 .. Len(Layout) : \A z : Fits(k + 1, b, m, z) => Fits(k, to, m, z) /\ m # k
    <2>1. ASSUME NEW m \in k + 1 .. Len(Layout), NEW z, Fits(k + 1, b, m, z)
          PROVE  Fits(k, to, m, z) /\ m # k
      <3>1. z \in Nat /\ m # k /\ m \in k .. Len(Layout) /\ Begin(m) <= z
        BY <1>1, <2>1 DEF Fits
      <3> QED BY <1>1, <1>2, <3>1 DEF Fits
    <2> QED BY <2>1
  <1>4. ASSUME NEW z, Fits(k + 1, b, k + 1, z)
        PROVE  Same(k + 1, z)
    <2>1. k + 1 \in k + 1 .. Len(Layout) /\ k # k + 1 /\ (k + 1) - 1 = k
      BY <1>1
    <2>2. Fits(k, to, k + 1, z)
      BY <1>3, <1>4, <2>1
    <2> DEFINE q == Piece(Layout[k + 1].entry, b, z, text)
    <2>3. /\ Fits(k, to, k, to)
          /\ Page(k, to, k + 1, z, text) = Page(k, to, k, to, text) \o q
      <3> DEFINE m == k + 1
      <3>1. m - 1 = k
        BY <2>1
      <3>3. k # m /\ Fits(k, to, m, z)
        BY <2>1, <2>2
      <3> HIDE DEF m, to
      <3>2. /\ Fits(k, to, m - 1, Layout[m - 1].to)
            /\ Page(k, to, m, z, text)
                 = Page(k, to, m - 1, Layout[m - 1].to, text)
                     \o Piece(Layout[m].entry, Begin(m), z, text)
        BY <3>3, PageMore
      <3> QED BY <3>1, <3>2 DEF m, to
    <2>4. Page(k, to, k, to, text) = <<>>
      <3>1. Page(k, to, k, to, text) = Piece(Layout[k].entry, to, to, text)
        BY <2>3, PageOne
      <3> HIDE DEF to
      <3> QED BY <1>2, <3>1, PieceEmpty
    <2>5. Page(k + 1, b, k + 1, z, text) = q
      BY <1>4, PageOne
    <2>6. q \in Seq(Sheet(text))
      BY <1>4, <2>5, PageType
    <2> HIDE DEF q
    <2>7. <<>> \o q = q
      BY <2>6
    <2> QED BY <2>2, <2>3, <2>4, <2>5, <2>7
  <1>5. 0 \in S
    <2>1. k + 1 + 0 = k + 1
      BY <1>1
    <2> HIDE DEF Same, b
    <2> QED BY <1>4, <2>1
  <1>6. ASSUME NEW n \in S PROVE n + 1 \in S
    <2>1. n \in Nat /\ \A z : Fits(k + 1, b, k + 1 + n, z) => Same(k + 1 + n, z)
      OBVIOUS
    <2>2. ASSUME NEW z, Fits(k + 1, b, k + 1 + (n + 1), z)
          PROVE  Same(k + 1 + (n + 1), z)
      <3> DEFINE m == k + 1 + (n + 1)
      <3>1. m - 1 = k + 1 + n /\ k # m /\ k + 1 # m /\ m \in k + 1 .. Len(Layout)
        BY <1>1, <2>1, <2>2 DEF Fits
      <3> HIDE DEF m, S
      <3>2. Fits(k + 1, b, m, z)
        BY <2>2 DEF m
      <3>3. Fits(k, to, m, z)
        BY <1>3, <3>1, <3>2
      <3> DEFINE q == Piece(Layout[m].entry, Begin(m), z, text)
                 end == Layout[m - 1].to
      <3>4. /\ Fits(k + 1, b, m - 1, end)
            /\ Page(k + 1, b, m, z, text) = Page(k + 1, b, m - 1, end, text) \o q
        <4>1. k + 1 # m
          BY <3>1
        <4> HIDE DEF b
        <4> QED BY <3>2, <4>1, PageMore
      <3>5. Page(k, to, m, z, text) = Page(k, to, m - 1, end, text) \o q
        <4>1. k # m
          BY <3>1
        <4> HIDE DEF to
        <4> QED BY <3>3, <4>1, PageMore
      <3>6. Page(k, to, m - 1, end, text) = Page(k + 1, b, m - 1, end, text)
        BY <2>1, <3>1, <3>4
      <3>7. Same(m, z)
        BY <3>3, <3>4, <3>5, <3>6
      <3> QED BY <3>7 DEF m
    <2> HIDE DEF Same, b
    <2> QED BY <2>1, <2>2
  <1> HIDE DEF S
  <1>7. k2 - (k + 1) \in S
    <2>1. k2 - (k + 1) \in Nat /\ S \in SUBSET Nat
      BY <1>1 DEF S
    <2> QED BY <1>5, <1>6, <2>1, Induction
  <1>8. k + 1 + (k2 - (k + 1)) = k2
    BY <1>1
  <1> QED BY <1>7, <1>8 DEF S

(* Where the next chunk of the entry begins, or the chunk's own end: the   *)
(* chunks cut there are the conversation, each byte once.                  *)
Cut(c) == IF c < Len(Layout) /\ Layout[c + 1].entry = Layout[c].entry
          THEN Layout[c + 1].from ELSE Layout[c].to

Cuts(i, k, text) ==
    [j \in 1 .. k - i + 1 |-> Piece(Layout[i + j - 1].entry, Layout[i + j - 1].from, Cut(i + j - 1), text)]

(* A chunk is cut where the next one of its entry begins.                  *)
LEMMA CutIs ==
  ASSUME WellLaid, NEW c \in 1 .. Len(Layout)
  PROVE  Cut(c) \in Nat /\ Layout[c].from <= Cut(c) /\ Cut(c) <= Layout[c].to
  <1>1. Len(Layout) \in Nat /\ DOMAIN Layout = 1 .. Len(Layout)
    BY DEF WellLaid
  <1>2. Layout[c].from \in Nat /\ Layout[c].to \in Nat /\ Layout[c].from <= Layout[c].to
    <2>1. Layout[c].from \in Nat /\ Layout[c].to \in Nat /\ Layout[c].from < Layout[c].to
      BY <1>1, Zenon DEF WellLaid
    <2> QED BY <2>1
  <1>3. ASSUME c < Len(Layout), Layout[c + 1].entry = Layout[c].entry
        PROVE  /\ Layout[c + 1].from \in Nat /\ Layout[c].from < Layout[c + 1].from
               /\ Layout[c + 1].from <= Layout[c].to
    <2> DEFINE d == c + 1
    <2>1. d \in DOMAIN Layout /\ d > 1 /\ d - 1 = c /\ Layout[d].entry = Layout[c].entry
      BY <1>1, <1>3
    <2> HIDE DEF d
    <2>2. /\ Layout[d].from \in Nat
          /\ IF d > 1 /\ Layout[d - 1].entry = Layout[d].entry
             THEN /\ Layout[d - 1].from < Layout[d].from /\ Layout[d].from <= Layout[d - 1].to
                  /\ Layout[d - 1].to < Layout[d].to
             ELSE Layout[d].from = 0
      BY <2>1, Zenon DEF WellLaid
    <2>3. Layout[c].from < Layout[d].from /\ Layout[d].from <= Layout[c].to
      BY <2>1, <2>2
    <2> QED BY <2>2, <2>3 DEF d
  <1> QED BY <1>2, <1>3 DEF Cut

(* The cuts of a run of chunks, one for each.                              *)
LEMMA CutsAre ==
  ASSUME WellLaid, NEW i \in 1 .. Len(Layout), NEW k \in i .. Len(Layout), NEW text
  PROVE  /\ k - i + 1 \in Nat \ {0} /\ Len(Cuts(i, k, text)) = k - i + 1
         /\ \A j \in 1 .. k - i + 1 :
               /\ Cuts(i, k, text)[j]
                    = Piece(Layout[i + j - 1].entry, Layout[i + j - 1].from, Cut(i + j - 1), text)
               /\ Cuts(i, k, text)[j] \in Seq(Sheet(text))
  <1>1. Len(Layout) \in Nat
    BY DEF WellLaid
  <1>2. k - i + 1 \in Nat \ {0}
    BY <1>1
  <1>3. \A j \in 1 .. k - i + 1 :
          Cuts(i, k, text)[j] = Piece(Layout[i + j - 1].entry, Layout[i + j - 1].from, Cut(i + j - 1), text)
    BY DEF Cuts
  <1>4. Len(Cuts(i, k, text)) = k - i + 1
    BY <1>2 DEF Cuts
  <1>5. ASSUME NEW c \in 1 .. Len(Layout)
        PROVE  Piece(Layout[c].entry, Layout[c].from, Cut(c), text) \in Seq(Sheet(text))
    <2>1. c \in DOMAIN Layout /\ Layout[c].from \in Nat /\ Cut(c) \in Nat /\ Layout[c].from <= Cut(c)
      BY ChunkIs, CutIs
    <2> QED BY <2>1, PieceIs
  <1>6. \A j \in 1 .. k - i + 1 : i + j - 1 \in 1 .. Len(Layout)
    BY <1>1
  <1>7. \A j \in 1 .. k - i + 1 :
          Piece(Layout[i + j - 1].entry, Layout[i + j - 1].from, Cut(i + j - 1), text) \in Seq(Sheet(text))
    BY <1>5, <1>6
  <1> QED BY <1>2, <1>3, <1>4, <1>7

(* The cut of one chunk.                                                   *)
LEMMA CutsOne ==
  ASSUME WellLaid, NEW i \in 1 .. Len(Layout), NEW text
  PROVE  FlattenSeq(Cuts(i, i, text)) = Piece(Layout[i].entry, Layout[i].from, Cut(i), text)
  <1> DEFINE s == Cuts(i, i, text)
  <1>0. i \in i .. Len(Layout) /\ i - i + 1 = 1 /\ i + 1 - 1 = i
    BY DEF WellLaid
  <1>1. /\ Len(s) = i - i + 1
        /\ \A j \in 1 .. i - i + 1 :
              /\ s[j] = Piece(Layout[i + j - 1].entry, Layout[i + j - 1].from, Cut(i + j - 1), text)
              /\ s[j] \in Seq(Sheet(text))
    BY <1>0, CutsAre
  <1> HIDE DEF s
  <1>2. Len(s) = 1 /\ s[1] \in Seq(Sheet(text))
    BY <1>0, <1>1
  <1>3. s[1] = Piece(Layout[i].entry, Layout[i].from, Cut(i), text)
    <2>1. 1 \in 1 .. i - i + 1
      BY <1>0
    <2>2. s[1] = Piece(Layout[i + 1 - 1].entry, Layout[i + 1 - 1].from, Cut(i + 1 - 1), text)
      BY <1>1, <2>1
    <2> QED BY <1>0, <2>2
  <1>4. FlattenSeq(s) = s[1]
    BY <1>2, FlattenOne
  <1> QED BY <1>3, <1>4 DEF s

(* The cuts of a run are those of a shorter run and that of its last       *)
(* chunk.                                                                  *)
LEMMA CutsMore ==
  ASSUME WellLaid, NEW i \in 1 .. Len(Layout), NEW k \in i .. Len(Layout), i # k, NEW text
  PROVE  FlattenSeq(Cuts(i, k, text))
           = FlattenSeq(Cuts(i, k - 1, text))
               \o Piece(Layout[k].entry, Layout[k].from, Cut(k), text)
  <1> DEFINE s == Cuts(i, k - 1, text)
             t == Cuts(i, k, text)
             n == k - i
             X == Sheet(text)
             P(c) == Piece(Layout[c].entry, Layout[c].from, Cut(c), text)
  <1>1. Len(Layout) \in Nat /\ k - 1 \in i .. Len(Layout)
    BY DEF WellLaid
  <1>2. n \in Nat \ {0} /\ (k - 1) - i + 1 = n /\ k - i + 1 = n + 1 /\ i + (n + 1) - 1 = k
    BY <1>1
  <1>3. Len(s) = (k - 1) - i + 1 /\ \A j \in 1 .. (k - 1) - i + 1 : s[j] = P(i + j - 1)
    BY <1>1, CutsAre
  <1>4. Len(t) = k - i + 1 /\ \A j \in 1 .. k - i + 1 : t[j] = P(i + j - 1) /\ t[j] \in Seq(X)
    BY CutsAre
  <1> HIDE DEF s, t, n, P, X
  <1>5. Len(s) = n /\ \A j \in 1 .. n : s[j] = P(i + j - 1)
    BY <1>2, <1>3
  <1>6. Len(t) = n + 1 /\ \A j \in 1 .. n + 1 : t[j] = P(i + j - 1) /\ t[j] \in Seq(X)
    BY <1>2, <1>4
  <1>7. \A j \in 1 .. n : j \in 1 .. n + 1
    BY <1>2
  <1>8. \A j \in 1 .. n : s[j] = t[j]
    BY <1>5, <1>6, <1>7, Zenon
  <1>9. Longer(t, s, n, X)
    BY <1>2, <1>5, <1>6, <1>8, Zenon DEF Longer
  <1>10. FlattenSeq(t) = FlattenSeq(s) \o t[n + 1]
    BY <1>9, FlattenLast
  <1>11. t[n + 1] = P(k)
    <2>1. n + 1 \in 1 .. n + 1
      BY <1>2
    <2>2. t[n + 1] = P(i + (n + 1) - 1)
      BY <1>6, <2>1
    <2> QED BY <1>2, <2>2
  <1> QED BY <1>10, <1>11 DEF s, t, P

(* To the end of chunk k, a page from the beginning of a message is the    *)
(* conversation's bytes up to the cut of k, and the rest of k.             *)
LEMMA PageIsCuts ==
  ASSUME WellLaid, NEW i \in 1 .. Len(Layout), Begin(i) = 0,
         NEW k \in i .. Len(Layout), NEW text
  PROVE  /\ Fits(i, 0, k, Layout[k].to)
         /\ Page(i, 0, k, Layout[k].to, text)
              = FlattenSeq(Cuts(i, k, text))
                  \o Piece(Layout[k].entry, Cut(k), Layout[k].to, text)
  <1>0. Len(Layout) \in Nat
    BY DEF WellLaid
  <1> DEFINE Q(m) == FlattenSeq(Cuts(i, m, text))
             R(m) == Piece(Layout[m].entry, Cut(m), Layout[m].to, text)
             P(m) == Page(i, 0, m, Layout[m].to, text)
             Is(m) == Fits(i, 0, m, Layout[m].to) /\ Q(m) \in Seq(Sheet(text)) /\ P(m) = Q(m) \o R(m)
             S == {n \in Nat : i + n <= Len(Layout) => Is(i + n)}
  <1>1. \A m \in i .. Len(Layout) : Fits(i, 0, m, Layout[m].to)
    <2>1. ASSUME NEW m \in i .. Len(Layout) PROVE Fits(i, 0, m, Layout[m].to)
      <3>1. m \in 1 .. Len(Layout)
        BY <1>0
      <3>2. Layout[m].to \in Nat /\ Begin(m) < Layout[m].to /\ Begin(m) \in Nat
        BY <3>1, ChunkIs
      <3>3. Layout[i].to \in Nat
        BY ChunkIs
      <3> QED BY <1>0, <3>2, <3>3 DEF Fits
    <2> QED BY <2>1
  <1>2. ASSUME NEW m \in 1 .. Len(Layout)
        PROVE  /\ Piece(Layout[m].entry, Layout[m].from, Cut(m), text) \in Seq(Sheet(text))
               /\ R(m) \in Seq(Sheet(text))
               /\ Piece(Layout[m].entry, Layout[m].from, Cut(m), text) \o R(m)
                    = Piece(Layout[m].entry, Layout[m].from, Layout[m].to, text)
    <2>1. /\ m \in DOMAIN Layout /\ Layout[m].from \in Nat /\ Layout[m].to \in Nat
          /\ Cut(m) \in Nat /\ Layout[m].from <= Cut(m) /\ Cut(m) <= Layout[m].to
      BY ChunkIs, CutIs
    <2> QED BY <2>1, PieceIs, PieceJoin
  <1>3. Is(i)
    <2>1. i \in i .. Len(Layout) /\ Layout[i].from = 0
      BY <1>0, ChunkIs
    <2>2. Fits(i, 0, i, Layout[i].to)
      BY <1>1, <2>1
    <2>3. P(i) = Piece(Layout[i].entry, 0, Layout[i].to, text)
      BY <2>2, PageOne
    <2>4. Q(i) = Piece(Layout[i].entry, Layout[i].from, Cut(i), text)
      BY CutsOne
    <2> HIDE DEF Q, R, P
    <2> QED BY <1>2, <2>1, <2>2, <2>3, <2>4
  <1>4. ASSUME NEW m \in i .. Len(Layout), m + 1 <= Len(Layout), Is(m)
        PROVE  Is(m + 1)
    <2> DEFINE d == m + 1
               x == Layout[d].entry
               A == Piece(x, Layout[d].from, Cut(d), text)
               B == Piece(x, Begin(d), Layout[d].to, text)
    <2>1. d \in i .. Len(Layout) /\ d \in 1 .. Len(Layout) /\ i # d /\ d - 1 = m /\ m \in 1 .. Len(Layout)
      BY <1>0, <1>4
    <2> HIDE DEF d
    <2>2. Fits(i, 0, d, Layout[d].to)
      BY <1>1, <2>1
    <2>3. P(d) = P(m) \o B
      <3>1. i # d
        BY <2>1
      <3>2. P(d) = Page(i, 0, d - 1, Layout[d - 1].to, text) \o B
        BY <2>2, <3>1, PageMore
      <3> QED BY <2>1, <3>2
    <2>4. Q(d) = Q(m) \o A
      <3>1. i # d /\ d \in i .. Len(Layout)
        BY <2>1
      <3>2. Q(d) = FlattenSeq(Cuts(i, d - 1, text)) \o A
        BY <3>1, CutsMore
      <3> QED BY <2>1, <3>2
    <2>5. R(m) \o B = A \o R(d)
      <3>0. /\ d \in DOMAIN Layout /\ Layout[d].from \in Nat /\ Layout[d].to \in Nat
            /\ Begin(d) \in Nat /\ Begin(d) < Layout[d].to
            /\ Layout[d].from <= Begin(d)
        BY <2>1, ChunkIs
      <3>1. A \o R(d) = Piece(x, Layout[d].from, Layout[d].to, text)
        BY <1>2, <2>1
      <3>2. CASE Layout[m].entry = x
        <4>1. Cut(m) = Layout[d].from /\ Begin(d) = Layout[m].to
          <5>1. m < Len(Layout) /\ d > 1 /\ m + 1 = d
            BY <1>0, <1>4, <2>1 DEF d
          <5> QED BY <2>1, <3>2, <5>1 DEF Cut, Begin
        <4>2. R(m) = Piece(x, Layout[d].from, Begin(d), text)
          BY <3>2, <4>1
        <4>3. Begin(d) <= Layout[d].to
          BY <3>0
        <4>4. Piece(x, Layout[d].from, Begin(d), text) \o B
                = Piece(x, Layout[d].from, Layout[d].to, text)
          BY <3>0, <4>3, PieceJoin
        <4> QED BY <3>1, <4>2, <4>4
      <3>3. CASE Layout[m].entry # x
        <4>1. Cut(m) = Layout[m].to /\ Begin(d) = 0
          <5>1. m + 1 = d
            BY DEF d
          <5> QED BY <2>1, <3>3, <5>1 DEF Cut, Begin
        <4>2. Layout[d].from = Begin(d)
          BY <3>0, <4>1
        <4>3. R(m) = <<>>
          <5>1. Layout[m].to \in Nat
            BY <2>1, ChunkIs
          <5> QED BY <4>1, <5>1, PieceEmpty
        <4>4. B \in Seq(Sheet(text))
          <5>1. Begin(d) <= Layout[d].to
            BY <3>0
          <5> QED BY <3>0, <5>1, PieceIs
        <4> HIDE DEF B
        <4>5. <<>> \o B = B
          BY <4>4
        <4> QED BY <3>1, <4>2, <4>3, <4>5 DEF B
      <3> QED BY <3>2, <3>3
    <2>6. /\ Q(m) \in Seq(Sheet(text)) /\ R(m) \in Seq(Sheet(text)) /\ B \in Seq(Sheet(text))
          /\ A \in Seq(Sheet(text)) /\ R(d) \in Seq(Sheet(text)) /\ P(m) = Q(m) \o R(m)
      <3>0. /\ d \in DOMAIN Layout /\ Layout[d].to \in Nat
            /\ Begin(d) \in Nat /\ Begin(d) <= Layout[d].to
        <4>1. /\ d \in DOMAIN Layout /\ Layout[d].to \in Nat
              /\ Begin(d) \in Nat /\ Begin(d) < Layout[d].to
          BY <2>1, ChunkIs
        <4> QED BY <4>1
      <3>1. B \in Seq(Sheet(text))
        BY <3>0, PieceIs
      <3>2. R(m) \in Seq(Sheet(text)) /\ A \in Seq(Sheet(text)) /\ R(d) \in Seq(Sheet(text))
        BY <1>2, <2>1
      <3> HIDE DEF Q, R, P, A, B
      <3> QED BY <1>4, <3>1, <3>2
    <2> HIDE DEF Q, R, P, A, B
    <2>7. (Q(m) \o R(m)) \o B = (Q(m) \o A) \o R(d)
      <3> DEFINE X == Sheet(text)
      <3>1. /\ Q(m) \in Seq(X) /\ R(m) \in Seq(X) /\ B \in Seq(X)
            /\ A \in Seq(X) /\ R(d) \in Seq(X)
        BY <2>6
      <3> HIDE DEF X
      <3>2. AllIn(Q(m), R(m), B, A, R(d), X)
        BY <3>1 DEF AllIn
      <3>3. Regrouped(Q(m), R(m), B, A, R(d))
        BY <3>2, Regroup
      <3> QED BY <2>5, <3>3 DEF Regrouped
    <2>8. Q(m) \o A \in Seq(Sheet(text))
      BY <2>6
    <2>9. Is(d)
      BY <2>2, <2>3, <2>4, <2>6, <2>7, <2>8
    <2> QED BY <2>9 DEF d
  <1> HIDE DEF Is
  <1>5. 0 \in S
    <2>1. i + 0 = i
      OBVIOUS
    <2> QED BY <1>3, <2>1
  <1>6. ASSUME NEW n \in S PROVE n + 1 \in S
    <2>1. n \in Nat /\ (i + n <= Len(Layout) => Is(i + n)) /\ i + (n + 1) = (i + n) + 1
      OBVIOUS
    <2> QED BY <1>0, <1>4, <2>1
  <1> HIDE DEF S
  <1>7. k - i \in S
    <2>1. k - i \in Nat /\ S \in SUBSET Nat
      BY <1>0 DEF S
    <2> QED BY <1>5, <1>6, <2>1, Induction
  <1>8. i + (k - i) = k /\ k <= Len(Layout)
    BY <1>0
  <1>9. Is(k)
    BY <1>7, <1>8 DEF S
  <1> QED BY <1>9 DEF Is

(* All of it, from the beginning of a message to the end of the last chunk. *)
LEMMA PageIsAll ==
  ASSUME WellLaid, NEW i \in 1 .. Len(Layout), Begin(i) = 0, NEW text
  PROVE  Page(i, 0, Len(Layout), Layout[Len(Layout)].to, text)
           = FlattenSeq(Cuts(i, Len(Layout), text))
  <1> DEFINE n == Len(Layout)
             Q == FlattenSeq(Cuts(i, n, text))
             x == Layout[n].entry
             to == Layout[n].to
  <1>1. n \in i .. Len(Layout) /\ n \in 1 .. Len(Layout) /\ ~(n < Len(Layout))
    BY DEF WellLaid
  <1>2. Page(i, 0, n, to, text) = Q \o Piece(x, Cut(n), to, text)
    BY <1>1, PageIsCuts
  <1>3. Cut(n) = to /\ to \in Nat
    BY <1>1, ChunkIs DEF Cut
  <1>4. Piece(x, Cut(n), to, text) = <<>>
    BY <1>3, PieceEmpty
  <1>5. Q \in Seq(Sheet(text))
    <2> DEFINE s == Cuts(i, n, text)
               m == n - i + 1
    <2>1. m \in Nat \ {0} /\ Len(s) = m /\ \A j \in 1 .. m : s[j] \in Seq(Sheet(text))
      BY <1>1, CutsAre
    <2> HIDE DEF s, m
    <2>2. FlattenSeq(s) \in Seq(Sheet(text))
      BY <2>1, FlattenType
    <2> QED BY <2>2 DEF s
  <1> HIDE DEF Q
  <1>6. Q \o <<>> = Q
    BY <1>5
  <1>7. Page(i, 0, n, to, text) = Q
    BY <1>2, <1>4, <1>6
  <1> QED BY <1>7 DEF Q

-----------------------------------------------------------------------------
(* A client that has read up to byte e of chunk k has the bytes from its   *)
(* first chunk up to there of one text, and the document of that version   *)
(* has that text.                                                          *)
ReadUpto(d, r, k, e, text) ==
    /\ r.first \in 1 .. Len(Layout) /\ Begin(r.first) = 0
    /\ k \in r.first .. Len(Layout) /\ e \in Begin(k) + 1 .. Layout[k].to
    /\ r.pos = After(k, e) /\ r.got = Page(r.first, 0, k, e, text)
    /\ d[r.w][r.s] # Null /\ d[r.w][r.s].version = r.version => d[r.w][r.s].text = text

IsReader(r) ==
    /\ r \in [w : {r.w}, s : {r.s}, version : {r.version}, first : {r.first}, pos : {r.pos}, got : {r.got}]
    /\ r.w \in WorkspaceIds /\ r.s \in Sessions

Reading(d, r) == r # Null => IsReader(r) /\ \E k, e, text : ReadUpto(d, r, k, e, text)

(* A transaction leaves a document as it was, removes it, or gives it a    *)
(* version of its own.                                                     *)
LEMMA EffectVersions ==
  ASSUME StoreInv, NEW t, WholeWrite(t), t.w \in WorkspaceIds, NEW s \in Sessions,
         Effect(t).doc[s] # Null
  PROVE  Effect(t).doc[s] = doc[t.w][s] \/ Effect(t).doc[s].version = Fresh
  <1> DEFINE d == Effect(t).doc
             p == [version |-> Fresh, rev |-> t.rev, path |-> t.path,
                   fp |-> t.fp, text |-> t.text, space |-> t.space]
  <1>1. \/ d = doc[t.w] \/ d = NoDocuments
        \/ t.kind = "publish" /\ d = [doc[t.w] EXCEPT ![t.sid] = p]
        \/ d = [doc[t.w] EXCEPT ![t.sid] = Null]
    BY DEF Effect, WholeWrite
  <1>2. p.version = Fresh
    OBVIOUS
  <1>3. DOMAIN doc[t.w] = Sessions
    BY DEF StoreInv
  <1> HIDE DEF d, p
  <1>4. d[s] # Null => d[s] = doc[t.w][s] \/ d[s].version = Fresh
    BY <1>1, <1>2, <1>3 DEF NoDocuments
  <1> QED BY <1>4 DEF d

(* A transaction that is committed while a document is read leaves what    *)
(* was read the text of one version.                                       *)
LEMMA ApplyReading ==
  ASSUME Finite, PassInv, StoreInv, Reading(doc, reader),
         NEW t, WholeWrite(t), Apply(t)
  PROVE  Reading(doc', reader)
  <1>1. SUFFICES ASSUME reader # Null PROVE \E k, e, text : ReadUpto(doc', reader, k, e, text)
    BY DEF Reading
  <1>2. IsReader(reader) /\ \E k, e, text : ReadUpto(doc, reader, k, e, text)
    BY <1>1 DEF Reading
  <1> DEFINE w == reader.w
             s == reader.s
  <1>3. w \in WorkspaceIds /\ s \in Sessions
    BY <1>2 DEF IsReader
  <1>4. reader.version # Fresh
    <2>1. reader.version \in Remembered
      BY <1>1 DEF Remembered
    <2> QED BY <2>1, FreshIsNew
  <1>5. doc'[w][s] # Null /\ doc'[w][s].version = reader.version => doc'[w][s] = doc[w][s]
    <2>1. doc' = [doc EXCEPT ![t.w] = Effect(t).doc] /\ DOMAIN doc = WorkspaceIds
      BY DEF Apply, StoreInv
    <2>2. CASE t.w # w
      BY <1>3, <2>1, <2>2
    <2>3. CASE t.w = w
      <3>1. doc'[w] = Effect(t).doc
        BY <1>3, <2>1, <2>3
      <3> QED BY <1>3, <1>4, <2>3, <3>1, EffectVersions
    <2> QED BY <2>2, <2>3
  <1> HIDE DEF w, s
  <1>6. PICK k, e, text : ReadUpto(doc, reader, k, e, text)
    BY <1>2
  <1>7. ReadUpto(doc', reader, k, e, text)
    BY <1>5, <1>6 DEF ReadUpto, w, s
  <1> QED BY <1>7

(* The first page.                                                         *)
LEMMA FirstReading ==
  ASSUME WellLaid, NEW w \in WorkspaceIds, NEW s \in Sessions, ReadFirst(w, s)
  PROVE  Reading(doc', reader')
  <1>1. PICK i \in {j \in DOMAIN Layout : Begin(j) = 0} :
        \E k \in i .. Len(Layout) : \E e \in Begin(k) + 1 .. Layout[k].to :
           reader' = [w |-> w, s |-> s, version |-> doc[w][s].version, first |-> i,
                      pos |-> After(k, e), got |-> Page(i, 0, k, e, doc[w][s].text)]
    BY DEF ReadFirst
  <1>2. PICK k \in i .. Len(Layout) : \E e \in Begin(k) + 1 .. Layout[k].to :
           reader' = [w |-> w, s |-> s, version |-> doc[w][s].version, first |-> i,
                      pos |-> After(k, e), got |-> Page(i, 0, k, e, doc[w][s].text)]
    BY <1>1
  <1>3. PICK e \in Begin(k) + 1 .. Layout[k].to :
           reader' = [w |-> w, s |-> s, version |-> doc[w][s].version, first |-> i,
                      pos |-> After(k, e), got |-> Page(i, 0, k, e, doc[w][s].text)]
    BY <1>2
  <1>4. doc' = doc
    BY DEF ReadFirst, store
  <1>5. i \in 1 .. Len(Layout) /\ Begin(i) = 0
    BY DEF WellLaid
  <1>6. /\ reader'.w = w /\ reader'.s = s /\ reader'.version = doc[w][s].version /\ reader'.first = i
        /\ reader'.pos = After(k, e)
        /\ reader'.got = Page(i, 0, k, e, doc[w][s].text)
    BY <1>3
  <1>7. IsReader(reader')
    BY <1>3 DEF IsReader
  <1>8. ReadUpto(doc', reader', k, e, doc[w][s].text)
    BY <1>2, <1>3, <1>4, <1>5, <1>6 DEF ReadUpto
  <1> QED BY <1>7, <1>8 DEF Reading

(* A page from where the last one ended: together they are one.            *)
LEMMA PageAfter ==
  ASSUME WellLaid, NEW i \in 1 .. Len(Layout), NEW k \in i .. Len(Layout),
         NEW e \in Begin(k) + 1 .. Layout[k].to, NEW text,
         After(k, e) # Null,
         NEW k2 \in After(k, e).i .. Len(Layout),
         NEW e2 \in (IF k2 = After(k, e).i THEN After(k, e).at ELSE Begin(k2)) + 1
                        .. Layout[k2].to
  PROVE  /\ k2 \in i .. Len(Layout) /\ e2 \in Begin(k2) + 1 .. Layout[k2].to
         /\ Page(i, 0, k, e, text)
              \o Page(After(k, e).i, After(k, e).at, k2, e2, text)
              = Page(i, 0, k2, e2, text)
  <1>0. Len(Layout) \in Nat /\ k \in 1 .. Len(Layout)
    BY DEF WellLaid
  <1>1. /\ Layout[k].to \in Nat /\ Begin(k) \in Nat /\ Layout[i].to \in Nat
        /\ e \in Nat /\ e <= Layout[k].to /\ Begin(k) < e
    <2>1. /\ Layout[k].to \in Nat /\ Begin(k) \in Nat /\ Layout[i].to \in Nat
      BY <1>0, ChunkIs
    <2> QED BY <2>1
  <1>2. Fits(i, 0, k, e)
    BY <1>0, <1>1 DEF Fits
  <1>3. CASE e < Layout[k].to
    <2>1. After(k, e).i = k /\ After(k, e).at = e
      BY <1>3 DEF After
    <2>2. k2 \in k .. Len(Layout) /\ k2 \in 1 .. Len(Layout) /\ k2 \in i .. Len(Layout)
      BY <1>0, <2>1
    <2>3. Layout[k2].to \in Nat /\ Begin(k2) \in Nat
      BY <2>2, ChunkIs
    <2>4. e2 \in (IF k2 = k THEN e ELSE Begin(k2)) + 1 .. Layout[k2].to
      BY <2>1
    <2>5. e2 \in Nat /\ e2 \in Begin(k2) + 1 .. Layout[k2].to
      BY <1>1, <2>3, <2>4
    <2>6. Fits(k, e, k2, e2)
      BY <1>0, <1>1, <2>2, <2>3, <2>4, <2>5 DEF Fits
    <2>7. Joins(i, 0, k, e, k2, e2, text)
      BY <1>2, <2>6, PageJoin
    <2> QED BY <2>1, <2>2, <2>5, <2>7 DEF Joins
  <1>4. CASE e = Layout[k].to
    <2>1. /\ k # Len(Layout) /\ After(k, e).i = k + 1
          /\ After(k, e).at = Begin(k + 1)
      <3>1. ~(e < Layout[k].to)
        BY <1>1, <1>4
      <3> QED BY <3>1 DEF After
    <2> DEFINE b == Begin(k + 1)
    <2>2. k2 \in k + 1 .. Len(Layout) /\ k2 \in 1 .. Len(Layout) /\ k2 \in i .. Len(Layout)
          /\ k + 1 \in 1 .. Len(Layout)
      BY <1>0, <2>1
    <2>3. Layout[k2].to \in Nat /\ Begin(k2) \in Nat /\ b \in Nat /\ Layout[k + 1].to \in Nat /\ b < Layout[k + 1].to
      BY <2>2, ChunkIs
    <2>4. e2 \in (IF k2 = k + 1 THEN b ELSE Begin(k2)) + 1 .. Layout[k2].to
      BY <2>1
    <2>5. e2 \in Nat /\ e2 \in Begin(k2) + 1 .. Layout[k2].to
      BY <2>3, <2>4
    <2>6. Fits(k + 1, b, k2, e2)
      <3> HIDE DEF b
      <3>1. k2 = k + 1 => b <= e2
        BY <2>3, <2>4
      <3>2. Begin(k2) <= e2 /\ b <= Layout[k + 1].to
        BY <2>3, <2>5
      <3> QED BY <2>2, <2>3, <2>5, <3>1, <3>2 DEF Fits
    <2>7. /\ Fits(k, e, k2, e2)
          /\ Page(k, e, k2, e2, text) = Page(k + 1, b, k2, e2, text)
      BY <1>0, <1>4, <2>6, PageFromEnd
    <2>8. Joins(i, 0, k, e, k2, e2, text)
      BY <1>2, <2>7, PageJoin
    <2> HIDE DEF b
    <2>9. After(k, e).at = b
      BY <2>1 DEF b
    <2> QED BY <2>1, <2>2, <2>5, <2>7, <2>8, <2>9 DEF Joins
  <1> QED BY <1>1, <1>3, <1>4

(* A further page, or the refusal of the cursor.                           *)
LEMMA NextReading ==
  ASSUME WellLaid, Reading(doc, reader), ReadNext
  PROVE  Reading(doc', reader')
  <1> DEFINE w == reader.w
             s == reader.s
             pos == reader.pos
             on == pos # Null /\ Visible(w, s) /\ doc[w][s].version = reader.version
  <1>1. reader # Null /\ doc' = doc
    BY DEF ReadNext, store
  <1>2. IsReader(reader) /\ \E k, e, text : ReadUpto(doc, reader, k, e, text)
    BY <1>1 DEF Reading
  <1>3. CASE ~on
    <2>1. reader' = Null
      BY <1>3 DEF ReadNext
    <2> QED BY <2>1 DEF Reading
  <1>4. CASE on
    <2>1. PICK k, e, text : ReadUpto(doc, reader, k, e, text)
      BY <1>2
    <2>2. PICK k2 \in pos.i .. Len(Layout) :
            \E e2 \in (IF k2 = pos.i THEN pos.at ELSE Begin(k2)) + 1 .. Layout[k2].to :
               reader' = [reader EXCEPT !.pos = After(k2, e2),
                              !.got = @ \o Page(pos.i, pos.at, k2, e2, doc[w][s].text)]
      BY <1>4, Zenon DEF ReadNext
    <2>3. PICK e2 \in (IF k2 = pos.i THEN pos.at ELSE Begin(k2)) + 1 .. Layout[k2].to :
               reader' = [reader EXCEPT !.pos = After(k2, e2),
                              !.got = @ \o Page(pos.i, pos.at, k2, e2, doc[w][s].text)]
      BY <2>2
    <2>4. doc[w][s].text = text
      BY <1>4, <2>1 DEF ReadUpto, Visible
    <2>5. /\ reader.first \in 1 .. Len(Layout) /\ Begin(reader.first) = 0
          /\ k \in reader.first .. Len(Layout) /\ e \in Begin(k) + 1 .. Layout[k].to
          /\ pos = After(k, e) /\ reader.got = Page(reader.first, 0, k, e, text)
      BY <2>1 DEF ReadUpto
    <2> DEFINE page == Page(pos.i, pos.at, k2, e2, text)
    <2>6. /\ k2 \in reader.first .. Len(Layout) /\ e2 \in Begin(k2) + 1 .. Layout[k2].to
          /\ reader.got \o page = Page(reader.first, 0, k2, e2, text)
      <3>1. After(k, e) # Null
        BY <1>4, <2>5
      <3>2. /\ k2 \in After(k, e).i .. Len(Layout)
            /\ e2 \in (IF k2 = After(k, e).i THEN After(k, e).at ELSE Begin(k2)) + 1
                        .. Layout[k2].to
        BY <2>2, <2>3, <2>5
      <3>3. /\ k2 \in reader.first .. Len(Layout) /\ e2 \in Begin(k2) + 1 .. Layout[k2].to
            /\ Page(reader.first, 0, k, e, text)
                 \o Page(After(k, e).i, After(k, e).at, k2, e2, text)
                 = Page(reader.first, 0, k2, e2, text)
        <4> DEFINE i == reader.first
        <4>1. i \in 1 .. Len(Layout) /\ k \in i .. Len(Layout) /\ e \in Begin(k) + 1 .. Layout[k].to
          BY <2>5
        <4> HIDE DEF i, pos
        <4>2. /\ k2 \in i .. Len(Layout) /\ e2 \in Begin(k2) + 1 .. Layout[k2].to
              /\ Page(i, 0, k, e, text)
                   \o Page(After(k, e).i, After(k, e).at, k2, e2, text)
                   = Page(i, 0, k2, e2, text)
          BY <3>1, <3>2, <4>1, PageAfter
        <4> QED BY <4>2 DEF i
      <3> QED BY <2>5, <3>3
    <2> HIDE DEF page
    <2>7. reader' = [reader EXCEPT !.pos = After(k2, e2), !.got = @ \o page]
      BY <2>3, <2>4 DEF page
    <2> HIDE DEF w, s, pos, on
    <2>8. /\ reader'.w = reader.w /\ reader'.s = reader.s /\ reader'.version = reader.version
          /\ reader'.first = reader.first /\ reader'.pos = After(k2, e2)
          /\ reader'.got = reader.got \o page
      BY <1>2, <2>7 DEF IsReader
    <2>9. IsReader(reader')
      BY <1>2, <2>7 DEF IsReader
    <2>10. ReadUpto(doc', reader', k2, e2, text)
      BY <1>1, <2>1, <2>5, <2>6, <2>8 DEF ReadUpto
    <2> QED BY <2>9, <2>10 DEF Reading
  <1> QED BY <1>3, <1>4

(* Every step keeps what a reader has read the text of one version.        *)
LEMMA ReadingStep ==
  ASSUME Finite, WellLaid, PassInv, StoreInv, Reading(doc, reader),
         [SearchNext]_searchVars
  PROVE  Reading(doc', reader')
  <1>1. ASSUME doc' = doc, reader' = reader PROVE Reading(doc', reader')
    BY <1>1
  <1>2. ASSUME NEW t, WholeWrite(t), Apply(t), reader' = reader PROVE Reading(doc', reader')
    BY <1>2, ApplyReading
  <1>3. CASE \/ Tick \/ Initialized \/ InitializeFails
             \/ \E w \in WorkspaceIds, force \in BOOLEAN : ClientRefresh(w, force)
             \/ CloseSearch \/ Finalize
    BY <1>1, <1>3 DEF Tick, Initialized, InitializeFails, ClientRefresh,
                      CloseSearch, Finalize, store
  <1>4. CASE \/ \E w \in WorkspaceIds, p \in Paths :
                   DeleteFile(w, p) \/ \E s \in Holds[p] : WriteFile(w, p, s)
             \/ \E w \in WorkspaceIds : Edit(w)
             \/ \E m \in Spaces : Serve(m)
    BY <1>1, <1>4 DEF DeleteFile, WriteFile, Edit, Serve, store
  <1>5. CASE \/ Drain \/ NextWorkspace \/ Discover \/ DiscoverPartly
             \/ ResolveSpace \/ NextCandidate \/ Open \/ Snapshot
             \/ Embed \/ CandidateFails \/ Revalidate \/ Prune
             \/ Pruned \/ Recheck \/ Orphans \/ PassEnds
    <2>1. doc' = doc /\ reader' = reader
      BY <1>5 DEF Drain, NextWorkspace, Discover, DiscoverPartly,
             ResolveSpace, NextCandidate, Open, Snapshot, Embed,
             CandidateFails, Revalidate, Prune, Pruned, Recheck,
             Orphans, PassEnds, store
    <2> QED BY <1>1, <2>1
  <1>6. CASE Commit
    <2>1. PICK t \in Writes : Apply(t)
      BY <1>6 DEF Commit
    <2>2. reader' = reader
      BY <1>6 DEF Commit
    <2> QED BY <1>2, <2>1, <2>2, WritesWhole
  <1>7. CASE LateCommit
    BY <1>2, <1>7 DEF LateCommit, StoreInv
  <1>8. CASE TransactionFails \/ Cancelled
    BY <1>1, <1>8 DEF TransactionFails, Cancelled
  <1>9. CASE Restart
    BY <1>9 DEF Restart, Reading
  <1>10. CASE \E w \in WorkspaceIds, s \in Sessions : ReadFirst(w, s)
    BY <1>10, FirstReading
  <1>11. CASE ReadNext
    BY <1>11, NextReading
  <1>12. CASE UNCHANGED searchVars
    BY <1>1, <1>12 DEF searchVars, store
  <1> QED BY <1>3, <1>4, <1>5, <1>6, <1>7, <1>8, <1>9, <1>10, <1>11, <1>12 DEF SearchNext, Indexing

(* A page is never empty.                                                  *)
LEMMA PageHasBytes ==
  ASSUME WellLaid, NEW i, NEW k, NEW e, NEW text, Fits(i, 0, k, e),
         e \in Begin(k) + 1 .. Layout[k].to
  PROVE  Page(i, 0, k, e, text) # <<>>
  <1>1. k \in 1 .. Len(Layout) /\ e \in Nat
    BY DEF Fits
  <1>2. k \in DOMAIN Layout /\ Begin(k) \in Nat /\ Begin(k) < e /\ 0 < e
    <2>1. k \in DOMAIN Layout /\ Begin(k) \in Nat /\ Layout[k].to \in Nat
      BY <1>1, ChunkIs
    <2> QED BY <2>1
  <1>3. CASE i = k
    <2>1. Page(i, 0, k, e, text) = Piece(Layout[k].entry, 0, e, text)
      BY <1>3, PageOne
    <2>2. Len(Piece(Layout[k].entry, 0, e, text)) = e - 0
      <3>1. 0 \in Nat /\ 0 <= e /\ k \in DOMAIN Layout
        BY <1>1, <1>2
      <3> QED BY <1>1, <3>1, PieceIs
    <2> QED BY <1>1, <1>2, <2>1, <2>2
  <1>4. CASE i # k
    <2> DEFINE P == Page(i, 0, k - 1, Layout[k - 1].to, text)
               q == Piece(Layout[k].entry, Begin(k), e, text)
    <2>1. Fits(i, 0, k - 1, Layout[k - 1].to) /\ Page(i, 0, k, e, text) = P \o q
      BY <1>4, PageMore
    <2>2. P \in Seq(Sheet(text))
      BY <2>1, PageType
    <2>3. q \in Seq(Sheet(text)) /\ Len(q) = e - Begin(k)
      <3>1. Begin(k) \in Nat /\ Begin(k) <= e /\ k \in DOMAIN Layout
        BY <1>1, <1>2
      <3> QED BY <1>1, <3>1, PieceIs
    <2> HIDE DEF P, q
    <2>4. Len(P \o q) > 0
      BY <1>1, <1>2, <2>2, <2>3
    <2> QED BY <2>1, <2>4
  <1> QED BY <1>3, <1>4

(* A client that was told there is no further page has every byte once.    *)
LEMMA ReadingIsWhole ==
  ASSUME WellLaid, NoCursor, Reading(doc, reader)
  PROVE  PagesWhole
  <1>1. SUFFICES ASSUME reader # Null, reader.pos = Null
                 PROVE  PagesWhole
    BY DEF PagesWhole
  <1>2. PICK k, e, text : ReadUpto(doc, reader, k, e, text)
    BY <1>1 DEF Reading
  <1> DEFINE i == reader.first
             n == Len(Layout)
  <1>3. /\ i \in 1 .. n /\ Begin(i) = 0 /\ k \in i .. n /\ e \in Begin(k) + 1 .. Layout[k].to
        /\ After(k, e) = Null /\ reader.got = Page(i, 0, k, e, text)
    BY <1>1, <1>2 DEF ReadUpto
  <1>4. n \in Nat /\ k \in 1 .. n
    BY <1>3 DEF WellLaid
  <1>5. Layout[k].to \in Nat /\ Begin(k) \in Nat
    BY <1>4, ChunkIs
  <1> HIDE DEF i
  <1>6. k = n /\ e = Layout[k].to
    <2>1. e \in 0 .. Layout[k].to /\ k \in DOMAIN Layout
      BY <1>3, <1>4, <1>5 DEF WellLaid
    <2>2. Null # [i |-> k, at |-> e]
      BY <2>1 DEF NoCursor
    <2>3. ~(e < Layout[k].to)
      BY <1>3, <2>2 DEF After
    <2>4. e = Layout[k].to
      BY <1>5, <2>1, <2>3
    <2>5. k # n => k + 1 \in 1 .. n /\ k + 1 \in DOMAIN Layout
      <3>1. DOMAIN Layout = 1 .. n
        BY DEF WellLaid
      <3>2. k # n => k + 1 \in 1 .. n
        BY <1>4
      <3> QED BY <3>1, <3>2
    <2>6. k # n => Begin(k + 1) \in 0 .. Layout[k + 1].to
      <3>1. ASSUME k + 1 \in 1 .. n PROVE Begin(k + 1) \in 0 .. Layout[k + 1].to
        <4>1. /\ Begin(k + 1) \in Nat /\ Layout[k + 1].to \in Nat
              /\ Begin(k + 1) < Layout[k + 1].to
          BY <3>1, ChunkIs
        <4> QED BY <4>1
      <3> QED BY <2>5, <3>1
    <2>7. k # n => Null # [i |-> k + 1, at |-> Begin(k + 1)]
      BY <2>5, <2>6 DEF NoCursor
    <2> QED BY <1>3, <2>3, <2>4, <2>7 DEF After
  <1>7. reader.got = FlattenSeq(Cuts(i, n, text))
    BY <1>3, <1>4, <1>6, PageIsAll
  <1>8. text \in {g.text : g \in ToSet(reader.got)}
    <2>1. Fits(i, 0, k, e)
      <3>1. Layout[i].to \in Nat
        BY <1>3, ChunkIs
      <3> QED BY <1>3, <1>4, <1>5, <3>1 DEF Fits
    <2>2. reader.got \in Seq(Sheet(text)) /\ reader.got # <<>>
      <3>1. Page(i, 0, k, e, text) \in Seq(Sheet(text))
        BY <2>1, PageType
      <3>2. Page(i, 0, k, e, text) # <<>>
        BY <1>3, <2>1, PageHasBytes
      <3> QED BY <1>3, <3>1, <3>2
    <2>3. reader.got[1] \in Sheet(text) /\ 1 \in DOMAIN reader.got
      BY <2>2
    <2>4. reader.got[1].text = text
      BY <2>3 DEF Sheet
    <2>5. reader.got[1] \in ToSet(reader.got)
      BY <2>3 DEF ToSet
    <2> QED BY <2>4, <2>5
  <1>9. Cuts(i, n, text) = [j \in 1 .. n - i + 1 |->
                  LET c == i + j - 1
                      next == c < n /\ Layout[c + 1].entry = Layout[c].entry
                  IN  [b \in 1 .. (IF next THEN Layout[c + 1].from ELSE Layout[c].to) - Layout[c].from |->
                          [text |-> text, entry |-> Layout[c].entry, byte |-> Layout[c].from + b - 1]]]
    BY Zenon DEF Cuts, Cut, Piece
  <1> QED BY <1>7, <1>8, <1>9, Zenon DEF PagesWhole, i

(* The pages of one client, read one after the other until there is none,  *)
(* are every byte of one version of the conversation, each once and in     *)
(* order, whatever is published, pruned or created anew between two pages. *)
THEOREM PagesAreWhole ==
  SearchSpec => []PagesWhole
  <1> DEFINE Inv == PassInv /\ StoreInv /\ Reading(doc, reader)
  <1>0. Finite /\ WellLaid /\ NoCursor
    BY SearchAssumption
  <1>1. SearchInit => Inv
    BY <1>0, SearchInitially DEF SearchInit, Reading
  <1>2. Inv /\ [SearchNext]_searchVars => Inv'
    BY <1>0, SearchStep, ReadingStep
  <1>3. Inv => PagesWhole
    BY <1>0, ReadingIsWhole
  <1> QED BY <1>1, <1>2, <1>3, PTL DEF SearchSpec
=============================================================================
