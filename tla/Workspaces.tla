----------------------------- MODULE Workspaces -----------------------------
(***************************************************************************)
(* The workspace repository, the database it opens, and the way from a     *)
(* stored workspace to a conversation runtime:                             *)
(*   database.ts              openDatabase, the migrations,                *)
(*   workspace-repository.ts  create, update, delete, requireAvailable,    *)
(*                            requireUsable and the policy evaluation,     *)
(*   sandbox/admission.ts     the asynchronous admission of directories,   *)
(*   session-history.ts       resolve, the listing that authorizes an open,*)
(*   protocol.ts              the command handlers that call them,         *)
(*   pi-runtime.ts            the checks made when a runtime is built.     *)
(* SQLite is synchronous, so a repository operation is one step.  What     *)
(* requireUsable evaluates is carried over several awaits to the registry, *)
(* and every other command may run in between.                             *)
(* A directory is the sequence of its path's segments.  Names, tool        *)
(* selections, timestamps and the wire format are left out.                *)
(***************************************************************************)
EXTENDS Integers, Sequences, FiniteSets

CONSTANTS
    Workspaces,     \* workspace ids
    Calls,          \* conversation commands that may be under way at a time
    Directories,    \* the directories of the file system
    WorkspacePaths, \* directories that a workspace may name
    Roots,          \* workspaceRoots; the empty set admits every directory
    Protected,      \* the data, agent, read-only and network helper directories
    ScriptRoots,    \* roots of trusted job hooks
    PolicySets,     \* ids of destination policy sets
    DefaultSet,     \* the set of rows older than the column
    MountNames,     \* names of mounts
    MountSources,   \* directories that a mount may name
    Configs,        \* configurations the operator may start the server with
    MaxRestarts,    \* bound on restarts of the server
    MaxWrites,      \* bound on workspace commands
    MaxFields,      \* bound on the fields one update gives
    MaxAbsent,      \* bound on directories that are away at a time
    None,           \* null
    Keep            \* a field that an update leaves out

ASSUME ConstantsAssumption ==
    /\ DefaultSet \in PolicySets
    /\ WorkspacePaths \cup MountSources \subseteq Directories
    /\ {MaxRestarts, MaxWrites, MaxFields, MaxAbsent} \subseteq Nat
    /\ Configs \subseteq [mode : {"disabled", "optional", "required"}, managed : BOOLEAN,
                         sets : {PolicySets, {DefaultSet}}]

ASSUME NullAssumption ==
    None \notin {"unrestricted", "workspace-sandboxed", "isolated", "managed-egress"}

LastStep == 8                   \* migrateVersionEight
Version == LastStep + 1         \* DATABASE_SCHEMA_VERSION

Profiles == {"unrestricted", "workspace-sandboxed"}
Networks == {"isolated", "managed-egress"}
Mount == [name : MountNames, source : MountSources, access : {"read-only", "read-write"}]
MountLists == {m \in SUBSET Mount : \A x, y \in m : x.name = y.name => x = y}
Row == [path : WorkspacePaths, profile : Profiles, net : Networks, set : PolicySets,
        mounts : MountLists]

VARIABLES
    server,     \* "down", "opening" the database, "refused" or "up"
    plan,       \* migrations this start has still to run
    version,    \* PRAGMA user_version
    applied,    \* migrations the schema contains
    config,     \* the operator's configuration of this or the next start
    rows,       \* the workspaces table with its mounts
    jobs,       \* workspaces that a job references
    present,    \* directories that exist under their canonical path
    calls,      \* conversation commands and the runtimes they built
    consent,    \* authority the user chose or acknowledged (history)
    restarts,   \* restarts so far
    writes      \* workspace commands so far

vars == <<server, plan, version, applied, config, rows, jobs, present, calls, consent,
          restarts, writes>>

database == <<server, plan, version, applied, config, restarts>>
Idle == [pc |-> "idle"]

-----------------------------------------------------------------------------
(* Paths and policy *)

Contained(parent, child) ==
    Len(parent) <= Len(child) /\ SubSeq(child, 1, Len(parent)) = parent
ProtectedPaths == Protected \cup ScriptRoots
Overlap(a, b) == Contained(a, b) \/ Contained(b, a)
OverlapsAny(d, S) == \E s \in S : Overlap(d, s)

\* #isAvailable: the stored path is still its own canonical directory.
Available(row) == row.path \in present

MountOverlap(row) ==
    \E m \in row.mounts :
        \/ Overlap(row.path, m.source)
        \/ OverlapsAny(m.source, ProtectedPaths)
        \/ \E other \in row.mounts \ {m} : Overlap(m.source, other.source)

EffectiveProfile(row) ==
    CASE config.mode = "required" -> "workspace-sandboxed"
      [] config.mode = "optional" -> row.profile
      [] config.mode = "disabled" -> IF row.profile = "unrestricted" THEN row.profile ELSE None
EffectiveNetwork(row) ==
    IF EffectiveProfile(row) = "workspace-sandboxed" THEN row.net ELSE None

\* The issues that create and update reject (#assertPathPolicy).
PathIssue(row) ==
    \/ Roots # {} /\ ~\E root \in Roots : Contained(root, row.path)
    \/ OverlapsAny(row.path, ScriptRoots)
    \/ \E m \in row.mounts : OverlapsAny(m.source, ScriptRoots)
    \/ /\ EffectiveProfile(row) = "workspace-sandboxed"
       /\ OverlapsAny(row.path, ProtectedPaths) \/ MountOverlap(row)

NetworkIssue(row) ==
    EffectiveNetwork(row) = "managed-egress" /\ (~config.managed \/ row.set \notin config.sets)

\* #evaluatePolicy: the row may be given to a runtime.
Usable(row) ==
    /\ Available(row)
    /\ EffectiveProfile(row) # None
    /\ ~PathIssue(row)
    /\ EffectiveProfile(row) = "workspace-sandboxed" =>
          \A m \in row.mounts : m.source \in present
    /\ ~NetworkIssue(row)

\* The policy that requireUsable returns for a row.
RuntimePolicy(row) ==
    [path |-> row.path,
     profile |-> EffectiveProfile(row),
     net |-> EffectiveNetwork(row),
     set |-> IF EffectiveNetwork(row) = "managed-egress" THEN row.set ELSE None,
     mounts |-> IF EffectiveProfile(row) = "workspace-sandboxed" THEN row.mounts ELSE {}]

\* The authority that a row or a runtime policy holds over an isolated sandbox.
Authority(p) ==
    (IF p.profile = "unrestricted" THEN {<<"host">>} ELSE {})
        \cup (IF p.net = "managed-egress" THEN {<<"egress", p.set>>} ELSE {})
        \cup {<<"write", m.source>> : m \in {x \in p.mounts : x.access = "read-write"}}

-----------------------------------------------------------------------------
(* Opening the database *)

\* The migrations that openDatabase runs for the version it read.
Chain(v) == [i \in 1..(Version - v) |-> v + i - 1]

Boot ==
    /\ server = "down"
    /\ plan' = IF version = 0 THEN <<0>> ELSE Chain(version)
    /\ server' = "opening"
    /\ UNCHANGED <<config, version, applied, rows, jobs, present, calls, consent, restarts, writes>>

MigrateVersionLast ==               \* mutant: the version is advanced at the end
    /\ server = "opening" /\ plan # <<>>
    /\ LET step == Head(plan) IN
         IF step \in applied
         THEN server' = "refused" /\ UNCHANGED <<plan, version, applied>>
         ELSE /\ applied' = IF step = 0 THEN 1..LastStep ELSE applied \cup {step}
              /\ version' = IF Len(plan) = 1 THEN Version ELSE version
              /\ plan' = Tail(plan)
              /\ UNCHANGED server
    /\ UNCHANGED <<config, rows, jobs, present, calls, consent, restarts, writes>>

\* initializeSchema or one migrateVersion..., a transaction of its own.  Adding
\* what the schema already contains is an error that ends the start.
Migrate ==
    /\ server = "opening" /\ plan # <<>>
    /\ LET step == Head(plan) IN
         IF step \in applied
         THEN server' = "refused" /\ UNCHANGED <<plan, version, applied>>
         ELSE /\ applied' = IF step = 0 THEN 1..LastStep ELSE applied \cup {step}
              /\ version' = IF step = 0 THEN Version ELSE step + 1
              /\ plan' = Tail(plan)
              /\ UNCHANGED server
    /\ UNCHANGED <<config, rows, jobs, present, calls, consent, restarts, writes>>

Opened ==
    /\ server = "opening" /\ plan = <<>>
    /\ server' = "up"
    /\ UNCHANGED <<plan, version, applied, config, rows, jobs, present, calls, consent, restarts, writes>>

\* The process ends at any point: what was committed stays, calls are gone.
Crash ==
    /\ server # "down" /\ restarts < MaxRestarts
    /\ restarts' = restarts + 1
    /\ server' = "down" /\ plan' = <<>>
    /\ config' \in Configs
    /\ calls' = [c \in Calls |-> Idle]
    /\ UNCHANGED <<version, applied, rows, jobs, present, consent, writes>>

-----------------------------------------------------------------------------
(* The repository *)

Live(w) == \E c \in Calls : calls[c].pc = "live" /\ calls[c].workspace = w

\* The commands already past requireUsable carry a policy that w no longer has.
Raced(w) ==
    [c \in Calls |-> IF calls[c].pc \in {"admitting", "constructing"} /\ calls[c].workspace = w
                     THEN [calls[c] EXCEPT !.raced = TRUE] ELSE calls[c]]

Counted == writes < MaxWrites /\ writes' = writes + 1

\* #validMounts
ValidMounts(row) ==
    /\ \A m \in row.mounts : m.source \in present
    /\ ~MountOverlap(row)

PathTaken(w, path) == \E other \in Workspaces \ {w} : rows[other] # None /\ rows[other].path = path

ProfileAllowed(profile) ==
    CASE config.mode = "disabled" -> profile # "workspace-sandboxed"
      [] config.mode = "required" -> profile = "workspace-sandboxed"
      [] OTHER -> TRUE
ManagedAllowed(row) ==
    row.profile = "workspace-sandboxed" /\ row.net = "managed-egress" => config.managed

\* workspace.create: everything it asks for is the user's explicit choice.
Create(w) ==
    /\ server = "up" /\ rows[w] = None /\ Counted
    /\ \E row \in Row :
         /\ ProfileAllowed(row.profile)
         /\ row.set \in config.sets
         /\ ManagedAllowed(row)
         /\ row.path \in present
         /\ ValidMounts(row)
         /\ ~PathIssue(row)
         /\ ~PathTaken(w, row.path)
         /\ rows' = [rows EXCEPT ![w] = row]
         /\ consent' = [consent EXCEPT ![w] = Authority(row)]
    /\ UNCHANGED <<database, jobs, present, calls>>

Given(ch) == Cardinality({f \in DOMAIN ch : ch[f] # Keep})
Changes ==
    {ch \in [path : WorkspacePaths \cup {Keep}, profile : Profiles \cup {Keep},
              net : Networks \cup {Keep}, set : PolicySets \cup {Keep},
              mounts : MountLists \cup {Keep}] : Given(ch) \in 1..MaxFields}

Changed(row, ch) ==
    [path |-> IF ch.path = Keep THEN row.path ELSE ch.path,
     profile |-> IF ch.profile = Keep THEN row.profile ELSE ch.profile,
     net |-> IF ch.net = Keep THEN row.net ELSE ch.net,
     set |-> IF ch.set = Keep THEN row.set ELSE ch.set,
     mounts |-> IF ch.mounts = Keep THEN row.mounts ELSE ch.mounts]

\* The acknowledgements an update must carry; it is rejected when it carries
\* one that is not needed, and when one that is needed is missing.
DowngradeOf(old, new) == old.profile = "workspace-sandboxed" /\ new.profile = "unrestricted"
ExposureWhenEnabled(old, new) ==    \* mutant: only an effective change counts
    \/ /\ old.profile # "workspace-sandboxed" \/ old.net # "managed-egress"
       /\ new.profile = "workspace-sandboxed" /\ new.net = "managed-egress"
    \/ /\ old.set # new.set
       /\ old.net = "managed-egress" \/ new.net = "managed-egress"

ExposureOf(old, new) ==
    \/ /\ old.profile # "workspace-sandboxed" \/ old.net # "managed-egress"
       /\ new.profile = "workspace-sandboxed" /\ new.net = "managed-egress"
    \/ old.net = "isolated" /\ new.net = "managed-egress"
    \/ /\ old.set # new.set
       /\ old.net = "managed-egress" \/ new.net = "managed-egress"
NewWritable(old, new) == {m \in new.mounts \ old.mounts : m.access = "read-write"}

Acknowledged(old, new) ==
    (IF DowngradeOf(old, new) THEN {<<"host">>} ELSE {})
        \cup (IF ExposureOf(old, new) THEN {<<"egress", new.set>>} ELSE {})
        \cup {<<"write", m.source>> : m \in NewWritable(old, new)}

UpdateUnlocked(w) ==                \* mutant: the handler's busy check is gone
    /\ server = "up" /\ rows[w] # None /\ Counted
    /\ \E ch \in Changes :
         LET new == Changed(rows[w], ch)
         IN /\ new # rows[w]
            /\ ch.path # Keep => new.path \in present
            /\ ch.mounts # Keep => ValidMounts(new)
            /\ ~PathIssue(new) /\ ~PathTaken(w, new.path)
            /\ rows' = [rows EXCEPT ![w] = new]
    /\ calls' = Raced(w)
    /\ UNCHANGED <<database, jobs, present, consent>>

\* workspace.update, with the busy check of its handler.
Update(w) ==
    /\ server = "up" /\ rows[w] # None /\ ~Live(w) /\ Counted
    /\ \E ch \in Changes :
         LET old == rows[w]
             new == Changed(old, ch)
         IN /\ new # old
            /\ ch.profile # Keep => ProfileAllowed(new.profile)
            /\ ch.set # Keep => new.set \in config.sets
            /\ ch.profile # Keep \/ ch.net # Keep => ManagedAllowed(new)
            /\ ch.path # Keep => new.path \in present
            /\ ch.mounts # Keep => ValidMounts(new)
            /\ ~PathIssue(new)
            /\ ~PathTaken(w, new.path)
            /\ rows' = [rows EXCEPT ![w] = new]
            /\ consent' = [consent EXCEPT ![w] =
                              (consent[w] \cup Acknowledged(old, new)) \cap Authority(new)]
    /\ calls' = Raced(w)
    /\ UNCHANGED <<database, jobs, present>>

\* workspace.delete
Delete(w) ==
    /\ server = "up" /\ rows[w] # None
    /\ ~Live(w) /\ w \notin jobs /\ Counted
    /\ rows' = [rows EXCEPT ![w] = None]
    /\ consent' = [consent EXCEPT ![w] = {}]
    /\ calls' = Raced(w)
    /\ UNCHANGED <<database, jobs, present>>

\* job.create and job.delete, as far as they bind a workspace.
JobCreate(w) ==
    /\ server = "up" /\ rows[w] # None /\ Available(rows[w])
    /\ jobs' = jobs \cup {w}
    /\ UNCHANGED <<database, rows, present, calls, consent, writes>>

JobDelete(w) ==
    /\ server = "up" /\ w \in jobs
    /\ jobs' = jobs \ {w}
    /\ UNCHANGED <<database, rows, present, calls, consent, writes>>

-----------------------------------------------------------------------------
(* From a command to a runtime *)

\* requireUsable up to its first await.  A session is the directory that the
\* header of the listed session file names, or None for a new conversation.
RequireUsable(c, w, session) ==
    IF rows[w] = None \/ ~Usable(rows[w])
    THEN calls' = [calls EXCEPT ![c] = Idle]
    ELSE LET policy == RuntimePolicy(rows[w])
             sandboxed == policy.profile = "workspace-sandboxed"
         IN calls' = [calls EXCEPT ![c] =
                [pc |-> IF sandboxed THEN "admitting" ELSE "constructing",
                 workspace |-> w, session |-> session, policy |-> policy,
                 todo |-> IF sandboxed
                          THEN {policy.path} \cup {m.source : m \in policy.mounts} ELSE {},
                 granted |-> consent[w], raced |-> FALSE]]

\* conversation.create, and the fork of a live conversation.
CreateConversation(c, w) ==
    /\ server = "up" /\ calls[c] = Idle /\ rows[w] # None
    /\ RequireUsable(c, w, None)
    /\ UNCHANGED <<database, rows, jobs, present, consent, writes>>

\* conversation.open: requireAvailable, then the listing of the workspace's sessions.
OpenConversation(c, w) ==
    /\ server = "up" /\ calls[c] = Idle
    /\ rows[w] # None /\ Available(rows[w])
    /\ calls' = [calls EXCEPT ![c] = [pc |-> "listing", workspace |-> w, session |-> rows[w].path]]
    /\ UNCHANGED <<database, rows, jobs, present, consent, writes>>

\* SessionHistory.resolve found the session; requireUsable reads the row again.
Listed(c) ==
    /\ calls[c].pc = "listing"
    /\ calls[c].session \in present
    /\ RequireUsable(c, calls[c].workspace, calls[c].session)
    /\ UNCHANGED <<database, rows, jobs, present, consent, writes>>

\* One directory passes admit or admitMount.
Admit(c) ==
    /\ calls[c].pc = "admitting"
    /\ \E d \in calls[c].todo \cap present :
         /\ calls[c].policy.path \in calls[c].todo => d = calls[c].policy.path
         /\ calls' = [calls EXCEPT ![c].todo = calls[c].todo \ {d},
                                   ![c].pc = IF calls[c].todo = {d}
                                             THEN "constructing" ELSE "admitting"]
    /\ UNCHANGED <<database, rows, jobs, present, consent, writes>>

\* The session is absent, a directory is refused (a socket, a mask, a bound of
\* the walk, a changed identity), or the runtime cannot be built.
Fails(c) ==
    /\ calls[c].pc \in {"listing", "admitting", "constructing"}
    /\ calls' = [calls EXCEPT ![c] = Idle]
    /\ UNCHANGED <<database, rows, jobs, present, consent, writes>>

SameScope(call) == call.session = None \/ call.session = call.policy.path

\* The runtime factory checks the directories and the session's header once
\* more; then the registry inserts the record.
Construct(c) ==
    /\ calls[c].pc = "constructing"
    /\ calls[c].policy.path \in present
    /\ \A m \in calls[c].policy.mounts : m.source \in present
    /\ SameScope(calls[c])
    /\ calls' = [calls EXCEPT ![c].pc = "live"]
    /\ UNCHANGED <<database, rows, jobs, present, consent, writes>>

Close(c) ==
    /\ calls[c].pc = "live"
    /\ calls' = [calls EXCEPT ![c] = Idle]
    /\ UNCHANGED <<database, rows, jobs, present, consent, writes>>

\* A directory is moved away, replaced by a link, or comes back.
FileSystemChanges ==
    /\ \E d \in Directories :
         /\ d \in present => Cardinality(Directories \ present) < MaxAbsent
         /\ present' = IF d \in present THEN present \ {d} ELSE present \cup {d}
    /\ UNCHANGED <<database, rows, jobs, calls, consent, writes>>

-----------------------------------------------------------------------------
\* A database of any version; a row older than a column has its default.
OldRow(d) == [path |-> d, profile |-> "unrestricted", net |-> "isolated", set |-> DefaultSet,
              mounts |-> {}]

Init ==
    /\ server = "down" /\ plan = <<>>
    /\ version \in 0..Version
    /\ applied = 1..(version - 1)
    /\ config \in Configs
    /\ \E old \in [Workspaces -> {OldRow(d) : d \in WorkspacePaths} \cup {None}] :
         /\ version = 0 => \A w \in Workspaces : old[w] = None
         /\ \A v, w \in Workspaces : v # w /\ old[v] # None => old[v] # old[w]
         /\ rows = old
         /\ consent = [w \in Workspaces |-> IF old[w] = None THEN {} ELSE Authority(old[w])]
    /\ jobs = {}
    /\ present = Directories
    /\ calls = [c \in Calls |-> Idle]
    /\ restarts = 0 /\ writes = 0

Next ==
    \/ Boot \/ Migrate \/ Opened \/ Crash \/ FileSystemChanges
    \/ \E w \in Workspaces : Create(w) \/ Update(w) \/ Delete(w) \/ JobCreate(w) \/ JobDelete(w)
    \/ \E c \in Calls :
         \/ \E w \in Workspaces : CreateConversation(c, w) \/ OpenConversation(c, w)
         \/ Listed(c) \/ Admit(c) \/ Fails(c) \/ Construct(c) \/ Close(c)

Spec == Init /\ [][Next]_vars

-----------------------------------------------------------------------------
(* Properties *)

Authorities ==
    {<<"host">>} \cup {<<"egress", s>> : s \in PolicySets}
        \cup {<<"write", d>> : d \in MountSources}

Policies ==
    [path : WorkspacePaths, profile : Profiles, net : Networks \cup {None},
     set : PolicySets \cup {None}, mounts : MountLists]

\* A command past requireUsable, until its runtime is closed.
Building ==
    [pc : {"admitting", "constructing", "live"}, workspace : Workspaces,
     session : WorkspacePaths \cup {None}, policy : Policies,
     todo : SUBSET Directories, granted : SUBSET Authorities, raced : BOOLEAN]

Commands ==
    {Idle} \cup [pc : {"listing"}, workspace : Workspaces, session : WorkspacePaths]
        \cup Building

\* The type invariant.
TypeOK ==
    /\ server \in {"down", "opening", "refused", "up"}
    /\ plan \in Seq(0..LastStep) /\ version \in 0..Version
    /\ applied \subseteq 1..LastStep
    /\ config \in Configs
    /\ rows \in [Workspaces -> Row \cup {None}]
    /\ jobs \subseteq Workspaces
    /\ present \subseteq Directories
    /\ calls \in [Calls -> Commands]
    /\ consent \in [Workspaces -> SUBSET Authorities]
    /\ restarts \in 0..MaxRestarts /\ writes \in 0..MaxWrites

\* Every start reads a user_version that tells exactly which migrations the
\* schema contains, wherever an earlier start ended, so no start is refused
\* and the repository never runs on an incomplete schema (openDatabase).
SchemaMatchesVersion ==
    /\ server # "refused"
    /\ server = "up" => applied = 1..LastStep

LiveCalls == {c \in Calls : calls[c].pc = "live"}

\* A runtime holds only authority the user chose or acknowledged for its
\* workspace: host access, each destination set and each writable mount, over
\* any sequence of updates and any change of the server's modes (update's three
\* acknowledgements, #evaluatePolicy).
AuthorityAcknowledged == \A c \in LiveCalls : Authority(calls[c].policy) \subseteq calls[c].granted

\* Unless the workspace was changed between a command's requireUsable and the
\* registry's insertion, a runtime runs under the policy its workspace has now:
\* the handlers of update and delete lock the workspace of a live runtime.
LiveIsCurrent ==
    \A c \in LiveCalls :
        ~calls[c].raced =>
            /\ rows[calls[c].workspace] # None
            /\ calls[c].policy = RuntimePolicy(rows[calls[c].workspace])

\* docs/design.md: removal and changes of a workspace's authority are rejected
\* while it owns a live runtime, so that every live runtime has a workspace
\* and runs under the policy stored for it.  hasLiveWorkspace counts inserted
\* records only, and a change may fall between requireUsable and insertion.
LiveHasItsWorkspace ==
    \A c \in LiveCalls :
        /\ rows[calls[c].workspace] # None
        /\ calls[c].policy = RuntimePolicy(rows[calls[c].workspace])

=============================================================================
