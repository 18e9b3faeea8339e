---------------------------- MODULE SearchIndex ----------------------------
(***************************************************************************)
(* The search index of past conversations (server/search):                 *)
(*   service.ts           the optional service, its start and its timer,   *)
(*   indexer.ts           the one writer: requests, passes, pruning,       *)
(*   document-indexer.ts  one session file into one document,              *)
(*   session-source.ts    discovery and stable snapshots of session files, *)
(*   repository.ts        the transactions on workspaces and documents,    *)
(*   database.ts          their deadline and their ambiguous COMMIT,       *)
(*   read-repository.ts, read-page.ts   paged reads of a document.         *)
(* Session files, registrations and the embedding model change at any time *)
(* without telling the indexer; every await of the indexer is a step.      *)
(* A text is named by the fingerprint it was read under.  The id and the   *)
(* generation of a document are one version, unlike every version that     *)
(* somebody still remembers.  Symbolic links, embedding vectors, chunk     *)
(* texts, sizes, counts, page limits and error codes are left out.         *)
(***************************************************************************)
EXTENDS Integers, Sequences, FiniteSets, SequencesExt

CONSTANTS
    WorkspaceIds,   \* workspace ids
    Revisions,      \* session stores a workspace may name, by source revision
    Paths,          \* session files of a store
    Holds,          \* session ids that the header of each file may carry
    Spaces,         \* embedding spaces the provider may serve
    Layout,         \* the chunks of a document: entry, source bytes from, to
    MaxEvents,      \* bound on changes of sources, failures and client requests
    Null

\* What chunkMessages makes and validateWindow checks: the chunks of an entry begin at
\* its first byte, each later one begins within the one before and ends after it.
WellLaid ==
    /\ Len(Layout) \in Nat /\ DOMAIN Layout = 1 .. Len(Layout)
    /\ \A i \in DOMAIN Layout :
          LET c == Layout[i]
              previous == Layout[i - 1]
          IN  /\ c.from \in Nat /\ c.to \in Nat /\ c.from < c.to
              /\ IF i > 1 /\ previous.entry = c.entry
                 THEN previous.from < c.from /\ c.from <= previous.to /\ previous.to < c.to
                 ELSE c.from = 0

\* The cursor of a client that has read everything is like no other.
NoCursor == \A i \in DOMAIN Layout : \A at \in 0 .. Layout[i].to : Null # [i |-> i, at |-> at]

Finite == IsFiniteSet(WorkspaceIds) /\ IsFiniteSet(UNION {Holds[p] : p \in Paths})

ASSUME SearchAssumption ==
    /\ MaxEvents \in Nat
    /\ Holds \in [Paths -> SUBSET UNION {Holds[p] : p \in Paths}]
    /\ WellLaid /\ NoCursor /\ Finite

Sessions == UNION {Holds[p] : p \in Paths}
Stores == WorkspaceIds \X Revisions
FirstRevision == CHOOSE r \in Revisions : TRUE
Torn == -1      \* the bytes of a file that was written while it was read

VARIABLES
    reg,        \* registrations: state, source revision and name of a workspace
    file,       \* session files of each store: fingerprint and session id
    stamp,      \* fingerprint of the directory of each store
    clock,      \* the last fingerprint given
    served,     \* embedding space the provider serves
    row,        \* search_workspaces
    doc,        \* search_documents with their chunks
    late,       \* a COMMIT whose client has given up on it, or Null
    svc,        \* SearchService.state
    queued,     \* SearchService.pending
    pending,    \* SearchIndexer.pending
    pc,         \* where the indexer's drain stands
    pass,       \* locals of the pass
    reader,     \* one client that reads a document page by page
    spent       \* events so far

source == <<reg, file, stamp, clock, served>>
store == <<row, doc, late>>
service == <<svc, queued>>
indexer == <<pending, pc, pass>>
searchVars == <<source, store, service, indexer, reader, spent>>

IsLive(w) == reg[w].state = "live"
Scope(w) == <<w, reg[w].rev>>
Documents(w) == {s \in Sessions : doc[w][s] # Null}

NoPass == [todo |-> {}, taken |-> Null, force |-> FALSE, w |-> Null, prev |-> Null,
           disc |-> Null, space |-> Null, cand |-> Null, sid |-> Null, text |-> Null,
           version |-> Null, doomed |-> {}]

-----------------------------------------------------------------------------
(* Requests.                                                               *)

All == [all |-> TRUE, ids |-> {}, force |-> FALSE]

\* Two requests become one: the union of their scopes, forced if one of them is.
Merge(p, q) ==
    IF p = Null THEN q
    ELSE LET all == p.all \/ q.all
         IN  [all |-> all, ids |-> IF all THEN {} ELSE p.ids \cup q.ids,
              force |-> p.force \/ q.force]

\* SearchIndexer.requestRefresh: merge, and start to drain if nothing runs.
Refresh(q, at) ==
    /\ pending' = Merge(pending, q)
    /\ pc' = IF at = "off" THEN "drain" ELSE at

\* SearchService.queue: to the indexer, or kept until the service is initialized.
Queue(q) ==
    \/ /\ svc = "ready"
       /\ Refresh(q, pc)
       /\ UNCHANGED <<svc, queued>>
    \/ /\ svc \in {"initializing", "unavailable"}
       /\ queued' = Merge(queued, q)
       /\ svc' = "initializing"
       /\ UNCHANGED <<pending, pc>>

\* The interval timer of start().
Tick ==
    /\ Queue(All)
    /\ UNCHANGED <<source, store, pass, reader, spent>>

\* SearchService.requestRefresh, for one workspace or, in a rebuild, forced.
ClientRefresh(w, force) ==
    /\ spent < MaxEvents
    /\ IsLive(w)
    /\ Queue([all |-> FALSE, ids |-> {w}, force |-> force])
    /\ spent' = spent + 1
    /\ UNCHANGED <<source, store, pass, reader>>

\* initialize: the schema is checked; what was queued goes to the indexer.
Initialized ==
    /\ svc = "initializing"
    /\ svc' = "ready"
    /\ queued' = Null
    /\ IF queued = Null THEN UNCHANGED <<pending, pc>> ELSE Refresh(queued, pc)
    /\ UNCHANGED <<source, store, pass, reader, spent>>

InitializeFails ==
    /\ svc = "initializing"
    /\ spent < MaxEvents
    /\ svc' = "unavailable"
    /\ spent' = spent + 1
    /\ UNCHANGED <<source, store, queued, indexer, reader>>

-----------------------------------------------------------------------------
(* Transactions.                                                           *)

\* Versions that a document, the indexer, a late COMMIT or a cursor still names.
Remembered ==
    (UNION {{doc[w][s].version : s \in Documents(w)} : w \in WorkspaceIds})
    \cup {pass.version} \cup {t.version : t \in pass.doomed}
    \cup (IF late = Null THEN {} ELSE {late.version})
    \cup (IF reader = Null THEN {} ELSE {reader.version})

Fresh == CHOOSE v \in 1 .. Cardinality(Remembered) + 1 :
             v \notin Remembered /\ 1 .. v - 1 \subseteq Remembered

\* lockScope: the row of the workspace is there, under this source revision.
Locked(t) == row[t.w] # Null /\ row[t.w].rev = t.rev

NoDocuments == [s \in Sessions |-> Null]

Expected(w, s) == IF doc[w][s] = Null THEN Null ELSE doc[w][s].version

\* What a transaction decides and writes: publishDocument, synchronizeWorkspace,
\* markDocumentSeen, deleteDocumentVersion and deleteWorkspace.
Effect(t) ==
    LET same == [ok |-> TRUE, row |-> row[t.w], doc |-> doc[t.w]]
        refused == [same EXCEPT !.ok = FALSE]
    IN  CASE t.kind = "sync" /\ t.prev = Null ->
                 IF row[t.w] # Null THEN refused
                 ELSE [same EXCEPT !.row = [rev |-> t.rev, name |-> t.name]]
          [] t.kind = "sync" /\ t.prev # Null ->
                 IF row[t.w] = Null \/ row[t.w].rev # t.prev THEN refused
                 ELSE IF t.prev = t.rev THEN [same EXCEPT !.row.name = t.name]
                 ELSE [same EXCEPT !.row = [rev |-> t.rev, name |-> t.name],
                                   !.doc = NoDocuments]
          [] t.kind = "publish" ->
                 IF ~Locked(t) \/ Expected(t.w, t.sid) # t.version THEN refused
                 ELSE [same EXCEPT
                         !.doc[t.sid] = [version |-> Fresh, rev |-> t.rev, path |-> t.path,
                                         fp |-> t.fp, text |-> t.text, space |-> t.space]]
          [] t.kind = "seen" ->
                 IF ~Locked(t) \/ Expected(t.w, t.sid) # t.version THEN refused ELSE same
          [] t.kind = "delete" ->
                 IF ~Locked(t) \/ Expected(t.w, t.sid) # t.version THEN same
                 ELSE [same EXCEPT !.doc[t.sid] = Null]
          [] t.kind = "remove" ->
                 IF ~Locked(t) THEN same
                 ELSE [same EXCEPT !.row = Null, !.doc = NoDocuments]

Apply(t) ==
    /\ row' = [row EXCEPT ![t.w] = Effect(t).row]
    /\ doc' = [doc EXCEPT ![t.w] = Effect(t).doc]

\* The write transactions that the pass may now run.
Writes ==
    LET w == pass.w
        rev == pass.taken[w].rev
    IN  CASE pc = "sync" ->
                 {[kind |-> "sync", w |-> w, rev |-> rev, version |-> Null, prev |-> pass.prev,
                   name |-> pass.taken[w].name]}
          [] pc = "seen" ->
                 {[kind |-> "seen", w |-> w, rev |-> rev, sid |-> pass.sid, version |-> pass.version]}
          [] pc = "publish" ->
                 {[kind |-> "publish", w |-> w, rev |-> rev, sid |-> pass.sid, version |-> pass.version,
                   path |-> pass.cand.path, fp |-> pass.cand.fp, text |-> pass.text,
                   space |-> pass.space]}
          [] pc \in {"deleting", "removing"} -> pass.doomed
          [] OTHER -> {}

-----------------------------------------------------------------------------
(* The pass.                                                               *)

Step == svc # "closed" /\ UNCHANGED <<source, service>>     \* check()

\* Done with a workspace, with a candidate, with the pass.
ToNext(p) == [p EXCEPT !.todo = @ \ {p.w}, !.w = Null, !.disc = Null]
ToCandidate(p) ==
    [p EXCEPT !.disc.cands = @ \ {p.cand}, !.cand = Null, !.sid = Null, !.text = Null, !.version = Null]

SkipCandidate ==
    /\ pass' = ToCandidate(pass)
    /\ pc' = "candidate"
    /\ UNCHANGED pending

SkipWorkspace ==
    /\ pass' = ToNext(pass)
    /\ pc' = "next"
    /\ UNCHANGED pending

Goto(label, p) ==
    /\ pc' = label
    /\ pass' = p
    /\ UNCHANGED pending

\* current: the registration is as it was when the pass began.
Current(w) == reg[w] = pass.taken[w]

\* Mutant: the source is republished when it still exists, whether or not it
\* changed while it was read.
SourceExists == file[<<pass.w, pass.taken[pass.w].rev>>][pass.cand.path] # Null

\* The file has the fingerprint of the candidate (assertSessionSourceCurrent).
SourceCurrent ==
    LET f == file[<<pass.w, pass.taken[pass.w].rev>>][pass.cand.path]
    IN  f # Null /\ f.fp = pass.cand.fp

\* The loop of drain: take the pending request and begin a pass.
Drain ==
    /\ pc = "drain"
    /\ IF pending # Null /\ svc # "closed"
       THEN /\ pass' = [NoPass EXCEPT !.taken = reg, !.force = pending.force,
                            !.todo = {w \in WorkspaceIds : IsLive(w) /\ (pending.all \/ w \in pending.ids)}]
            /\ pending' = Null
            /\ pc' = "next"
       ELSE pc' = "ended" /\ UNCHANGED <<pending, pass>>
    /\ UNCHANGED <<source, service, store, reader, spent>>

\* The finalizer of schedule: a request that came after the loop is not lost.
Finalize ==
    /\ pc = "ended"
    /\ pc' = IF svc # "closed" /\ pending # Null THEN "drain" ELSE "off"
    /\ UNCHANGED <<source, service, store, pending, pass, reader, spent>>

\* The next workspace: readWorkspace, and whether to synchronize it.
NextWorkspace ==
    /\ pc = "next" /\ Step
    /\ \E w \in pass.todo :
        IF Current(w)
        THEN LET saved == IF row[w] = Null THEN Null ELSE row[w].rev
                 uptodate == /\ row[w] # Null
                             /\ row[w].rev = reg[w].rev
                             /\ row[w].name = reg[w].name
             IN  Goto(IF uptodate THEN "discover" ELSE "sync",
                      [pass EXCEPT !.w = w, !.prev = IF uptodate THEN Null ELSE saved])
        ELSE /\ Refresh(All, pc)
             /\ pass' = [pass EXCEPT !.todo = @ \ {w}]
    /\ UNCHANGED <<store, reader, spent>>

\* discoverSessionFiles: the files of the store and the directory's fingerprint.
AfterDiscovery(d) ==
    IF d.cands = {} \/ pass.space = 0 THEN "recheck"
    ELSE IF pass.space = Null THEN "space" ELSE "candidate"

Discover ==
    /\ pc = "discover" /\ Step
    /\ LET at == <<pass.w, pass.taken[pass.w].rev>>
           here == {p \in Paths : file[at][p] # Null}
           d == [cands |-> {[path |-> p, fp |-> file[at][p].fp] : p \in here}, seen |-> here,
                 complete |-> TRUE, stamp |-> stamp[at]]
       IN  Goto(AfterDiscovery(d), [pass EXCEPT !.disc = d])
    /\ UNCHANGED <<store, reader, spent>>

\* A limit, an unreadable entry or a change under the iteration: some of the files,
\* and no authority to prune.  Or nothing: the store cannot be read.
DiscoverPartly ==
    /\ pc = "discover" /\ Step
    /\ spent < MaxEvents
    /\ LET at == <<pass.w, pass.taken[pass.w].rev>>
       IN  \/ \E seen \in SUBSET {p \in Paths : file[at][p] # Null} :
              \E readable \in SUBSET seen :
                LET d == [cands |-> {[path |-> p, fp |-> file[at][p].fp] : p \in readable},
                          seen |-> seen, complete |-> FALSE, stamp |-> stamp[at]]
                IN  Goto(AfterDiscovery(d), [pass EXCEPT !.disc = d])
           \/ SkipWorkspace
    /\ spent' = spent + 1
    /\ UNCHANGED <<store, reader>>

\* resolveSpace, once in a pass; without it no document is indexed in this pass.
ResolveSpace ==
    /\ pc = "space" /\ Step
    /\ \/ Goto("candidate", [pass EXCEPT !.space = served]) /\ UNCHANGED spent
       \/ /\ spent < MaxEvents
          /\ Goto("recheck", [pass EXCEPT !.space = 0])
          /\ spent' = spent + 1
    /\ UNCHANGED <<store, reader>>

\* SearchDocumentIndexer.index begins: is the document of this path unchanged?
NextCandidate ==
    /\ pc = "candidate" /\ Step
    /\ IF pass.disc.cands = {} THEN Goto("recheck", pass)
       ELSE \E c \in pass.disc.cands :
            LET w == pass.w
                rev == pass.taken[w].rev
                at == {s \in Documents(w) : doc[w][s].path = c.path /\ doc[w][s].rev = rev}
                same == {s \in at : /\ at = {s} /\ ~pass.force
                                    /\ doc[w][s].fp = c.fp
                                    /\ doc[w][s].space = pass.space}
            IN  IF same = {} THEN Goto("read", [pass EXCEPT !.cand = c])
                ELSE \E s \in same :
                    Goto("unchanged", [pass EXCEPT !.cand = c, !.sid = s, !.version = doc[w][s].version])
    /\ UNCHANGED <<store, reader, spent>>

\* readSessionSnapshot: the fingerprint is compared before and after the reading.
Open ==
    /\ pc = "read" /\ Step
    /\ IF SourceCurrent THEN Goto("reading", pass) ELSE SkipCandidate
    /\ UNCHANGED <<store, reader, spent>>

Snapshot ==
    /\ pc = "reading" /\ Step
    /\ LET f == file[<<pass.w, pass.taken[pass.w].rev>>][pass.cand.path]
       IN  IF f # Null /\ SourceCurrent
           THEN Goto("checkpoint", [pass EXCEPT !.sid = f.sid,
                                        !.text = IF f.fp = pass.cand.fp THEN f.fp ELSE Torn])
           ELSE SkipCandidate
    /\ UNCHANGED <<store, reader, spent>>

\* readCheckpoint, the embeddings that can be reused, and those to be made.
Embed ==
    /\ pc = "checkpoint" /\ Step
    /\ Goto("revalidate", [pass EXCEPT !.version = Expected(pass.w, pass.sid)])
    /\ UNCHANGED <<store, reader, spent>>

\* A source or an embedding error: the candidate waits for the next pass.
CandidateFails ==
    /\ pc \in {"read", "reading", "checkpoint", "revalidate", "unchanged"} /\ Step
    /\ spent < MaxEvents
    /\ SkipCandidate
    /\ spent' = spent + 1
    /\ UNCHANGED <<store, reader>>

Revalidate ==
    /\ pc \in {"revalidate", "unchanged"} /\ Step
    /\ IF served = pass.space /\ SourceCurrent
       THEN Goto(IF pc = "unchanged" THEN "seen" ELSE "publish", pass)
       ELSE SkipCandidate
    /\ UNCHANGED <<store, reader, spent>>

\* Mutant: after a publication too, only documents of unseen paths are pruned.
PruneUnseenOnly ==
    /\ pc = "prune" /\ Step
    /\ LET w == pass.w
           rev == pass.taken[w].rev
           old == {s \in Documents(w) : /\ doc[w][s].rev = rev
                                        /\ doc[w][s].path \notin pass.disc.seen}
       IN  Goto("deleting", [pass EXCEPT !.doomed =
               {[kind |-> "delete", w |-> w, rev |-> rev, sid |-> s,
                 version |-> doc[w][s].version] : s \in old}])
    /\ UNCHANGED <<store, reader, spent>>

\* prune: the other documents of a path just published, or those of unseen paths.
Prune ==
    /\ pc = "prune" /\ Step
    /\ LET w == pass.w
           rev == pass.taken[w].rev
           old == {s \in Documents(w) :
                      /\ doc[w][s].rev = rev
                      /\ IF pass.cand # Null
                         THEN doc[w][s].path = pass.cand.path /\ s # pass.sid
                         ELSE doc[w][s].path \notin pass.disc.seen}
       IN  Goto("deleting", [pass EXCEPT !.doomed =
               {[kind |-> "delete", w |-> w, rev |-> rev, sid |-> s,
                 version |-> doc[w][s].version] : s \in old}])
    /\ UNCHANGED <<store, reader, spent>>

Pruned ==
    /\ pc = "deleting" /\ pass.doomed = {} /\ Step
    /\ IF pass.cand # Null THEN SkipCandidate ELSE SkipWorkspace
    /\ UNCHANGED <<store, reader, spent>>

\* After the documents: only a complete and still current discovery may prune.
Recheck ==
    /\ pc = "recheck" /\ Step
    /\ LET w == pass.w IN
       IF ~Current(w)
       THEN /\ Refresh(All, "next")
            /\ pass' = ToNext(pass)
       ELSE IF pass.disc.complete /\ stamp[Scope(w)] = pass.disc.stamp THEN Goto("prune", pass)
       ELSE SkipWorkspace
    /\ UNCHANGED <<store, reader, spent>>

\* The end of the pass: the rows of workspaces that are no longer registered.
Orphans ==
    /\ pc = "next" /\ pass.todo = {} /\ Step
    /\ Goto("removing", [pass EXCEPT !.doomed =
           {[kind |-> "remove", w |-> w, rev |-> row[w].rev, version |-> Null] :
               w \in {x \in WorkspaceIds : row[x] # Null /\ ~IsLive(x)}}])
    /\ UNCHANGED <<store, reader, spent>>

PassEnds ==
    /\ pc = "removing" /\ pass.doomed = {} /\ Step
    /\ Goto("drain", NoPass)
    /\ UNCHANGED <<store, reader, spent>>

\* A write transaction commits, once no late COMMIT holds the workspace's row.
Commit ==
    /\ Step
    /\ \E t \in Writes :
        /\ IF late = Null THEN TRUE ELSE late.w # t.w
        /\ Apply(t)
        /\ IF Effect(t).ok
           THEN CASE pc = "sync" -> Goto("discover", [pass EXCEPT !.prev = Null])
                  [] pc = "seen" -> SkipCandidate
                  [] pc = "publish" -> Goto("prune", pass)
                  [] OTHER -> Goto(pc, [pass EXCEPT !.doomed = @ \ {t}])
           ELSE IF pc = "sync" \/ row[t.w] = Null THEN Goto("drain", NoPass)
           ELSE SkipCandidate
    /\ UNCHANGED <<late, reader, spent>>

\* A transaction fails or times out, and with it the pass.  A COMMIT already sent
\* may still be carried out; it is never retried.
TransactionFails ==
    /\ Step
    /\ pc \notin {"off", "drain", "ended", "space"}
    /\ spent < MaxEvents
    /\ spent' = spent + 1
    /\ \/ late' = late
       \/ late = Null /\ \E t \in Writes : late' = t
    /\ Goto("drain", NoPass)
    /\ UNCHANGED <<row, doc, reader>>

LateCommit ==
    /\ late # Null
    /\ Apply(late)
    /\ late' = Null
    /\ UNCHANGED <<source, service, indexer, reader, spent>>

-----------------------------------------------------------------------------
(* Shutdown and restart.                                                   *)

\* close: admission ends, the pass is cancelled.
CloseSearch ==
    /\ svc # "closed"
    /\ svc' = "closed"
    /\ queued' = Null
    /\ pending' = Null
    /\ UNCHANGED <<source, store, pc, pass, reader, spent>>

Cancelled ==
    /\ svc = "closed"
    /\ pc \notin {"off", "drain", "ended"}
    /\ pc' = "drain"
    /\ pass' = NoPass
    /\ \/ late' = late
       \/ late = Null /\ \E t \in Writes : late' = t
    /\ UNCHANGED <<source, service, row, doc, pending, reader, spent>>

\* The process ends and starts again: start() queues a refresh of everything.
Restart ==
    /\ spent < MaxEvents
    /\ spent' = spent + 1
    /\ svc' = "initializing"
    /\ queued' = All
    /\ pending' = Null /\ pc' = "off" /\ pass' = NoPass
    /\ reader' = Null
    /\ \/ late' = late
       \/ late = Null /\ \E t \in Writes : late' = t
    /\ UNCHANGED <<source, row, doc>>

-----------------------------------------------------------------------------
(* Paged reads.                                                            *)

\* First byte of chunk i that chunk i - 1 does not already hold.
Begin(i) == IF i > 1 /\ Layout[i - 1].entry = Layout[i].entry THEN Layout[i - 1].to ELSE 0

\* The bytes from the position (i, at) to the end e of what is taken of chunk k.
Page(i, at, k, e, text) ==
    FlattenSeq([j \in 1 .. k - i + 1 |->
        LET c == i + j - 1
            from == IF c = i THEN at ELSE Begin(c)
            to == IF c = k THEN e ELSE Layout[c].to
        IN  [b \in 1 .. to - from |-> [text |-> text, entry |-> Layout[c].entry, byte |-> from + b - 1]]])

After(k, e) ==
    IF e < Layout[k].to THEN [i |-> k, at |-> e]
    ELSE IF k = Len(Layout) THEN Null
    ELSE [i |-> k + 1, at |-> Begin(k + 1)]

\* The document that a read of session s sees, in its workspace's current scope.
Visible(w, s) ==
    /\ svc = "ready"
    /\ IsLive(w) /\ row[w] # Null /\ doc[w][s] # Null
    /\ row[w].rev = reg[w].rev /\ doc[w][s].rev = reg[w].rev

\* A first page, from the beginning or from the message of a search result.
ReadFirst(w, s) ==
    /\ reader = Null
    /\ spent < MaxEvents
    /\ spent' = spent + 1
    /\ Visible(w, s)
    /\ \E i \in {j \in DOMAIN Layout : Begin(j) = 0} :
        \E k \in i .. Len(Layout) : \E e \in Begin(k) + 1 .. Layout[k].to :
            reader' = [w |-> w, s |-> s, version |-> doc[w][s].version, first |-> i,
                       pos |-> After(k, e), got |-> Page(i, 0, k, e, doc[w][s].text)]
    /\ UNCHANGED <<source, store, service, indexer>>

\* Mutant: a cursor goes on in whatever version is published now.
ReadNextAnyVersion ==
    /\ reader # Null
    /\ LET w == reader.w
           s == reader.s
           pos == reader.pos
       IN  IF pos # Null /\ Visible(w, s)
           THEN \E k \in pos.i .. Len(Layout) :
                \E e \in (IF k = pos.i THEN pos.at ELSE Begin(k)) + 1 .. Layout[k].to :
                  reader' = [reader EXCEPT !.pos = After(k, e),
                                 !.got = @ \o Page(pos.i, pos.at, k, e, doc[w][s].text)]
           ELSE reader' = Null
    /\ UNCHANGED <<source, store, service, indexer, spent>>

\* A further page, by the cursor; a cursor of another version is refused.
ReadNext ==
    /\ reader # Null
    /\ LET w == reader.w
           s == reader.s
           pos == reader.pos
       IN  IF pos # Null /\ Visible(w, s) /\ doc[w][s].version = reader.version
           THEN \E k \in pos.i .. Len(Layout) :
                \E e \in (IF k = pos.i THEN pos.at ELSE Begin(k)) + 1 .. Layout[k].to :
                  reader' = [reader EXCEPT !.pos = After(k, e),
                                 !.got = @ \o Page(pos.i, pos.at, k, e, doc[w][s].text)]
           ELSE reader' = Null
    /\ UNCHANGED <<source, store, service, indexer, spent>>

-----------------------------------------------------------------------------
(* The world around: session files, registrations, the embedding provider. *)

\* Pi appends to a session file, creates it, or replaces it by another session's.
WriteFile(w, p, s) ==
    /\ spent < MaxEvents
    /\ spent' = spent + 1
    /\ clock' = clock + 1
    /\ LET old == file[Scope(w)][p]
       IN  /\ file' = [file EXCEPT ![Scope(w)][p] = [fp |-> clock + 1, sid |-> s]]
           /\ stamp' = IF old # Null /\ old.sid = s THEN stamp
                       ELSE [stamp EXCEPT ![Scope(w)] = clock + 1]
    /\ UNCHANGED <<reg, served, store, service, indexer, reader>>

DeleteFile(w, p) ==
    /\ spent < MaxEvents
    /\ spent' = spent + 1
    /\ file[Scope(w)][p] # Null
    /\ clock' = clock + 1
    /\ file' = [file EXCEPT ![Scope(w)][p] = Null]
    /\ stamp' = [stamp EXCEPT ![Scope(w)] = clock + 1]
    /\ UNCHANGED <<reg, served, store, service, indexer, reader>>

\* A workspace is created, renamed, moved to another store or deleted.
Edit(w) ==
    /\ spent < MaxEvents
    /\ \/ reg[w].state = "new" /\ reg' = [reg EXCEPT ![w].state = "live"]
       \/ IsLive(w) /\ reg' = [reg EXCEPT ![w].name = 1 - @]
       \/ IsLive(w) /\ \E r \in Revisions \ {reg[w].rev} : reg' = [reg EXCEPT ![w].rev = r]
       \/ IsLive(w) /\ reg' = [reg EXCEPT ![w].state = "gone"]
    /\ spent' = spent + 1
    /\ UNCHANGED <<file, stamp, clock, served, store, service, indexer, reader>>

Serve(m) ==
    /\ spent < MaxEvents
    /\ m # served
    /\ served' = m
    /\ spent' = spent + 1
    /\ UNCHANGED <<reg, file, stamp, clock, store, service, indexer, reader>>

-----------------------------------------------------------------------------
SearchInit ==
    /\ reg \in [WorkspaceIds -> [state : {"new", "live"}, rev : {FirstRevision},
                               name : {0}]]
    /\ file \in {f \in [Stores -> [Paths -> {Null} \cup [fp : {0}, sid : Sessions]]] :
                    \A a \in Stores, p \in Paths : f[a][p] # Null =>
                        f[a][p].sid \in Holds[p] /\ a[2] = FirstRevision}
    /\ stamp = [a \in Stores |-> 0]
    /\ clock = 0
    /\ served = CHOOSE m \in Spaces : TRUE
    /\ row = [w \in WorkspaceIds |-> Null]
    /\ doc = [w \in WorkspaceIds |-> NoDocuments]
    /\ late = Null
    /\ svc = "initializing" /\ queued = All
    /\ pending = Null /\ pc = "off" /\ pass = NoPass
    /\ reader = Null
    /\ spent = 0

Indexing ==
    \/ Drain \/ Finalize \/ NextWorkspace \/ Discover \/ ResolveSpace \/ NextCandidate
    \/ Open \/ Snapshot \/ Embed \/ Revalidate \/ Prune \/ Pruned \/ Recheck
    \/ Orphans \/ PassEnds \/ Commit \/ Cancelled

SearchNext ==
    \/ Tick \/ Initialized \/ InitializeFails
    \/ \E w \in WorkspaceIds, force \in BOOLEAN : ClientRefresh(w, force)
    \/ Indexing
    \/ DiscoverPartly \/ CandidateFails \/ TransactionFails \/ LateCommit
    \/ CloseSearch \/ Restart
    \/ \E w \in WorkspaceIds, s \in Sessions : ReadFirst(w, s)
    \/ ReadNext
    \/ \E w \in WorkspaceIds, p \in Paths : DeleteFile(w, p) \/ \E s \in Holds[p] : WriteFile(w, p, s)
    \/ \E w \in WorkspaceIds : Edit(w)
    \/ \E m \in Spaces : Serve(m)

SearchSpec == SearchInit /\ [][SearchNext]_searchVars

\* The event loop goes on, the timer ticks, PostgreSQL settles a COMMIT it has.
SearchFairSpec ==
    /\ SearchSpec
    /\ WF_searchVars(Indexing)
    /\ WF_searchVars(Initialized)
    /\ WF_searchVars(Tick)
    /\ WF_searchVars(LateCommit)

-----------------------------------------------------------------------------
\* Every published document is one whole reading of a file: its text is the text
\* of the fingerprint that later passes compare to skip it (session-source.ts).
Whole == \A w \in WorkspaceIds : \A s \in Documents(w) : doc[w][s].text = doc[w][s].fp

\* The pages a client has read when its last cursor is null are every byte of one
\* version of the conversation, each once and in order, although the document may be
\* republished, deleted and created anew between two pages (read-page.ts).
PagesWhole ==
    (reader # Null /\ reader.pos = Null)
        => \E text \in {g.text : g \in ToSet(reader.got)} :
              reader.got = FlattenSeq([j \in 1 .. Len(Layout) - reader.first + 1 |->
                  LET c == reader.first + j - 1
                      next == c < Len(Layout) /\ Layout[c + 1].entry = Layout[c].entry
                  IN  [b \in 1 .. (IF next THEN Layout[c + 1].from ELSE Layout[c].to) - Layout[c].from |->
                          [text |-> text, entry |-> Layout[c].entry, byte |-> Layout[c].from + b - 1]]])

Indexed ==
    \A w \in WorkspaceIds :
        IF ~IsLive(w) THEN row[w] = Null
        ELSE LET now == file[Scope(w)] IN
             /\ row[w] # Null /\ row[w].rev = reg[w].rev /\ row[w].name = reg[w].name
             /\ Documents(w) = {now[p].sid : p \in {q \in Paths : now[q] # Null}}
             /\ \A s \in Documents(w) :
                   /\ now[doc[w][s].path] = [fp |-> doc[w][s].fp, sid |-> s]
                   /\ doc[w][s].space = served

\* Once sources, registrations and faults come to rest, the index comes to hold
\* exactly the session files of the registered workspaces and stays so, unless the
\* service has been closed (indexer.ts: the timer, coalescing, pruning, orphans).
Converges == <>[](svc = "closed" \/ Indexed)
=============================================================================
