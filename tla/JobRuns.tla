------------------------------- MODULE JobRuns -------------------------------
(***************************************************************************)
(* Scheduled jobs: the durable rows of JobRepository, the timer and claims *)
(* of JobScheduler, the executions of JobRunner and the shutdown boundary  *)
(* of RuntimeCoordinator (src/server/job-*.ts, runtime-coordinator.ts).    *)
(*                                                                         *)
(* The job and row variables are the SQLite tables and survive a crash;    *)
(* exec, timer, turn and todo are process memory and do not.  A repository *)
(* call is one transaction.  An action is the code a JavaScript turn runs  *)
(* between two awaits, except the scheduler's claim loop, which takes one  *)
(* step per transaction so that the process can die between them; while it *)
(* runs nothing else does (turn # "none").                                 *)
(***************************************************************************)
EXTENDS JobSchedule, FiniteSets

CONSTANTS
    Jobs,       \* job identities
    Runs,       \* run identities; each is inserted at most once (a bound)
    Interval,   \* the interval of every job's schedule, in ticks
    MaxTimer,   \* maxTimerDelayMs, in ticks
    MaxTime,    \* the clock stops here (a bound)
    MaxManual,  \* how many manual runs are asked for (a bound)
    Never,      \* a null next_run_at, and an unarmed timer
    NoJob

ASSUME IntervalAssumption == Interval \in Nat \ {0}
ASSUME MaxTimerAssumption == MaxTimer \in Nat \ {0}
ASSUME BoundAssumption == MaxTime \in Nat /\ MaxManual \in Nat
ASSUME NeverAssumption == Never \notin Int
ASSUME NoJobAssumption == NoJob \notin Jobs
ASSUME FiniteAssumption == IsFiniteSet(Jobs) /\ IsFiniteSet(Runs)

VARIABLES
    clock,      \* the wall clock
    job,        \* table jobs
    row,        \* table job_runs
    server,     \* "down", "up", "closing" (shutdown begun and persistence sealed)
    exec,       \* JobRunner: the ActiveRun of each run, and its dispatches to come
    timer,      \* JobScheduler: the instant its timer fires, or Never
    turn,       \* the trigger of the claim loop in progress, or "none"
    todo        \* the jobs that loop has listed and not yet claimed

vars == <<clock, job, row, server, exec, timer, turn, todo>>

ActiveStatuses == {"queued", "running"}

TerminalStatuses == {"succeeded", "failed", "blocked", "skipped", "aborted", "interrupted"}

(* Where an execution is suspended.                                        *)
Working == {"workspace",    \* await requireUsable
            "capacity",     \* await reserveRuntimeCapacity
            "preHook",      \* await #runHook
            "creating",     \* await createJobConversation
            "titling",      \* await setJobConversationTitle
            "prompting",    \* await runJobPrompt
            "postHook"}     \* await #runHook

PCs == Working \cup {"idle",       \* no ActiveRun
                     "claimed",    \* claimed by the loop, dispatched next
                     "pending",    \* runNowAccepted: setImmediate has yet to fire
                     "releasing"}  \* await releaseJobConversation

NoJobRow == [state |-> "absent", enabled |-> FALSE, next |-> Never, anchor |-> 0]

NoRow == [job |-> NoJob, trigger |-> "none", at |-> 0, status |-> "none", rev |-> 0]

NoExec == [pc |-> "idle", stop |-> "none", rev |-> 0]

(* Type invariant of the tables and of the process memory.                 *)
TypeOK ==
    /\ clock \in Nat
    /\ job \in [Jobs -> [state : {"absent", "present", "deleted"}, enabled : BOOLEAN,
                         next : Nat \cup {Never}, anchor : Nat]]
    /\ row \in [Runs -> [job : Jobs \cup {NoJob},
                         trigger : {"none", "manual", "scheduled", "catch-up"}, at : Nat,
                         status : {"none", "deleted"} \cup ActiveStatuses \cup TerminalStatuses,
                         rev : Nat]]
    /\ server \in {"down", "up", "closing"}
    /\ exec \in [Runs -> [pc : PCs, stop : {"none", "abort", "shutdown"}, rev : Nat]]
    /\ timer \in Nat \cup {Never}
    /\ turn \in {"none", "scheduled", "catch-up"}
    /\ todo \subseteq Jobs

Init ==
    /\ clock = 0
    /\ job = [j \in Jobs |-> NoJobRow]
    /\ row = [r \in Runs |-> NoRow]
    /\ server = "down"
    /\ exec = [r \in Runs |-> NoExec]
    /\ timer = Never
    /\ turn = "none"
    /\ todo = {}
-----------------------------------------------------------------------------
(* Queries.                                                                *)

Quiet == turn = "none"                      \* no synchronous loop is running

Sealed == server = "closing"                \* #persistenceSealed

ActiveRows == {r \in Runs : row[r].status \in ActiveStatuses}

Unused == {r \in Runs : row[r].status = "none"}

NewRow == CHOOSE r \in Unused : TRUE         \* randomUUID: identities carry no order

HasActiveRun(j) == \E r \in ActiveRows : row[r].job = j

DueJobs == {j \in Jobs : job[j].enabled /\ job[j].next <= clock}

FirstAfter(anchor, t) == FirstJobOccurrenceAfter(anchor, Interval, t)

(* #activeByJob: the job has an ActiveRun, terminal row or not.            *)
ActiveRuns == {r \in Runs : exec[r].pc \in Working \cup {"releasing"}}

ActiveByJobUnreleased(j) ==                 \* mutant: the entry is dropped before the release
    \E r \in Runs : exec[r].pc \in Working /\ row[r].job = j

ActiveByJob(j) == \E r \in ActiveRuns : row[r].job = j
-----------------------------------------------------------------------------
(* JobRepository: the effect of a transaction on the tables.               *)

(* #insertClaim.                                                           *)
Inserted(r, j, trigger, at, status) ==
    [row EXCEPT ![r] = [job |-> j, trigger |-> trigger, at |-> at, status |-> status, rev |-> 0]]

(* Mutant: rows that were running are overlooked.                          *)
MarkQueuedOnly ==
    [r \in Runs |-> IF row[r].status = "queued"
                    THEN [row[r] EXCEPT !.status = "interrupted", !.rev = @ + 1] ELSE row[r]]

MarkAllInterrupted ==
    [r \in Runs |-> IF r \in ActiveRows
                    THEN [row[r] EXCEPT !.status = "interrupted", !.rev = @ + 1] ELSE row[r]]

(* The nearest occurrence of an enabled job, and the instant at which the  *)
(* timer armed for it fires: setTimeout delays are capped.                 *)
Nearest(jobs) == CHOOSE t \in {jobs[j].next : j \in {k \in Jobs : jobs[k].enabled}} :
                     \A j \in Jobs : jobs[j].enabled => t <= jobs[j].next

ArmNever(jobs) == timer' = Never                      \* mutant: the timer is not armed again

Arm(jobs) ==
    timer' = IF \A j \in Jobs : ~jobs[j].enabled THEN Never
             ELSE IF Nearest(jobs) <= clock THEN clock
             ELSE IF Nearest(jobs) <= clock + MaxTimer THEN Nearest(jobs)
             ELSE clock + MaxTimer

RefreshSchedule == Arm(job')
-----------------------------------------------------------------------------
(* JobService: clients edit the definitions.                               *)

Admits == server = "up" /\ Quiet

CreateJob(j, enabled) ==
    /\ Admits
    /\ job[j].state = "absent"
    /\ job' = [job EXCEPT ![j] = [state |-> "present", enabled |-> enabled, anchor |-> clock,
                                  next |-> IF enabled THEN FirstAfter(clock, clock) ELSE Never]]
    /\ RefreshSchedule
    /\ UNCHANGED <<clock, row, server, exec, turn, todo>>

(* update(): JOB_BUSY while a run is active, except to disable.  A new     *)
(* schedule is anchored at the edit; otherwise only the switch from        *)
(* disabled to enabled recomputes the next occurrence.                     *)
UpdateJob(j, enabled, reschedule) ==
    /\ Admits
    /\ job[j].state = "present"
    /\ HasActiveRun(j) => ~enabled /\ ~reschedule
    /\ LET anchor == IF reschedule THEN clock ELSE job[j].anchor IN
       job' = [job EXCEPT ![j].enabled = enabled, ![j].anchor = anchor,
                          ![j].next = IF ~enabled THEN Never
                                      ELSE IF reschedule \/ ~job[j].enabled
                                      THEN FirstAfter(anchor, clock)
                                      ELSE job[j].next]
    /\ RefreshSchedule
    /\ UNCHANGED <<clock, row, server, exec, turn, todo>>

(* delete(): the runs go with the job; an ActiveRun still to be released   *)
(* keeps its jobId.                                                        *)
DeleteJob(j) ==
    /\ Admits
    /\ job[j].state = "present"
    /\ ~HasActiveRun(j)
    /\ job' = [job EXCEPT ![j] = [NoJobRow EXCEPT !.state = "deleted"]]
    /\ row' = [r \in Runs |-> IF row[r].job = j THEN [NoRow EXCEPT !.job = j, !.status = "deleted"]
                                          ELSE row[r]]
    /\ RefreshSchedule
    /\ UNCHANGED <<clock, server, exec, turn, todo>>

(* runNowAccepted: claimManual now, dispatch in a later turn.              *)
RunNow(j) ==
    /\ Admits
    /\ job[j].state = "present" /\ job[j].enabled
    /\ ~HasActiveRun(j)
    /\ Cardinality(Unused) > Cardinality(DueJobs)
    /\ Cardinality({q \in Runs : row[q].trigger = "manual"}) < MaxManual
    /\ row' = Inserted(NewRow, j, "manual", clock, "queued")
    /\ exec' = [exec EXCEPT ![NewRow].pc = "pending"]
    /\ UNCHANGED <<clock, job, server, timer, turn, todo>>
-----------------------------------------------------------------------------
(* JobScheduler.                                                           *)

(* start(): recover, list what is overdue, and claim one catch-up each.    *)
Start ==
    /\ server = "down"
    /\ server' = "up"
    /\ row' = MarkAllInterrupted
    /\ todo' = DueJobs
    /\ turn' = "catch-up"
    /\ UNCHANGED <<clock, job, exec, timer>>

(* #wake: the timer fired; list what is due.                               *)
Wake ==
    /\ Admits
    /\ timer # Never /\ clock >= timer
    /\ timer' = Never
    /\ todo' = DueJobs
    /\ turn' = "scheduled"
    /\ UNCHANGED <<clock, job, row, server, exec>>

(* #claimScheduled: the occurrence advances in the transaction that        *)
(* inserts the row, which is skipped if the job still has an active one.   *)
ClaimScheduled(j) ==
    /\ ~Quiet
    /\ \A q \in Runs : exec[q].pc # "claimed"
    /\ j \in todo
    /\ job' = [job EXCEPT ![j].next = AdvanceJobOccurrence(job[j].anchor, Interval, @, clock)]
    /\ row' = Inserted(NewRow, j, turn, job[j].next, IF HasActiveRun(j) THEN "skipped" ELSE "queued")
    /\ exec' = [exec EXCEPT ![NewRow].pc = IF HasActiveRun(j) THEN "idle" ELSE "claimed"]
    /\ todo' = todo \ {j}
    /\ UNCHANGED <<clock, server, timer, turn>>

(* The loop is over: arm the timer for what is next.                       *)
LoopDone ==
    /\ ~Quiet
    /\ todo = {}
    /\ \A q \in Runs : exec[q].pc # "claimed"
    /\ turn' = "none"
    /\ Arm(job)
    /\ UNCHANGED <<clock, job, row, server, exec, todo>>
-----------------------------------------------------------------------------
(* JobRunner.                                                              *)

(* run(): rejected, and only logged, when the runner is closed or its map  *)
(* still has an ActiveRun of the job; otherwise #execute starts the row    *)
(* and runs to its first await.                                            *)
Dispatch(r) ==
    /\ exec[r].pc = "claimed" \/ (exec[r].pc = "pending" /\ Quiet)
    /\ IF Sealed \/ ActiveByJob(row[r].job)
       THEN exec' = [exec EXCEPT ![r] = NoExec] /\ UNCHANGED row
       ELSE /\ row' = [row EXCEPT ![r].status = "running", ![r].rev = @ + 1]
            /\ exec' = [exec EXCEPT ![r] = [pc |-> "workspace", stop |-> "none",
                                            rev |-> row[r].rev + 1]]
    /\ UNCHANGED <<clock, job, server, timer, turn, todo>>

(* A continuation at pc runs in a turn of its own and, unless persistence  *)
(* is sealed, may write.  A write whose row moved on underneath is refused *)
(* (JOB_BUSY), which ends the execution.                                   *)
Resumes(r, pc) ==
    /\ Quiet
    /\ exec[r].pc = pc
    /\ ~Sealed
    /\ UNCHANGED <<clock, job, server, timer, turn, todo>>

Writable(r) == row[r].status = "running" /\ row[r].rev = exec[r].rev

(* The finally block of #execute: a conversation is released first.  The   *)
(* revision the ActiveRun holds is not used again.                         *)
Left(r, created) ==
    exec' = [exec EXCEPT ![r] = IF created THEN [@ EXCEPT !.pc = "releasing", !.rev = 0] ELSE NoExec]

HasConversation(r) == exec[r].pc \in {"titling", "prompting", "postHook"}

(* `writes` transactions on the row, then the next await.                  *)
Proceed(r, writes, pc) ==
    IF writes = 0 \/ Writable(r)
    THEN /\ row' = [row EXCEPT ![r].rev = @ + writes]
         /\ exec' = [exec EXCEPT ![r].pc = pc, ![r].rev = @ + writes]
    ELSE Left(r, HasConversation(r) \/ pc = "titling") /\ UNCHANGED row

(* `writes` transactions on the row, then #finish.                         *)
Finish(r, writes, status) ==
    /\ row' = IF Writable(r)
              THEN [row EXCEPT ![r].status = status, ![r].rev = @ + writes + 1] ELSE row
    /\ Left(r, HasConversation(r))

Stopped(r) == exec[r].stop # "none"

(* #finishStopped.                                                         *)
FinishStopped(r, writes) ==
    Stopped(r) /\ Finish(r, writes, IF exec[r].stop = "shutdown" THEN "interrupted" ELSE "aborted")

(* An await that stop requests are tested after: the run ends stopped, or  *)
(* with one of the given statuses.                                         *)
Ends(r, writes, statuses) ==
    \/ FinishStopped(r, writes)
    \/ ~Stopped(r) /\ \E status \in statuses : Finish(r, writes, status)

(* requireUsable settled, then both hook paths are validated.              *)
WorkspaceResolved(r) ==
    /\ Resumes(r, "workspace")
    /\ Ends(r, 0, {"blocked"}) \/ (~Stopped(r) /\ Proceed(r, 0, "capacity"))

(* reserveRuntimeCapacity settled.  With a pre-run hook: its phase is      *)
(* written and its path validated again.  Without: on to the conversation. *)
CapacityReserved(r) ==
    /\ Resumes(r, "capacity")
    /\ \/ Ends(r, 0, {"skipped", "failed"})
       \/ ~Stopped(r) /\ (Finish(r, 1, "blocked") \/ Proceed(r, 1, "preHook"))
       \/ ~Stopped(r) /\ Proceed(r, 1, "creating")

PreHookRan(r) ==
    /\ Resumes(r, "preHook")
    /\ Ends(r, 1, {"failed"}) \/ (~Stopped(r) /\ Proceed(r, 2, "creating"))

(* createJobConversation settled.  Its success is recorded and the title   *)
(* set before a stop request is looked at.                                 *)
ConversationCreated(r) ==
    /\ Resumes(r, "creating")
    /\ Ends(r, 0, {"failed"}) \/ Proceed(r, 1, "titling")

Titled(r) ==
    /\ Resumes(r, "titling")
    /\ Ends(r, 0, {"failed"}) \/ (~Stopped(r) /\ Proceed(r, 0, "prompting"))

(* runJobPrompt settled; an aborted prompt aborts the run.                 *)
Prompted(r) ==
    /\ Resumes(r, "prompting")
    /\ \/ Ends(r, 0, {"aborted", "failed", "succeeded"})
       \/ ~Stopped(r) /\ (Finish(r, 1, "blocked") \/ Proceed(r, 1, "postHook"))

PostHookRan(r) ==
    /\ Resumes(r, "postHook")
    /\ Ends(r, 1, {"failed", "succeeded"})

(* After sealPersistence every continuation returns without a write.       *)
SealedReturn(r, created) ==
    /\ Quiet
    /\ Sealed
    /\ exec[r].pc \in Working
    /\ created = (HasConversation(r) \/ (exec[r].pc = "creating" /\ created))
    /\ Left(r, created)
    /\ UNCHANGED <<clock, job, row, server, timer, turn, todo>>

(* releaseJobConversation settled; the ActiveRun leaves the maps.          *)
ReleasedWhenUp(r) ==                                  \* mutant: not once sealed
    /\ Quiet
    /\ exec[r].pc = "releasing" /\ ~Sealed
    /\ exec' = [exec EXCEPT ![r] = NoExec]
    /\ UNCHANGED <<clock, job, row, server, timer, turn, todo>>

Released(r) ==
    /\ Quiet
    /\ exec[r].pc = "releasing"
    /\ exec' = [exec EXCEPT ![r] = NoExec]
    /\ UNCHANGED <<clock, job, row, server, timer, turn, todo>>

(* abort(): an operator, or a client of the job's conversation.            *)
Abort(r) ==
    /\ Admits
    /\ r \in ActiveRuns
    /\ exec[r].stop = "none"
    /\ exec' = [exec EXCEPT ![r].stop = "abort"]
    /\ UNCHANGED <<clock, job, row, server, timer, turn, todo>>
-----------------------------------------------------------------------------
(* The process.                                                            *)

(* The clock stops at its bound, and while a row may not be left for every *)
(* job that could become due.                                              *)
Tick ==
    /\ Quiet
    /\ clock < MaxTime
    /\ Cardinality(Unused) >= Cardinality(Jobs)
    /\ clock' = clock + 1
    /\ UNCHANGED <<job, row, server, exec, timer, turn, todo>>

(* RuntimeCoordinator.beginShutdown: admission closes, every execution is  *)
(* told to stop, the active rows are interrupted (or that transaction      *)
(* fails) and persistence is sealed, in one turn.                          *)
BeginShutdown(ok) ==
    /\ Admits
    /\ server' = "closing"
    /\ timer' = Never
    /\ row' = IF ok THEN MarkAllInterrupted ELSE row
    /\ exec' = [r \in Runs |-> IF r \in ActiveRuns
                               THEN [exec[r] EXCEPT !.stop = "shutdown",
                                                    !.rev = IF r \in ActiveRows THEN row'[r].rev ELSE @]
                               ELSE exec[r]]
    /\ UNCHANGED <<clock, job, turn, todo>>

(* The process dies, or exits once shutdown completed or its deadline hit. *)
ProcessEnds ==
    /\ server # "down"
    /\ server' = "down"
    /\ exec' = [r \in Runs |-> NoExec]
    /\ timer' = Never
    /\ turn' = "none"
    /\ todo' = {}
    /\ UNCHANGED <<clock, job, row>>
-----------------------------------------------------------------------------
Edit(j) == \/ \E b \in BOOLEAN : CreateJob(j, b) \/ \E c \in BOOLEAN : UpdateJob(j, b, c)
           \/ DeleteJob(j)

Claims == (\E j \in Jobs : ClaimScheduled(j)) \/ LoopDone

Continue(r) ==
    \/ Dispatch(r)
    \/ WorkspaceResolved(r) \/ CapacityReserved(r) \/ PreHookRan(r) \/ ConversationCreated(r)
    \/ Titled(r) \/ Prompted(r) \/ PostHookRan(r) \/ Released(r)
    \/ \E created \in BOOLEAN : SealedReturn(r, created)

Next ==
    \/ \E j \in Jobs : Edit(j) \/ RunNow(j)
    \/ \E r \in Runs : Continue(r) \/ Abort(r)
    \/ Start \/ Wake \/ Claims
    \/ Tick \/ ProcessEnds
    \/ \E ok \in BOOLEAN : BeginShutdown(ok)

(* A due timer fires, synchronous code runs on, and every promise an       *)
(* execution awaits settles (hooks and disposals are bounded by timeouts,  *)
(* a prompt by Pi).  Clients, shutdown and restarts are not promised.      *)
Fairness ==
    /\ WF_vars(Wake)
    /\ WF_vars(Claims)
    /\ \A r \in Runs : WF_vars(Continue(r))

Spec == Init /\ [][Next]_vars

FairSpec == Spec /\ Fairness
-----------------------------------------------------------------------------
(* Properties.                                                             *)

(* Recovery and ownership: in a live process every running row has its     *)
(* execution in memory, suspended before its release and holding the row's *)
(* revision, so that its writes are never refused; rows left behind by a   *)
(* crash do not stay "running".                                            *)
RunningIsExecuted ==
    server = "up" => \A r \in Runs : row[r].status = "running" =>
        exec[r].pc \in Working /\ exec[r].rev = row[r].rev

(* No job ever has two executions, not even across the release of the      *)
(* first one's conversation, and no two active rows.                       *)
NoOverlap ==
    \A q, r \in Runs : q # r /\ row[q].job = row[r].job =>
        ~({q, r} \subseteq ActiveRuns) /\ ~({q, r} \subseteq ActiveRows)

(* An occurrence of a schedule is claimed at most once, whatever is edited,*)
(* skipped, missed or replayed after a crash.                              *)
OccurrenceOnce ==
    \A q, r \in Runs : /\ q # r
                       /\ row[q].job = row[r].job /\ row[q].job # NoJob
                       /\ {row[q].trigger, row[r].trigger} \subseteq {"scheduled", "catch-up"}
                       => row[q].at # row[r].at

(* A due occurrence is claimed, for as long as the process lives and the   *)
(* job stays enabled.                                                      *)
DueIsClaimed ==
    \A j \in Jobs : (server = "up" /\ j \in DueJobs) ~> (server # "up" \/ j \notin DueJobs)

(* Every execution ends and leaves the runner's maps.                      *)
ExecutionsEnd == \A r \in Runs : (exec[r].pc # "idle") ~> (exec[r].pc = "idle")

=============================================================================
