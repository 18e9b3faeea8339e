----------------------------- MODULE JobRunsProofs -----------------------------
(* The promises of scheduled jobs, for any number of jobs and runs, every  *)
(* interval and any history of edits, crashes and restarts.                *)
EXTENDS JobRuns, FiniteSetTheorems, WellFoundedInduction, TLAPS

(* What the interval arithmetic of job-schedule.ts computes, for every     *)
(* anchor, interval and instant.                                           *)

(* Rounding an elapsed time down to whole intervals.                       *)
LEMMA Periods ==
  ASSUME NEW e \in Nat, NEW d \in Nat \ {0}
  PROVE  /\ e \div d \in Nat
         /\ (e \div d) * d <= e
         /\ e < (e \div d + 1) * d
  <1>1. e \div d \in Int /\ e % d \in 0..(d - 1) /\ e = d * (e \div d) + (e % d)
    OBVIOUS
  <1> DEFINE q == e \div d
  <1>2. q \in Int /\ d * q <= e /\ e < d * q + d
    BY <1>1
  <1> QED BY <1>2

(* Multiplication by a positive number.                                    *)
LEMMA NonNegativeProduct == \A m, d \in Nat : m * d \in Nat
  OBVIOUS

(* ... is monotone.                                                        *)
LEMMA ProductMonotone ==
  ASSUME NEW a \in Int, NEW b \in Int, NEW d \in Nat \ {0}
  PROVE  a <= b <=> a * d <= b * d
  OBVIOUS

(* The next occurrence is strictly after the instant asked about and on    *)
(* the grid of the anchor, and no occurrence lies between: a run's         *)
(* duration never shifts later occurrences, and none is skipped.           *)
THEOREM FirstOccurrenceCorrect ==
  ASSUME NEW anchorAt \in Nat, NEW duration \in Nat \ {0}, NEW after \in Nat
  PROVE  LET next == FirstJobOccurrenceAfter(anchorAt, duration, after)
         IN /\ next \in Nat /\ next > after
            /\ \E k \in Nat : next = anchorAt + k * duration
            /\ \A k \in Nat : anchorAt + k * duration > after => next <= anchorAt + k * duration
  <1> DEFINE next == FirstJobOccurrenceAfter(anchorAt, duration, after)
  <1>1. CASE after < anchorAt
    <2>1. next = anchorAt
      BY <1>1 DEF FirstJobOccurrenceAfter
    <2>2. next = anchorAt + 0 * duration
      BY <2>1
    <2>3. \A k \in Nat : k * duration \in Nat
      BY NonNegativeProduct
    <2> QED BY <1>1, <2>1, <2>2, <2>3
  <1>2. CASE after >= anchorAt
    <2> DEFINE elapsed == after - anchorAt
    <2> DEFINE n == elapsed \div duration + 1
    <2>1. elapsed \in Nat /\ after = anchorAt + elapsed
      BY <1>2
    <2>2. n \in Nat /\ (n - 1) * duration <= elapsed /\ elapsed < n * duration
      BY <2>1, Periods
    <2>3. next = anchorAt + n * duration
      BY <1>2 DEF FirstJobOccurrenceAfter
    <2> HIDE DEF n, elapsed, next
    <2>4. n * duration \in Nat
      BY <2>2, NonNegativeProduct
    <2>5. next \in Nat /\ next > after
      BY <2>1, <2>2, <2>3, <2>4
    <2>6. ASSUME NEW k \in Nat, anchorAt + k * duration > after
          PROVE  next <= anchorAt + k * duration
      <3>1. k * duration > (n - 1) * duration /\ k * duration \in Nat
        BY <2>1, <2>2, <2>6, NonNegativeProduct
      <3>2. k > n - 1
        BY <2>2, <3>1, ProductMonotone
      <3>3. n * duration <= k * duration
        BY <2>2, <3>2, ProductMonotone
      <3> QED BY <2>3, <2>4, <3>1, <3>3
    <2> QED BY <2>2, <2>3, <2>5, <2>6 DEF next
  <1> QED BY <1>1, <1>2

(* A claim moves the persisted occurrence past itself and past the current *)
(* time, so one claim covers every occurrence missed until now.            *)
THEOREM AdvancePassesBoth ==
  ASSUME NEW anchorAt \in Nat, NEW duration \in Nat \ {0}, NEW persisted \in Nat, NEW now \in Nat
  PROVE  LET next == AdvanceJobOccurrence(anchorAt, duration, persisted, now)
         IN next \in Nat /\ next > persisted /\ next > now
  <1> DEFINE after == IF persisted > now THEN persisted ELSE now
  <1>1. after \in Nat /\ after >= persisted /\ after >= now
    OBVIOUS
  <1>2. AdvanceJobOccurrence(anchorAt, duration, persisted, now)
           = FirstJobOccurrenceAfter(anchorAt, duration, after)
    BY DEF AdvanceJobOccurrence
  <1> HIDE DEF after
  <1>3. LET next == FirstJobOccurrenceAfter(anchorAt, duration, after)
        IN next \in Nat /\ next > after
    BY <1>1, FirstOccurrenceCorrect
  <1> QED BY <1>1, <1>2, <1>3
-----------------------------------------------------------------------------
(* The inductive invariant.                                                *)

JobRows == [state : {"absent", "present", "deleted"}, enabled : BOOLEAN, next : Nat \cup {Never}, anchor : Nat]

RunRows == [job : Jobs \cup {NoJob}, trigger : {"none", "manual", "scheduled", "catch-up"}, at : Nat,
            status : {"none", "deleted"} \cup ActiveStatuses \cup TerminalStatuses, rev : Nat]

Executions == [pc : PCs, stop : {"none", "abort", "shutdown"}, rev : Nat]

(* Process memory starts empty: nothing is executed while the server is    *)
(* down, and a list of jobs to claim exists only inside the claim loop.    *)
MemoryEmpty ==
    /\ server = "down" => turn = "none" /\ \A r \in Runs : exec[r].pc = "idle"
    /\ turn = "none" => todo = {}

(* A run that is to be dispatched is queued, until shutdown seals it.      *)
DispatchQueued ==
    server = "up" => \A r \in Runs : exec[r].pc \in {"claimed", "pending"} => row[r].status = "queued"

(* Only an enabled job has a next occurrence; what the loop has listed and *)
(* not yet claimed is still due.                                           *)
NextPlanned ==
    /\ \A j \in Jobs : job[j].enabled => job[j].next \in Nat
    /\ todo \subseteq DueJobs

(* An occurrence that was claimed lies in the past, and before the next    *)
(* one the schedule will claim.                                            *)
ClaimsPassed ==
    \A r \in Runs : row[r].trigger \in {"scheduled", "catch-up"} =>
        /\ row[r].at <= clock
        /\ \A j \in Jobs : j = row[r].job /\ job[j].enabled => row[r].at < job[j].next

(* A row, of no job yet, is left for every job that is due.                *)
RowsSuffice ==
    /\ Cardinality(DueJobs) <= Cardinality(Unused)
    /\ \A r \in Unused : row[r].job = NoJob

JobsInv ==
    /\ TypeOK /\ MemoryEmpty /\ DispatchQueued /\ RunningIsExecuted /\ NoOverlap
    /\ NextPlanned /\ ClaimsPassed /\ OccurrenceOnce /\ RowsSuffice
-----------------------------------------------------------------------------
(* A non-empty set of naturals has a least element, so the timer is armed  *)
(* for an instant whenever a job is enabled.                               *)
LEMMA LeastNatural ==
  ASSUME NEW T \in SUBSET Nat, T # {}
  PROVE  \E x \in T : \A y \in T : x <= y
  <1>1. PICK x \in T : \A y \in T : ~ (<<y, x>> \in OpToRel(<, Nat))
    BY NatLessThanWellFounded, WFMin
  <1>2. \A y \in T : ~ (y < x)
    BY <1>1 DEF OpToRel
  <1> QED BY <1>2

(* While some job is enabled, the nearest occurrence is an instant.        *)
LEMMA NearestTyped ==
  ASSUME NEW jobs, \A j \in Jobs : jobs[j].enabled => jobs[j].next \in Nat,
         NEW k \in Jobs, jobs[k].enabled
  PROVE  Nearest(jobs) \in Nat
  <1> DEFINE T == {jobs[j].next : j \in {i \in Jobs : jobs[i].enabled}}
  <1>1. T \in SUBSET Nat /\ T # {}
    OBVIOUS
  <1>2. PICK x \in T : \A y \in T : x <= y
    BY <1>1, LeastNatural
  <1>3. \A j \in Jobs : jobs[j].enabled => x <= jobs[j].next
    BY <1>2
  <1>4. Nearest(jobs) \in T
    BY <1>2, <1>3 DEF Nearest
  <1> QED BY <1>1, <1>4

(* The timer is armed for an instant or not at all.                        *)
LEMMA ArmTyped ==
  ASSUME clock \in Nat, NEW jobs, \A j \in Jobs : jobs[j].enabled => jobs[j].next \in Nat, Arm(jobs)
  PROVE  timer' \in Nat \cup {Never}
  <1>1. CASE \A j \in Jobs : ~jobs[j].enabled
    BY <1>1 DEF Arm
  <1>2. CASE \E j \in Jobs : jobs[j].enabled
    <2>1. Nearest(jobs) \in Nat
      BY <1>2, NearestTyped
    <2> HIDE DEF Nearest
    <2> QED BY <2>1, <1>2, MaxTimerAssumption DEF Arm
  <1> QED BY <1>1, <1>2
-----------------------------------------------------------------------------
(* Steps that neither insert rows nor edit jobs keep the schedule's facts. *)
RowsKept ==
    \A q \in Runs : /\ row'[q].job = row[q].job /\ row'[q].trigger = row[q].trigger
                    /\ row'[q].at = row[q].at
                    /\ row'[q].status = "none" <=> row[q].status = "none"

Planned == NextPlanned /\ ClaimsPassed /\ OccurrenceOnce /\ RowsSuffice

(* A step that moves no occurrence and keeps what the rows claim keeps the *)
(* plan.                                                                   *)
LEMMA PlanKept ==
  ASSUME Planned, UNCHANGED <<clock, job>>, todo' \subseteq DueJobs, RowsKept
  PROVE  Planned'
  <1> USE DEF Planned, RowsKept
  <1>1. DueJobs' = DueJobs /\ Unused' = Unused
    BY DEF DueJobs, Unused
  <1>2. NextPlanned'
    BY <1>1 DEF NextPlanned
  <1>3. ClaimsPassed'
    BY DEF ClaimsPassed
  <1>4. OccurrenceOnce'
    BY DEF OccurrenceOnce
  <1>5. RowsSuffice'
    BY <1>1 DEF RowsSuffice, Unused
  <1> QED BY <1>2, <1>3, <1>4, <1>5

Executed == MemoryEmpty /\ DispatchQueued /\ RunningIsExecuted /\ NoOverlap

(* run() starts a queued row, or refuses it.                               *)
LEMMA DispatchKeeps ==
  ASSUME JobsInv, NEW r \in Runs, Dispatch(r)
  PROVE  TypeOK' /\ Executed' /\ RowsKept /\ todo' \subseteq DueJobs
  <1> USE DEF JobsInv
  <1>1. server # "down" /\ exec[r].pc \in {"claimed", "pending"}
    BY DEF Dispatch, MemoryEmpty
  <1>2. CASE Sealed \/ ActiveByJob(row[r].job)
    <2>1. exec' = [exec EXCEPT ![r] = NoExec] /\ UNCHANGED <<row, clock, job, server, timer, turn, todo>>
      BY <1>2 DEF Dispatch
    <2>2. TypeOK'
      BY <2>1 DEF TypeOK, NoExec, PCs
    <2>3. Executed'
      BY <1>1, <2>1 DEF Executed, TypeOK, MemoryEmpty, DispatchQueued, RunningIsExecuted, NoOverlap, NoExec,
           ActiveRuns, ActiveRows, Working
    <2> QED BY <2>1, <2>2, <2>3 DEF RowsKept, NextPlanned
  <1>3. CASE ~Sealed /\ ~ActiveByJob(row[r].job)
    <2>1. /\ row' = [row EXCEPT ![r].status = "running", ![r].rev = @ + 1]
          /\ exec' = [exec EXCEPT ![r] = [pc |-> "workspace", stop |-> "none", rev |-> row[r].rev + 1]]
          /\ UNCHANGED <<clock, job, server, timer, turn, todo>>
          /\ server = "up" /\ row[r].status = "queued"
      BY <1>1, <1>3 DEF Dispatch, Sealed, DispatchQueued, TypeOK
    <2>2. TypeOK'
      BY <2>1 DEF TypeOK, PCs, Working, ActiveStatuses
    <2>3. /\ \A q \in Runs \ {r} : row'[q] = row[q] /\ exec'[q] = exec[q]
          /\ row'[r].status = "running" /\ row'[r].rev = row[r].rev + 1 /\ row'[r].job = row[r].job
          /\ row'[r].trigger = row[r].trigger /\ row'[r].at = row[r].at
          /\ exec'[r].pc = "workspace" /\ exec'[r].rev = row[r].rev + 1
      BY <2>1 DEF TypeOK
    <2>4. MemoryEmpty' /\ DispatchQueued' /\ RunningIsExecuted'
      <3>1. MemoryEmpty'
        BY <2>1 DEF MemoryEmpty
      <3>2. DispatchQueued'
        BY <2>1, <2>3 DEF DispatchQueued
      <3>3. exec'[r].pc \in Working /\ exec'[r].rev = row'[r].rev
        BY <2>3 DEF Working
      <3>4. RunningIsExecuted'
        BY <2>1, <2>3, <3>3 DEF RunningIsExecuted
      <3> QED BY <3>1, <3>2, <3>4
    <2>5. NoOverlap'
      <3>1. \A q \in Runs \ {r} : row'[q].job = row'[r].job => q \notin ActiveRuns'
        BY <1>3, <2>3 DEF ActiveByJob, ActiveRuns
      <3>2. ActiveRows' = ActiveRows
        BY <2>1, <2>3 DEF ActiveRows, ActiveStatuses
      <3>3. \A q \in Runs \ {r} : q \in ActiveRuns' <=> q \in ActiveRuns
        BY <2>3 DEF ActiveRuns
      <3> QED BY <2>3, <3>1, <3>2, <3>3 DEF NoOverlap
    <2> QED BY <2>1, <2>2, <2>3, <2>4, <2>5 DEF Executed, RowsKept, NextPlanned
  <1> QED BY <1>2, <1>3

(* What every later step of an execution has in common: it is the one that *)
(* moves, a row it leaves running stays its own, and a row it ends stays   *)
(* ended.                                                                  *)
LEMMA ExecutionStep ==
  ASSUME JobsInv, NEW r \in Runs, exec[r].pc \in Working \cup {"releasing"},
         UNCHANGED <<clock, job, server, turn, todo>>,
         \A q \in Runs \ {r} : row'[q] = row[q] /\ exec'[q] = exec[q],
         row'[r].job = row[r].job, row'[r].trigger = row[r].trigger, row'[r].at = row[r].at,
         \/ row'[r].status = row[r].status
         \/ row[r].status = "running" /\ row'[r].status \in TerminalStatuses,
         exec'[r].pc \in Working \cup {"releasing", "idle"},
         server = "up" /\ row'[r].status = "running" => exec'[r].pc \in Working /\ exec'[r].rev = row'[r].rev
  PROVE  Executed' /\ RowsKept /\ todo' \subseteq DueJobs
  <1> USE DEF JobsInv
  <1>1. MemoryEmpty'
    BY DEF MemoryEmpty, Working
  <1>2. DispatchQueued'
    BY DEF DispatchQueued, Working, TerminalStatuses
  <1>3. RunningIsExecuted'
    BY DEF RunningIsExecuted
  <1>4. NoOverlap'
    <2>1. ActiveRuns' \subseteq ActiveRuns
      BY DEF ActiveRuns
    <2>2. ActiveRows' \subseteq ActiveRows
      BY DEF ActiveRows, ActiveStatuses, TerminalStatuses
    <2>3. \A q \in Runs : row'[q].job = row[q].job
      OBVIOUS
    <2> QED BY <2>1, <2>2, <2>3 DEF NoOverlap
  <1>5. RowsKept
    BY DEF RowsKept, TerminalStatuses
  <1> QED BY <1>1, <1>2, <1>3, <1>4, <1>5 DEF Executed, NextPlanned

(* The finally block: whether or not there is a conversation to release,   *)
(* the execution leaves its row behind.                                    *)
LEMMA LeftBehind ==
  ASSUME TypeOK, NEW r \in Runs, NEW created \in BOOLEAN, Left(r, created)
  PROVE  /\ exec' \in [Runs -> Executions]
         /\ \A q \in Runs \ {r} : exec'[q] = exec[q]
         /\ exec'[r].pc \in {"releasing", "idle"}
  <1>1. CASE created
    BY <1>1 DEF Left, TypeOK, PCs, Executions
  <1>2. CASE ~created
    BY <1>2 DEF Left, TypeOK, PCs, NoExec, Executions
  <1> QED BY <1>1, <1>2

(* A continuation finds its row running, or already ended by shutdown.     *)
LEMMA ProceedKeeps ==
  ASSUME JobsInv, NEW r \in Runs, exec[r].pc \in Working, ~Sealed,
         UNCHANGED <<clock, job, server, timer, turn, todo>>,
         NEW writes \in Nat, NEW pc \in Working, Proceed(r, writes, pc)
  PROVE  TypeOK' /\ Executed' /\ RowsKept /\ todo' \subseteq DueJobs
  <1> USE DEF JobsInv
  <1>1. server = "up"
    BY DEF TypeOK, Sealed, MemoryEmpty, Working
  <1>2. row[r].status = "running" => row[r].rev = exec[r].rev
    BY <1>1 DEF RunningIsExecuted
  <1>3. CASE writes = 0 \/ Writable(r)
    <2>1. /\ row' = [row EXCEPT ![r].rev = @ + writes]
          /\ exec' = [exec EXCEPT ![r].pc = pc, ![r].rev = @ + writes]
      BY <1>3 DEF Proceed
    <2>2. TypeOK'
      <3> DEFINE n == row[r].rev + writes
                 m == exec[r].rev + writes
      <3>1. n \in Nat /\ m \in Nat
        BY DEF TypeOK
      <3>2. row' = [row EXCEPT ![r].rev = n] /\ exec' = [exec EXCEPT ![r].pc = pc, ![r].rev = m]
        BY <2>1
      <3> HIDE DEF n, m
      <3>3. pc \in PCs
        BY DEF PCs
      <3>4. exec' \in [Runs -> Executions]
        BY <3>1, <3>2, <3>3 DEF TypeOK, Executions
      <3>5. row' \in [Runs -> RunRows]
        BY <3>1, <3>2 DEF TypeOK, RunRows
      <3> QED BY <3>4, <3>5 DEF TypeOK, RunRows, Executions
    <2>3. /\ \A q \in Runs \ {r} : row'[q] = row[q] /\ exec'[q] = exec[q]
          /\ row'[r].job = row[r].job /\ row'[r].trigger = row[r].trigger /\ row'[r].at = row[r].at
          /\ row'[r].status = row[r].status /\ row'[r].rev = row[r].rev + writes
          /\ exec'[r].pc = pc /\ exec'[r].rev = exec[r].rev + writes
      BY <2>1 DEF TypeOK
    <2>4. exec'[r].pc \in Working
      BY <2>3
    <2>5. row'[r].status = "running" => exec'[r].rev = row'[r].rev
      BY <1>2, <2>3
    <2> QED BY <2>2, <2>3, <2>4, <2>5, ExecutionStep
  <1>4. CASE ~(writes = 0 \/ Writable(r))
    <2>1. Left(r, HasConversation(r) \/ pc = "titling") /\ UNCHANGED row
      BY <1>4 DEF Proceed
    <2>2. row[r].status # "running"
      BY <1>2, <1>4 DEF Writable
    <2>3. (HasConversation(r) \/ pc = "titling") \in BOOLEAN
      BY DEF HasConversation
    <2>4. /\ exec' \in [Runs -> Executions]
          /\ \A q \in Runs \ {r} : exec'[q] = exec[q]
          /\ exec'[r].pc \in {"releasing", "idle"}
      BY <2>1, <2>3, LeftBehind
    <2>5. TypeOK'
      BY <2>1, <2>4 DEF TypeOK, Executions
    <2> QED BY <2>1, <2>2, <2>4, <2>5, ExecutionStep
  <1> QED BY <1>3, <1>4

(* #finish of a working execution, unsealed, is accepted by the repository *)
(* and ends the row.                                                       *)
LEMMA FinishKeeps ==
  ASSUME JobsInv, NEW r \in Runs, exec[r].pc \in Working, ~Sealed,
         UNCHANGED <<clock, job, server, timer, turn, todo>>,
         NEW writes \in Nat, NEW status \in TerminalStatuses, Finish(r, writes, status)
  PROVE  TypeOK' /\ Executed' /\ RowsKept /\ todo' \subseteq DueJobs
  <1> USE DEF JobsInv
  <1>1. server = "up"
    BY DEF TypeOK, Sealed, MemoryEmpty, Working
  <1>2. row[r].status = "running" => Writable(r)
    BY <1>1 DEF RunningIsExecuted, Writable
  <1>3. Left(r, HasConversation(r)) /\ HasConversation(r) \in BOOLEAN
    BY DEF Finish, HasConversation
  <1>4. /\ exec' \in [Runs -> Executions]
        /\ \A q \in Runs \ {r} : exec'[q] = exec[q]
        /\ exec'[r].pc \in {"releasing", "idle"}
    BY <1>3, LeftBehind
  <1>5. CASE Writable(r)
    <2>1. row' = [row EXCEPT ![r].status = status, ![r].rev = @ + writes + 1]
      BY <1>5 DEF Finish
    <2>2. TypeOK'
      BY <1>4, <2>1 DEF TypeOK, Executions
    <2>3. /\ \A q \in Runs \ {r} : row'[q] = row[q]
          /\ row'[r].job = row[r].job /\ row'[r].trigger = row[r].trigger /\ row'[r].at = row[r].at
          /\ row'[r].status = status /\ row[r].status = "running" /\ status # "running"
      BY <1>5, <2>1 DEF TypeOK, Writable, TerminalStatuses
    <2> QED BY <1>4, <2>2, <2>3, ExecutionStep
  <1>6. CASE ~Writable(r)
    <2>1. row' = row
      BY <1>6 DEF Finish
    <2>2. TypeOK'
      BY <1>4, <2>1 DEF TypeOK, Executions
    <2> QED BY <1>2, <1>4, <1>6, <2>1, <2>2, ExecutionStep
  <1> QED BY <1>5, <1>6

(* Every settled await goes on to the next one or finishes the run.        *)
LEMMA ContinuationShape ==
  ASSUME NEW r \in Runs,
         \/ WorkspaceResolved(r) \/ CapacityReserved(r) \/ PreHookRan(r) \/ ConversationCreated(r)
         \/ Titled(r) \/ Prompted(r) \/ PostHookRan(r)
  PROVE  /\ exec[r].pc \in Working /\ ~Sealed
         /\ UNCHANGED <<clock, job, server, timer, turn, todo>>
         /\ \E writes \in {0, 1, 2} : \/ \E pc \in Working : Proceed(r, writes, pc)
                                      \/ \E status \in TerminalStatuses : Finish(r, writes, status)
  <1>1. ASSUME NEW writes \in {0, 1, 2}, NEW statuses \in SUBSET TerminalStatuses, Ends(r, writes, statuses)
        PROVE  \E status \in TerminalStatuses : Finish(r, writes, status)
    <2>1. "interrupted" \in TerminalStatuses /\ "aborted" \in TerminalStatuses
      BY DEF TerminalStatuses
    <2> QED BY <1>1, <2>1 DEF Ends, FinishStopped
  <1>2. \A s \in {"blocked", "skipped", "failed", "aborted", "succeeded"} : s \in TerminalStatuses
    BY DEF TerminalStatuses
  <1>3. \A pc \in {"workspace", "capacity", "preHook", "creating", "titling", "prompting", "postHook"} :
            pc \in Working
    BY DEF Working
  <1>4. CASE WorkspaceResolved(r)
    BY <1>1, <1>2, <1>3, <1>4 DEF WorkspaceResolved, Resumes
  <1>5. CASE CapacityReserved(r)
    BY <1>1, <1>2, <1>3, <1>5 DEF CapacityReserved, Resumes
  <1>6. CASE PreHookRan(r)
    BY <1>1, <1>2, <1>3, <1>6 DEF PreHookRan, Resumes
  <1>7. CASE ConversationCreated(r)
    BY <1>1, <1>2, <1>3, <1>7 DEF ConversationCreated, Resumes
  <1>8. CASE Titled(r)
    BY <1>1, <1>2, <1>3, <1>8 DEF Titled, Resumes
  <1>9. CASE Prompted(r)
    BY <1>1, <1>2, <1>3, <1>9 DEF Prompted, Resumes
  <1>10. CASE PostHookRan(r)
    BY <1>1, <1>2, <1>3, <1>10 DEF PostHookRan, Resumes
  <1> QED BY <1>4, <1>5, <1>6, <1>7, <1>8, <1>9, <1>10

(* Every continuation of #execute keeps the invariant, whatever ran while  *)
(* it was suspended.                                                       *)
LEMMA ContinuationKeeps ==
  ASSUME JobsInv, NEW r \in Runs, Continue(r)
  PROVE  TypeOK' /\ Executed' /\ Planned'
  <1> DEFINE Kept == TypeOK' /\ Executed' /\ RowsKept /\ todo' \subseteq DueJobs
  <1>1. CASE Dispatch(r)
    <2>1. Kept /\ UNCHANGED <<clock, job>>
      BY <1>1, DispatchKeeps DEF Dispatch
    <2> QED BY <2>1, PlanKept DEF JobsInv, Planned
  <1>2. CASE \/ WorkspaceResolved(r) \/ CapacityReserved(r) \/ PreHookRan(r) \/ ConversationCreated(r)
             \/ Titled(r) \/ Prompted(r) \/ PostHookRan(r)
    <2>1. /\ exec[r].pc \in Working /\ ~Sealed
          /\ UNCHANGED <<clock, job, server, timer, turn, todo>>
          /\ \E writes \in {0, 1, 2} : \/ \E pc \in Working : Proceed(r, writes, pc)
                                       \/ \E status \in TerminalStatuses : Finish(r, writes, status)
      BY <1>2, ContinuationShape
    <2>2. PICK writes \in {0, 1, 2} : \/ \E pc \in Working : Proceed(r, writes, pc)
                                      \/ \E status \in TerminalStatuses : Finish(r, writes, status)
      BY <2>1
    <2>3. writes \in Nat
      OBVIOUS
    <2>4. CASE \E pc \in Working : Proceed(r, writes, pc)
      <3>1. Kept
        BY <2>1, <2>3, <2>4, ProceedKeeps
      <3> QED BY <2>1, <3>1, PlanKept DEF JobsInv, Planned
    <2>5. CASE \E status \in TerminalStatuses : Finish(r, writes, status)
      <3>1. Kept
        BY <2>1, <2>3, <2>5, FinishKeeps
      <3> QED BY <2>1, <3>1, PlanKept DEF JobsInv, Planned
    <2> QED BY <2>2, <2>4, <2>5
  <1>3. CASE Released(r)
    <2>1. exec' = [exec EXCEPT ![r] = NoExec] /\ UNCHANGED <<row, clock, job, server, timer, turn, todo>>
      BY <1>3 DEF Released
    <2>2. TypeOK'
      BY <2>1 DEF JobsInv, TypeOK, NoExec, PCs
    <2>3. exec'[r].pc = "idle" /\ \A q \in Runs \ {r} : exec'[q] = exec[q]
      BY <2>1 DEF JobsInv, TypeOK, NoExec
    <2>4. exec[r].pc = "releasing" /\ (server = "up" => row[r].status # "running")
      BY <1>3 DEF Released, JobsInv, RunningIsExecuted, Working
    <2>5. Kept
      BY <2>1, <2>2, <2>3, <2>4, ExecutionStep
    <2> QED BY <2>1, <2>5, PlanKept DEF JobsInv, Planned
  <1>4. CASE \E created \in BOOLEAN : SealedReturn(r, created)
    <2>1. PICK created \in BOOLEAN : SealedReturn(r, created)
      BY <1>4
    <2>2. /\ exec[r].pc \in Working /\ server = "closing" /\ Left(r, created)
          /\ UNCHANGED <<row, clock, job, server, timer, turn, todo>>
      BY <2>1 DEF SealedReturn, Sealed
    <2>3. /\ exec' \in [Runs -> Executions]
          /\ \A q \in Runs \ {r} : exec'[q] = exec[q]
          /\ exec'[r].pc \in {"releasing", "idle"}
      BY <2>2, LeftBehind DEF JobsInv
    <2>4. TypeOK'
      BY <2>2, <2>3 DEF JobsInv, TypeOK, Executions
    <2>5. Kept
      BY <2>2, <2>3, <2>4, ExecutionStep
    <2> QED BY <2>2, <2>5, PlanKept DEF JobsInv, Planned
  <1> QED BY <1>1, <1>2, <1>3, <1>4 DEF Continue

(* An abort only records the stop reason of an execution.                  *)
LEMMA AbortKeeps ==
  ASSUME JobsInv, NEW r \in Runs, Abort(r)
  PROVE  TypeOK' /\ Executed' /\ Planned'
  <1>1. exec' = [exec EXCEPT ![r].stop = "abort"] /\ UNCHANGED <<row, clock, job, server, timer, turn, todo>>
    BY DEF Abort
  <1>2. TypeOK'
    BY <1>1 DEF JobsInv, TypeOK
  <1>3. /\ exec'[r].pc = exec[r].pc /\ exec'[r].rev = exec[r].rev
        /\ \A q \in Runs \ {r} : exec'[q] = exec[q]
    BY <1>1 DEF JobsInv, TypeOK
  <1>4. exec[r].pc \in Working \cup {"releasing"}
    BY DEF Abort, ActiveRuns
  <1>5. server = "up" /\ row[r].status = "running" => exec[r].pc \in Working /\ exec[r].rev = row[r].rev
    BY DEF JobsInv, RunningIsExecuted
  <1>6. Executed' /\ RowsKept /\ todo' \subseteq DueJobs
    BY <1>1, <1>3, <1>4, <1>5, ExecutionStep
  <1> QED BY <1>1, <1>2, <1>6, PlanKept DEF JobsInv, Planned
-----------------------------------------------------------------------------
(* The scheduler and the process.                                          *)

(* Interrupting the active rows leaves no row active and keeps the rest.   *)
LEMMA AllInterrupted ==
  ASSUME TypeOK, row' = MarkAllInterrupted
  PROVE  /\ row' \in [Runs -> RunRows] /\ RowsKept
         /\ \A q \in Runs : row'[q].status \notin ActiveStatuses
  <1>1. ASSUME NEW q \in Runs
        PROVE  /\ row'[q] \in RunRows /\ row'[q].status \notin ActiveStatuses
               /\ row'[q].job = row[q].job /\ row'[q].trigger = row[q].trigger /\ row'[q].at = row[q].at
               /\ row'[q].status = "none" <=> row[q].status = "none"
    <2>1. CASE q \in ActiveRows
      <3> DEFINE n == row[q].rev + 1
      <3>1. n \in Nat /\ row[q] \in RunRows
        BY DEF TypeOK, RunRows
      <3>2. row'[q] = [row[q] EXCEPT !.status = "interrupted", !.rev = n]
        BY <2>1 DEF MarkAllInterrupted
      <3> HIDE DEF n
      <3> QED BY <2>1, <3>1, <3>2 DEF RunRows, ActiveRows, ActiveStatuses, TerminalStatuses
    <2>2. CASE q \notin ActiveRows
      BY <2>2 DEF MarkAllInterrupted, TypeOK, RunRows, ActiveRows
    <2> QED BY <2>1, <2>2
  <1>2. row' \in [Runs -> RunRows]
    BY <1>1 DEF MarkAllInterrupted
  <1> QED BY <1>1, <1>2 DEF RowsKept

(* Recovery interrupts every row that an earlier process left active.      *)
LEMMA StartKeeps ==
  ASSUME JobsInv, Start
  PROVE  TypeOK' /\ Executed' /\ Planned'
  <1> USE DEF JobsInv
  <1>1. /\ row' \in [Runs -> RunRows] /\ RowsKept
        /\ \A q \in Runs : row'[q].status \notin ActiveStatuses
    BY AllInterrupted DEF Start
  <1>2. TypeOK'
    BY <1>1 DEF Start, TypeOK, RunRows, DueJobs
  <1>3. Executed'
    <2>1. MemoryEmpty'
      BY DEF Start, MemoryEmpty
    <2>2. DispatchQueued'
      BY DEF Start, MemoryEmpty, DispatchQueued
    <2>3. RunningIsExecuted'
      BY <1>1 DEF RunningIsExecuted, ActiveStatuses
    <2>4. ActiveRows' = {} /\ ActiveRuns' = {}
      BY <1>1 DEF Start, ActiveRows, ActiveRuns, MemoryEmpty, Working
    <2>5. NoOverlap'
      BY <2>4 DEF NoOverlap
    <2> QED BY <2>1, <2>2, <2>3, <2>5 DEF Executed
  <1> QED BY <1>1, <1>2, <1>3, PlanKept DEF Start, Planned

(* A wake-up reads the due jobs before it claims any.                      *)
LEMMA WakeKeeps ==
  ASSUME JobsInv, Wake
  PROVE  TypeOK' /\ Executed' /\ Planned'
  <1> USE DEF JobsInv
  <1>1. /\ UNCHANGED <<clock, job, row, server, exec>> /\ todo' = DueJobs /\ turn' = "scheduled" /\ timer' = Never
        /\ server = "up"
    BY DEF Wake, Admits
  <1>2. TypeOK'
    BY <1>1 DEF TypeOK, DueJobs
  <1>3. Executed'
    BY <1>1 DEF Executed, MemoryEmpty, DispatchQueued, RunningIsExecuted, NoOverlap, ActiveRows, ActiveRuns
  <1>4. RowsKept
    BY <1>1 DEF RowsKept
  <1> QED BY <1>1, <1>2, <1>3, <1>4, PlanKept DEF Planned

(* The end of the claims arms the timer for the jobs as they then are.     *)
LEMMA LoopDoneKeeps ==
  ASSUME JobsInv, LoopDone
  PROVE  TypeOK' /\ Executed' /\ Planned'
  <1> USE DEF JobsInv
  <1>1. UNCHANGED <<clock, job, row, server, exec, todo>> /\ todo = {} /\ turn' = "none"
    BY DEF LoopDone
  <1>2. timer' \in Nat \cup {Never}
    BY ArmTyped DEF LoopDone, TypeOK, NextPlanned
  <1>3. TypeOK'
    BY <1>1, <1>2 DEF TypeOK
  <1>4. Executed'
    BY <1>1 DEF Executed, MemoryEmpty, DispatchQueued, RunningIsExecuted, NoOverlap, ActiveRows, ActiveRuns
  <1>5. RowsKept
    BY <1>1 DEF RowsKept
  <1> QED BY <1>1, <1>3, <1>4, <1>5, PlanKept DEF Planned

(* beginShutdown keeps the invariant whether or not its transaction        *)
(* succeeds.                                                               *)
LEMMA ShutdownKeeps ==
  ASSUME JobsInv, NEW ok \in BOOLEAN, BeginShutdown(ok)
  PROVE  TypeOK' /\ Executed' /\ Planned'
  <1> USE DEF JobsInv
  <1>1. /\ UNCHANGED <<clock, job, turn, todo>> /\ server' = "closing" /\ timer' = Never
        /\ turn = "none" /\ todo = {}
    BY DEF BeginShutdown, Admits, Quiet, MemoryEmpty
  <1>2. row' \in [Runs -> RunRows] /\ RowsKept /\ ActiveRows' \subseteq ActiveRows
    <2>1. CASE ok
      BY <2>1, AllInterrupted DEF BeginShutdown, ActiveRows
    <2>2. CASE ~ok
      BY <2>2 DEF BeginShutdown, TypeOK, RunRows, RowsKept, ActiveRows
    <2> QED BY <2>1, <2>2
  <1>3. ASSUME NEW q \in Runs
        PROVE  exec'[q] \in Executions /\ exec'[q].pc = exec[q].pc
    <2> DEFINE n == IF q \in ActiveRows THEN row'[q].rev ELSE exec[q].rev
    <2>1. n \in Nat /\ exec[q] \in Executions
      BY <1>2 DEF TypeOK, RunRows, Executions
    <2>2. exec'[q] = IF q \in ActiveRuns THEN [exec[q] EXCEPT !.stop = "shutdown", !.rev = n] ELSE exec[q]
      BY DEF BeginShutdown
    <2> HIDE DEF n
    <2> QED BY <2>1, <2>2 DEF Executions
  <1>4. exec' \in [Runs -> Executions]
    BY <1>3 DEF BeginShutdown
  <1>5. TypeOK'
    BY <1>1, <1>2, <1>4 DEF TypeOK, RunRows, Executions
  <1>6. Executed'
    <2>1. ActiveRuns' = ActiveRuns
      BY <1>3 DEF ActiveRuns
    <2>2. NoOverlap'
      BY <1>2, <2>1 DEF NoOverlap, RowsKept
    <2> QED BY <1>1, <2>2 DEF Executed, MemoryEmpty, DispatchQueued, RunningIsExecuted
  <1> QED BY <1>1, <1>2, <1>5, <1>6, PlanKept DEF Planned

(* The end of the process leaves the tables and nothing else.              *)
LEMMA EndKeeps ==
  ASSUME JobsInv, ProcessEnds
  PROVE  TypeOK' /\ Executed' /\ Planned'
  <1> USE DEF JobsInv
  <1>1. /\ UNCHANGED <<clock, job, row>> /\ server' = "down" /\ exec' = [r \in Runs |-> NoExec]
        /\ timer' = Never /\ turn' = "none" /\ todo' = {}
    BY DEF ProcessEnds
  <1>2. TypeOK'
    BY <1>1 DEF TypeOK, NoExec, PCs
  <1>3. Executed'
    BY <1>1 DEF Executed, MemoryEmpty, DispatchQueued, RunningIsExecuted, NoOverlap, ActiveRows, ActiveRuns,
         NoExec, Working
  <1>4. RowsKept
    BY <1>1 DEF RowsKept
  <1> QED BY <1>1, <1>2, <1>3, <1>4, PlanKept DEF Planned
-----------------------------------------------------------------------------
(* The clock and the definitions of jobs.                                  *)

(* A subset of a finite set is finite and no larger.                       *)
LEMMA CardinalitiesOrdered ==
  ASSUME NEW S, NEW T, IsFiniteSet(T), S \subseteq T
  PROVE  IsFiniteSet(S) /\ Cardinality(S) \in Nat /\ Cardinality(T) \in Nat /\ Cardinality(S) <= Cardinality(T)
  BY FS_Subset, FS_CardinalityType

(* Time may pass an occurrence: the job is then due and not yet claimed.   *)
LEMMA TickKeeps ==
  ASSUME JobsInv, Tick
  PROVE  TypeOK' /\ Executed' /\ Planned'
  <1> USE DEF JobsInv
  <1>1. UNCHANGED <<job, row, server, exec, timer, turn, todo>> /\ clock' = clock + 1 /\ clock \in Nat /\ todo = {}
    BY DEF Tick, TypeOK, Quiet, MemoryEmpty
  <1>2. TypeOK'
    BY <1>1 DEF TypeOK
  <1>3. Executed'
    BY <1>1 DEF Executed, MemoryEmpty, DispatchQueued, RunningIsExecuted, NoOverlap, ActiveRows, ActiveRuns
  <1>4. NextPlanned'
    BY <1>1 DEF NextPlanned
  <1>5. ClaimsPassed'
    BY <1>1 DEF ClaimsPassed, TypeOK
  <1>6. OccurrenceOnce'
    BY <1>1 DEF OccurrenceOnce
  <1>7. RowsSuffice'
    <2>1. Unused' = Unused /\ Unused \subseteq Runs /\ DueJobs' \subseteq Jobs
      BY <1>1 DEF Unused, DueJobs
    <2>2. Cardinality(DueJobs') <= Cardinality(Jobs) /\ Cardinality(DueJobs') \in Nat /\ Cardinality(Jobs) \in Nat
      BY <2>1, CardinalitiesOrdered, FiniteAssumption
    <2>3. Cardinality(Jobs) <= Cardinality(Unused) /\ Cardinality(Unused) \in Nat
      BY <2>1, CardinalitiesOrdered, FiniteAssumption DEF Tick
    <2>4. Cardinality(DueJobs') <= Cardinality(Unused)
      BY <2>2, <2>3
    <2> QED BY <1>1, <2>1, <2>4 DEF RowsSuffice
  <1> QED BY <1>2, <1>3, <1>4, <1>5, <1>6, <1>7 DEF Planned

(* An edit leaves the next occurrence alone or moves it past the clock;    *)
(* rows are left alone or deleted.                                         *)
LEMMA EditKeepsPlan ==
  ASSUME JobsInv, clock' = clock, todo = {}, todo' = {}, job' \in [Jobs -> JobRows],
         \A k \in Jobs : job'[k].enabled =>
             \/ job[k].enabled /\ job'[k].next = job[k].next
             \/ job'[k].next \in Nat /\ job'[k].next > clock,
         \A q \in Runs : \/ row'[q] = row[q]
                         \/ row'[q].trigger = "none" /\ row'[q].status # "none" /\ q \notin Unused
  PROVE  Planned'
  <1> USE DEF JobsInv
  <1>1. NextPlanned'
    BY DEF NextPlanned
  <1>2. ClaimsPassed'
    <2> SUFFICES ASSUME NEW q \in Runs, row'[q].trigger \in {"scheduled", "catch-up"}
                 PROVE  /\ row'[q].at <= clock
                        /\ \A k \in Jobs : k = row'[q].job /\ job'[k].enabled => row'[q].at < job'[k].next
      BY DEF ClaimsPassed
    <2>1. row'[q] = row[q] /\ row[q].at \in Nat /\ row[q].at <= clock /\ clock \in Nat
      BY DEF ClaimsPassed, TypeOK
    <2>2. ASSUME NEW k \in Jobs, k = row[q].job, job'[k].enabled
          PROVE  row[q].at < job'[k].next
      BY <2>1, <2>2 DEF ClaimsPassed
    <2> QED BY <2>1, <2>2
  <1>3. OccurrenceOnce'
    BY DEF OccurrenceOnce
  <1>4. RowsSuffice'
    <2>1. Unused' = Unused /\ Unused \subseteq Runs
      BY DEF Unused
    <2>2. DueJobs' \subseteq DueJobs
      BY DEF DueJobs, TypeOK
    <2>3. IsFiniteSet(DueJobs) /\ Cardinality(DueJobs) \in Nat /\ Cardinality(Unused) \in Nat
      BY <2>1, CardinalitiesOrdered, FiniteAssumption DEF DueJobs
    <2>4. Cardinality(DueJobs') <= Cardinality(DueJobs) /\ Cardinality(DueJobs') \in Nat
      BY <2>2, <2>3, CardinalitiesOrdered
    <2>5. Cardinality(DueJobs') <= Cardinality(Unused)
      BY <2>3, <2>4 DEF RowsSuffice
    <2> QED BY <2>1, <2>5 DEF RowsSuffice, Unused
  <1> QED BY <1>1, <1>2, <1>3, <1>4 DEF Planned

(* A job created, updated or deleted is planned anew, strictly in the      *)
(* future.                                                                 *)
LEMMA EditKeeps ==
  ASSUME JobsInv, NEW j \in Jobs, Edit(j)
  PROVE  TypeOK' /\ Executed' /\ Planned'
  <1> USE DEF JobsInv
  <1>1. \A anchor \in Nat : FirstAfter(anchor, clock) \in Nat /\ FirstAfter(anchor, clock) > clock
    BY FirstOccurrenceCorrect, IntervalAssumption DEF FirstAfter, TypeOK
  <1>2. /\ server = "up" /\ turn = "none" /\ todo = {} /\ todo' = {} /\ clock \in Nat
        /\ UNCHANGED <<clock, server, exec, turn, todo>> /\ Arm(job')
    BY DEF Edit, CreateJob, UpdateJob, DeleteJob, Admits, Quiet, MemoryEmpty, RefreshSchedule, TypeOK
  <1>3. job[j] \in JobRows /\ job \in [Jobs -> JobRows]
    BY DEF TypeOK, JobRows
  <1>4. /\ \E d \in JobRows :
             /\ job' = [job EXCEPT ![j] = d]
             /\ d.enabled => \/ job[j].enabled /\ d.next = job[j].next
                             \/ d.next \in Nat /\ d.next > clock
    <2>1. CASE \E b \in BOOLEAN : CreateJob(j, b)
      <3>1. PICK b \in BOOLEAN : CreateJob(j, b)
        BY <2>1
      <3> DEFINE next == IF b THEN FirstAfter(clock, clock) ELSE Never
                 d == [state |-> "present", enabled |-> b, anchor |-> clock, next |-> next]
      <3>2. next \in Nat \cup {Never} /\ (b => next \in Nat /\ next > clock)
        BY <1>1, <1>2
      <3>3. job' = [job EXCEPT ![j] = d]
        BY <3>1 DEF CreateJob
      <3> HIDE DEF next
      <3>4. d \in JobRows /\ d.enabled = b /\ d.next = next
        BY <1>2, <3>2 DEF JobRows
      <3> QED BY <3>2, <3>3, <3>4
    <2>2. CASE \E b, c \in BOOLEAN : UpdateJob(j, b, c)
      <3>1. PICK b \in BOOLEAN, c \in BOOLEAN : UpdateJob(j, b, c)
        BY <2>2
      <3> DEFINE anchor == IF c THEN clock ELSE job[j].anchor
                 next == IF ~b THEN Never
                         ELSE IF c \/ ~job[j].enabled THEN FirstAfter(anchor, clock) ELSE job[j].next
                 d == [job[j] EXCEPT !.enabled = b, !.anchor = anchor, !.next = next]
      <3>2. anchor \in Nat
        BY <1>2, <1>3 DEF JobRows
      <3>3. job' = [job EXCEPT ![j] = d]
        BY <1>3, <3>1 DEF UpdateJob, JobRows
      <3> HIDE DEF anchor
      <3>4. next \in Nat \cup {Never} /\ (b => \/ job[j].enabled /\ next = job[j].next
                                               \/ next \in Nat /\ next > clock)
        BY <1>1, <1>3, <3>2 DEF JobRows
      <3> HIDE DEF next
      <3>5. d \in JobRows /\ d.enabled = b /\ d.next = next
        BY <1>3, <3>2, <3>4 DEF JobRows
      <3> QED BY <3>3, <3>4, <3>5
    <2>3. CASE DeleteJob(j)
      <3> DEFINE d == [NoJobRow EXCEPT !.state = "deleted"]
      <3>1. job' = [job EXCEPT ![j] = d]
        BY <2>3 DEF DeleteJob
      <3>2. d \in JobRows /\ ~d.enabled
        BY DEF JobRows, NoJobRow
      <3> QED BY <3>1, <3>2
    <2> QED BY <2>1, <2>2, <2>3 DEF Edit
  <1>5. /\ row' \in [Runs -> RunRows]
        /\ \A q \in Runs : \/ row'[q] = row[q]
                           \/ /\ row'[q].job = row[q].job /\ row'[q].trigger = "none"
                              /\ row'[q].status = "deleted" /\ q \notin Unused
    <2>1. row \in [Runs -> RunRows]
      BY DEF TypeOK, RunRows
    <2>2. CASE DeleteJob(j)
      <3>1. ASSUME NEW q \in Runs
            PROVE  \/ row'[q] = row[q]
                   \/ /\ row'[q] \in RunRows /\ row'[q].job = row[q].job /\ row'[q].trigger = "none"
                      /\ row'[q].status = "deleted" /\ q \notin Unused
        <4>1. CASE row[q].job = j
          BY <2>2, <4>1, NoJobAssumption DEF DeleteJob, RunRows, NoRow, RowsSuffice
        <4>2. CASE row[q].job # j
          BY <2>2, <4>2 DEF DeleteJob
        <4> QED BY <4>1, <4>2
      <3> QED BY <2>1, <2>2, <3>1 DEF DeleteJob
    <2>3. CASE ~DeleteJob(j)
      BY <2>1, <2>3 DEF Edit, CreateJob, UpdateJob
    <2> QED BY <2>2, <2>3
  <1>6. /\ job' \in [Jobs -> JobRows]
        /\ \A k \in Jobs : job'[k].enabled =>
             \/ job[k].enabled /\ job'[k].next = job[k].next
             \/ job'[k].next \in Nat /\ job'[k].next > clock
    <2>1. PICK d \in JobRows :
             /\ job' = [job EXCEPT ![j] = d]
             /\ d.enabled => \/ job[j].enabled /\ d.next = job[j].next
                             \/ d.next \in Nat /\ d.next > clock
      BY <1>4
    <2> QED BY <1>3, <2>1
  <1>7. Planned'
    BY <1>2, <1>5, <1>6, EditKeepsPlan
  <1>8. TypeOK'
    <2>1. \A k \in Jobs : job'[k].enabled => job'[k].next \in Nat
      BY <1>6 DEF NextPlanned
    <2>2. timer' \in Nat \cup {Never}
      BY <1>2, <2>1, ArmTyped
    <2> QED BY <1>2, <1>5, <1>6, <2>2 DEF TypeOK, JobRows, RunRows
  <1>9. Executed'
    <2>1. \A q \in Runs : row'[q].job = row[q].job /\ (row'[q].status = row[q].status \/ row'[q].status = "deleted")
      BY <1>5
    <2>2. ActiveRuns' = ActiveRuns /\ ActiveRows' \subseteq ActiveRows
      BY <1>2, <2>1 DEF ActiveRuns, ActiveRows, ActiveStatuses
    <2>3. NoOverlap'
      BY <2>1, <2>2 DEF NoOverlap
    <2>4. MemoryEmpty'
      BY <1>2 DEF MemoryEmpty
    <2>5. RunningIsExecuted'
      BY <1>2, <1>5 DEF RunningIsExecuted
    <2>6. DispatchQueued'
      <3>1. ASSUME NEW q \in Runs, row[q].status = "queued"
            PROVE  row'[q] = row[q]
        <4>1. CASE DeleteJob(j)
          BY <3>1, <4>1 DEF DeleteJob, HasActiveRun, ActiveRows, ActiveStatuses
        <4>2. CASE ~DeleteJob(j)
          BY <4>2 DEF Edit, CreateJob, UpdateJob
        <4> QED BY <4>1, <4>2
      <3> QED BY <1>2, <3>1 DEF DispatchQueued
    <2> QED BY <2>3, <2>4, <2>5, <2>6 DEF Executed
  <1> QED BY <1>7, <1>8, <1>9
-----------------------------------------------------------------------------
(* Claims.                                                                 *)

(* A new row takes an unused identity; an active one is the job's only.    *)
LEMMA InsertKeeps ==
  ASSUME JobsInv, UNCHANGED <<clock, server>>, server = "up" \/ turn # "none", turn' = turn,
         NEW r \in Unused, NEW j \in Jobs, NEW trigger \in {"manual", "scheduled", "catch-up"}, NEW at \in Nat,
         NEW status \in {"queued", "skipped"}, NEW pc \in {"pending", "claimed", "idle"},
         status = "queued" => ~HasActiveRun(j), status = "skipped" => pc = "idle",
         todo' \subseteq todo,
         row' = Inserted(r, j, trigger, at, status), exec' = [exec EXCEPT ![r].pc = pc]
  PROVE  /\ Executed' /\ row' \in [Runs -> RunRows] /\ exec' \in [Runs -> Executions]
         /\ \A q \in Runs \ {r} : row'[q] = row[q]
         /\ r \in Runs /\ row'[r].job = j /\ row'[r].trigger = trigger /\ row'[r].at = at
         /\ Unused' = Unused \ {r}
  <1> USE DEF JobsInv
  <1> DEFINE new == [job |-> j, trigger |-> trigger, at |-> at, status |-> status, rev |-> 0]
  <1>1. new \in RunRows /\ row' = [row EXCEPT ![r] = new] /\ r \in Runs
    BY DEF RunRows, Inserted, ActiveStatuses, TerminalStatuses, Unused
  <1>2. new.status = status /\ new.job = j /\ new.trigger = trigger /\ new.at = at
    OBVIOUS
  <1> HIDE DEF new
  <1>3. /\ row' \in [Runs -> RunRows] /\ row'[r] = new
        /\ \A q \in Runs \ {r} : row'[q] = row[q]
    BY <1>1 DEF TypeOK, RunRows
  <1>4. /\ exec' \in [Runs -> Executions] /\ exec'[r].pc = pc
        /\ \A q \in Runs \ {r} : exec'[q] = exec[q]
    BY <1>1 DEF TypeOK, Executions, PCs
  <1>5. Unused' = Unused \ {r}
    BY <1>1, <1>2, <1>3 DEF Unused
  <1>6. MemoryEmpty'
    BY DEF MemoryEmpty
  <1>7. DispatchQueued'
    BY <1>2, <1>3, <1>4 DEF DispatchQueued
  <1>8. RunningIsExecuted'
    BY <1>2, <1>3, <1>4 DEF RunningIsExecuted
  <1>9. NoOverlap'
    <2>1. ActiveRuns' \subseteq ActiveRuns \ {r}
      BY <1>3, <1>4 DEF ActiveRuns, Working
    <2>2. \A q \in Runs \ {r} : q \in ActiveRows' <=> q \in ActiveRows
      BY <1>3 DEF ActiveRows
    <2>3. r \in ActiveRows' => \A q \in ActiveRows : row[q].job # j
      BY <1>2, <1>3 DEF ActiveRows, ActiveStatuses, HasActiveRun
    <2> QED BY <1>2, <1>3, <2>1, <2>2, <2>3 DEF NoOverlap, ActiveRows
  <1> QED BY <1>1, <1>2, <1>3, <1>4, <1>5, <1>6, <1>7, <1>8, <1>9 DEF Executed

(* The bound on runs leaves an identity for a new row.                     *)
LEMMA RowLeft ==
  ASSUME Cardinality(Unused) > 0
  PROVE  NewRow \in Unused
  <1>1. Unused # {}
    BY FS_EmptySet
  <1> QED BY <1>1 DEF NewRow

(* A manual run takes an unused row of a job without an active one.        *)
LEMMA RunNowKeeps ==
  ASSUME JobsInv, NEW j \in Jobs, RunNow(j)
  PROVE  TypeOK' /\ Executed' /\ Planned'
  <1> USE DEF JobsInv
  <1>1. /\ server = "up" /\ turn = "none" /\ todo = {} /\ ~HasActiveRun(j) /\ clock \in Nat
        /\ Cardinality(Unused) > Cardinality(DueJobs)
        /\ row' = Inserted(NewRow, j, "manual", clock, "queued")
        /\ exec' = [exec EXCEPT ![NewRow].pc = "pending"]
        /\ UNCHANGED <<clock, job, server, timer, turn, todo>>
    BY DEF RunNow, Admits, Quiet, MemoryEmpty, TypeOK
  <1>2. IsFiniteSet(Unused) /\ Cardinality(Unused) \in Nat /\ Cardinality(DueJobs) \in Nat
    BY CardinalitiesOrdered, FiniteAssumption DEF Unused, DueJobs
  <1>3. NewRow \in Unused
    BY <1>1, <1>2, RowLeft
  <1> DEFINE r == NewRow
  <1> HIDE DEF r
  <1>4. /\ Executed' /\ row' \in [Runs -> RunRows] /\ exec' \in [Runs -> Executions]
        /\ \A q \in Runs \ {r} : row'[q] = row[q]
        /\ r \in Runs /\ row'[r].job = j /\ row'[r].trigger = "manual" /\ row'[r].at = clock
        /\ Unused' = Unused \ {r}
    BY <1>1, <1>3, InsertKeeps DEF r
  <1>5. TypeOK'
    BY <1>1, <1>4 DEF TypeOK, RunRows, Executions
  <1>6. DueJobs' = DueJobs
    BY <1>1 DEF DueJobs
  <1>7. NextPlanned'
    BY <1>1, <1>6 DEF NextPlanned
  <1>8. ClaimsPassed'
    BY <1>1, <1>4 DEF ClaimsPassed
  <1>9. OccurrenceOnce'
    BY <1>4 DEF OccurrenceOnce
  <1>10. RowsSuffice'
    <2>1. Cardinality(Unused') = Cardinality(Unused) - 1
      BY <1>2, <1>3, <1>4, FS_RemoveElement DEF r
    <2>2. Cardinality(DueJobs') <= Cardinality(Unused')
      BY <1>1, <1>2, <1>6, <2>1
    <2> QED BY <1>4, <2>2 DEF RowsSuffice, Unused
  <1> QED BY <1>4, <1>5, <1>7, <1>8, <1>9, <1>10 DEF Planned

(* A claim inserts its row and moves the occurrence past it in one         *)
(* transaction.                                                            *)
LEMMA ClaimKeeps ==
  ASSUME JobsInv, NEW j \in Jobs, ClaimScheduled(j)
  PROVE  TypeOK' /\ Executed' /\ Planned'
  <1> USE DEF JobsInv
  <1> DEFINE status == IF HasActiveRun(j) THEN "skipped" ELSE "queued"
             pc == IF HasActiveRun(j) THEN "idle" ELSE "claimed"
             next == AdvanceJobOccurrence(job[j].anchor, Interval, job[j].next, clock)
             r == NewRow
  <1>1. /\ turn # "none" /\ turn \in {"scheduled", "catch-up"} /\ j \in todo /\ clock \in Nat
        /\ job' = [job EXCEPT ![j].next = next]
        /\ row' = Inserted(r, j, turn, job[j].next, status)
        /\ exec' = [exec EXCEPT ![r].pc = pc]
        /\ todo' = todo \ {j}
        /\ UNCHANGED <<clock, server, timer, turn>>
    BY DEF ClaimScheduled, Quiet, TypeOK
  <1>2. j \in DueJobs /\ job[j].enabled /\ job[j].next \in Nat /\ job[j].next <= clock
    BY <1>1 DEF NextPlanned, DueJobs
  <1>3. /\ status \in {"queued", "skipped"} /\ pc \in {"pending", "claimed", "idle"}
        /\ status = "queued" => ~HasActiveRun(j)
        /\ status = "skipped" => pc = "idle"
    OBVIOUS
  <1>4. next \in Nat /\ next > job[j].next /\ next > clock
    BY <1>2, AdvancePassesBoth, IntervalAssumption DEF TypeOK
  <1> HIDE DEF status, pc, next
  <1>5. IsFiniteSet(Unused) /\ Cardinality(Unused) \in Nat /\ IsFiniteSet(DueJobs) /\ Cardinality(DueJobs) \in Nat
    BY CardinalitiesOrdered, FiniteAssumption DEF Unused, DueJobs
  <1>6. Cardinality(DueJobs) > 0
    BY <1>2, <1>5, FS_EmptySet
  <1>7. NewRow \in Unused
    BY <1>5, <1>6, RowLeft DEF RowsSuffice
  <1> HIDE DEF r
  <1>8. /\ Executed' /\ row' \in [Runs -> RunRows] /\ exec' \in [Runs -> Executions]
        /\ \A q \in Runs \ {r} : row'[q] = row[q]
        /\ r \in Runs /\ row'[r].job = j /\ row'[r].trigger = turn /\ row'[r].at = job[j].next
        /\ Unused' = Unused \ {r}
    <2>1. todo' \subseteq todo /\ r \in Unused
      BY <1>1, <1>7 DEF r
    <2> QED BY <1>1, <1>2, <1>3, <2>1, InsertKeeps
  <1>9. /\ job' \in [Jobs -> JobRows] /\ job'[j].next = next /\ job'[j].enabled
        /\ \A k \in Jobs \ {j} : job'[k] = job[k]
    BY <1>1, <1>2, <1>4 DEF TypeOK, JobRows
  <1>10. TypeOK'
    BY <1>1, <1>8, <1>9 DEF TypeOK, JobRows, RunRows, Executions
  <1>11. DueJobs' = DueJobs \ {j}
    BY <1>1, <1>4, <1>9 DEF DueJobs
  <1>12. NextPlanned'
    BY <1>1, <1>4, <1>9, <1>11 DEF NextPlanned
  <1>13. ClaimsPassed'
    <2> SUFFICES ASSUME NEW q \in Runs, row'[q].trigger \in {"scheduled", "catch-up"}
                 PROVE  /\ row'[q].at <= clock
                        /\ \A k \in Jobs : k = row'[q].job /\ job'[k].enabled => row'[q].at < job'[k].next
      BY <1>1 DEF ClaimsPassed
    <2>1. CASE q = r
      BY <1>2, <1>4, <1>8, <1>9, <2>1
    <2>2. CASE q # r
      <3>1. row'[q] = row[q] /\ row[q].at \in Nat /\ row[q].at <= clock
        BY <1>8, <2>2 DEF ClaimsPassed, TypeOK
      <3>2. ASSUME NEW k \in Jobs, k = row[q].job, job'[k].enabled
            PROVE  row[q].at < job'[k].next
        <4>1. CASE k = j
          BY <1>1, <1>4, <1>9, <3>1, <4>1
        <4>2. CASE k # j
          BY <1>9, <3>1, <3>2, <4>2 DEF ClaimsPassed
        <4> QED BY <4>1, <4>2
      <3> QED BY <3>1, <3>2
    <2> QED BY <2>1, <2>2
  <1>14. OccurrenceOnce'
    <2>1. ASSUME NEW q \in Runs \ {r}, row[q].job = j, row[q].trigger \in {"scheduled", "catch-up"}
          PROVE  row[q].at # job[j].next
      BY <1>2, <2>1 DEF ClaimsPassed, TypeOK
    <2> SUFFICES ASSUME NEW p \in Runs, NEW q \in Runs, p # q, row'[p].job = row'[q].job, row'[p].job # NoJob,
                        row'[p].trigger \in {"scheduled", "catch-up"}, row'[q].trigger \in {"scheduled", "catch-up"}
                 PROVE  row'[p].at # row'[q].at
      BY DEF OccurrenceOnce
    <2>2. CASE p = r
      BY <1>8, <2>1, <2>2
    <2>3. CASE q = r
      BY <1>8, <2>1, <2>3
    <2>4. CASE p # r /\ q # r
      BY <1>8, <2>4 DEF OccurrenceOnce
    <2> QED BY <2>2, <2>3, <2>4
  <1>15. RowsSuffice'
    <2>1. Cardinality(Unused') = Cardinality(Unused) - 1
      BY <1>5, <1>7, <1>8, FS_RemoveElement DEF r
    <2>2. Cardinality(DueJobs') = Cardinality(DueJobs) - 1
      BY <1>2, <1>5, <1>11, FS_RemoveElement
    <2>3. Cardinality(DueJobs') <= Cardinality(Unused')
      BY <1>5, <2>1, <2>2 DEF RowsSuffice
    <2> QED BY <1>8, <2>3 DEF RowsSuffice, Unused
  <1> QED BY <1>8, <1>10, <1>12, <1>13, <1>14, <1>15 DEF Planned
-----------------------------------------------------------------------------
(* The invariant holds of an empty database.                               *)
LEMMA JobsInvInitially == Init => JobsInv
  <1> SUFFICES ASSUME Init PROVE JobsInv
    OBVIOUS
  <1> USE DEF Init
  <1>1. TypeOK
    BY DEF TypeOK, NoJobRow, NoRow, NoExec, PCs
  <1>2. MemoryEmpty /\ DispatchQueued /\ RunningIsExecuted
    BY DEF MemoryEmpty, DispatchQueued, RunningIsExecuted, NoExec, NoRow
  <1>3. NoOverlap
    BY DEF NoOverlap, ActiveRuns, ActiveRows, NoExec, NoRow, Working, ActiveStatuses
  <1>4. NextPlanned /\ ClaimsPassed /\ OccurrenceOnce
    BY DEF NextPlanned, ClaimsPassed, OccurrenceOnce, NoJobRow, NoRow
  <1>5. RowsSuffice
    <2>1. DueJobs = {} /\ Unused \subseteq Runs /\ \A r \in Unused : row[r].job = NoJob
      BY DEF DueJobs, Unused, NoJobRow, NoRow
    <2>2. Cardinality(DueJobs) = 0 /\ Cardinality(Unused) \in Nat
      BY <2>1, FS_EmptySet, CardinalitiesOrdered, FiniteAssumption
    <2> QED BY <2>1, <2>2 DEF RowsSuffice
  <1> QED BY <1>1, <1>2, <1>3, <1>4, <1>5 DEF JobsInv

(* Every step of scheduler, runner, users, clock and crashes keeps the     *)
(* invariant.                                                              *)
LEMMA JobsInvPreserved == JobsInv /\ [Next]_vars => JobsInv'
  <1> SUFFICES ASSUME JobsInv, [Next]_vars PROVE TypeOK' /\ Executed' /\ Planned'
    BY DEF JobsInv, Executed, Planned
  <1>1. CASE \E j \in Jobs : Edit(j) \/ RunNow(j)
    BY <1>1, EditKeeps, RunNowKeeps
  <1>2. CASE \E r \in Runs : Continue(r) \/ Abort(r)
    BY <1>2, ContinuationKeeps, AbortKeeps
  <1>3. CASE Start \/ Wake \/ Claims
    BY <1>3, StartKeeps, WakeKeeps, ClaimKeeps, LoopDoneKeeps DEF Claims
  <1>4. CASE Tick \/ ProcessEnds
    BY <1>4, TickKeeps, EndKeeps
  <1>5. CASE \E ok \in BOOLEAN : BeginShutdown(ok)
    BY <1>5, ShutdownKeeps
  <1>6. CASE UNCHANGED vars
    <2>1. UNCHANGED <<clock, job, row, server, exec, timer, turn, todo>>
      BY <1>6 DEF vars
    <2>2. TypeOK'
      BY <2>1 DEF JobsInv, TypeOK
    <2>3. Executed'
      BY <2>1 DEF JobsInv, Executed, MemoryEmpty, DispatchQueued, RunningIsExecuted, NoOverlap, ActiveRows, ActiveRuns
    <2>4. RowsKept /\ todo' \subseteq DueJobs
      BY <2>1 DEF RowsKept, JobsInv, NextPlanned
    <2> QED BY <2>1, <2>2, <2>3, <2>4, PlanKept DEF JobsInv, Planned
  <1> QED BY <1>1, <1>2, <1>3, <1>4, <1>5, <1>6 DEF Next

(* The invariant holds in every reachable state.                           *)
LEMMA JobsInvHolds == Spec => []JobsInv
  BY JobsInvInitially, JobsInvPreserved, PTL DEF Spec

(* The tables, the ActiveRuns and the timer keep their types.              *)
THEOREM JobsTypeCorrect == Spec => []TypeOK
  <1>1. JobsInv => TypeOK
    BY DEF JobsInv
  <1> QED BY <1>1, JobsInvHolds, PTL

(* In a live process a running row has its execution, which holds the      *)
(* row's revision: recovery leaves no row running without one, and no      *)
(* write of a live execution is refused.                                   *)
THEOREM RunsOwned == Spec => []RunningIsExecuted
  <1>1. JobsInv => RunningIsExecuted
    BY DEF JobsInv
  <1> QED BY <1>1, JobsInvHolds, PTL

(* No job has two executions or two active rows, through queued manual     *)
(* runs, claims, releases, deletion and restarts.                          *)
THEOREM JobsNeverOverlap == Spec => []NoOverlap
  <1>1. JobsInv => NoOverlap
    BY DEF JobsInv
  <1> QED BY <1>1, JobsInvHolds, PTL

(* An occurrence is claimed at most once, whatever interval, edits,        *)
(* crashes and catch-ups.                                                  *)
THEOREM OccurrencesClaimedOnce == Spec => []OccurrenceOnce
  <1>1. JobsInv => OccurrenceOnce
    BY DEF JobsInv
  <1> QED BY <1>1, JobsInvHolds, PTL
===============================================================================
