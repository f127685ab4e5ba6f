------------------------- MODULE ScheduledDelivery -------------------------
(***************************************************************************)
(* Delivery of the occurrences of one schedule (a task, a backup or a      *)
(* Docker cleanup): app/Services/ScheduledJobDeliveryService.php, driven   *)
(* by app/Jobs/ScheduledJobManager.php and by the claim, complete and fail *)
(* calls of the scheduled jobs.                                            *)
(*                                                                         *)
(* Manager runs may overlap (their lock expires after 90 seconds), the     *)
(* queue may lose jobs, and workers may be killed.  Minutes and hours are  *)
(* abstracted to flags that time sets: an occurrence is older than 60      *)
(* minutes, older than 24 hours.                                           *)
(***************************************************************************)
EXTENDS Naturals, FiniteSets

CONSTANTS
    LastSlot,    \* bound: the schedule is due at times 1 .. LastSlot
    Managers,    \* ScheduledJobManager runs
    Jobs,        \* queued jobs; a job's uuid is its claim token
    NoJob,
    SameLocal,   \* slots with the local time of the slot before (DST end)
    Overlap,     \* the job type has a WithoutOverlapping lock
    LockOutlives,\* the lock expires later than the timeout of the job that holds it
    RunsLate,    \* the job type is in LATE_RUN_JOB_TYPES
    MaxFaults    \* bound: lost jobs, failed pushes, killed workers and managers

Slots == 1 .. LastSlot

ASSUME DeliveryAssumption ==
    /\ LastSlot \in Nat /\ MaxFaults \in Nat /\ NoJob \notin Jobs
    /\ SameLocal \subseteq Slots /\ {Overlap, LockOutlives, RunsLate} \subseteq BOOLEAN

VARIABLES
    now,        \* the latest slot that is due
    lastFor,    \* ScheduledJobState.last_scheduled_for, 0 when null
    row,        \* ScheduledJobDelivery.status of a slot, "none" without a row
    token,      \* claim_token of a slot
    oldCreated, \* slots whose created_at is older than 60 minutes
    oldEnqueued,\* slots whose enqueued_at is older than 60 minutes
    tooOld,     \* slots that were due more than 24 hours ago
    gone,       \* the scheduled resource was deleted
    jstate, jobOf,  \* state and occurrence of a job
    lock,       \* holder of the overlap lock
    pc, phase, due, todo, cur, late,   \* state of a manager run
    faults,
    recorded, ran, missed  \* times a slot was recorded, run, reported missed

rowVars == <<lastFor, row, token>>
ages == <<oldCreated, oldEnqueued, tooOld>>
timeVars == <<now, oldCreated, oldEnqueued, tooOld, gone>>
jobVars == <<jstate, jobOf, lock>>
mgrVars == <<pc, phase, due, todo, cur, late>>
countVars == <<recorded, ran, missed>>
vars == <<rowVars, timeVars, jobVars, mgrVars, countVars, faults>>

Unclaimed == {"pending", "enqueued"}
Open == Unclaimed \cup {"claimed"}

Init ==
    /\ now = 0 /\ lastFor = 0 /\ gone = FALSE /\ faults = 0
    /\ row = [o \in Slots |-> "none"]
    /\ token = [o \in Slots |-> NoJob]
    /\ oldCreated = {} /\ oldEnqueued = {} /\ tooOld = {}
    /\ jstate = [j \in Jobs |-> "free"]
    /\ jobOf = [j \in Jobs |-> 0]
    /\ lock = NoJob
    /\ pc = [m \in Managers |-> "idle"]
    /\ phase = [m \in Managers |-> "idle"]
    /\ due = [m \in Managers |-> 0]
    /\ todo = [m \in Managers |-> {}]
    /\ cur = [m \in Managers |-> 0]
    /\ late = [m \in Managers |-> FALSE]
    /\ recorded = [o \in Slots |-> 0]
    /\ ran = [o \in Slots |-> 0]
    /\ missed = [o \in Slots |-> 0]

Fault == faults < MaxFaults /\ faults' = faults + 1

-----------------------------------------------------------------------------
(* Time and the world. *)

\* The next slot becomes due.
Tick ==
    /\ now < LastSlot
    /\ now' = now + 1
    /\ UNCHANGED <<rowVars, oldCreated, oldEnqueued, tooOld, gone, jobVars,
                   mgrVars, countVars, faults>>

\* An occurrence passes one of the age limits, in the order time sets them.
Age(o) ==
    /\ row[o] \in Unclaimed
    /\ \/ /\ row[o] = "enqueued" /\ o \notin oldEnqueued
          /\ oldEnqueued' = oldEnqueued \cup {o}
          /\ oldCreated' = oldCreated \cup {o}
          /\ UNCHANGED tooOld
       \/ /\ o \notin oldCreated
          /\ oldCreated' = oldCreated \cup {o}
          /\ UNCHANGED <<oldEnqueued, tooOld>>
       \/ /\ o \in oldCreated /\ o \notin tooOld
          /\ tooOld' = tooOld \cup {o}
          /\ oldEnqueued' = IF row[o] = "enqueued" THEN oldEnqueued \cup {o} ELSE oldEnqueued
          /\ UNCHANGED oldCreated
    /\ UNCHANGED <<rowVars, now, gone, jobVars, mgrVars, countVars, faults>>

\* A user deletes the scheduled resource.
DeleteResource ==
    /\ ~ gone /\ Fault
    /\ gone' = TRUE
    /\ UNCHANGED <<rowVars, now, oldCreated, oldEnqueued, tooOld, jobVars,
                   mgrVars, countVars>>

-----------------------------------------------------------------------------
(* A run of ScheduledJobManager. *)

\* The end of handling one occurrence: back to the loop, or the run is over.
NextItem(m) ==
    /\ pc' = [pc EXCEPT ![m] = phase[m]]
    /\ cur' = [cur EXCEPT ![m] = 0]
    /\ late' = [late EXCEPT ![m] = FALSE]
    /\ due' = IF phase[m] = "idle" THEN [due EXCEPT ![m] = 0] ELSE due
    /\ UNCHANGED <<phase, todo>>

\* Mutant of ManagerStart: takes the next due time instead of the previous one.
ManagerStartNextDue(m) ==
    /\ pc[m] = "idle"
    /\ due' = [due EXCEPT ![m] = now + 1]
    /\ todo' = [todo EXCEPT ![m] = {o \in oldEnqueued : row[o] = "enqueued"}]
    /\ pc' = [pc EXCEPT ![m] = "recover"]
    /\ phase' = [phase EXCEPT ![m] = "recover"]
    /\ UNCHANGED <<rowVars, timeVars, jobVars, cur, late, countVars, faults>>

\* Mutant of ManagerStart: stale enqueued occurrences are not recovered.
ManagerStartNoRecovery(m) ==
    /\ pc[m] = "idle"
    /\ due' = [due EXCEPT ![m] = now]
    /\ todo' = [todo EXCEPT ![m] = {}]
    /\ pc' = [pc EXCEPT ![m] = "recover"]
    /\ phase' = [phase EXCEPT ![m] = "recover"]
    /\ UNCHANGED <<rowVars, timeVars, jobVars, cur, late, countVars, faults>>

\* handle() freezes its execution time; recoverStaleEnqueued lists the stale
\* enqueued occurrences.
ManagerStart(m) ==
    /\ pc[m] = "idle"
    /\ due' = [due EXCEPT ![m] = now]
    /\ todo' = [todo EXCEPT ![m] = {o \in oldEnqueued : row[o] = "enqueued"}]
    /\ pc' = [pc EXCEPT ![m] = "recover"]
    /\ phase' = [phase EXCEPT ![m] = "recover"]
    /\ UNCHANGED <<rowVars, timeVars, jobVars, cur, late, countVars, faults>>

\* The loops of recoverStaleEnqueued and publishPending, ordered by id.
ManagerNext(m) ==
    /\ pc[m] \in {"recover", "publish"}
    /\ \E o \in todo[m] :
          /\ \A q \in todo[m] : o <= q
          /\ cur' = [cur EXCEPT ![m] = o]
          /\ todo' = [todo EXCEPT ![m] = @ \ {o}]
          /\ pc' = [pc EXCEPT ![m] =
                      IF pc[m] = "publish" /\ o \notin oldCreated THEN "dispatch" ELSE "decide"]
    /\ UNCHANGED <<rowVars, timeVars, jobVars, phase, due, late, countVars, faults>>

\* recoverUnstartedOccurrence reads whether the occurrence may run late.
Decide(m) ==
    LET o == cur[m] IN
    /\ pc[m] = "decide"
    /\ late' = [late EXCEPT ![m] =
                  /\ RunsLate /\ o \notin tooOld
                  /\ ~ (lastFor > o)
                  /\ \A q \in Slots : q > o => row[q] \in {"none", "deleted"}]
    /\ pc' = [pc EXCEPT ![m] = "move"]
    /\ UNCHANGED <<rowVars, timeVars, jobVars, phase, due, todo, cur, countVars, faults>>

\* Mutant of StillUnstarted: the update is not conditional.
StillUnstartedAssumed(m) == row[cur[m]] # "deleted"

\* The status and age that the conditional update of the loop asks for.
StillUnstarted(m) ==
    LET o == cur[m] IN
    \/ phase[m] = "recover" /\ row[o] = "enqueued" /\ o \in oldEnqueued
    \/ phase[m] = "publish" /\ row[o] = "pending" /\ o \in oldCreated

\* The conditional update of recoverUnstartedOccurrence.  A missed task or
\* Docker cleanup is reported.
Move(m) ==
    LET o == cur[m] IN
    /\ pc[m] = "move"
    /\ \/ /\ StillUnstarted(m) /\ late[m]
          /\ row' = [row EXCEPT ![o] = "pending"]
          /\ pc' = [pc EXCEPT ![m] = "dispatch"]
          /\ UNCHANGED <<phase, due, todo, cur, late, missed>>
       \/ /\ StillUnstarted(m) /\ ~ late[m]
          /\ row' = [row EXCEPT ![o] = "failed"]
          /\ missed' = IF RunsLate THEN missed ELSE [missed EXCEPT ![o] = @ + 1]
          /\ NextItem(m)
       \/ /\ ~ StillUnstarted(m)
          /\ NextItem(m)
          /\ UNCHANGED <<row, missed>>
    /\ UNCHANGED <<lastFor, token, timeVars, jobVars, recorded, ran, faults>>

\* Horizon kills a job at the worker timeout, so a claim older than that has
\* no live worker.
Interrupted(o) ==
    row[o] = "claimed" /\ (token[o] \in Jobs => jstate[token[o]] # "running")

\* Mutant of FailInterrupted: interrupted claims are left as they are.
FailInterruptedNever(m) ==
    /\ pc[m] = "recover" /\ todo[m] = {}
    /\ todo' = [todo EXCEPT ![m] = {o \in Slots : row[o] = "pending"}]
    /\ pc' = [pc EXCEPT ![m] = "publish"]
    /\ phase' = [phase EXCEPT ![m] = "publish"]
    /\ UNCHANGED <<rowVars, timeVars, jobVars, due, cur, late, countVars, faults>>

\* failInterruptedClaims fails such claims; publishPending then lists the
\* pending occurrences.
FailInterrupted(m) ==
    /\ pc[m] = "recover" /\ todo[m] = {}
    /\ \E dead \in SUBSET {o \in Slots : Interrupted(o)} :
          row' = [o \in Slots |-> IF o \in dead THEN "failed" ELSE row[o]]
    /\ todo' = [todo EXCEPT ![m] = {o \in Slots : row[o] = "pending"}]
    /\ pc' = [pc EXCEPT ![m] = "publish"]
    /\ phase' = [phase EXCEPT ![m] = "publish"]
    /\ UNCHANGED <<lastFor, token, timeVars, jobVars, due, cur, late, countVars, faults>>

\* publish(): the resource no longer exists.
PublishSkipped(m) ==
    /\ pc[m] = "dispatch" /\ gone
    /\ row' = [row EXCEPT ![cur[m]] = IF @ = "deleted" THEN @ ELSE "skipped"]
    /\ NextItem(m)
    /\ UNCHANGED <<lastFor, token, timeVars, jobVars, countVars, faults>>

\* publish(): dispatch($job) with a new job.  An id that no claim holds stands for a
\* new one: nothing asks for the token of a closed occurrence.
Publish(m) ==
    /\ pc[m] = "dispatch" /\ ~ gone
    /\ \E j \in Jobs :
          /\ jstate[j] = "free" /\ \A o \in Slots : row[o] = "claimed" => token[o] # j
          /\ jstate' = [jstate EXCEPT ![j] = "queued"]
          /\ jobOf' = [jobOf EXCEPT ![j] = cur[m]]
    /\ pc' = [pc EXCEPT ![m] = "mark"]
    /\ UNCHANGED <<rowVars, timeVars, lock, phase, due, todo, cur, late, countVars, faults>>

\* publish(): the push throws; the caller logs it and goes on.
PublishFails(m) ==
    /\ pc[m] = "dispatch" /\ ~ gone /\ Fault
    /\ NextItem(m)
    /\ UNCHANGED <<rowVars, timeVars, jobVars, countVars>>

\* Mutant of MarkEnqueued: the update after the push is not conditional.
MarkEnqueuedAlways(m) ==
    /\ pc[m] = "mark"
    /\ row' = [row EXCEPT ![cur[m]] = "enqueued"]
    /\ oldEnqueued' = oldEnqueued \ {cur[m]}
    /\ NextItem(m)
    /\ UNCHANGED <<lastFor, token, now, oldCreated, tooOld, gone, jobVars, countVars, faults>>

\* publish(): the conditional update after the push.
MarkEnqueued(m) ==
    LET o == cur[m] IN
    /\ pc[m] = "mark"
    /\ \/ /\ row[o] = "pending"
          /\ row' = [row EXCEPT ![o] = "enqueued"]
          /\ oldEnqueued' = oldEnqueued \ {o}
       \/ row[o] # "pending" /\ UNCHANGED <<row, oldEnqueued>>
    /\ NextItem(m)
    /\ UNCHANGED <<lastFor, token, now, oldCreated, tooOld, gone, jobVars, countVars, faults>>

\* Mutant of IsDuplicate: only the same due time is a duplicate.
IsDuplicateSameOnly(o) == lastFor = o

IsDuplicate(o) == lastFor >= o \/ (o \in SameLocal /\ lastFor = o - 1)

\* The transaction of recordAndPublish, for the execution time frozen at the
\* start of the run.
Record(m) ==
    LET o == due[m] IN
    /\ pc[m] = "publish" /\ todo[m] = {}
    /\ o \in Slots /\ ~ IsDuplicate(o)
    /\ lastFor' = o
    /\ row' = [row EXCEPT ![o] = "pending"]
    /\ recorded' = [recorded EXCEPT ![o] = @ + 1]
    /\ cur' = [cur EXCEPT ![m] = o]
    /\ pc' = [pc EXCEPT ![m] = "dispatch"]
    /\ phase' = [phase EXCEPT ![m] = "idle"]
    /\ UNCHANGED <<token, timeVars, jobVars, due, todo, late, ran, missed, faults>>

\* recordSkipped, for example because the server is not functional.
RecordSkipped(m) ==
    LET o == due[m] IN
    /\ pc[m] = "publish" /\ todo[m] = {}
    /\ o \in Slots /\ ~ IsDuplicate(o)
    /\ lastFor' = o
    /\ recorded' = [recorded EXCEPT ![o] = @ + 1]
    /\ pc' = [pc EXCEPT ![m] = "idle"]
    /\ phase' = [phase EXCEPT ![m] = "idle"]
    /\ due' = [due EXCEPT ![m] = 0]
    /\ UNCHANGED <<row, token, timeVars, jobVars, todo, cur, late, ran, missed, faults>>

\* Nothing is due in the catch-up window, the occurrence is a duplicate, or
\* the run is killed.
ManagerStop(m) ==
    /\ \/ pc[m] = "publish" /\ todo[m] = {} /\ UNCHANGED faults
       \/ pc[m] # "idle" /\ Fault
    /\ pc' = [pc EXCEPT ![m] = "idle"]
    /\ phase' = [phase EXCEPT ![m] = "idle"]
    /\ due' = [due EXCEPT ![m] = 0]
    /\ todo' = [todo EXCEPT ![m] = {}]
    /\ cur' = [cur EXCEPT ![m] = 0]
    /\ late' = [late EXCEPT ![m] = FALSE]
    /\ UNCHANGED <<rowVars, timeVars, jobVars, countVars>>

-----------------------------------------------------------------------------
(* The jobs. *)

SetJob(j, s) == jstate' = [jstate EXCEPT ![j] = s] /\ UNCHANGED jobOf

FreeJob(j) ==
    /\ jstate' = [jstate EXCEPT ![j] = "free"]
    /\ jobOf' = [jobOf EXCEPT ![j] = 0]

ReleaseLock(j) == lock' = IF lock = j THEN NoJob ELSE lock

\* A worker takes the job.  A backup or cleanup first needs the overlap lock.
Take(j) ==
    /\ jstate[j] = "queued"
    /\ \/ ~ Overlap /\ SetJob(j, "started") /\ UNCHANGED lock
       \/ Overlap /\ lock = NoJob /\ SetJob(j, "started") /\ lock' = j
       \/ Overlap /\ lock # NoJob /\ SetJob(j, "blocked") /\ UNCHANGED lock
    /\ UNCHANGED <<rowVars, timeVars, mgrVars, countVars, faults>>

\* skip(): the lock was held, so the occurrence is not run later either.
Skip(j) ==
    LET o == jobOf[j] IN
    /\ jstate[j] = "blocked"
    /\ row' = [row EXCEPT ![o] = IF @ \in Unclaimed THEN "skipped" ELSE @]
    /\ FreeJob(j)
    /\ UNCHANGED <<lastFor, token, timeVars, lock, mgrVars, countVars, faults>>

\* Mutant of Claim: the update is not conditional on the status.
ClaimAlways(j) ==
    LET o == jobOf[j] IN
    /\ jstate[j] = "started"
    /\ row' = [row EXCEPT ![o] = "claimed"]
    /\ token' = [token EXCEPT ![o] = j]
    /\ ran' = [ran EXCEPT ![o] = @ + 1]
    /\ SetJob(j, "running")
    /\ UNCHANGED <<lastFor, timeVars, lock, mgrVars, recorded, missed, faults>>

\* claim(): one conditional update decides which job runs the occurrence.  A job is
\* taken once, so it never meets its own token again.
Claim(j) ==
    LET o == jobOf[j] IN
    /\ jstate[j] = "started"
    /\ \/ /\ row[o] \in Unclaimed
          /\ row' = [row EXCEPT ![o] = "claimed"]
          /\ token' = [token EXCEPT ![o] = j]
          /\ ran' = [ran EXCEPT ![o] = @ + 1]
          /\ SetJob(j, "running")
          /\ UNCHANGED lock
       \/ /\ row[o] \notin Unclaimed
          /\ FreeJob(j)
          /\ ReleaseLock(j)
          /\ UNCHANGED <<row, token, ran>>
    /\ UNCHANGED <<lastFor, timeVars, mgrVars, recorded, missed, faults>>

\* The claim token and the times go with the row.
DeleteRow(o) ==
    /\ row' = [row EXCEPT ![o] = "deleted"]
    /\ token' = [token EXCEPT ![o] = NoJob]
    /\ oldCreated' = oldCreated \ {o}
    /\ oldEnqueued' = oldEnqueued \ {o}
    /\ tooOld' = tooOld \ {o}

\* complete() deletes the row that the job claimed.
Complete(j) ==
    LET o == jobOf[j] IN
    /\ jstate[j] = "running"
    /\ \/ token[o] = j /\ DeleteRow(o)
       \/ token[o] # j /\ UNCHANGED <<row, token, ages>>
    /\ FreeJob(j) /\ ReleaseLock(j)
    /\ UNCHANGED <<lastFor, now, gone, mgrVars, countVars, faults>>

\* failed() and fail(): the run threw, or Redis hands out the job of a killed
\* worker again, which fails it at once.
Fail(j) ==
    LET o == jobOf[j] IN
    /\ jstate[j] \in {"running", "killed"}
    /\ row' = IF token[o] = j THEN [row EXCEPT ![o] = "failed"] ELSE row
    /\ FreeJob(j)
    /\ lock' = IF jstate[j] = "running" /\ lock = j THEN NoJob ELSE lock
    /\ UNCHANGED <<lastFor, token, timeVars, mgrVars, countVars, faults>>

\* Redis loses the job.
Lose(j) ==
    /\ jstate[j] = "queued" /\ Fault
    /\ FreeJob(j)
    /\ UNCHANGED <<rowVars, timeVars, lock, mgrVars, countVars>>

\* The worker is killed; the overlap lock stays.
Kill(j) ==
    /\ jstate[j] \in {"started", "running"} /\ Fault
    /\ SetJob(j, "killed")
    /\ UNCHANGED <<rowVars, timeVars, lock, mgrVars, countVars>>

\* Mutant of LockExpires: expireAfter is shorter than the job timeout.
LockExpiresEarly ==
    /\ lock \in Jobs
    /\ lock' = NoJob
    /\ UNCHANGED <<rowVars, timeVars, jstate, jobOf, mgrVars, countVars, faults>>

\* The overlap lock expires: later than the timeout of the job that holds it, unless
\* the timeout of the backup was lowered after the job was dispatched, which the job
\* keeps and the lock does not.
LockExpires ==
    /\ lock \in Jobs
    /\ LockOutlives => jstate[lock] \notin {"started", "running"}
    /\ lock' = NoJob
    /\ UNCHANGED <<rowVars, timeVars, jstate, jobOf, mgrVars, countVars, faults>>

\* deleteOldOccurrences: claims of two days ago are failed, closed occurrences
\* of 30 days ago are deleted.
DeleteOld ==
    /\ \E o \in Slots :
          \/ row[o] \in {"failed", "skipped"} /\ DeleteRow(o)
          \/ /\ Interrupted(o)
             /\ row' = [row EXCEPT ![o] = "failed"]
             /\ UNCHANGED <<token, ages>>
    /\ UNCHANGED <<lastFor, now, gone, jobVars, mgrVars, countVars, faults>>

-----------------------------------------------------------------------------

ManagerStep(m) ==
    \/ ManagerNext(m) \/ Decide(m) \/ Move(m) \/ FailInterrupted(m)
    \/ PublishSkipped(m) \/ Publish(m) \/ PublishFails(m) \/ MarkEnqueued(m)
    \/ Record(m) \/ RecordSkipped(m) \/ ManagerStop(m)

JobStep(j) == Take(j) \/ Skip(j) \/ Claim(j) \/ Complete(j) \/ Fail(j)

Next ==
    \/ Tick \/ DeleteResource \/ LockExpires \/ DeleteOld
    \/ \E o \in Slots : Age(o)
    \/ \E m \in Managers : ManagerStart(m) \/ ManagerStep(m)
    \/ \E j \in Jobs : JobStep(j) \/ Lose(j) \/ Kill(j)

Spec == Init /\ [][Next]_vars

\* Time passes, a manager starts every minute and runs to its end, workers
\* take jobs and finish them, locks expire.  The job of a killed worker may never
\* come back; its claim grows too old for one of the manager runs to come.
Fairness ==
    /\ \A o \in Slots : WF_vars(Age(o))
    /\ \A m \in Managers : WF_vars(ManagerStart(m)) /\ WF_vars(ManagerStep(m))
    /\ \A o \in Slots :
          SF_vars(\E m \in Managers : Interrupted(o) /\ FailInterrupted(m) /\ row'[o] = "failed")
    /\ \A j \in Jobs : WF_vars(jstate[j] # "killed" /\ JobStep(j))
    /\ WF_vars(LockExpires)

FairSpec == Spec /\ Fairness

-----------------------------------------------------------------------------
(* Properties. *)

\* Type correctness of the schedule state, occurrences, jobs and managers.
TypeOK ==
    /\ now \in Slots \cup {0} /\ lastFor \in Slots \cup {0} /\ faults \in Nat /\ gone \in BOOLEAN
    /\ row \in [Slots -> Open \cup {"none", "failed", "skipped", "deleted"}]
    /\ token \in [Slots -> Jobs \cup {NoJob}]
    /\ oldCreated \subseteq Slots /\ oldEnqueued \subseteq Slots /\ tooOld \subseteq Slots
    /\ jstate \in [Jobs -> {"free", "queued", "started", "blocked", "running", "killed"}]
    /\ jobOf \in [Jobs -> Slots \cup {0}]
    /\ lock \in Jobs \cup {NoJob}
    /\ pc \in [Managers -> {"idle", "recover", "publish", "decide", "move", "dispatch", "mark"}]
    /\ phase \in [Managers -> {"idle", "recover", "publish"}]
    /\ due \in [Managers -> Slots \cup {0}] /\ cur \in [Managers -> Slots \cup {0}]
    /\ todo \in [Managers -> SUBSET Slots] /\ late \in [Managers -> BOOLEAN]
    /\ recorded \in [Slots -> Nat] /\ ran \in [Slots -> Nat] /\ missed \in [Slots -> Nat]

\* However often an occurrence is published, recovered and published again,
\* at most one job runs it.
RunsOnce == \A o \in Slots : ran[o] <= 1

\* Overlapping manager runs with old execution times record a due time at
\* most once, and a fixed-hour schedule once per local time.
RecordedOnce ==
    \A o \in Slots :
        /\ recorded[o] <= 1
        /\ o \in SameLocal /\ o - 1 \in Slots => recorded[o] + recorded[o - 1] <= 1

\* reportMissedOccurrence: a missed occurrence is reported once, and "claim()
\* rejects the late job if it starts afterwards".
MissedIsFinal == \A o \in Slots : missed[o] <= 1 /\ (missed[o] = 1 => ran[o] = 0)

\* Two runs of a schedule with an overlap lock never run at once, when the lock
\* outlives the job.
NoOverlap ==
    Overlap /\ LockOutlives =>
        \A i, j \in Jobs : jstate[i] = "running" /\ jstate[j] = "running" => i = j

\* What the status of a row stands for; a deleted row is a closed occurrence.
LedgerLabel(status) ==
    CASE status = "none" -> "none"
      [] status \in Unclaimed -> "waiting"
      [] status = "claimed" -> "taken"
      [] OTHER -> "closed"

LedgerState == [o \in Slots |-> LedgerLabel(row[o])]

Ledger == INSTANCE OccurrenceLedger WITH
              last <- lastFor, state <- LedgerState, runs <- ran, reports <- missed

\* The service keeps the promise of OccurrenceLedger: whatever a late manager,
\* a duplicate job or a clean-up writes, a claimed or closed occurrence never
\* waits to be run again.
ImplementsLedger == Ledger!Spec

\* Every recorded occurrence is run, skipped or given up: no row stays open.
OpenEventuallyCloses == \A o \in Slots : row[o] \in Open ~> row[o] \notin Open
=============================================================================
