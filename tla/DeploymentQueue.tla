-------------------------- MODULE DeploymentQueue --------------------------
(***************************************************************************)
(* The deployment queue of Coolify: admission of deployment requests,      *)
(* start of queued deployments, the deployment job's status transitions,   *)
(* cancellation, and the combined notification of a multi-server           *)
(* deployment (bootstrap/helpers/applications.php and                      *)
(* app/Jobs/ApplicationDeploymentJob.php).                                 *)
(*                                                                         *)
(* Everything runs in PHP processes (web requests, Horizon workers,        *)
(* artisan commands) that share a PostgreSQL database, a Redis queue and a *)
(* cache.  A step of the model is one statement on shared state, so the    *)
(* steps of two processes interleave wherever the code lets them.          *)
(***************************************************************************)
EXTENDS Naturals, Sequences, FiniteSets

CONSTANTS
    Deployments,     \* one identity per deployment request
    Procs,           \* PHP processes
    Apps, Servers,   \* rows of the applications and servers tables
    NoDep, NoProc,   \* "none"
    App,             \* application_id of a deployment
    Slot,            \* (application_id, pull_request_id) of a deployment
    Previews,        \* the slots with pull_request_id # 0
    Server,          \* server_id of a deployment
    Commit,          \* (commit, docker_registry_image_tag) of a deployment
    Forced,          \* requests with force_rebuild or rollback
    Unquestioned,    \* requests with no_questions_asked
    Parent,          \* parent_deployment_uuid of a deployment, or NoDep
    PrimaryServer,   \* destination->server_id of an application
    ConcurrentBuilds,  \* settings.concurrent_builds of a server
    QueueLimit,      \* settings.deployment_queue_limit of a server
    UserActions,     \* bound: which of these operations users perform
    MaxSweeps,       \* bound: runs of check:deployment-queue
    MaxRestarts      \* bound: restarts of the instance

Slots == {Slot[d] : d \in Deployments}

ASSUME QueueAssumption ==
    /\ IsFiniteSet(Deployments)
    /\ NoDep \notin Deployments /\ NoProc \notin Procs
    /\ App \in [Deployments -> Apps] /\ Server \in [Deployments -> Servers]
    /\ Parent \in [Deployments -> Deployments \cup {NoDep}]
    /\ PrimaryServer \in [Apps -> Servers]
    /\ ConcurrentBuilds \in [Servers -> Nat] /\ QueueLimit \in [Servers -> Nat]
    /\ Forced \subseteq Deployments /\ Unquestioned \subseteq Deployments
    /\ Previews \subseteq Slots
    /\ MaxSweeps \in Nat /\ MaxRestarts \in Nat
    /\ UserActions \subseteq {"force_start", "cancel_api", "cancel_ui", "cleanup"}

\* A slot belongs to one application.
ASSUME SlotAssumption ==
    \A d, e \in Deployments : Slot[d] = Slot[e] => App[d] = App[e]

VARIABLES
    status,      \* status column; "none": no row yet, "rejected": no row ever
    via,         \* who last set a row to in_progress
    createdAt,   \* created_at as a rank, 0 without a row
    appLock,     \* process that holds the application row lock
    srvLock,     \* process that holds the server row lock
    redis,       \* jobs of a deployment that wait in Redis
    taken,       \* jobs of a deployment that a worker took
    allQueued,   \* Cache "multi-server-deployment-queued:<parent>"
    notified,    \* parents with Cache "multi-server-deployment-notified:<parent>"
    notices,     \* combined notifications sent for a parent
    thrown,      \* history: parents whose notification an exception cut off
    unseen,      \* queued rows committed after a pass that should list them
    sweeps, restarts,
    pc, mode,    \* control point and kind of the operation of a process
    ret,         \* where a process continues after the queue helpers return
    cur,         \* the deployment a queue helper works on
    job,         \* the deployment a worker runs
    goal,        \* the status that transitionToStatus is to write
    todo,        \* deployments listed by a loop, as read when it started
    pend         \* queue_next_deployment's $pending

rowVars  == <<status, via, createdAt>>
lockVars == <<appLock, srvLock>>
jobVars  == <<redis, taken>>
noteVars == <<allQueued, notified, notices, thrown>>
boundVars == <<sweeps, restarts>>
procVars == <<pc, mode, ret, cur, job, goal, todo, pend>>
vars == <<rowVars, lockVars, jobVars, noteVars, boundVars, unseen, procVars>>

Active   == {"queued", "in_progress"}
Terminal == {"finished", "failed", "cancelled"}
Statuses == {"none", "rejected"} \cup Active \cup Terminal
Rows     == {d \in Deployments : status[d] \in Active \cup Terminal}
QueuedRows == {d \in Deployments : status[d] = "queued"}
Children(d) == {c \in Deployments : Parent[c] = d}

Init ==
    /\ status = [d \in Deployments |-> "none"]
    /\ via = [d \in Deployments |-> "none"]
    /\ createdAt = [d \in Deployments |-> 0]
    /\ appLock = [a \in Apps |-> NoProc]
    /\ srvLock = [s \in Servers |-> NoProc]
    /\ redis = [d \in Deployments |-> 0]
    /\ taken = [d \in Deployments |-> 0]
    /\ allQueued = [d \in Deployments |-> FALSE]
    /\ notified = {}
    /\ notices = [d \in Deployments |-> 0]
    /\ thrown = {}
    /\ unseen = {}
    /\ sweeps = 0 /\ restarts = 0
    /\ pc = [p \in Procs |-> "idle"]
    /\ mode = [p \in Procs |-> "none"]
    /\ ret = [p \in Procs |-> "idle"]
    /\ cur = [p \in Procs |-> NoDep]
    /\ job = [p \in Procs |-> NoDep]
    /\ goal = [p \in Procs |-> "none"]
    /\ todo = [p \in Procs |-> {}]
    /\ pend = [p \in Procs |-> <<>>]

-----------------------------------------------------------------------------
(* Control of a process. *)

Goto(p, l) == pc' = [pc EXCEPT ![p] = l]

\* The operation of process p is over.
Finish(p) ==
    /\ Goto(p, "idle")
    /\ mode' = [mode EXCEPT ![p] = "none"]
    /\ ret' = [ret EXCEPT ![p] = "idle"]
    /\ cur' = [cur EXCEPT ![p] = NoDep]
    /\ job' = [job EXCEPT ![p] = NoDep]
    /\ goal' = [goal EXCEPT ![p] = "none"]
    /\ todo' = [todo EXCEPT ![p] = {}]
    /\ pend' = [pend EXCEPT ![p] = <<>>]

\* queue_next_deployment for the ended deployment d.  A call made while this
\* process already advances the queue is only appended to $pending.
QueueNextDeployment(p, d) ==
    /\ Goto(p, "advance")
    /\ mode' = [mode EXCEPT ![p] = "start"]
    /\ pend' = [pend EXCEPT ![p] = Append(@, d)]
    /\ cur' = [cur EXCEPT ![p] = NoDep]

\* A queue helper called by p returns: to the advancing loop, or to the caller.
Return(p) ==
    \/ /\ mode[p] = "start"
       /\ Goto(p, "advance")
       /\ cur' = [cur EXCEPT ![p] = NoDep]
       /\ UNCHANGED <<mode, ret, job, goal, todo, pend>>
    \/ /\ mode[p] # "start" /\ ret[p] = "idle"
       /\ Finish(p)
    \/ /\ mode[p] # "start" /\ ret[p] # "idle"
       /\ Goto(p, ret[p])
       /\ mode' = [mode EXCEPT ![p] = "none"]
       /\ cur' = [cur EXCEPT ![p] = NoDep]
       /\ UNCHANGED <<ret, job, goal, todo, pend>>

\* start_queued_deployment holds the row lock of its deployment until it commits.
RowUnlocked(d) ==
    \A q \in Procs : ~ (pc[q] = "commit_start" /\ mode[q] # "admit" /\ cur[q] = d)

-----------------------------------------------------------------------------
(* The admission and start transactions. *)

InProgressOn(s) ==
    {e \in Deployments : Server[e] = s /\ status[e] = "in_progress"}

\* Mutant of NextQueuable: the limit is off by one.
NextQueuableOffByOne(d) ==
    /\ \A e \in Deployments :
          status[e] = "in_progress" => Slot[e] # Slot[d]
    /\ Cardinality(InProgressOn(Server[d])) <= ConcurrentBuilds[Server[d]]

NextQueuable(d) ==
    /\ \A e \in Deployments :
          status[e] = "in_progress" => Slot[e] # Slot[d]
    /\ Cardinality(InProgressOn(Server[d])) < ConcurrentBuilds[Server[d]]

QueueFull(d) ==
    Cardinality({e \in QueuedRows : Server[e] = Server[d]}) >= QueueLimit[Server[d]]

AlreadyQueued(d) ==
    /\ \E e \in Deployments :
          /\ status[e] \in Active
          /\ Slot[e] = Slot[d] /\ Commit[e] = Commit[d]
    /\ d \notin Forced \cup Unquestioned

\* A request for deployment d reaches queue_application_deployment.
Request(p, d) ==
    /\ pc[p] = "idle" /\ status[d] = "none" /\ Parent[d] = NoDep
    /\ \A q \in Procs : cur[q] # d
    /\ Goto(p, "lock_app")
    /\ mode' = [mode EXCEPT ![p] = "admit"]
    /\ cur' = [cur EXCEPT ![p] = d]
    /\ UNCHANGED <<rowVars, lockVars, jobVars, noteVars, boundVars, unseen,
                   ret, job, goal, todo, pend>>

\* Mutant of LockApp: the application row is read without lockForUpdate().
LockAppUnlocked(p) ==
    /\ pc[p] = "lock_app"
    /\ Goto(p, "lock_server")
    /\ UNCHANGED <<rowVars, lockVars, jobVars, noteVars, boundVars, unseen,
                   mode, ret, cur, job, goal, todo, pend>>

\* Application::query()->whereKey(...)->lockForUpdate()
LockApp(p) ==
    /\ pc[p] = "lock_app" /\ appLock[App[cur[p]]] = NoProc
    /\ appLock' = [appLock EXCEPT ![App[cur[p]]] = p]
    /\ Goto(p, "lock_server")
    /\ UNCHANGED <<rowVars, srvLock, jobVars, noteVars, boundVars, unseen,
                   mode, ret, cur, job, goal, todo, pend>>

\* Server::query()->whereKey(...)->lockForUpdate()
LockServer(p) ==
    /\ pc[p] = "lock_server" /\ srvLock[Server[cur[p]]] = NoProc
    /\ srvLock' = [srvLock EXCEPT ![Server[cur[p]]] = p]
    /\ Goto(p, "decide")
    /\ UNCHANGED <<rowVars, appLock, jobVars, noteVars, boundVars, unseen,
                   mode, ret, cur, job, goal, todo, pend>>

Unlock(p) ==
    /\ appLock' = [appLock EXCEPT ![App[cur[p]]] = NoProc]
    /\ srvLock' = [srvLock EXCEPT ![Server[cur[p]]] = NoProc]

\* The request ends as queue_full or skipped; no row is created.
AdmitReject(p) ==
    LET d == cur[p] IN
    /\ pc[p] = "decide" /\ mode[p] = "admit"
    /\ QueueFull(d) \/ AlreadyQueued(d)
    /\ status' = [status EXCEPT ![d] = "rejected"]
    /\ Unlock(p)
    /\ Return(p)
    /\ UNCHANGED <<via, createdAt, jobVars, noteVars, boundVars, unseen>>

\* The reads of the admission transaction.  The new row is not visible to
\* other processes before the commit.
AdmitDecide(p) ==
    LET d == cur[p] IN
    /\ pc[p] = "decide" /\ mode[p] = "admit"
    /\ ~ QueueFull(d) /\ ~ AlreadyQueued(d)
    /\ Goto(p, IF d \in Unquestioned \/ NextQueuable(d) THEN "commit_start"
                                                       ELSE "commit_queue")
    /\ UNCHANGED <<rowVars, lockVars, jobVars, noteVars, boundVars, unseen,
                   mode, ret, cur, job, goal, todo, pend>>

\* Commit of an admission that leaves the new deployment queued.
CommitQueue(p) ==
    /\ pc[p] = "commit_queue"
    /\ status' = [status EXCEPT ![cur[p]] = "queued"]
    /\ createdAt' = [createdAt EXCEPT ![cur[p]] = Cardinality(Rows) + 1]
    /\ Unlock(p)
    /\ Return(p)
    /\ UNCHANGED <<via, jobVars, noteVars, boundVars, unseen>>

\* start_queued_deployment returns false: the deployment is no longer queued,
\* or the limits do not let it run now.
StartDecline(p) ==
    LET d == cur[p] IN
    /\ pc[p] = "decide" /\ mode[p] \in {"start", "force"}
    /\ status[d] # "queued" \/ (mode[p] = "start" /\ ~ NextQueuable(d))
    /\ Unlock(p)
    /\ Return(p)
    /\ UNCHANGED <<rowVars, jobVars, noteVars, boundVars, unseen>>

\* start_queued_deployment locks the deployment row and decides to start it.
StartDecide(p) ==
    LET d == cur[p] IN
    /\ pc[p] = "decide" /\ mode[p] \in {"start", "force"}
    /\ status[d] = "queued" /\ (mode[p] = "force" \/ NextQueuable(d))
    /\ Goto(p, "commit_start")
    /\ UNCHANGED <<rowVars, lockVars, jobVars, noteVars, boundVars, unseen,
                   mode, ret, cur, job, goal, todo, pend>>

StartedBy(p) ==
    IF mode[p] = "force" \/ (mode[p] = "admit" /\ cur[p] \in Unquestioned)
    THEN "forced" ELSE "limits"

\* Commit of an admission or a start that sets the deployment in progress.
CommitStart(p) ==
    LET d == cur[p] IN
    /\ pc[p] = "commit_start"
    /\ status' = [status EXCEPT ![d] = "in_progress"]
    /\ via' = [via EXCEPT ![d] = StartedBy(p)]
    /\ createdAt' = IF status[d] = "none"
                    THEN [createdAt EXCEPT ![d] = Cardinality(Rows) + 1]
                    ELSE createdAt
    /\ Unlock(p)
    /\ Goto(p, "dispatch")
    /\ UNCHANGED <<jobVars, noteVars, boundVars, unseen,
                   mode, ret, cur, job, goal, todo, pend>>

\* ApplicationDeploymentJob::dispatch() pushes the job to Redis.
Dispatch(p) ==
    /\ pc[p] = "dispatch"
    /\ redis' = [redis EXCEPT ![cur[p]] = @ + 1]
    /\ Return(p)
    /\ UNCHANGED <<rowVars, lockVars, taken, noteVars, boundVars, unseen>>

\* The job could not be created or pushed.
DispatchFails(p) ==
    /\ pc[p] = "dispatch"
    /\ Goto(p, "undispatchable")
    /\ UNCHANGED <<rowVars, lockVars, jobVars, noteVars, boundVars, unseen,
                   mode, ret, cur, job, goal, todo, pend>>

\* Mutant of FailUndispatchable: the queue is not advanced afterwards.
FailUndispatchableOnly(p) ==
    LET d == cur[p] IN
    /\ pc[p] = "undispatchable" /\ RowUnlocked(d)
    /\ status' = IF status[d] = "in_progress" THEN [status EXCEPT ![d] = "failed"] ELSE status
    /\ Return(p)
    /\ UNCHANGED <<via, createdAt, lockVars, jobVars, noteVars, boundVars, unseen>>

\* fail_undispatchable_deployment: fails the row only while it is in progress.
FailUndispatchable(p) ==
    LET d == cur[p] IN
    /\ pc[p] = "undispatchable" /\ RowUnlocked(d)
    /\ \/ /\ status[d] = "in_progress"
          /\ status' = [status EXCEPT ![d] = "failed"]
          /\ QueueNextDeployment(p, d)
          /\ UNCHANGED <<ret, job, goal, todo>>
       \/ /\ status[d] # "in_progress"
          /\ Return(p)
          /\ UNCHANGED status
    /\ UNCHANGED <<via, createdAt, lockVars, jobVars, noteVars, boundVars, unseen>>

-----------------------------------------------------------------------------
(* Advancing the queue. *)

\* Servers whose queued deployments a pass for the ended deployment d lists.
PassServers(d) ==
    {PrimaryServer[App[d]], Server[d]}
        \cup {Server[e] : e \in {f \in QueuedRows : App[f] = App[d]}}

\* Rows whose admission has decided to queue them but has not committed.
Uncommitted == {cur[q] : q \in {r \in Procs : pc[r] = "commit_queue"}}

\* start_next_queued_deployments lists the queued deployments (no locks).
ListQueued(p) ==
    /\ pc[p] = "advance" /\ todo[p] = {} /\ pend[p] # <<>>
    /\ todo' = [todo EXCEPT
                  ![p] = {e \in QueuedRows : Server[e] \in PassServers(Head(pend[p]))}]
    /\ pend' = [pend EXCEPT ![p] = Tail(@)]
    /\ unseen' = unseen \cup Uncommitted
    /\ UNCHANGED <<rowVars, lockVars, jobVars, noteVars, boundVars,
                   pc, mode, ret, cur, job, goal>>

\* The loop takes the oldest deployment of its list.
StartNext(p) ==
    /\ pc[p] = "advance"
    /\ \E d \in todo[p] :
          /\ \A e \in todo[p] : createdAt[d] <= createdAt[e]
          /\ cur' = [cur EXCEPT ![p] = d]
          /\ todo' = [todo EXCEPT ![p] = @ \ {d}]
    /\ Goto(p, "lock_app")
    /\ UNCHANGED <<rowVars, lockVars, jobVars, noteVars, boundVars, unseen,
                   mode, ret, job, goal, pend>>

\* $pending is empty: queue_next_deployment returns.
AdvanceDone(p) ==
    /\ pc[p] = "advance" /\ todo[p] = {} /\ pend[p] = <<>>
    /\ \/ ret[p] = "idle" /\ Finish(p)
       \/ /\ ret[p] # "idle"
          /\ Goto(p, ret[p])
          /\ mode' = [mode EXCEPT ![p] = "none"]
          /\ UNCHANGED <<ret, cur, job, goal, todo, pend>>
    /\ UNCHANGED <<rowVars, lockVars, jobVars, noteVars, boundVars, unseen>>

\* DeploymentNavbar::force_start
ForceStart(p, d) ==
    /\ "force_start" \in UserActions /\ pc[p] = "idle" /\ status[d] = "queued"
    /\ Goto(p, "lock_app")
    /\ mode' = [mode EXCEPT ![p] = "force"]
    /\ cur' = [cur EXCEPT ![p] = d]
    /\ UNCHANGED <<rowVars, lockVars, jobVars, noteVars, boundVars, unseen,
                   ret, job, goal, todo, pend>>

-----------------------------------------------------------------------------
(* The deployment job. *)

\* Mutant of TakeJob: a worker runs a job that is not in the queue.
TakeJobUnguarded(p, d) ==
    /\ pc[p] = "idle" /\ status[d] = "in_progress"
    /\ redis' = [redis EXCEPT ![d] = @ - 1]
    /\ taken' = [taken EXCEPT ![d] = @ + 1]
    /\ job' = [job EXCEPT ![p] = d]
    /\ Goto(p, "refresh")
    /\ UNCHANGED <<rowVars, lockVars, noteVars, boundVars, unseen,
                   mode, ret, cur, goal, todo, pend>>

\* A Horizon worker takes the job of deployment d from Redis.
TakeJob(p, d) ==
    /\ pc[p] = "idle" /\ redis[d] > 0
    /\ redis' = [redis EXCEPT ![d] = @ - 1]
    /\ taken' = [taken EXCEPT ![d] = @ + 1]
    /\ job' = [job EXCEPT ![p] = d]
    /\ Goto(p, "refresh")
    /\ UNCHANGED <<rowVars, lockVars, noteVars, boundVars, unseen,
                   mode, ret, cur, goal, todo, pend>>

\* Mutant of HandleCancelled: no combined notification.
HandleCancelledSilently(p) == Finish(p)

\* handleCancelledDeployment, after which the job stops.
HandleCancelled(p) ==
    \/ /\ Parent[job[p]] = NoDep
       /\ Finish(p)
    \/ /\ Parent[job[p]] # NoDep
       /\ Goto(p, "notify")
       /\ ret' = [ret EXCEPT ![p] = "idle"]
       /\ UNCHANGED <<mode, cur, job, goal, todo, pend>>

\* Eloquent writes a column only when it differs from the value in memory, so
\* what the job last read decides whether handle() writes the status.
MarkPoint(s) == IF s = "in_progress" THEN "mark_clean" ELSE "mark_dirty"

\* handle() refreshes the row and stops if the deployment was cancelled.
HandleRefresh(p) ==
    LET d == job[p] IN
    /\ pc[p] = "refresh"
    /\ \/ status[d] = "cancelled" /\ HandleCancelled(p)
       \/ /\ status[d] # "cancelled"
          /\ Goto(p, MarkPoint(status[d]))
          /\ UNCHANGED <<mode, ret, cur, job, goal, todo, pend>>
    /\ UNCHANGED <<rowVars, lockVars, jobVars, noteVars, boundVars, unseen>>

\* A warning of the checks before the build: addLogEntry refreshes the row.
HandleWarn(p) ==
    /\ pc[p] \in {"mark_clean", "mark_dirty"}
    /\ Goto(p, MarkPoint(status[job[p]]))
    /\ UNCHANGED <<rowVars, lockVars, jobVars, noteVars, boundVars, unseen,
                   mode, ret, cur, job, goal, todo, pend>>

\* transitionToStatus(s) is called.
Transition(p, s) ==
    /\ Goto(p, "end")
    /\ goal' = [goal EXCEPT ![p] = s]

\* A check before the build throws: fail() and failed().
HandleCheckFails(p) ==
    /\ pc[p] \in {"mark_clean", "mark_dirty"}
    /\ Transition(p, "failed")
    /\ UNCHANGED <<rowVars, lockVars, jobVars, noteVars, boundVars, unseen,
                   mode, ret, cur, job, todo, pend>>

\* update(['status' => IN_PROGRESS, ...]) at the start of the build.
HandleMark(p) ==
    LET d == job[p] IN
    /\ pc[p] \in {"mark_clean", "mark_dirty"} /\ RowUnlocked(d)
    /\ \/ pc[p] = "mark_clean" /\ UNCHANGED <<status, via>>
       \/ /\ pc[p] = "mark_dirty"
          /\ status' = [status EXCEPT ![d] = "in_progress"]
          /\ via' = [via EXCEPT ![d] = "worker"]
    /\ Goto(p, "build")
    /\ UNCHANGED <<createdAt, lockVars, jobVars, noteVars, boundVars, unseen,
                   mode, ret, cur, job, goal, todo, pend>>

\* The build ends: all commands ran, or one failed, timed out or saw the
\* cancellation.  A cancellation after the last check does not stop the build.
Build(p) ==
    /\ pc[p] = "build"
    /\ \E s \in {"finished", "failed"} : Transition(p, s)
    /\ UNCHANGED <<rowVars, lockVars, jobVars, noteVars, boundVars, unseen,
                   mode, ret, cur, job, todo, pend>>

\* Mutant of IsInTerminalState: only the cancellation is checked.
IsInTerminalStateCancelledOnly(p) ==
    LET d == job[p] IN
    /\ pc[p] = "end"
    /\ \/ status[d] = "cancelled" /\ HandleCancelled(p)
       \/ /\ status[d] # "cancelled"
          /\ Goto(p, "write")
          /\ UNCHANGED <<mode, ret, cur, job, goal, todo, pend>>
    /\ UNCHANGED <<rowVars, lockVars, jobVars, noteVars, boundVars, unseen>>

\* isInTerminalState refreshes the row and decides whether to write.
IsInTerminalState(p) ==
    LET d == job[p] IN
    /\ pc[p] = "end"
    /\ \/ status[d] \in {"finished", "failed"} /\ Finish(p)
       \/ status[d] = "cancelled" /\ HandleCancelled(p)
       \/ /\ status[d] \notin Terminal
          /\ Goto(p, "write")
          /\ UNCHANGED <<mode, ret, cur, job, goal, todo, pend>>
    /\ UNCHANGED <<rowVars, lockVars, jobVars, noteVars, boundVars, unseen>>

\* Mutant of AdvanceAfterEnd: the queue is not advanced.
AdvanceAfterEndNot(p) ==
    /\ Goto(p, "tail")
    /\ ret' = [ret EXCEPT ![p] = "tail"]
    /\ UNCHANGED <<mode, cur, job, goal, todo, pend>>

\* The rest of transitionToStatus: queue_next_deployment, then what is left of
\* the job.
AdvanceAfterEnd(p) ==
    /\ QueueNextDeployment(p, job[p])
    /\ ret' = [ret EXCEPT ![p] = "tail"]
    /\ UNCHANGED <<job, goal, todo>>

\* updateDeploymentStatus, then the side effects of the new status.
UpdateDeploymentStatus(p) ==
    LET d == job[p] IN
    /\ pc[p] = "write" /\ RowUnlocked(d)
    /\ status' = [status EXCEPT ![d] = goal[p]]
    /\ \/ /\ Parent[d] # NoDep
          /\ Goto(p, "notify")
          /\ ret' = [ret EXCEPT ![p] = "tail"]
          /\ UNCHANGED <<mode, cur, job, goal, todo, pend>>
       \/ /\ Parent[d] = NoDep /\ goal[p] = "finished" /\ Children(d) # {}
          /\ Goto(p, "children")
          /\ ret' = [ret EXCEPT ![p] = "children"]
          /\ UNCHANGED <<mode, cur, job, goal, todo, pend>>
       \/ /\ Parent[d] = NoDep /\ (goal[p] # "finished" \/ Children(d) = {})
          /\ AdvanceAfterEnd(p)
    /\ UNCHANGED <<via, createdAt, lockVars, jobVars, noteVars, boundVars, unseen>>

\* deploy_to_additional_destinations queues one deployment per server.
DeployToAdditional(p) ==
    /\ pc[p] = "children"
    /\ \E c \in Children(job[p]) :
          /\ status[c] = "none"
          /\ cur' = [cur EXCEPT ![p] = c]
    /\ mode' = [mode EXCEPT ![p] = "admit"]
    /\ Goto(p, "lock_app")
    /\ UNCHANGED <<rowVars, lockVars, jobVars, noteVars, boundVars, unseen,
                   ret, job, goal, todo, pend>>

\* All additional servers are handled; one created row is enough for the
\* combined notification.
AllChildrenQueued(p) ==
    LET d == job[p] IN
    /\ pc[p] = "children" /\ \A c \in Children(d) : status[c] # "none"
    /\ \/ /\ Children(d) \cap Rows # {}
          /\ allQueued' = [allQueued EXCEPT ![d] = TRUE]
          /\ Goto(p, "notify")
          /\ ret' = [ret EXCEPT ![p] = "tail"]
          /\ UNCHANGED <<mode, cur, job, goal, todo, pend>>
       \/ /\ Children(d) \cap Rows = {}
          /\ AdvanceAfterEnd(p)
          /\ UNCHANGED allQueued
    /\ UNCHANGED <<rowVars, lockVars, jobVars, notified, notices, thrown, boundVars, unseen>>

\* The multi-server deployment that the job of p belongs to.
NoticeParent(p) == IF Parent[job[p]] = NoDep THEN job[p] ELSE Parent[job[p]]

AllChildrenEnded(d) == \A c \in Children(d) \cap Rows : status[c] \in Terminal

\* sendMultiServerDeploymentNotification is over: transitionToStatus goes on,
\* a cancelled job stops.
AfterNotice(p) ==
    \/ ret[p] = "idle" /\ Finish(p)
    \/ ret[p] # "idle" /\ AdvanceAfterEnd(p)

\* Reads the cache flag and the statuses of all children.
NoticeRead(p) ==
    LET d == NoticeParent(p) IN
    /\ pc[p] = "notify"
    /\ \/ /\ allQueued[d] /\ AllChildrenEnded(d)
          /\ Goto(p, "notify_add")
          /\ UNCHANGED <<mode, ret, cur, job, goal, todo, pend>>
       \/ /\ ~ (allQueued[d] /\ AllChildrenEnded(d))
          /\ AfterNotice(p)
    /\ UNCHANGED <<rowVars, lockVars, jobVars, noteVars, boundVars, unseen>>

\* Mutant of NoticeAdd: sends without Cache::add.
NoticeAddAlways(p) ==
    /\ pc[p] = "notify_add"
    /\ notices' = [notices EXCEPT ![NoticeParent(p)] = @ + 1]
    /\ AfterNotice(p)
    /\ UNCHANGED <<rowVars, lockVars, jobVars, allQueued, notified, thrown, boundVars, unseen>>

\* Cache::add lets one process send the notification.
NoticeAdd(p) ==
    LET d == NoticeParent(p) IN
    /\ pc[p] = "notify_add"
    /\ notified' = notified \cup {d}
    /\ notices' = IF d \in notified THEN notices ELSE [notices EXCEPT ![d] = @ + 1]
    /\ AfterNotice(p)
    /\ UNCHANGED <<rowVars, lockVars, jobVars, allQueued, thrown, boundVars, unseen>>

\* The check of p is the one that would send the notification.
WouldSend(p) ==
    LET d == NoticeParent(p) IN
    pc[p] = "notify_add" \/ (allQueued[d] /\ AllChildrenEnded(d))

\* Where an exception of the side effects leads: transitionToStatus logs it and
\* advances the queue; that of a cancelled job reaches failed(), unless it was
\* failed() that threw it.
AfterException(p) ==
    \/ ret[p] # "idle" /\ AdvanceAfterEnd(p)
    \/ ret[p] = "idle" /\ goal[p] = "failed" /\ Finish(p)
    \/ /\ ret[p] = "idle" /\ Transition(p, "failed")
       /\ UNCHANGED <<mode, ret, cur, job, todo, pend>>

\* The application update, the event, a query, the cache or notify() throws, the
\* last possibly after Cache::add.
SideEffectsFail(p) ==
    LET d == NoticeParent(p) IN
    /\ pc[p] \in {"children", "notify", "notify_add"}
    /\ thrown' = IF WouldSend(p) THEN thrown \cup {d} ELSE thrown
    /\ \/ UNCHANGED notified
       \/ pc[p] = "notify_add" /\ notified' = notified \cup {d}
    /\ AfterException(p)
    /\ UNCHANGED <<rowVars, lockVars, jobVars, allQueued, notices, boundVars, unseen>>

\* What follows transitionToStatus in the job: it returns, a restart calls
\* completeDeployment a second time, or an error reaches failed().
JobTail(p) ==
    /\ pc[p] = "tail"
    /\ \/ Finish(p)
       \/ /\ \E s \in {"finished", "failed"} : Transition(p, s)
          /\ UNCHANGED <<mode, ret, cur, job, todo, pend>>
    /\ UNCHANGED <<rowVars, lockVars, jobVars, noteVars, boundVars, unseen>>

-----------------------------------------------------------------------------
(* Cancellation, clean-up and restart. *)

\* The cancelled deployment's process advances the queue (next_after_cancel).
CancelRow(p, d) ==
    /\ pc[p] = "idle" /\ RowUnlocked(d)
    /\ status' = [status EXCEPT ![d] = "cancelled"]
    /\ QueueNextDeployment(p, d)
    /\ UNCHANGED <<via, createdAt, lockVars, jobVars, noteVars, boundVars, unseen,
                   ret, job, goal, todo>>

\* DeployController::cancel_deployment and the MCP tool: a conditional update.
CancelApi(p, d) ==
    /\ "cancel_api" \in UserActions /\ status[d] \in Active
    /\ CancelRow(p, d)

\* DeploymentNavbar::cancel: an unconditional update, from a page that may be
\* older than the row.
CancelUi(p, d) ==
    /\ "cancel_ui" \in UserActions /\ d \in Rows /\ status[d] # "cancelled"
    /\ CancelRow(p, d)

\* CleanupPreviewDeployment and DeleteResourceJob list the active deployments
\* of a pull request.
CleanupPreview(p, s) ==
    LET found == {d \in Deployments : Slot[d] = s /\ status[d] \in Active} IN
    /\ "cleanup" \in UserActions /\ s \in Previews
    /\ pc[p] = "idle" /\ found # {}
    /\ todo' = [todo EXCEPT ![p] = found]
    /\ mode' = [mode EXCEPT ![p] = "cleanup"]
    /\ Goto(p, "sweep")
    /\ UNCHANGED <<rowVars, lockVars, jobVars, noteVars, boundVars, unseen,
                   ret, cur, job, goal, pend>>

\* check:deployment-queue lists old active deployments; the operator picks some.
CheckQueue(p) ==
    /\ pc[p] = "idle" /\ sweeps < MaxSweeps
    /\ sweeps' = sweeps + 1
    /\ \E found \in SUBSET {d \in Deployments : status[d] \in Active} :
          /\ found # {}
          /\ todo' = [todo EXCEPT ![p] = found]
    /\ mode' = [mode EXCEPT ![p] = "check"]
    /\ Goto(p, "sweep")
    /\ UNCHANGED <<rowVars, lockVars, jobVars, noteVars, restarts, unseen,
                   ret, cur, job, goal, pend>>

\* One unconditional update of such a loop.  Only the pull request clean-up
\* advances the queue at its end.
Sweep(p) ==
    /\ pc[p] = "sweep"
    /\ \E d \in todo[p] :
          /\ RowUnlocked(d)
          /\ status' = [status EXCEPT
                          ![d] = IF mode[p] = "cleanup" THEN "cancelled" ELSE "failed"]
          /\ \/ /\ todo[p] # {d}
                /\ todo' = [todo EXCEPT ![p] = @ \ {d}]
                /\ UNCHANGED <<pc, mode, ret, cur, job, goal, pend>>
             \/ /\ todo[p] = {d} /\ mode[p] = "cleanup"
                /\ QueueNextDeployment(p, d)
                /\ todo' = [todo EXCEPT ![p] = {}]
                /\ UNCHANGED <<ret, job, goal>>
             \/ /\ todo[p] = {d} /\ mode[p] = "check"
                /\ Finish(p)
    /\ UNCHANGED <<via, createdAt, lockVars, jobVars, noteVars, boundVars, unseen>>

\* All processes stop; their open transactions and row locks go with them.
ProcessesDie ==
    /\ appLock' = [a \in Apps |-> NoProc]
    /\ srvLock' = [s \in Servers |-> NoProc]
    /\ pc' = [p \in Procs |-> "idle"]
    /\ mode' = [p \in Procs |-> "none"]
    /\ ret' = [p \in Procs |-> "idle"]
    /\ cur' = [p \in Procs |-> NoDep]
    /\ job' = [p \in Procs |-> NoDep]
    /\ goal' = [p \in Procs |-> "none"]
    /\ todo' = [p \in Procs |-> {}]
    /\ pend' = [p \in Procs |-> <<>>]

\* Mutant of Restart: interrupted deployments go back to the queue.
RestartRequeue ==
    /\ restarts < MaxRestarts
    /\ restarts' = restarts + 1
    /\ status' = [d \in Deployments |-> IF status[d] \in Active THEN "queued" ELSE status[d]]
    /\ ProcessesDie
    /\ UNCHANGED <<via, createdAt, jobVars, noteVars, sweeps, unseen>>

\* The instance stops, wherever its processes are, and the init command fails
\* all active deployments when it starts again.  Redis keeps its jobs.
Restart ==
    /\ restarts < MaxRestarts
    /\ restarts' = restarts + 1
    /\ status' = [d \in Deployments |-> IF status[d] \in Active THEN "failed" ELSE status[d]]
    /\ ProcessesDie
    /\ UNCHANGED <<via, createdAt, jobVars, noteVars, sweeps, unseen>>

-----------------------------------------------------------------------------

\* The steps that continue an operation a process has begun.
LockStep(p) == LockApp(p) \/ LockServer(p)

QueueStep(p) ==
    \/ AdmitReject(p) \/ AdmitDecide(p) \/ CommitQueue(p)
    \/ StartDecline(p) \/ StartDecide(p) \/ CommitStart(p)
    \/ Dispatch(p) \/ DispatchFails(p) \/ FailUndispatchable(p)
    \/ ListQueued(p) \/ StartNext(p) \/ AdvanceDone(p)

JobStep(p) ==
    \/ HandleRefresh(p) \/ HandleWarn(p) \/ HandleCheckFails(p) \/ HandleMark(p)
    \/ Build(p) \/ IsInTerminalState(p) \/ UpdateDeploymentStatus(p)
    \/ DeployToAdditional(p) \/ AllChildrenQueued(p) \/ NoticeRead(p)
    \/ NoticeAdd(p) \/ SideEffectsFail(p) \/ JobTail(p)

\* The steps that begin an operation in an idle process.
Begin(p) ==
    \/ \E d \in Deployments :
          \/ Request(p, d) \/ ForceStart(p, d) \/ TakeJob(p, d)
          \/ CancelApi(p, d) \/ CancelUi(p, d)
    \/ \E s \in Slots : CleanupPreview(p, s)
    \/ CheckQueue(p)

Step(p) == LockStep(p) \/ QueueStep(p) \/ JobStep(p) \/ Sweep(p)

Quiet ==
    /\ \A p \in Procs : pc[p] = "idle"
    /\ \A d \in Deployments : redis[d] = 0

\* Nothing runs and nothing waits in Redis.
Idle == Quiet /\ UNCHANGED vars

Next == (\E p \in Procs : Begin(p) \/ Step(p)) \/ Restart \/ Idle

Spec == Init /\ [][Next]_vars

\* PostgreSQL serves the waiters of a row lock, PHP processes run on, builds
\* end (the job has a timeout), and workers take the jobs that wait in Redis.
Fairness ==
    /\ \A p \in Procs : WF_vars(Step(p)) /\ SF_vars(LockApp(p)) /\ SF_vars(LockServer(p))
    /\ \A d \in Deployments : WF_vars(\E p \in Procs : TakeJob(p, d))

FairSpec == Spec /\ Fairness

-----------------------------------------------------------------------------
(* Properties. *)

PcValues ==
    {"idle", "lock_app", "lock_server", "decide", "commit_queue", "commit_start",
     "dispatch", "undispatchable", "advance", "refresh", "mark_clean",
     "mark_dirty", "build", "end", "write", "children", "notify", "notify_add",
     "tail", "sweep"}

\* Type correctness of the rows, locks, jobs and process states.
TypeOK ==
    /\ status \in [Deployments -> Statuses]
    /\ via \in [Deployments -> {"none", "limits", "forced", "worker"}]
    /\ createdAt \in [Deployments -> Nat]
    /\ appLock \in [Apps -> Procs \cup {NoProc}]
    /\ srvLock \in [Servers -> Procs \cup {NoProc}]
    /\ redis \in [Deployments -> Nat] /\ taken \in [Deployments -> Nat]
    /\ allQueued \in [Deployments -> BOOLEAN] /\ notices \in [Deployments -> Nat]
    /\ notified \subseteq Deployments /\ thrown \subseteq Deployments
    /\ unseen \in SUBSET Deployments
    /\ sweeps \in Nat /\ restarts \in Nat
    /\ pc \in [Procs -> PcValues]
    /\ mode \in [Procs -> {"none", "admit", "start", "force", "cleanup", "check"}]
    /\ ret \in [Procs -> {"idle", "children", "tail"}]
    /\ cur \in [Procs -> Deployments \cup {NoDep}]
    /\ job \in [Procs -> Deployments \cup {NoDep}]
    /\ goal \in [Procs -> {"none", "finished", "failed"}]
    /\ todo \in [Procs -> SUBSET Deployments]
    /\ pend \in [Procs -> Seq(Deployments)]

\* "A repeated force start never runs the same deployment twice": whatever
\* admissions, passes over the queue and force starts race, one deployment
\* gets at most one job.
DispatchedOnce == \A d \in Deployments : redis[d] + taken[d] <= 1

\* Deployments that entered in_progress through the limits check, and were
\* not marked again by their own job since.
Limited == {d \in Deployments : status[d] = "in_progress" /\ via[d] = "limits"}

\* next_queuable under the application row lock: two deployments that started
\* through it never run at once for the same application and pull request.
OnePerSlot == \A d, e \in Limited : Slot[d] = Slot[e] => d = e

\* next_queuable under the server row lock: the deployments that started
\* through it never exceed concurrent_builds of their server.
WithinConcurrentBuilds ==
    \A s \in Servers :
        Cardinality({d \in Limited : Server[d] = s}) <= ConcurrentBuilds[s]

\* Once everything is quiet, a queued deployment that could run now is one
\* whose admission was still uncommitted when a pass listed the queue.
StrandedOnlyIfUnseen ==
    Quiet => \A d \in QueuedRows : NextQueuable(d) => d \in unseen

\* transitionToStatus: "side effect failures ... cannot flip a finished
\* deployment to failed", whatever fails after the status is stored.
FinishedNeverFails ==
    [][\A d \in Deployments : status[d] = "finished" => status'[d] # "failed"]_vars

\* The combined notification of a multi-server deployment is sent once, by
\* whichever of its jobs ends last.
OneNotice == \A d \in Deployments : notices[d] <= 1

\* Without a restart and an operator's check:deployment-queue, which end rows
\* without their jobs, it is lost in one way only: once everything is quiet, all
\* servers were queued and all their deployments ended, it was sent, or an
\* exception of the side effects, which transitionToStatus only logs, hit a job
\* that would have sent it.
NoticeLostOnlyByThrow ==
    Quiet /\ sweeps = 0 /\ restarts = 0 =>
        \A d \in Deployments :
            allQueued[d] /\ AllChildrenEnded(d) => notices[d] = 1 \/ d \in thrown

\* Every queued deployment leaves the queue, unless a pass could not see it.
QueuedEventuallyLeaves ==
    \A d \in Deployments :
        status[d] = "queued" ~> (status[d] # "queued" \/ d \in unseen)

-----------------------------------------------------------------------------
(* Statements of the repository that the code does not keep. *)

\* isInTerminalState: "Terminal states cannot be changed."  The refresh and
\* the write of transitionToStatus are two statements.
TerminalStatesStay ==
    [][\A d \in Deployments : status[d] \in Terminal => status'[d] = status[d]]_vars

\* queue_next_deployment: "Start the queued deployments that can run now".
\* Once everything is quiet, no queued deployment could run now.
NoneStranded == Quiet => \A d \in QueuedRows : ~ NextQueuable(d)
=============================================================================
