# A TLA+ model of Coolify's deployment queue, scheduled jobs and terminal

Coolify is a self-hosted platform: a Laravel application that deploys
applications, databases and services to servers over SSH and Docker. Its own
state is a PostgreSQL database, a Redis queue (Horizon workers) and a cache.
Web requests, API calls, webhooks, queue workers, the scheduler and artisan
commands are all PHP processes that read and write this state at the same time.
Beside them a Node process serves terminals over WebSockets, and pages keep state
of their own in the browser: the terminal and the log viewer. This project models
the parts where concurrency, lost messages and late answers decide whether the
system is correct.

Source paths below are relative to the repository root.

## 1. Inventory

| Component | State | Operations | What is hard |
|---|---|---|---|
| Deployment queue (`bootstrap/helpers/applications.php`) | rows of `application_deployment_queues` with a status; row locks on applications and servers; jobs in Redis | request, start, force start, dispatch, fail, advance after an end or a cancellation | two requests or workers that decide at once; lists read without locks; a push that fails after the commit |
| Deployment job (`app/Jobs/ApplicationDeploymentJob.php`) | the status column, the job's copy of the row, two cache keys | mark in progress, build, finish, fail, queue the additional servers, notify | refresh and write are separate statements; side effects that throw after the status is stored; several jobs that end at once |
| Cancellation and clean-up (API, page, pull request clean-up, `check:deployment-queue`, `init`) | the same rows | conditional and unconditional updates, queue advance | they race with the job, and with each other; jobs stay in Redis |
| Scheduled job delivery (`app/Services/ScheduledJobDeliveryService.php`, `app/Jobs/ScheduledJobManager.php`) | one `ScheduledJobState` per schedule, one `ScheduledJobDelivery` per occurrence | record, publish, recover, claim, skip, complete, fail, report missed, prune | manager runs overlap, jobs get lost or arrive late, workers are killed, daylight saving time |
| Scheduled jobs (task, database backup, volume backup, Docker cleanup) | overlap lock, execution rows | run once per occurrence | lock expiry against job timeout; duplicates |
| Volume backup recovery | flags on the execution, containers stopped on the server | stop, archive, start again, recover | a crash between stop and start |
| Database operation reservation (`app/Support`) | an expiring cache key per database, start activities | acquire, renew, release | expiry between a read and a write |
| GitHub runners | executions with a status, containers, registrations at GitHub | provision, reconcile, clean up, deregister | capacity of a server, an external API that disagrees |
| Restart limit, status aggregation | restart counter, `restart_limit_reached` | observe, claim, reset | two observers, counter resets |
| Rolling update | old and new containers | start, health check, stop old, roll back | failing after the old version is gone |
| Terminal server (`docker/coolify-terminal`) | one session per connection: PTY, `isActive`, session timer, authorised hosts; the map of sessions | upgrade, authorise, redeem a token, spawn, kill, time out, ping, close | every handler awaits in the middle; several kill loops wait on one PTY; a browser that vanishes |
| Browser terminal (`resources/js/terminal.js`, `terminal-connection.js`) | socket, connection state, five timers, the pending token, the error shown | connect, reconnect with back-off, probe, start a session, give up, clean up | socket events, timers, Livewire events and the tab's visibility in any order; single-use tokens |
| Runtime log viewer (`resources/js/runtime-logs.js`, `GetLogs`) | the lines shown, `loading` | load, load all, poll, merge, trim | the log grows between request and answer; equal timestamps; failed and late answers |
| Other page scripts, bundled editor | flags | presentation | - |
| Notification throttle | one row per notifiable and notification | claim, send, release | parallel senders |
| Server transfer, managed DNS, server checks, proxy | one flag or lock each | mostly remote calls | - |
| Compose parsing, CRUD pages and API, billing, notification channels, OIDC, MCP tools | - | - | no concurrent state of their own |

Interactions. A web request, an API call or a webhook calls
`queue_application_deployment`, which inserts a row and may push an
`ApplicationDeploymentJob` to Redis. A Horizon worker runs that job; at its end
the job calls `queue_next_deployment`, which starts queued rows of any
application on the same server. A finished main deployment queues one child
deployment per additional server through the same admission. Cancellations write
the row and advance the queue in the request's process. The scheduler starts
`ScheduledJobManager` every minute; it records and publishes occurrences whose
jobs claim them when a worker takes them. The queue and the delivery share the
workers and no rows. A terminal page asks Livewire for a single-use token, sends
it over its WebSocket to the terminal server, which redeems it at Coolify for an
ssh command and answers `pty-ready`, `unprocessable`, `pty-exited` or a refusal;
a rejection is a close code that the page must not answer with a reconnect. A log
viewer calls `getLogs` through Livewire.

What makes each component correct, in one line: the queue must run each
deployment once, within its limits, and never forget one; the job must end in
one status and notify once; a schedule's occurrence must be recorded once, run
at most once, never overlap, and never stay open; a terminal connection runs one
shell, under a deadline, and answers every request; the page sends a token once
and does not give up without a word; the log viewer shows a piece of
the log as it was written.

## 2. Modules

| Module | Contents |
|---|---|
| `DeploymentQueue` | the queue, the job's status machine, cancellation, restart, the combined notification |
| `DeploymentQueueProofs` | its theorems on slots, limits and jobs |
| `DeploymentNoticeProofs` | its theorems on statuses that stay and on the notification |
| `DeploymentStrandedProofs` | its theorem on deployments that are left behind |
| `MCQueue`, `MCMulti` | instances: up to three deployments of two applications on one server; one application on a main and an additional server |
| `ScheduledDelivery` | delivery of the occurrences of one schedule |
| `OccurrenceLedger` | what the delivery service promises about the occurrences of a schedule; `ScheduledDelivery` implements it |
| `ScheduledDeliveryProofs` | theorems about the delivery, and the refinement |
| `MCDelivery` | its instances |
| `TerminalSession` | one connection of the terminal server |
| `TerminalSlot` | what the server promises a connection; `TerminalSession` implements it |
| `TerminalSessionProofs` | theorems about the session, and the refinement |
| `TerminalClient` | the terminal component of the browser, with the network and the server as its environment |
| `TerminalClientProofs` | its theorems |
| `RuntimeLogs` | the log viewer with the server's answers |
| `RuntimeLogsProofs` | its theorems |

Definitions called "Mutant of X" are deliberately wrong versions of X. They are
not part of any specification; replacing X by its mutant makes a named property
fail, which shows that the property depends on the code X models.

### DeploymentQueue

A step is one statement on shared state. The state of a PHP process is its
control point `pc`, the kind of helper it runs (`mode`: admission, start, force
start, clean-up, check), where it continues when the helper returns (`ret`) and
its local data.

| State | Code |
|---|---|
| `status`, `createdAt` | columns of the deployment row (`none`: not inserted; `rejected`: the request ended as `queue_full` or `skipped`) |
| `via` | ghost: whether the limits check, a force start or the job itself last set `in_progress` |
| `appLock`, `srvLock` | `lockForUpdate()` on the application and server rows |
| `redis`, `taken` | jobs of a deployment waiting in Redis / taken by a worker |
| `allQueued`, `notified` | cache keys `multi-server-deployment-queued:` and `multi-server-deployment-notified:` |
| `notices`, `thrown` | history: combined notifications sent; deployments whose notification an exception cut off |
| `unseen` | ghost: rows whose admission was uncommitted while some pass listed the queue |
| `todo`, `pend` | the list a loop reads at its start; the static `$pending` of `queue_next_deployment` |
| `cur`, `job`, `goal` | the helper's deployment, the worker's deployment, the status it is about to write |

Actions and code:

* Admission (`queue_application_deployment`): `Request`, `LockApp`,
  `LockServer`, then `AdmitReject`, or `AdmitDecide` (the reads) followed by
  `CommitQueue` or `CommitStart` (the commit, which makes the row visible and
  releases the locks), then `Dispatch` or `DispatchFails` and
  `FailUndispatchable`.
* Start (`start_queued_deployment`, `force_start_deployment`): `ForceStart` or
  `StartNext`, the same locks, `StartDecline` or `StartDecide`, `CommitStart`,
  `Dispatch`. The lock on the deployment row is `RowUnlocked`: other writers of
  the row wait for the commit.
* Advance (`queue_next_deployment`, `start_next_queued_deployments`):
  `ListQueued`, `StartNext`, `AdvanceDone`. A nested call appends to `pend`.
* The job: `TakeJob`, `HandleRefresh`, `HandleWarn`, `HandleCheckFails`,
  `HandleMark`, `Build`, `IsInTerminalState`, `UpdateDeploymentStatus`,
  `DeployToAdditional`, `AllChildrenQueued`, `NoticeRead`, `NoticeAdd`,
  `SideEffectsFail`, `JobTail`. `SideEffectsFail` is an exception anywhere in
  `handleStatusTransition`: in the update of the application, the event, the
  queueing of servers, the queries, the cache or `notify()`, the last also after
  `Cache::add`. `transitionToStatus` swallows it and advances the queue
  (`AfterException`). Eloquent writes only columns that differ from the copy
  in memory. `mark_clean` and `mark_dirty` say whether the write of
  `in_progress` in `handle()` reaches the database; a warning logged in between
  refreshes the copy, because `addLogEntry` does.
* Others: `CancelApi` (conditional), `CancelUi` (unconditional),
  `CleanupPreview` and `CheckQueue` with `Sweep`, `Restart` (every process dies;
  `init` fails the active rows; Redis keeps its jobs), `Idle`.

Abstractions. `created_at` is a strict rank. The two reads of
`start_next_queued_deployments` are one step, and so are the reads of
`next_queuable` (they run under the locks that all starters take). The build is
one step with both outcomes: the cancellation checks inside it
(`app/Traits/ExecuteRemoteCommand.php:105`, `:132`, `:230`) end it early, which
is the failing outcome. The status update after exhausted SSH retries
(`ExecuteRemoteCommand.php:153`) is unreachable, because the last attempt throws
inside the loop, and is not modelled. An error while `next_after_cancel` or the
log entries of a cancellation run is not modelled. A restored job of a crashed
worker only calls `failed()` on a row that `init` has already failed and is left
out. The application of a deployment exists; deletion of applications and
servers (`Server::failQueuedDeployments`) is left out. When the job of a cancelled
deployment reaches `failed()` after `handleCancelledDeployment`, the check for the
combined notification runs a second time; it changes nothing then and is not
repeated in the model. An exception of the main job before the cache flag is set
leaves `allQueued` false; no combined notification is due then.

### ScheduledDelivery and OccurrenceLedger

One schedule. Slots `1 .. LastSlot` are its due times; time is `Tick` (the next
slot is due) and `Age` (an occurrence passes the 60-minute or the 24-hour
limit).

| State | Code |
|---|---|
| `lastFor` | `ScheduledJobState.last_scheduled_for` |
| `row`, `token` | status and `claim_token` of the occurrence (`none`: no row yet, `deleted`: completed or pruned) |
| `oldCreated`, `oldEnqueued`, `tooOld` | comparisons of `created_at`, `enqueued_at` and `scheduled_for` with the clock |
| `jstate`, `jobOf`, `lock` | queued jobs and the `WithoutOverlapping` lock |
| `pc`, `phase`, `due`, `todo`, `cur`, `late` | a run of the manager: loop, frozen execution time, list read, current occurrence, decision read |
| `recorded`, `ran`, `missed` | ghost counters |

A manager run is `ManagerStart` (freezes the time, lists stale enqueued rows),
the recovery loop (`ManagerNext`, `Decide`, `Move`), `FailInterrupted`, the
publication loop, then `Record` or `RecordSkipped` for its own due time.
Publishing is two steps, `Publish` (the push) and `MarkEnqueued` (the
conditional update), with `PublishFails` and `PublishSkipped`. `ManagerStop` ends
a run regularly or kills it. A job is `Take` (the overlap lock is taken before
anything else), `Skip`, `Claim`, `Complete` or `Fail`. `Lose`, `Kill`,
`LockExpires` and `DeleteOld` are the environment and the pruning.

Abstractions. A manager may start with any old execution time because its lock
expires after 90 seconds while the run may go on. `RECOVERY_BATCH_SIZE` is not
modelled. "Claim older than the worker timeout" is modelled as "its job does not
run", which is what Horizon's timeout guarantees. In `DeleteOld`, "two days" and
"30 days" mean "any time later". Horizon does not retry these jobs; a job handed
out again after a kill only fails, and it may never be handed out. So no job meets
its own claim, and the second query of `claim()`, which accepts it, is left out. A
job id that no claim holds is used again for a new job, which keeps the instances
small: nothing compares the token of a closed occurrence.

`LockOutlives` says that the overlap lock is set for longer than the timeout of the
job that holds it. A volume backup adds 60 seconds to its own timeout
(`app/Jobs/VolumeBackupJob.php:46`), so this holds. A database backup takes the
timeout of the schedule twice: plus 120 seconds for the job, when it is dispatched
(`app/Jobs/DatabaseBackupJob.php:100`), and plus 300 for the lock, when a worker
takes the job (`:106`). A user who lowers the timeout in between makes the lock the
shorter one, and two backups can then overlap. `NoOverlap` is stated for
`LockOutlives`; the other properties do not need it.

`OccurrenceLedger` has four variables: the last recorded due time, the state of
each occurrence (`none`, `waiting`, `taken`, `closed`) and how often each was run
and reported as missed. Its steps are record, pass over, take, miss and close. It
knows nothing of managers, jobs, locks, ages or the two-step publication. The
mapping keeps `lastFor` and the counters and reads the state off the row:
`pending` and `enqueued` are waiting, `claimed` is taken, every other status and
a deleted row are closed.

### TerminalSession and TerminalSlot

Connections share only the map `userSessions`, under random keys, so one
connection is modelled. Node runs one callback at a time; an action is one
callback with the promise continuations it resolves.

| State | Code |
|---|---|
| `phase` | how far the upgrade and the connection handler are |
| `ws`, `isAlive`, `peer` | the socket's state and its heartbeat flag; whether the browser is still there |
| `inMap` | `userSessions` holds the session |
| `isActive`, `pty`, `timer` | fields of the session; `fired` is a timer that ran and whose handle is still set |
| `live` | the PTYs whose `onExit` has not run |
| `req` | each `terminalToken` message: buffered while the hosts are fetched, redeemed at Coolify, waiting for the old PTY, done |
| `attempts` | the running `killPtyProcess` loops, by who awaits them: a request, a forced kill, the close or error handler, the deadline |

`UpgradeAccepted` and `UpgradeRefused` are `authenticateTerminalUpgrade` and the
upgrade handler; `AuthorizedHosts` and `AuthorizedHostsFailed` the connection
handler after its await; `TerminalToken`, `TokenRefused`, `TokenRedeemed` are
`handleTerminalToken` before and after its await; `Spawn` and `CommandRefused`
the end of `handleCommand`, which also runs when a kill loop succeeds
(`KillSucceeded`); `KillAgain`, `KillSucceeded`, `KillGaveUp` are the three
outcomes of the loop's timer. `Heartbeat`, `Pong`, `PeerVanishes`,
`SessionTimeout`, `PtyExit`, `SocketClosed` and `SocketError` are the remaining
events. `pty.spawn` names a PTY after its request. Whether the command passes
`validateSshArgs` is left open. A shell may ignore every kill. A loop that the
error handler or the deadline started is not started a second time while it
runs (one loop per waiter).

A request that waits for its kill loop may spawn its shell after `handleClose` has
deleted the session. The model has this behaviour. The shell has its timer
(`HasDeadline`), but `killPtyProcess` looks the session up in `userSessions` and
finds nothing, so the deadline has no effect and the shell runs until it exits by
itself. None of the properties forbids it, and the repository does not say what
should happen.

`TerminalSlot` has two variables, the running process and the answered requests,
and the steps start, refuse and exit. The mapping is
`running <- IF isActive THEN pty ELSE NoPty` and
`answered <- {r : req[r] = "done"}`.

### TerminalClient

The methods of the Alpine component call each other and change the same fields,
so the component is one record `c`, a method is an operator from the record to
the record it leaves, under the method's name, and an action is one event: a
Livewire event, a timer, a socket event or a message. The other variables are the
environment: how a closing socket closes (`code`), a connection that was dropped
silently (`silent`), an unanswered ping, tokens the server has not answered, a
running shell, Livewire requests under way, and how often each token was sent.
The server's messages are the ones `TerminalSession` sends. Delays are left out:
a timer that is armed may fire at any time. The constructor of a WebSocket may
throw. `cleanup()` sends `checkActive: force`, whose effect is the server's.
Errors are four classes (connection, rejected, session, none). The keep-alive
branch that reconnects is left out because `TimersFitSocket` shows that the
interval only runs with an open or closing socket of a connected component. The
heartbeat limit would call `close(1001)`, which a browser refuses; the run
`terminal_heartbeat` shows that it is never reached.

### RuntimeLogs

A request is sent (`Refresh`, `ShowAll`, `StreamTick`), served (`Serve`,
`ServeNothing`) and delivered (`Deliver`, `RequestFails`) in separate steps,
between which the container writes and the user acts. A line is a timestamp and a
text; several lines may agree in both. `newLinesSince`, `lastTimestamp` and
`appendLines` keep their names. Streaming and the panel are toggled at any time;
`watching` is "expanded and visible". Docker returns lines in the order in which
they were written (`runLogCommand` sorts stably by timestamp), and an answer fits
into 5 MB (beyond that `GetLogs` cuts a line and appends an untimed marker).
Timestamps do not go down in the order of writing, and the number of lines to load
is fixed, though the page lets its user edit it. `RequestFails` resets `loading`
because `refresh` and `streamTick` await `$wire` in a `try ... finally`. That a
failed request makes Livewire reject this promise is an assumption about Livewire,
which is not part of the repository; `CatchesUp` rests on it. `LogsAssumption` states what the comparison relies on: the lines of one
timestamp, which has nanoseconds, fit into what is loaded and kept. `clean` is a
history variable: no answer with an untimed line since the last load.

## 3. Runs

| Run | Instance | Shows |
|---|---|---|
| `queue_live` | 2 deployments of 2 applications on one server, limit 1, 2 processes, all user operations, fairness | `WithinConcurrentBuilds`, `StrandedOnlyIfUnseen`, `FinishedNeverFails`, `QueuedEventuallyLeaves` |
| `multi_server` | a main deployment, its child on an additional server and another request for that server, one slot, limits 1, 2 processes, cancellations through the API, failing side effects, one restart, one `check:deployment-queue` | `TypeOK`, `DispatchedOnce`, `OnePerSlot`, `OneNotice`, `NoticeLostOnlyByThrow` |
| `delivery_task` | 3 slots, the second with the local time of the first, 2 managers, 2 jobs, no lock, no late runs, no faults | `TypeOK`, `RunsOnce`, `RecordedOnce`, `MissedIsFinal`, `ImplementsLedger` |
| `delivery_live` | 2 slots, 1 manager, 2 jobs, one fault, lock and late runs, fairness | `RunsOnce`, `NoOverlap`, `OpenEventuallyCloses` |
| `terminal_session` | 3 requests (one malformed), one forced kill, 3 kill attempts, fairness | `TypeOK`, `ActiveIsLive`, `HasDeadline`, `ForgetsOnlyDeadOrExhausted`, `ImplementsSlot`, `RequestAnswered`, `AbandonedIsForgotten` |
| `terminal_client` | 2 requests for a terminal, 3 reconnect attempts, 2 misses, fairness | `TypeOK`, `TokenSentOnce`, `RejectionShown`, `TimersFitSocket`, `GaveUpTold`, `UnconnectedWaitIsTimed`, `StaysRejected`, `AnsweredStaysOpen`, `LostIsResolved` |
| `runtime_logs` | a log of 5 lines, 2 per timestamp, tail of 2, 3 lines kept, fairness | `TypeOK`, `ShowsPieceOfLog`, `NeverGoesBack`, `CatchesUp` |
| `queue_terminal` | 1 deployment, 2 processes | violates `TerminalStatesStay` |
| `queue_stranded` | 2 deployments, 2 processes | violates `NoneStranded` |
| `terminal_heartbeat` | 1 request, 3 reconnect attempts, 3 misses, fairness | violates `SilentIsClosed` |
| `terminal_token` | as `terminal_client` | violates `FailedTokenNotSent` |
| `logs_repeat` | a log of 3 lines | violates `NoLineTwice` |

The bounds. Every race in the queue is between the deployment that frees a slot
and one that wants it, or between two processes that handle the same
deployment; two deployments of a slot, or of two applications on one server, give
all of them. Two jobs that end at once are the main job and that of its additional
server; the theorems cover any number of servers. On two servers only the application lock protects the slot, on one server the
server lock would hide its absence, so the slot is checked across servers.
Limits of 1 make every boundary case happen. For the delivery, two managers give
every overlap of runs, and two jobs give a first job and its duplicate; with a
lock, one manager is enough to publish duplicates, because recovery publishes
again what only waits. `MaxFaults`, `MaxSweeps` and `MaxRestarts` bound the number of
faults. Processes, managers and jobs are symmetric; runs with temporal
properties use no symmetry. Deadlock is checked in the runs of the queue and the
delivery: `Idle` is the only way for the queue to stop, when nothing runs and
nothing waits in Redis. A closed connection, a page that was left and a log that
has ended do stop.

For the terminal server, two well-formed requests, a forced kill, the close and
the deadline give five kill loops that may wait on one PTY; three attempts
instead of five keep a first, a repeated and a last one. In the browser a second
request is needed for a token that arrives late and for a start after a failure;
three reconnect attempts pass the thresholds 0 and 2 of the code and the limit
itself; with two misses a second missed pong would close the connection. Five lines with two per
timestamp, three kept, let the log be trimmed in the middle of a group; one text
is enough, because equal lines are the hard case.

Fairness. In `DeploymentQueue`, a process that has begun an operation goes on
(`WF` of `Step`; a build ends because the job has a timeout), a row lock that is
free again and again is eventually granted (`SF` of `LockApp` and `LockServer`:
PostgreSQL queues waiters), and workers take jobs from Redis (`WF` of `TakeJob`
per deployment). Users owe nothing. In `ScheduledDelivery`, occurrences age,
the scheduler starts manager runs and they go on, workers take and finish jobs,
and expiring locks expire; faults and ticks owe nothing. The job of a killed worker
owes nothing either: a claim without a worker grows old, so that one of the
manager runs that come again and again fails it (`SF` per slot), and
`OpenEventuallyCloses` depends on that. In `TerminalSession`
timers fire, a socket that is being closed closes (`rejectTerminalSocket` and
`terminate()` see to it), and Coolify answers or the request fails; shells and
users owe nothing. In `TerminalClient` armed timers and intervals fire and a
closing socket closes; connections may fail for ever and the server may stay silent. In
`RuntimeLogs` the interval ticks, and requests are served and delivered while the
server is up.

### Where the code and its comments differ

1. `queue_terminal`: `isInTerminalState` says "Terminal states cannot be
   changed", but the refresh and the write are separate, and the write in
   `handle()` has no check. A cancellation in between is overwritten.
2. `queue_stranded`: "Start the queued deployments that can run now" misses a
   deployment whose admission has seen the slot busy and is not committed.
   `StrandedOnlyIfUnseen` states, and `queue_live` checks, that this is the only
   way to be forgotten.
3. `terminal_token`: "Single-use tokens must not be sent after the user was told
   to retry" holds for the session-start timeout only. After a connection error
   the token stays pending and the automatic reconnect sends it, hides the error
   and shows "connecting" with no timeout armed. `TokenSentOnce` states what does
   hold: no token is sent twice.
4. `terminal_heartbeat`: "Too many missed heartbeats, closing connection" never
   happens. `resetPingTimeout` arms one timeout and is called when the connection
   opens and on a pong, so a second miss is never counted. A visible page keeps a
   silent connection until the browser itself gives it up, or until its tab is
   hidden and shown, which probes it. With a timeout that arms itself again the
   property holds on the same instance.
5. `logs_repeat`: "Remove lines that a `--since` request returns again" fails
   after an answer that ends without a timestamp. `ShowsPieceOfLog` states that
   nothing else breaks the comparison, as long as the lines of one timestamp fit
   into what is loaded and kept (`LogsAssumption`).

Read from the code and not the subject of a run. "When all are queued and the last
one ends, Coolify sends one notification" (`ApplicationDeploymentJob.php:5988`) does
not hold when the last job to end throws in its side effects before it sends: the
status is stored, `transitionToStatus` swallows the exception, and nobody checks
again. `tests/Feature/ApplicationDeploymentStatusSideEffectsTest.php` makes the
event throw and asks only that the deployment stays finished and the queue goes on.
`NoticeLostOnlyByThrow` states that this is the only loss besides restarts and
sweeps. "Show the timeout error if no session is ready in time"
(`terminal-connection.js:121`) has two exceptions on an open socket: the late token
of 3, and a second start whose timeout fires while the first shell is still active;
when that shell is lost with its connection and the next attempt fails once, the
page shows "connecting" again on the reopened socket with nothing ahead.
`UnconnectedWaitIsTimed` covers a page without a socket only. `handle()` may mark a cancelled
deployment in progress again while its successor runs, which is why `OnePerSlot`
and `WithinConcurrentBuilds` speak of the deployments that entered through the
check; and a duplicate job of a type with an overlap lock skips an occurrence its
first job has not claimed yet, so that neither runs it.

`FinishedNeverFails` is checked without `check:deployment-queue`, which fails the
rows it has listed even if they finished meanwhile. That command also does not
advance the queue.

## 4. Proofs

TLAPS proves the following for every value of the constants (any number of
deployments, processes, servers, managers, jobs, faults and restarts).

`DeploymentQueueProofs`, from `QueueAssumption` (types of the constants, finitely
many deployments) and `SlotAssumption` (a slot belongs to one application):

* `TypeCorrect`: `TypeOK`. The invariant `TypeInv` adds to the types which data a
  control point has (a process inside a transaction has a deployment, a worker
  has a job); without it the updates at `cur[p]` and `job[p]` are not typed.
* `OneDeploymentPerSlot`: `OnePerSlot`. `LockInv` says that a process between
  its locks and its commit holds both row locks, so at most one process per
  application and per server is there. `SlotInv` adds that a limit-checked start
  that is decided but not committed still finds its slot free. Steps of other
  processes either hold the same lock, which is impossible, or only lower the
  set of running limit-checked deployments.
* `BuildsWithinLimit`: `WithinConcurrentBuilds`, along the same lines with
  `BuildsInv`: between decision and commit there is still room on the server.
  The cardinality facts are separate lemmas.
* `OneJobPerDeployment`: `DispatchedOnce`. `JobsInv` follows a deployment through
  its life: a row that was never started has no job and nobody dispatches it; at
  most one process is between the commit of its start and the push, and then
  there is no job; a start that is decided finds the row `queued` and unstarted.
  Restarts keep this because a restarted row is failed, never queued again.

`ScheduledDeliveryProofs`, from `DeliveryAssumption`: `TypeCorrect`,
`OccurrenceRunsOnce`, `OccurrenceRecordedOnce`, `OccurrenceMissedIsFinal`,
`RunsDoNotOverlap`, `DeliveryImplementsLedger` and `LedgerIsEnough`. `OccurrenceInv` relates the ghost counters to the row (an
occurrence that is unclaimed has not run; a reported one is failed or deleted; a
slot later than `lastFor` is not recorded); `OverlapInv` says that a started or
running job of a type with a lock that outlives its jobs holds the lock.

`DeliveryImplementsLedger` is the refinement of `OccurrenceLedger`, step by step.
Its invariant `LedgerInv` says that an occurrence after `lastFor` has no row, that
an unclaimed or deleted row has no claim token, and that a manager only handles
occurrences that have a row. The first makes `Record` a step of the ledger; the
second is why `complete` and `fail`, which look at the token and not at the
status, cannot touch a row that waits; the third is why the update of a late
manager cannot create a row. `LedgerIsEnough` shows that the ledger is not too
weak: `RunsOnce` and `MissedIsFinal` follow from it alone.

`TerminalSessionProofs`, from `SessionAssumption` (a malformed request is a
request, the kinds of waiters are disjoint, at least one attempt): `TypeCorrect`,
`OneLivePty` (`ActiveIsLive`), `EveryPtyHasDeadline` (`HasDeadline`),
`ForgetsSafely` and `SessionImplementsSlot`, which is the refinement of
`TerminalSlot`. The inductive invariant `SessionInv` adds `WaitsForItsLoop` to the
properties: a request is `replacing` exactly while its kill loop runs. Without
it, a loop that succeeds could spawn for a request that was answered before, and
the step would not be a step of the slot. `HasDeadline` needs `ActiveIsLive`: a
loop clears the timer only when `isActive` is false, and then nothing is alive.

`DeploymentNoticeProofs` and `DeploymentStrandedProofs` build on `JobsInv` and
`LockInv`. Three lemmas carry most of their weight: `StatusWrites` (which
statement of the code changed a status), `StepOthers` (what a step leaves alone)
and `Leaves` (whoever ends a deployment advances the queue for it).

* `NoticeSentOnce`: `OneNotice`, with no hypothesis beyond the module's.
* `FinishedStaysFinished`: `FinishedNeverFails`, for `MaxSweeps = 0`. `EndInv`
  says that a worker about to store a status has not stored `finished` before;
  it needs that a deployment has one worker. The operator's
  `check:deployment-queue` is excluded because it overwrites rows without a
  condition, which breaks the property.
* `NoticeLostOnlyByException`: `NoticeLostOnlyByThrow`, for `ChildrenUnquestioned`
  (a deployment of an additional server skips the admission's questions:
  `deploy_to_additional_destinations` passes `no_questions_asked: true`). The
  property speaks of states before the first restart and sweep, which end rows
  without their jobs. The argument has five layers: `FamilyInv` (where a worker of
  a family can be), `PastInv` (what lies behind a worker that queues the servers),
  `ChildInv` (a child in progress has a job or gets one; one that ended has no job
  left that would not see it), `NoticeInv`: when all servers are queued and all
  children ended, the notice was sent, an exception cut it off, or some process
  still has the check ahead (`Covered`), and `FlagInv`: the flag of `Cache::add` is
  set only by a job that sends or throws. The last process to end reads the
  statuses after it wrote its own, so it finds all of them ended.
* `OnlyUnseenStranded`: `StrandedOnlyIfUnseen`, for `MaxSweeps = 0`, any number of
  restarts, and `PreviewsOnPrimary` (a pull request's deployment runs on its
  application's own server: no caller of `queue_application_deployment` passes
  both a server and a pull request). `StrandInv` says that a waiting deployment
  that could run is `unseen` or some process will still look at it (`Sees`: a
  pass that lists the queue, has it on its list, or has it in `pend`).
  `LoopInv` says which loops a process can be in. The step that ends a deployment
  is the interesting one: `Unblocked` shows by counting that a deployment which
  becomes startable shares its application or its server with the one that ended,
  and `Leaves` that the process that ended it calls `queue_next_deployment` for it.

`TerminalClientProofs`, from `ClientAssumption`: `TypeCorrect`, `TokensSentOnce`,
`RejectionIsShown`, `TimersAlwaysFit`, `GivingUpIsTold`, `UnconnectedWaitsAreTimed`,
`RejectionIsFinal`, and `AnsweredConnectionsStay` (`AnsweredStaysOpen`) for
`MaxMisses > 1` (the code has 3; with 1 the timeout that an open arms would close a
connection that was never asked). The last needs `ProbeInv`: the timeout of the
probe runs only while its ping is unanswered, because what ends the wait, a pong or
the close, replaces or clears it. `ClientInv` adds
`TokensUnsent` (the token that is kept was not sent), `NothingAfterRejection` and
`NormalOnlyIfLeft` to the properties. The properties depend on each other: a page without a socket
that waits has a timer only because timers fit the socket, and a rejection stays
shown only because no timer is left to clear it. The operators that build a
component state (`Fail`, `scheduleReconnect` and the like) have one lemma each, which every
action's step cites.

`RuntimeLogsProofs`, from `LogsAssumption` (lines with one timestamp fit into what
is loaded and what is kept): `TypeCorrect`, `LinesArePieceOfLog`
(`ShowsPieceOfLog`) and `NewestLineStays` (`NeverGoesBack`), for every log, every
`NumberOfLines` and every `MAX_CLIENT_LOG_LINES`. The inductive invariant `LogsInv`
says that timestamps do not go down; that the lines are a piece of the log of which
the last group is whole at its beginning (`At`); that at most one request is under
way and `loading` says so; and that its answer, if it has one, is a piece of the
log that begins at that group and reaches at least to the end of the lines
(`Continues`), or a tail whose end is not older than anything shown (`Reloads`).
`NewLines` is the central lemma: `newLinesSince` returns exactly what lies beyond
the lines. Its proof counts copies of a text at the boundary on both sides with a
bijection. `Least` and `Greatest`, the only facts that need an induction, come
from the library's theorem that the strict subset order on finite sets is
well-founded.

Only model-checked: the liveness properties `QueuedEventuallyLeaves`,
`OpenEventuallyCloses`, `RequestAnswered`, `AbandonedIsForgotten`, `LostIsResolved`
and `CatchesUp` (fairness is out of the prover's reach). Every invariant and every
action property of a passing run, and both refinements, are also theorems.

## 5. Not modelled

Commands on servers, Dockerfile and compose generation, parsing, forms, CRUD,
notification wording and channels, billing, OIDC, templates and migrations: no
concurrent state, or none of Coolify's own. Deletion of servers and
applications under a running queue. The death of a single worker without a
restart (its row stays in progress until `check:deployment-queue` or a restart).
In the terminal: the parsing and validation of the ssh command, flow control of
the output, full screen, keyboard and the countdown display. In the log viewer:
filters, search, scrolling, virtual rows, the 5 MB truncation, an edited number of
lines, timestamps that go down, and equal timestamps on stdout and stderr whose
order differs between two answers.

Most JavaScript in the repository is not its own: `public/js` holds the minified
Monaco editor, Pusher, ApexCharts and others (about 54,000 lines), which are not
modelled. Of the rest, about 3,800 lines, the terminal server, the connection
part of the browser terminal and the data part of the log viewer are modelled;
what is left of `terminal.js`, `runtime-logs.js`, `app.js` and `traffic-globe.js`
is presentation. Most of Coolify is PHP.
The parts listed as planned below.

## 6. Plan

Done: the queue with the job's status machine, the delivery of schedules with the
refinement of its ledger, the terminal on both sides of its socket with the
refinement of its slot, and the log viewer. Next, in this order:

1. Proofs: that restarts lose a notification only when they end a row of its
   family (`NoticeLostOnlyByThrow` past the first restart), and the refinement of 7.
2. `VolumeBackup`: stop, archive and start of containers, the flags
   `stop_recovery_pending` and `s3_cleanup_pending`, `VolumeBackupRecoveryJob`
   and crashes between any two steps. Property: stopped containers are
   eventually started again, and never while an archive is written.
3. `OperationReservation`: acquire, renew and release with expiry, composed with
   `ResourceStartActivity` and `DatabaseStartJob`. Property: at most one start,
   restart or import per database; the abstract specification is a lock.
4. `RollingUpdate`: old and new containers through health check, stop, failure
   and time-out. Property: a healthy version is never removed with nothing left.
5. `GithubRunners`: capacity under parallel provisioning, reconciliation with an
   API that lags.
6. `RestartLimit` and `NotificationThrottle`: atomic claims; status aggregation
   and backup retention as operators with a reference definition.
7. An abstract queue specification (deployments wait, run and end; one per
   slot) that `DeploymentQueue` without cancellations refines.
