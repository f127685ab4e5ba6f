----------------------- MODULE DeploymentNoticeProofs -----------------------
(***************************************************************************)
(* Proofs about the end of deployments: a finished deployment stays        *)
(* finished, and the combined notification of a multi-server deployment is *)
(* sent once and lost only by an exception.                                *)
(***************************************************************************)
EXTENDS DeploymentQueueProofs

-----------------------------------------------------------------------------
(* The combined notification is sent at most once. *)

\* The notification of d was sent, or an exception kept a job from sending it.
SentOrThrown(d) == notices[d] = 1 \/ d \in thrown

\* The cache flag is set by the process that sends, or by one whose notify()
\* threw.
FlagInv ==
    \A d \in Deployments :
        /\ notices[d] <= 1
        /\ notices[d] # 0 => d \in notified
        /\ d \in notified => SentOrThrown(d)

\* A notification stays sent, and a process at Cache::add sends it unless that
\* was done before.
LEMMA NoticeMoves ==
    ASSUME TypeInv, FlagInv, NEW p \in Procs, Begin(p) \/ Step(p)
    PROVE  /\ FlagInv'
           /\ \A d \in Deployments :
                 SentOrThrown(d) \/ (NoticeAdd(p) /\ NoticeParent(p) = d) => SentOrThrown(d)'
<1> USE DEF FlagInv, SentOrThrown
<1>0. /\ notices \in [Deployments -> Nat]
      /\ pc[p] \in JobPcs => NoticeParent(p) \in Deployments
  BY QueueAssumption DEF TypeInv, SharedOK, ProcInv, Control, NoticeParent
<1>1. CASE NoticeAdd(p)
  <2>1. PICK d \in Deployments : d = NoticeParent(p)
    BY <1>0, <1>1 DEF NoticeAdd, JobPcs
  <2>2. /\ notified' = notified \cup {d} /\ thrown' = thrown
        /\ notices' = IF d \in notified THEN notices ELSE [notices EXCEPT ![d] = notices[d] + 1]
    BY <1>1, <2>1 DEF NoticeAdd
  <2>3. notices[d] \in Nat /\ (d \notin notified => notices[d] = 0)
    BY <1>0
  <2>4. FlagInv' /\ SentOrThrown(d)' /\ \A e \in Deployments : SentOrThrown(e) => SentOrThrown(e)'
    BY <1>0, <2>2, <2>3
  <2> QED
    BY <2>1, <2>4
<1>2. CASE SideEffectsFail(p)
  <2>1. /\ notices' = notices /\ thrown \subseteq thrown'
        /\ \/ notified' = notified
           \/ notified' = notified \cup {NoticeParent(p)} /\ NoticeParent(p) \in thrown'
    BY <1>2 DEF SideEffectsFail, WouldSend
  <2>2. FlagInv' /\ \A d \in Deployments : SentOrThrown(d) => SentOrThrown(d)'
    BY <2>1
  <2> QED
    BY <1>1, <2>2
<1>3. CASE UNCHANGED <<notices, notified, thrown>> /\ ~ NoticeAdd(p)
  BY <1>3
<1> QED
  BY <1>1, <1>2, <1>3
     DEF Begin, Request, ForceStart, TakeJob, CancelApi, CancelUi, CancelRow, CleanupPreview,
     CheckQueue, Step, LockStep, LockApp, LockServer, QueueStep, AdmitReject, AdmitDecide,
     CommitQueue, StartDecline, StartDecide, CommitStart, Dispatch, DispatchFails,
     FailUndispatchable, ListQueued, StartNext, AdvanceDone, JobStep, HandleRefresh,
     HandleWarn, HandleCheckFails, HandleMark, Build, IsInTerminalState,
     UpdateDeploymentStatus, DeployToAdditional, AllChildrenQueued,
     NoticeRead, JobTail, Sweep, noteVars

\* FlagInv is an invariant, through any number of restarts.
LEMMA FlagInvariant == Spec => []FlagInv
<1>1. Init => FlagInv
  BY DEF Init, FlagInv
<1>2. TypeInv /\ FlagInv /\ [Next]_vars => FlagInv'
  <2> SUFFICES ASSUME TypeInv, FlagInv, [Next]_vars PROVE FlagInv'
    OBVIOUS
  <2>1. CASE UNCHANGED noteVars
    BY <2>1 DEF noteVars, FlagInv, SentOrThrown
  <2>2. CASE \E p \in Procs : Begin(p) \/ Step(p)
    BY <2>2, NoticeMoves
  <2> QED
    BY <2>1, <2>2 DEF Next, Restart, Idle, vars
<1> QED
  BY <1>1, <1>2, TypeInvariant, PTL DEF Spec

\* sendMultiServerDeploymentNotification: Cache::add lets one of the jobs of a
\* multi-server deployment send the notification, in any interleaving, through
\* any number of restarts and wherever a side effect throws.
THEOREM NoticeSentOnce == Spec => []OneNotice
<1>1. FlagInv => OneNotice
  BY DEF FlagInv, OneNotice
<1> QED
  BY <1>1, FlagInvariant, PTL

-----------------------------------------------------------------------------
(* What a step of one process leaves to the others. *)

\* The other processes keep their registers.
Others(p) ==
    /\ Frame(p)
    /\ \A q \in Procs : q # p => ret'[q] = ret[q] /\ todo'[q] = todo[q]

\* A step of process p changes the registers of p only.
LEMMA StepOthers ==
    ASSUME TypeInv, NEW p \in Procs, Begin(p) \/ Step(p)
    PROVE  Others(p)
<1> USE DEF TypeInv, ProcInv, ProcOK
<1> DEFINE Alone == \A q \in Procs : q # p => ret'[q] = ret[q] /\ todo'[q] = todo[q]
<1> SUFFICES Alone
  BY StepKinds DEF Others
<1>1. CASE Finish(p)
  BY <1>1 DEF Finish
<1>2. CASE UNCHANGED <<ret, todo>>
  BY <1>2
<1>3. CASE AdvanceAfterEnd(p)
  BY <1>3 DEF AdvanceAfterEnd
<1>4. CASE Return(p)
  BY <1>1, <1>2, <1>4 DEF Return
<1>5. CASE Begin(p)
  <2>1. CASE \E s \in Slots : CleanupPreview(p, s)
    BY <2>1 DEF CleanupPreview
  <2>2. CASE CheckQueue(p)
    BY <2>2 DEF CheckQueue
  <2> QED
    BY <1>2, <1>5, <2>1, <2>2
       DEF Begin, Request, ForceStart, TakeJob, CancelApi, CancelUi, CancelRow
<1>6. CASE LockStep(p) \/ QueueStep(p)
  <2>1. CASE ListQueued(p) \/ StartNext(p)
    BY <2>1 DEF ListQueued, StartNext
  <2> QED
    BY <1>1, <1>2, <1>4, <1>6, <2>1
       DEF LockStep, LockApp, LockServer, QueueStep, AdmitReject, AdmitDecide, CommitQueue,
       StartDecline, StartDecide, CommitStart, Dispatch, DispatchFails, FailUndispatchable,
       AdvanceDone
<1>7. CASE JobStep(p)
  <2>1. CASE HandleCancelled(p)
    BY <1>1, <2>1 DEF HandleCancelled
  <2>2. CASE UpdateDeploymentStatus(p) \/ AllChildrenQueued(p)
    BY <1>3, <2>2 DEF UpdateDeploymentStatus, AllChildrenQueued
  <2> QED
    BY <1>1, <1>2, <1>3, <1>7, <2>1, <2>2
       DEF JobStep, HandleRefresh, HandleWarn, HandleCheckFails, HandleMark, Build,
       IsInTerminalState, DeployToAdditional, SideEffectsFail, AfterException, NoticeRead,
       NoticeAdd, AfterNotice, JobTail
<1>8. CASE Sweep(p)
  BY <1>1, <1>8 DEF Sweep
<1> QED
  BY <1>5, <1>6, <1>7, <1>8 DEF Step

\* The writes of the status column: which process writes what, and where it
\* continues.
Wrote(p, d) ==
    \/ pc[p] = "decide" /\ mode[p] = "admit" /\ cur[p] = d /\ status'[d] = "rejected"
    \/ pc[p] = "commit_queue" /\ cur[p] = d /\ status'[d] = "queued"
    \/ /\ pc[p] = "commit_start" /\ cur[p] = d /\ status'[d] = "in_progress"
       /\ pc'[p] = "dispatch" /\ cur'[p] = d
    \/ pc[p] = "undispatchable" /\ cur[p] = d /\ status[d] = "in_progress" /\ status'[d] = "failed"
    \/ /\ pc[p] = "mark_dirty" /\ job[p] = d /\ status'[d] = "in_progress"
       /\ pc'[p] = "build" /\ job'[p] = d
    \/ /\ pc[p] = "write" /\ job[p] = d /\ status'[d] = goal[p] /\ pc'[p] # "write"
       /\ Parent[d] # NoDep => pc'[p] = "notify" /\ job'[p] = d
    \/ pc[p] = "idle" /\ status[d] \in Active \cup Terminal /\ status'[d] = "cancelled"
    \/ /\ pc[p] = "sweep" /\ d \in todo[p]
       /\ status'[d] = IF mode[p] = "cleanup" THEN "cancelled" ELSE "failed"

\* A status changes only in one of the writes that Wrote lists.
LEMMA StatusWrites ==
    ASSUME TypeInv, NEW p \in Procs, Begin(p) \/ Step(p),
           NEW d \in Deployments, status'[d] # status[d]
    PROVE  Wrote(p, d)
<1> USE DEF TypeInv, SharedOK, ProcInv, ProcOK
<1>1. CASE Begin(p)
  <2>1. PICK e \in Deployments : CancelApi(p, e) \/ CancelUi(p, e)
    BY <1>1 DEF Begin, Request, ForceStart, TakeJob, CleanupPreview, CheckQueue, rowVars
  <2>2. CancelRow(p, e) /\ status[e] \in Active \cup Terminal
    BY <2>1 DEF CancelApi, CancelUi, Rows
  <2>3. status' = [status EXCEPT ![e] = "cancelled"] /\ pc[p] = "idle"
    BY <2>2 DEF CancelRow
  <2>4. e = d /\ status'[d] = "cancelled"
    BY <2>3
  <2> QED
    BY <2>2, <2>3, <2>4 DEF Wrote
<1>2. CASE AdmitReject(p)
  <2>1. status' = [status EXCEPT ![cur[p]] = "rejected"] /\ pc[p] = "decide" /\ mode[p] = "admit"
    BY <1>2 DEF AdmitReject
  <2> QED
    BY <2>1 DEF Wrote
<1>3. CASE CommitQueue(p)
  <2>1. status' = [status EXCEPT ![cur[p]] = "queued"] /\ pc[p] = "commit_queue"
    BY <1>3 DEF CommitQueue
  <2> QED
    BY <2>1 DEF Wrote
<1>4. CASE CommitStart(p)
  <2>1. /\ status' = [status EXCEPT ![cur[p]] = "in_progress"] /\ pc[p] = "commit_start"
        /\ pc'[p] = "dispatch" /\ cur' = cur
    BY <1>4 DEF CommitStart, Goto
  <2> QED
    BY <2>1 DEF Wrote
<1>5. CASE FailUndispatchable(p)
  <2>1. /\ status' = [status EXCEPT ![cur[p]] = "failed"] /\ pc[p] = "undispatchable"
        /\ status[cur[p]] = "in_progress"
    BY <1>5 DEF FailUndispatchable
  <2> QED
    BY <2>1 DEF Wrote
<1>6. CASE HandleMark(p)
  <2>1. /\ status' = [status EXCEPT ![job[p]] = "in_progress"] /\ pc[p] = "mark_dirty"
        /\ pc'[p] = "build" /\ job' = job
    BY <1>6 DEF HandleMark, Goto
  <2> QED
    BY <2>1 DEF Wrote
<1>7. CASE UpdateDeploymentStatus(p)
  <2>1. status' = [status EXCEPT ![job[p]] = goal[p]] /\ pc[p] = "write"
    BY <1>7 DEF UpdateDeploymentStatus
  <2>2. d = job[p] /\ status'[d] = goal[p]
    BY <2>1
  <2>3. Parent[d] # NoDep => pc'[p] = "notify" /\ job' = job
    BY <1>7, <2>2 DEF UpdateDeploymentStatus, Goto
  <2>4. pc'[p] # "write"
    BY <1>7 DEF UpdateDeploymentStatus, AdvanceAfterEnd, QueueNextDeployment, Goto
  <2> QED
    BY <2>1, <2>2, <2>3, <2>4 DEF Wrote
<1>8. CASE Sweep(p)
  <2>1. PICK e \in todo[p] : status' = [status EXCEPT ![e] = IF mode[p] = "cleanup" THEN "cancelled"
                                                                             ELSE "failed"]
    BY <1>8 DEF Sweep
  <2>2. pc[p] = "sweep"
    BY <1>8 DEF Sweep
  <2>3. e = d /\ status'[d] = IF mode[p] = "cleanup" THEN "cancelled" ELSE "failed"
    BY <2>1
  <2> QED
    BY <2>2, <2>3 DEF Wrote
<1> QED
  BY <1>1, <1>2, <1>3, <1>4, <1>5, <1>6, <1>7, <1>8
     DEF Step, LockStep, LockApp, LockServer, QueueStep, AdmitDecide, StartDecline, StartDecide,
     Dispatch, DispatchFails, ListQueued, StartNext, AdvanceDone, JobStep, HandleRefresh,
     HandleWarn, HandleCheckFails, Build, IsInTerminalState, DeployToAdditional,
     AllChildrenQueued, SideEffectsFail, NoticeRead, NoticeAdd, JobTail, rowVars

-----------------------------------------------------------------------------
(* A finished deployment stays finished. *)

\* Only the clean-up of a pull request sweeps rows, nobody runs
\* check:deployment-queue, and a worker that is about to write a status saw a
\* deployment that had not ended: no other process can have finished it since.
EndInv ==
    \A p \in Procs : /\ pc[p] = "sweep" => mode[p] = "cleanup"
                     /\ pc[p] = "write" => status[job[p]] # "finished"

\* How a process comes to the write of transitionToStatus or to a sweep.
LEMMA WriteEntry ==
    ASSUME TypeInv, NEW p \in Procs, Begin(p) \/ Step(p), pc'[p] \in {"write", "sweep"}
    PROVE  \/ /\ pc'[p] = "write" /\ IsInTerminalState(p)
              /\ status[job[p]] \notin Terminal /\ job' = job /\ ret' = ret
           \/ /\ pc'[p] = "sweep"
              /\ (\E s \in Slots : CleanupPreview(p, s)) \/ CheckQueue(p)
                   \/ (Sweep(p) /\ pc[p] = "sweep" /\ mode' = mode)
<1> USE DEF TypeInv, ProcInv, ProcOK
<1>1. ~ Finish(p) /\ ~ (\E d : QueueNextDeployment(p, d))
  BY DEF Finish, QueueNextDeployment, Goto
<1>2. ~ Return(p)
  BY <1>1 DEF Return, Goto
<1>3. ~ HandleCancelled(p)
  BY <1>1 DEF HandleCancelled, Goto
<1>4. Begin(p) => pc'[p] = "sweep" /\ ((\E s \in Slots : CleanupPreview(p, s)) \/ CheckQueue(p))
  <2>1. ~ (\E d \in Deployments : CancelApi(p, d) \/ CancelUi(p, d))
    BY <1>1 DEF CancelApi, CancelUi, CancelRow
  <2>2. ~ (\E d \in Deployments : Request(p, d) \/ ForceStart(p, d) \/ TakeJob(p, d))
    BY DEF Request, ForceStart, TakeJob, Goto
  <2>3. (\E s \in Slots : CleanupPreview(p, s)) \/ CheckQueue(p) => pc'[p] = "sweep"
    BY DEF CleanupPreview, CheckQueue, Goto
  <2> QED
    BY <2>1, <2>2, <2>3 DEF Begin
<1>5. ~ (LockStep(p) \/ QueueStep(p))
  <2>1. ~ (AdmitDecide(p) \/ ListQueued(p) \/ AdvanceDone(p))
    BY <1>1 DEF AdmitDecide, ListQueued, AdvanceDone, Goto
  <2> QED
    BY <1>1, <1>2, <2>1
     DEF LockStep, LockApp, LockServer, QueueStep, AdmitReject, CommitQueue,
     StartDecline, StartDecide, CommitStart, Dispatch, DispatchFails, FailUndispatchable,
     StartNext, Goto
<1>6. ~ (HandleWarn(p) \/ HandleCheckFails(p) \/ HandleMark(p) \/ Build(p)
           \/ UpdateDeploymentStatus(p) \/ DeployToAdditional(p) \/ AllChildrenQueued(p)
           \/ SideEffectsFail(p) \/ JobTail(p))
  BY <1>1 DEF HandleWarn, MarkPoint, HandleCheckFails, HandleMark, Build, Transition,
     UpdateDeploymentStatus, DeployToAdditional, AllChildrenQueued, SideEffectsFail,
     AfterException, AdvanceAfterEnd, JobTail, Goto
<1>7. ~ (HandleRefresh(p) \/ NoticeRead(p) \/ NoticeAdd(p))
  BY <1>1, <1>3 DEF HandleRefresh, MarkPoint, NoticeRead, NoticeAdd, AfterNotice,
     AdvanceAfterEnd, Goto
<1>8. CASE IsInTerminalState(p)
  BY <1>1, <1>3, <1>8 DEF IsInTerminalState, Goto
<1>9. CASE Sweep(p)
  BY <1>1, <1>9 DEF Sweep
<1> QED
  BY <1>4, <1>5, <1>6, <1>7, <1>8, <1>9 DEF Step, JobStep

\* Every step but the start of a check:deployment-queue keeps EndInv.
LEMMA EndStep ==
    ASSUME TypeInv, JobsInv, EndInv, NEW p \in Procs, Begin(p) \/ Step(p), ~ CheckQueue(p)
    PROVE  EndInv'
<1>1. Others(p) /\ Frame(p)
  BY StepOthers DEF Others
<1>2. ASSUME NEW q \in Procs, pc'[q] = "sweep" PROVE mode'[q] = "cleanup"
  <2>1. CASE q # p
    BY <1>1, <1>2, <2>1 DEF EndInv, Frame
  <2>2. CASE q = p
    BY <1>2, <2>2, WriteEntry DEF EndInv, CleanupPreview, TypeInv, ProcInv, ProcOK
  <2> QED
    BY <2>1, <2>2
<1>3. ASSUME NEW q \in Procs, pc'[q] = "write", q # p PROVE status'[job'[q]] # "finished"
  <2>1. pc[q] = "write" /\ job'[q] = job[q] /\ job[q] \in Deployments
    BY <1>1, <1>3 DEF Frame, TypeInv, ProcInv, Control, JobPcs
  <2>2. status[job[q]] # "finished"
    BY <2>1 DEF EndInv
  <2>3. CASE status'[job[q]] # status[job[q]]
    <3>1. Wrote(p, job[q])
      BY <2>1, <2>3, StatusWrites
    <3>2. job[p] # job[q]
      BY <1>3, <2>1 DEF JobsInv, WorkerInv
    <3> QED
      BY <2>1, <3>1, <3>2 DEF Wrote
  <2> QED
    BY <2>1, <2>2, <2>3
<1>4. pc'[p] = "write" => status'[job'[p]] # "finished"
  BY WriteEntry DEF IsInTerminalState, Terminal, rowVars
<1> QED
  BY <1>2, <1>3, <1>4 DEF EndInv

\* An operator's check:deployment-queue aside, no step fails a finished deployment.
LEMMA FinishedStep ==
    ASSUME TypeInv, EndInv, NEW p \in Procs, Begin(p) \/ Step(p),
           NEW d \in Deployments, status[d] = "finished"
    PROVE  status'[d] # "failed"
<1> SUFFICES ASSUME status'[d] = "failed" PROVE FALSE
  OBVIOUS
<1>1. Wrote(p, d)
  BY StatusWrites
<1> QED
  BY <1>1 DEF Wrote, EndInv, Active

\* EndInv is an invariant.
LEMMA EndInvariant ==
    ASSUME MaxSweeps = 0
    PROVE  Spec => []EndInv
<1>1. Init => EndInv
  BY DEF Init, EndInv
<1>2. EndInv /\ UNCHANGED vars => EndInv'
  BY DEF EndInv, vars, rowVars, procVars
<1>3. EndInv /\ Restart => EndInv'
  BY DEF EndInv, Restart, ProcessesDie
<1>4. ASSUME TypeInv, NEW p \in Procs PROVE ~ CheckQueue(p)
  BY <1>4, QueueAssumption DEF CheckQueue, TypeInv, SharedOK
<1>5. TypeInv /\ JobsInv /\ EndInv /\ [Next]_vars => EndInv'
  BY <1>2, <1>3, <1>4, EndStep DEF Next, Idle
<1> QED
  BY <1>1, <1>5, TypeInvariant, JobsInvariant, PTL DEF Spec

\* transitionToStatus: whatever fails after the status is stored, and however
\* cancellations, clean-ups, force starts and restarts race with it, a finished
\* deployment is not turned into a failed one.  Only an operator's
\* check:deployment-queue, which updates the rows it listed without a
\* condition, is excluded.
THEOREM FinishedStaysFinished ==
    ASSUME MaxSweeps = 0
    PROVE  Spec => FinishedNeverFails
<1>1. ASSUME TypeInv, EndInv, [Next]_vars, NEW d \in Deployments, status[d] = "finished"
      PROVE  status'[d] # "failed"
  <2>1. CASE \E p \in Procs : Begin(p) \/ Step(p)
    BY <1>1, <2>1, FinishedStep
  <2>2. CASE Restart
    BY <1>1, <2>2 DEF Restart, Active
  <2>3. CASE UNCHANGED vars
    BY <1>1, <2>3 DEF vars, rowVars
  <2> QED
    BY <1>1, <2>1, <2>2, <2>3 DEF Next, Idle
<1>2. TypeInv /\ EndInv /\ [Next]_vars =>
        [\A d \in Deployments : status[d] = "finished" => status'[d] # "failed"]_vars
  BY <1>1
<1> QED
  BY <1>2, TypeInvariant, EndInvariant, PTL DEF Spec, FinishedNeverFails

-----------------------------------------------------------------------------
(* Additional servers: a deployment's children are queued by its own worker, *)
(* one after the other, and start at once.                                   *)

\* deploy_to_additional_destinations passes no_questions_asked.
ChildrenUnquestioned == \A c \in Deployments : Parent[c] # NoDep => c \in Unquestioned

\* Process p meets children only in deploy_to_additional_destinations of its
\* job, which is not a child itself, or in a clean-up.
Family(p) ==
    /\ ret[p] = "children" =>
          pc[p] \in {"children", "advance"} \cup Working /\ Parent[job[p]] = NoDep
    /\ pc[p] = "children" => ret[p] = "children"
    /\ pc[p] \in Working /\ Parent[cur[p]] # NoDep =>
          /\ mode[p] = "admit" /\ ret[p] = "children" /\ job[p] = Parent[cur[p]]
          /\ pc[p] # "commit_queue"
    /\ pc[p] # "sweep" => \A d \in todo[p] : Parent[d] = NoDep

FamilyInv ==
    /\ \A c \in Deployments : Parent[c] # NoDep => status[c] # "queued"
    /\ \A p \in Procs : Family(p)

\* The control moves that several actions share.
LEMMA FinishFamily ==
    ASSUME ProcInv, NEW p \in Procs, Finish(p)
    PROVE  Family(p)'
  BY DEF ProcInv, ProcOK, Finish, Goto, Family, Working, InLock, Decided

\* queue_next_deployment returns to where the worker was.
LEMMA QueueNextFamily ==
    ASSUME ProcInv, NEW p \in Procs, Family(p), NEW d, QueueNextDeployment(p, d), job' = job,
           ret'[p] = ret[p] \/ ret'[p] = "tail",
           todo'[p] = {} \/ (todo'[p] = todo[p] /\ pc[p] # "sweep")
    PROVE  Family(p)'
  BY DEF ProcInv, ProcOK, QueueNextDeployment, Goto, Family, Working, InLock, Decided

\* So does the advance after an end,
LEMMA AdvanceFamily ==
    ASSUME ProcInv, NEW p \in Procs, Family(p), AdvanceAfterEnd(p), pc[p] # "sweep"
    PROVE  Family(p)'
  BY QueueNextFamily DEF AdvanceAfterEnd, ProcInv, ProcOK

\* and so does the return from a start.
LEMMA ReturnFamily ==
    ASSUME ProcInv, NEW p \in Procs, Family(p), Return(p), pc[p] # "sweep"
    PROVE  Family(p)'
<1> USE DEF ProcInv, ProcOK
<1>1. CASE Finish(p)
  BY <1>1, FinishFamily
<1>2. CASE mode[p] = "start" /\ ~ Finish(p)
  BY <1>2 DEF Return, Goto, Family, Working, InLock, Decided
<1>3. CASE mode[p] # "start" /\ ~ Finish(p)
  <2>1. pc'[p] = ret[p] /\ ret' = ret /\ job' = job /\ todo' = todo /\ ret[p] # "idle"
    BY <1>3 DEF Return, Goto
  <2>2. ret[p] \in {"children", "tail"}
    BY <2>1
  <2> QED
    BY <2>1, <2>2 DEF Family, Working, InLock, Decided
<1> QED
  BY <1>1, <1>2, <1>3

\* A step of p that continues a queue helper.
LEMMA FamilyQueue ==
    ASSUME TypeInv, FamilyInv, ChildrenUnquestioned, NEW p \in Procs,
           LockStep(p) \/ QueueStep(p)
    PROVE  Family(p)'
<1> USE DEF TypeInv, ProcInv, ProcOK
<1>0. Family(p) /\ ProcInv
  BY DEF FamilyInv
<1>1. CASE AdmitReject(p) \/ CommitQueue(p) \/ StartDecline(p) \/ Dispatch(p)
  BY <1>0, <1>1, ReturnFamily DEF AdmitReject, CommitQueue, StartDecline, Dispatch
<1>2. CASE LockApp(p) \/ LockServer(p) \/ StartDecide(p) \/ CommitStart(p) \/ DispatchFails(p)
  <2>1. pc[p] \in Working /\ pc'[p] \in Working \ {"commit_queue"}
          /\ UNCHANGED <<mode, ret, cur, job, todo>>
    BY <1>2 DEF LockApp, LockServer, StartDecide, CommitStart, DispatchFails, Goto, Working,
       InLock, Decided
  <2> QED
    BY <1>0, <2>1 DEF Family, Working, InLock, Decided
<1>3. CASE AdmitDecide(p)
  <2>1. /\ pc[p] \in Working /\ pc'[p] \in {"commit_start", "commit_queue"}
        /\ UNCHANGED <<mode, ret, cur, job, todo>>
        /\ cur[p] \in Unquestioned => pc'[p] = "commit_start"
    BY <1>3 DEF AdmitDecide, Goto, Working, InLock, Decided
  <2>2. cur[p] \in Deployments
    BY <2>1, WorkingCur
  <2> QED
    BY <1>0, <2>1, <2>2 DEF Family, Working, InLock, Decided, ChildrenUnquestioned
<1>4. CASE FailUndispatchable(p)
  BY <1>0, <1>4, ReturnFamily, QueueNextFamily DEF FailUndispatchable
<1>5. CASE ListQueued(p)
  <2>1. /\ pc[p] = "advance" /\ UNCHANGED <<pc, mode, ret, cur, job>>
        /\ \A d \in todo'[p] : d \in QueuedRows
    BY <1>5 DEF ListQueued
  <2>2. \A d \in todo'[p] : Parent[d] = NoDep
    BY <2>1 DEF QueuedRows, FamilyInv
  <2> QED
    BY <1>0, <2>1, <2>2 DEF Family, Working, InLock, Decided
<1>6. CASE StartNext(p)
  <2>1. PICK d \in todo[p] : /\ cur' = [cur EXCEPT ![p] = d]
                             /\ todo' = [todo EXCEPT ![p] = todo[p] \ {d}]
    BY <1>6 DEF StartNext
  <2>2. pc[p] = "advance" /\ pc'[p] = "lock_app" /\ UNCHANGED <<mode, ret, job>>
    BY <1>6 DEF StartNext, Goto
  <2> QED
    BY <1>0, <2>1, <2>2 DEF Family, Working, InLock, Decided
<1>7. CASE AdvanceDone(p)
  <2>1. CASE Finish(p)
    BY <2>1, FinishFamily
  <2>2. CASE ~ Finish(p)
    <3>1. pc[p] = "advance" /\ pc'[p] = ret[p] /\ ret[p] # "idle" /\ UNCHANGED <<ret, job, todo>>
      BY <1>7, <2>2 DEF AdvanceDone, Goto
    <3>2. ret[p] \in {"children", "tail"}
      BY <3>1
    <3> QED
      BY <1>0, <3>1, <3>2 DEF Family, Working, InLock, Decided
  <2> QED
    BY <2>1, <2>2
<1> QED
  BY <1>1, <1>2, <1>3, <1>4, <1>5, <1>6, <1>7 DEF LockStep, QueueStep

\* A step of the deployment job, or of a sweep.
LEMMA FamilyJob ==
    ASSUME TypeInv, FamilyInv, NEW p \in Procs, JobStep(p) \/ Sweep(p)
    PROVE  Family(p)'
<1> USE DEF TypeInv, ProcInv, ProcOK
<1>0. Family(p) /\ ProcInv
  BY DEF FamilyInv
<1>1. CASE Finish(p)
  BY <1>1, FinishFamily
<1>2. CASE AdvanceAfterEnd(p) /\ pc[p] # "sweep"
  BY <1>0, <1>2, AdvanceFamily
<1>3. CASE /\ pc[p] \in JobPcs \ {"children"} /\ pc'[p] \in JobPcs \ {"children"}
           /\ ret'[p] \in {ret[p], "idle", "tail"} /\ UNCHANGED <<mode, cur, job, todo>>
  BY <1>0, <1>3 DEF Family, Working, InLock, Decided, JobPcs
<1>4. CASE HandleCancelled(p) /\ pc[p] \in {"refresh", "end"}
  <2>1. CASE ~ Finish(p)
    BY <1>3, <1>4, <2>1 DEF HandleCancelled, Goto, JobPcs
  <2> QED
    BY <1>1, <2>1
<1>5. CASE HandleRefresh(p) \/ IsInTerminalState(p)
  <2>1. CASE ~ Finish(p) /\ ~ HandleCancelled(p)
    BY <1>3, <1>5, <2>1 DEF HandleRefresh, IsInTerminalState, MarkPoint, Goto, JobPcs
  <2>2. CASE HandleCancelled(p)
    BY <1>4, <1>5, <2>2 DEF HandleRefresh, IsInTerminalState
  <2> QED
    BY <1>1, <2>1, <2>2
<1>6. CASE HandleWarn(p) \/ HandleCheckFails(p) \/ HandleMark(p) \/ Build(p)
  BY <1>3, <1>6 DEF HandleWarn, HandleCheckFails, HandleMark, Build, Transition, MarkPoint,
     Goto, JobPcs
<1>7. CASE UpdateDeploymentStatus(p)
  <2>1. pc[p] = "write"
    BY <1>7 DEF UpdateDeploymentStatus
  <2>2. CASE Parent[job[p]] # NoDep
    BY <1>3, <1>7, <2>1, <2>2 DEF UpdateDeploymentStatus, Goto, JobPcs
  <2>3. CASE Parent[job[p]] = NoDep /\ goal[p] = "finished" /\ Children(job[p]) # {}
    <3>1. pc'[p] = "children" /\ ret'[p] = "children" /\ UNCHANGED <<job, todo>>
      BY <1>7, <2>3 DEF UpdateDeploymentStatus, Goto
    <3> QED
      BY <1>0, <2>1, <2>3, <3>1 DEF Family, Working, InLock, Decided
  <2>4. CASE Parent[job[p]] = NoDep /\ (goal[p] # "finished" \/ Children(job[p]) = {})
    BY <1>2, <1>7, <2>1, <2>4 DEF UpdateDeploymentStatus
  <2> QED
    BY <2>2, <2>3, <2>4
<1>8. CASE DeployToAdditional(p)
  <2>1. PICK c \in Children(job[p]) : cur' = [cur EXCEPT ![p] = c]
    BY <1>8 DEF DeployToAdditional
  <2>2. /\ pc[p] = "children" /\ pc'[p] = "lock_app" /\ mode'[p] = "admit"
        /\ UNCHANGED <<ret, job, todo>>
    BY <1>8 DEF DeployToAdditional, Goto
  <2>3. cur'[p] = c /\ Parent[c] = job[p]
    BY <2>1 DEF Children
  <2> QED
    BY <1>0, <2>2, <2>3 DEF Family, Working, InLock, Decided
<1>9. CASE AllChildrenQueued(p)
  <2>1. pc[p] = "children"
    BY <1>9 DEF AllChildrenQueued
  <2>2. CASE ~ AdvanceAfterEnd(p)
    <3>1. pc'[p] = "notify" /\ ret'[p] = "tail" /\ UNCHANGED <<mode, cur, job, todo>>
      BY <1>9, <2>2 DEF AllChildrenQueued, Goto
    <3> QED
      BY <1>0, <2>1, <3>1 DEF Family, Working, InLock, Decided
  <2> QED
    BY <1>2, <2>1, <2>2
<1>10. CASE NoticeRead(p) \/ NoticeAdd(p)
  <2>1. pc[p] \in {"notify", "notify_add"}
    BY <1>10 DEF NoticeRead, NoticeAdd
  <2>2. CASE ~ Finish(p) /\ ~ AdvanceAfterEnd(p)
    BY <1>3, <1>10, <2>1, <2>2 DEF NoticeRead, NoticeAdd, AfterNotice, Goto, JobPcs
  <2> QED
    BY <1>1, <1>2, <2>1, <2>2
<1>11. CASE JobTail(p)
  <2>1. CASE ~ Finish(p)
    BY <1>3, <1>11, <2>1 DEF JobTail, Transition, Goto, JobPcs
  <2> QED
    BY <1>1, <2>1
<1>12. CASE SideEffectsFail(p)
  <2>1. pc[p] \in {"children", "notify", "notify_add"}
    BY <1>12 DEF SideEffectsFail
  <2>2. CASE ~ Finish(p) /\ ~ AdvanceAfterEnd(p)
    <3>1. pc'[p] = "end" /\ ret[p] = "idle" /\ UNCHANGED <<mode, ret, cur, job, todo>>
      BY <1>12, <2>2 DEF SideEffectsFail, AfterException, Transition, Goto
    <3> QED
      BY <1>0, <2>1, <3>1 DEF Family, Working, InLock, Decided
  <2> QED
    BY <1>1, <1>2, <2>1, <2>2
<1>13. CASE Sweep(p)
  <2>1. pc[p] = "sweep"
    BY <1>13 DEF Sweep
  <2>2. CASE \E d : QueueNextDeployment(p, d) /\ todo'[p] = {} /\ UNCHANGED <<ret, job>>
    BY <1>0, <2>2, QueueNextFamily
  <2>3. CASE UNCHANGED <<pc, mode, ret, cur, job>>
    BY <1>0, <2>1, <2>3 DEF Family, Working, InLock, Decided
  <2> QED
    BY <1>1, <1>13, <2>2, <2>3 DEF Sweep
<1> QED
  BY <1>5, <1>6, <1>7, <1>8, <1>9, <1>10, <1>11, <1>12, <1>13
     DEF JobStep

\* A step that begins an operation.
LEMMA FamilyBegin ==
    ASSUME TypeInv, FamilyInv, NEW p \in Procs, Begin(p)
    PROVE  Family(p)'
<1> USE DEF TypeInv, ProcInv, ProcOK
<1>0. Family(p) /\ ProcInv
  BY DEF FamilyInv
<1>1. CASE \E d \in Deployments : Request(p, d) \/ ForceStart(p, d)
  <2>1. PICK d \in Deployments : Request(p, d) \/ ForceStart(p, d)
    BY <1>1
  <2>2. Parent[d] = NoDep
    BY <2>1 DEF Request, ForceStart, FamilyInv
  <2>3. pc[p] = "idle" /\ pc'[p] = "lock_app" /\ cur'[p] = d /\ UNCHANGED <<ret, job, todo>>
    BY <2>1 DEF Request, ForceStart, Goto
  <2> QED
    BY <1>0, <2>2, <2>3 DEF Family, Working, InLock, Decided
<1>2. CASE \E d \in Deployments : TakeJob(p, d)
  <2>1. pc[p] = "idle" /\ pc'[p] = "refresh" /\ UNCHANGED <<ret, todo>>
    BY <1>2 DEF TakeJob, Goto
  <2> QED
    BY <1>0, <2>1 DEF Family, Working, InLock, Decided
<1>3. CASE \E d \in Deployments : CancelApi(p, d) \/ CancelUi(p, d)
  BY <1>0, <1>3, QueueNextFamily DEF CancelApi, CancelUi, CancelRow
<1>4. CASE (\E s \in Slots : CleanupPreview(p, s)) \/ CheckQueue(p)
  <2>1. pc[p] = "idle" /\ pc'[p] = "sweep" /\ UNCHANGED <<ret, job>>
    BY <1>4 DEF CleanupPreview, CheckQueue, Goto
  <2> QED
    BY <1>0, <2>1 DEF Family, Working, InLock, Decided
<1> QED
  BY <1>1, <1>2, <1>3, <1>4 DEF Begin

\* Every step of a process keeps FamilyInv.
LEMMA FamilyStep ==
    ASSUME TypeInv, FamilyInv, ChildrenUnquestioned, NEW p \in Procs, Begin(p) \/ Step(p)
    PROVE  FamilyInv'
<1>1. Family(p)'
  BY FamilyQueue, FamilyJob, FamilyBegin DEF Step
<1>2. ASSUME NEW q \in Procs, q # p PROVE Family(q)'
  <2>1. /\ pc'[q] = pc[q] /\ mode'[q] = mode[q] /\ cur'[q] = cur[q] /\ job'[q] = job[q]
        /\ ret'[q] = ret[q] /\ todo'[q] = todo[q]
    BY <1>2, StepOthers DEF Others, Frame
  <2>2. Family(q)
    BY DEF FamilyInv
  <2> QED
    BY <2>1, <2>2 DEF Family
<1>3. ASSUME NEW c \in Deployments, Parent[c] # NoDep, status'[c] = "queued" PROVE FALSE
  <2>1. status[c] # "queued"
    BY <1>3 DEF FamilyInv
  <2>2. Wrote(p, c)
    BY <1>3, <2>1, StatusWrites
  <2>3. pc[p] = "commit_queue" /\ cur[p] = c
    BY <1>3, <2>2 DEF Wrote, TypeInv, ProcInv, ProcOK, Control
  <2> QED
    BY <1>3, <2>3 DEF FamilyInv, Family, Working, InLock, Decided
<1> QED
  BY <1>1, <1>2, <1>3 DEF FamilyInv

-----------------------------------------------------------------------------
(* How a step changes what the notification depends on. *)

\* A worker before the end of its job's first transition.
Early == {"refresh", "mark_clean", "mark_dirty", "build", "write"}

\* The action that brings a process to a control point.
LEMMA PointEntry ==
    ASSUME TypeInv, NEW p \in Procs, Begin(p) \/ Step(p)
    PROVE  /\ pc'[p] = "refresh" => \E d \in Deployments : TakeJob(p, d)
           /\ pc'[p] \in {"mark_clean", "mark_dirty"} => HandleRefresh(p) \/ HandleWarn(p)
           /\ pc'[p] = "build" => HandleMark(p)
           /\ pc'[p] = "dispatch" => CommitStart(p)
           /\ pc'[p] = "undispatchable" => DispatchFails(p)
<1> DEFINE Points == {"refresh", "mark_clean", "mark_dirty", "build", "dispatch",
                      "undispatchable"}
<1> SUFFICES ASSUME pc'[p] \in Points
             PROVE  \/ pc'[p] = "refresh" /\ \E d \in Deployments : TakeJob(p, d)
                    \/ pc'[p] \in {"mark_clean", "mark_dirty"} /\ (HandleRefresh(p) \/ HandleWarn(p))
                    \/ pc'[p] = "build" /\ HandleMark(p)
                    \/ pc'[p] = "dispatch" /\ CommitStart(p)
                    \/ pc'[p] = "undispatchable" /\ DispatchFails(p)
  OBVIOUS
<1> USE DEF TypeInv, ProcInv, ProcOK
<1>1. ~ Finish(p) /\ ~ (\E d : QueueNextDeployment(p, d))
  BY DEF Finish, QueueNextDeployment, Goto
<1>2. ~ Return(p)
  BY <1>1 DEF Return, Goto
<1>3. ~ HandleCancelled(p)
  BY <1>1 DEF HandleCancelled, Goto
<1>4. CASE Begin(p)
  BY <1>1, <1>4 DEF Begin, Request, ForceStart, TakeJob, CancelApi, CancelUi, CancelRow,
     CleanupPreview, CheckQueue, Goto
<1>5. CASE LockStep(p) \/ QueueStep(p)
  <2>1. ~ (AdmitDecide(p) \/ ListQueued(p) \/ AdvanceDone(p))
    BY <1>1 DEF AdmitDecide, ListQueued, AdvanceDone, Goto
  <2>2. CASE CommitStart(p) \/ DispatchFails(p)
    BY <2>2 DEF CommitStart, DispatchFails, Goto
  <2> QED
    BY <1>1, <1>2, <1>5, <2>1, <2>2
       DEF LockStep, LockApp, LockServer, QueueStep, AdmitReject, CommitQueue, StartDecline,
       StartDecide, Dispatch, FailUndispatchable, StartNext, Goto
<1>6. ~ (HandleCheckFails(p) \/ Build(p) \/ UpdateDeploymentStatus(p) \/ DeployToAdditional(p)
           \/ AllChildrenQueued(p) \/ SideEffectsFail(p) \/ JobTail(p))
  BY <1>1 DEF HandleCheckFails, Build, Transition, UpdateDeploymentStatus, DeployToAdditional,
     AllChildrenQueued, SideEffectsFail, AfterException, AdvanceAfterEnd, JobTail, Goto
<1>7. ~ (IsInTerminalState(p) \/ NoticeRead(p) \/ NoticeAdd(p) \/ Sweep(p))
  BY <1>1, <1>3 DEF IsInTerminalState, NoticeRead, NoticeAdd, AfterNotice, AdvanceAfterEnd,
     Sweep, Goto
<1>8. CASE HandleRefresh(p) \/ HandleWarn(p) \/ HandleMark(p)
  BY <1>3, <1>8 DEF HandleRefresh, HandleWarn, HandleMark, MarkPoint, Goto
<1> QED
  BY <1>4, <1>5, <1>6, <1>7, <1>8 DEF Step, JobStep

\* A worker that is early in its job took it just now, was early before, or
\* has seen in isInTerminalState that its deployment has not ended.
LEMMA EarlyEntry ==
    ASSUME TypeInv, NEW p \in Procs, Begin(p) \/ Step(p), pc'[p] \in Early
    PROVE  \/ \E d \in Deployments : TakeJob(p, d) /\ job'[p] = d
           \/ job'[p] = job[p] /\ pc[p] \in Early
           \/ job'[p] = job[p] /\ status[job[p]] \notin Terminal /\ UNCHANGED status
<1> USE DEF TypeInv, ProcInv, ProcOK
<1>1. CASE pc'[p] = "refresh"
  BY <1>1, PointEntry DEF TakeJob
<1>2. CASE pc'[p] \in {"mark_clean", "mark_dirty", "build"}
  <2>1. HandleRefresh(p) \/ HandleWarn(p) \/ HandleMark(p)
    BY <1>2, PointEntry
  <2>2. ~ HandleCancelled(p)
    BY <1>2 DEF HandleCancelled, Finish, Goto
  <2>3. pc[p] \in Early /\ job' = job
    BY <2>1, <2>2 DEF HandleRefresh, HandleWarn, HandleMark, Early
  <2> QED
    BY <2>3
<1>3. CASE pc'[p] = "write"
  BY <1>3, WriteEntry DEF IsInTerminalState, rowVars
<1> QED
  BY <1>1, <1>2, <1>3 DEF Early

\* The flag of a multi-server deployment is set by its own worker.
LEMMA FlagSet ==
    ASSUME TypeInv, NEW p \in Procs, Begin(p) \/ Step(p),
           NEW d \in Deployments, allQueued'[d] # allQueued[d]
    PROVE  /\ pc[p] = "children" /\ job[p] = d /\ pc'[p] = "notify" /\ ret'[p] = "tail"
           /\ job' = job /\ UNCHANGED <<status, taken>>
<1>1. AllChildrenQueued(p)
  BY DEF Begin, Request, ForceStart, TakeJob, CancelApi, CancelUi, CancelRow, CleanupPreview,
     CheckQueue, Step, LockStep, LockApp, LockServer, QueueStep, AdmitReject, AdmitDecide,
     CommitQueue, StartDecline, StartDecide, CommitStart, Dispatch, DispatchFails,
     FailUndispatchable, ListQueued, StartNext, AdvanceDone, JobStep, HandleRefresh,
     HandleWarn, HandleCheckFails, HandleMark, Build, IsInTerminalState,
     UpdateDeploymentStatus, DeployToAdditional, SideEffectsFail, NoticeRead, NoticeAdd,
     JobTail, Sweep, noteVars
<1>2. /\ allQueued' = [allQueued EXCEPT ![job[p]] = TRUE] /\ pc' = [pc EXCEPT ![p] = "notify"]
      /\ ret' = [ret EXCEPT ![p] = "tail"] /\ job' = job
  BY <1>1 DEF AllChildrenQueued, Goto
<1>3. job[p] = d
  BY <1>2 DEF TypeInv, SharedOK
<1> QED
  BY <1>1, <1>2, <1>3 DEF AllChildrenQueued, rowVars, jobVars, TypeInv, ProcInv, ProcOK

\* Jobs are pushed and taken by these steps only.
LEMMA JobMoves ==
    ASSUME TypeInv, NEW p \in Procs, Begin(p) \/ Step(p), NEW d \in Deployments
    PROVE  \/ redis'[d] = redis[d] /\ taken'[d] = taken[d]
           \/ /\ Dispatch(p) /\ pc[p] = "dispatch" /\ cur[p] = d
              /\ redis'[d] = redis[d] + 1 /\ taken'[d] = taken[d]
           \/ /\ TakeJob(p, d) /\ redis[d] > 0 /\ taken'[d] = taken[d] + 1
              /\ pc'[p] = "refresh" /\ job'[p] = d
<1> USE DEF TypeInv, SharedOK, ProcInv, ProcOK
<1>1. CASE Dispatch(p)
  BY <1>1 DEF Dispatch
<1>2. CASE \E e \in Deployments : TakeJob(p, e)
  <2>1. PICK e \in Deployments : TakeJob(p, e)
    BY <1>2
  <2> QED
    BY <2>1 DEF TakeJob, Goto
<1> QED
  BY <1>1, <1>2
     DEF Begin, Request, ForceStart, CancelApi, CancelUi, CancelRow, CleanupPreview,
     CheckQueue, Step, LockStep, LockApp, LockServer, QueueStep, AdmitReject, AdmitDecide,
     CommitQueue, StartDecline, StartDecide, CommitStart, DispatchFails,
     FailUndispatchable, ListQueued, StartNext, AdvanceDone, JobStep, HandleRefresh,
     HandleWarn, HandleCheckFails, HandleMark, Build, IsInTerminalState,
     UpdateDeploymentStatus, DeployToAdditional, AllChildrenQueued, SideEffectsFail,
     NoticeRead, NoticeAdd, JobTail, Sweep, jobVars

\* Only a worker that finishes its deployment goes on to the additional servers.
LEMMA ChildrenEntry ==
    ASSUME TypeInv, FamilyInv, NEW p \in Procs, Begin(p) \/ Step(p), ret'[p] = "children"
    PROVE  /\ job'[p] = job[p]
           /\ ret[p] = "children" \/ (pc[p] = "write" /\ status'[job[p]] = "finished")
<1> USE DEF TypeInv, SharedOK, ProcInv, ProcOK
<1>1. ~ Finish(p) /\ ~ AdvanceAfterEnd(p) /\ ~ HandleCancelled(p)
  BY DEF Finish, AdvanceAfterEnd, HandleCancelled
<1>2. CASE UNCHANGED <<ret, job>>
  BY <1>2
<1>3. CASE Return(p)
  BY <1>1, <1>3 DEF Return
<1>4. CASE UpdateDeploymentStatus(p)
  <2>1. /\ Parent[job[p]] = NoDep /\ goal[p] = "finished" /\ pc[p] = "write" /\ job' = job
        /\ status' = [status EXCEPT ![job[p]] = goal[p]]
    BY <1>1, <1>4 DEF UpdateDeploymentStatus
  <2>2. job[p] \in Deployments
    BY <2>1 DEF Control, JobPcs
  <2> QED
    BY <2>1, <2>2
<1>5. CASE AllChildrenQueued(p)
  BY <1>1, <1>5 DEF AllChildrenQueued
<1>6. ~ (\E d \in Deployments : TakeJob(p, d))
  BY DEF TakeJob, FamilyInv, Family, Working, InLock, Decided
<1> QED
  BY <1>1, <1>2, <1>3, <1>4, <1>5, <1>6
     DEF Begin, Request, ForceStart, CancelApi, CancelUi, CancelRow, CleanupPreview,
     CheckQueue, Step, LockStep, LockApp, LockServer, QueueStep, AdmitReject, AdmitDecide,
     CommitQueue, StartDecline, StartDecide, CommitStart, Dispatch, DispatchFails,
     FailUndispatchable, ListQueued, StartNext, AdvanceDone, JobStep, HandleRefresh,
     HandleWarn, HandleCheckFails, HandleMark, Build, IsInTerminalState,
     DeployToAdditional, SideEffectsFail, AfterException, NoticeRead, NoticeAdd, AfterNotice,
     JobTail, Sweep

\* A row exists once its admission committed, and only its own worker takes it
\* out of a terminal status.
LEMMA TerminalLeft ==
    ASSUME TypeInv, JobsInv, NEW p \in Procs, Begin(p) \/ Step(p), NEW d \in Deployments
    PROVE  /\ status[d] \in Terminal /\ status'[d] \notin Terminal =>
                job[p] = d /\ pc[p] = "mark_dirty"
           /\ status[d] \in Active \cup Terminal => status'[d] \notin NoRow
<1> USE DEF TypeInv, ProcInv, ProcOK
<1>1. CASE status'[d] = status[d]
  BY <1>1 DEF NoRow, Active, Terminal
<1>2. CASE status'[d] # status[d]
  <2>1. Wrote(p, d)
    BY <1>2, StatusWrites
  <2>2. pc[p] \in Decided /\ cur[p] = d => status[d] \in {"none", "queued"} \/ pc[p] = "decide"
    BY DEF JobsInv, AdmitInv, StartInv, Admitting, Control, InLock, Decided
  <2>3. pc[p] = "decide" /\ mode[p] = "admit" /\ cur[p] = d => status[d] = "none"
    BY DEF JobsInv, AdmitInv, Admitting, InLock, Decided
  <2>4. pc[p] = "write" => goal[p] \in Terminal
    BY DEF Control, Terminal
  <2> HIDE DEF TypeInv, ProcInv, ProcOK
  <2>5. pc[p] = "commit_queue" => mode[p] = "admit"
    BY DEF TypeInv, ProcInv, Control
  <2>6. pc[p] = "commit_queue" /\ cur[p] = d => status[d] = "none"
    BY <2>5 DEF JobsInv, AdmitInv, Admitting, InLock, Decided
  <2> QED
    BY <2>1, <2>2, <2>3, <2>4, <2>6 DEF Wrote, Terminal, Active, NoRow, Decided
<1> QED
  BY <1>1, <1>2

-----------------------------------------------------------------------------
(* Once its servers are queued, a deployment is over. *)

\* A worker in deploy_to_additional_destinations has ended its deployment and
\* not set the flag; a deployment with the flag has ended and its job does not
\* come back to the places that could change that.
PastInv ==
    /\ \A p \in Procs : ret[p] = "children" =>
          ~ allQueued[job[p]] /\ status[job[p]] \in Terminal
    /\ \A d \in Deployments : allQueued[d] =>
          /\ status[d] \in Terminal /\ taken[d] > 0
          /\ \A p \in Procs : job[p] = d => pc[p] \notin Early

\* Every step of a process keeps PastInv.
LEMMA PastStep ==
    ASSUME TypeInv, JobsInv, FamilyInv, PastInv, NEW p \in Procs, Begin(p) \/ Step(p)
    PROVE  PastInv'
<1>1. Others(p) /\ Frame(p)
  BY StepOthers DEF Others
<1>2. ASSUME NEW q \in Procs, ret'[q] = "children"
      PROVE  job'[q] = job[q] /\ job[q] \in Deployments
  <2>1. job'[q] = job[q]
    BY <1>1, <1>2, ChildrenEntry DEF Frame
  <2>2. ret[q] # "idle" \/ pc[q] = "write"
    BY <1>1, <1>2, ChildrenEntry DEF Others
  <2> QED
    BY <2>1, <2>2 DEF TypeInv, ProcInv, Control, JobPcs
<1>3. ASSUME NEW q \in Procs, ret'[q] = "children" PROVE ~ allQueued'[job[q]]
  <2>1. CASE allQueued'[job[q]] # allQueued[job[q]]
    <3>1. job[p] = job[q] /\ ret'[p] = "tail"
      BY <1>2, <1>3, <2>1, FlagSet
    <3>2. p = q
      BY <1>2, <1>3, <3>1 DEF JobsInv, WorkerInv
    <3> QED
      BY <1>3, <3>1, <3>2
  <2>2. CASE allQueued'[job[q]] = allQueued[job[q]]
    <3>1. CASE ret[q] = "children"
      BY <2>2, <3>1 DEF PastInv
    <3>2. CASE ret[q] # "children"
      <4>1. q = p /\ pc[p] = "write"
        BY <1>1, <1>3, <3>2, ChildrenEntry DEF Others
      <4> QED
        BY <1>2, <1>3, <2>2, <4>1 DEF PastInv, Early
    <3> QED
      BY <3>1, <3>2
  <2> QED
    BY <2>1, <2>2
<1>4. ASSUME NEW q \in Procs, ret'[q] = "children" PROVE status'[job[q]] \in Terminal
  <2>1. CASE ret[q] = "children"
    <3>1. status[job[q]] \in Terminal
      BY <2>1 DEF PastInv
    <3>2. CASE status'[job[q]] \notin Terminal
      <4>1. job[p] = job[q] /\ pc[p] = "mark_dirty"
        BY <1>2, <1>4, <3>1, <3>2, TerminalLeft
      <4>2. p = q
        BY <1>2, <1>4, <4>1 DEF JobsInv, WorkerInv
      <4> QED
        BY <2>1, <4>1, <4>2 DEF FamilyInv, Family, Working, InLock, Decided
    <3> QED
      BY <3>2
  <2>2. CASE ret[q] # "children"
    BY <1>1, <1>4, <2>2, ChildrenEntry DEF Others, Terminal
  <2> QED
    BY <2>1, <2>2
<1>5. ASSUME NEW d \in Deployments, allQueued'[d], ~ allQueued[d]
      PROVE  /\ status'[d] \in Terminal /\ taken'[d] > 0
             /\ \A q \in Procs : job'[q] = d => pc'[q] \notin Early
  <2>1. /\ pc[p] = "children" /\ job[p] = d /\ pc'[p] = "notify" /\ job' = job
        /\ UNCHANGED <<status, taken>>
    BY <1>5, FlagSet
  <2>2. status[d] \in Terminal
    BY <2>1 DEF FamilyInv, Family, PastInv
  <2>3. taken[d] > 0 /\ \A q \in Procs : job[q] = d => q = p
    BY <2>1 DEF JobsInv, WorkerInv
  <2> QED
    BY <2>1, <2>2, <2>3 DEF Early
<1>6. ASSUME NEW d \in Deployments, allQueued[d]
      PROVE  /\ status'[d] \in Terminal /\ taken'[d] > 0
             /\ \A q \in Procs : job'[q] = d => pc'[q] \notin Early
  <2>0. /\ status[d] \in Terminal /\ taken[d] > 0
        /\ \A q \in Procs : job[q] = d => pc[q] \notin Early
    BY <1>6 DEF PastInv
  <2>1. status'[d] \in Terminal
    BY <2>0, TerminalLeft DEF Early
  <2>2. redis[d] \in Nat /\ taken[d] \in Nat /\ redis[d] + taken[d] <= 1
    BY DEF JobsInv, DispatchedOnce, TypeInv, SharedOK
  <2>3. redis[d] = 0 /\ taken'[d] > 0
    BY <2>0, <2>2, JobMoves
  <2>4. ASSUME NEW q \in Procs, job'[q] = d, pc'[q] \in Early PROVE FALSE
    <3>1. CASE q # p
      BY <1>1, <2>0, <2>4, <3>1 DEF Frame
    <3>2. CASE q = p
      <4>1. ~ TakeJob(p, d)
        BY <2>3 DEF TakeJob
      <4> QED
        BY <2>0, <2>4, <3>2, <4>1, EarlyEntry
    <3> QED
      BY <3>1, <3>2
  <2> QED
    BY <2>1, <2>3, <2>4
<1> QED
  BY <1>2, <1>3, <1>4, <1>5, <1>6 DEF PastInv

-----------------------------------------------------------------------------
(* The job of a child leads to the notification. *)

Ended == {"finished", "failed"}

\* A job of deployment c is still going to look at the notification.
Unsettled(c) ==
    \/ redis[c] > 0
    \/ \E p \in Procs : job[p] = c /\ (pc[p] \in Early \/ (pc[p] = "end" /\ status[c] \notin Ended))

\* Deployment c was started and its job is being pushed.
Pushing(c) == \E p \in Procs : pc[p] \in {"dispatch", "undispatchable"} /\ cur[p] = c

\* A child in progress has a job or gets one; a child that ended has none left
\* that would not see it; a job that could not be pushed does not exist.
ChildOK(c) ==
    /\ status[c] = "in_progress" => Unsettled(c) \/ Pushing(c)
    /\ status[c] \in Ended =>
          /\ redis[c] = 0
          /\ \A p \in Procs : job[p] = c => pc[p] \notin Early
          /\ \A p \in Procs : cur[p] = c => pc[p] # "dispatch"
    /\ \A p \in Procs : pc[p] = "undispatchable" /\ cur[p] = c => redis[c] = 0 /\ taken[c] = 0

ChildInv == \A c \in Deployments : Parent[c] # NoDep => ChildOK(c)

\* Where the job of a child goes.
LEMMA ChildFlow ==
    ASSUME TypeInv, NEW p \in Procs, Begin(p) \/ Step(p), job[p] \in Deployments,
           Parent[job[p]] # NoDep, pc[p] \in Early \/ (pc[p] = "end" /\ status[job[p]] \notin Ended)
    PROVE  /\ job'[p] = job[p]
           /\ \/ pc'[p] \in Early
              \/ pc'[p] = "end" /\ pc[p] \in Early /\ UNCHANGED status
              \/ pc'[p] = "notify" /\ status'[job[p]] # "in_progress"
<1> USE DEF TypeInv, SharedOK, ProcInv, ProcOK
<1>1. CASE HandleRefresh(p) \/ IsInTerminalState(p)
  <2>1. CASE status[job[p]] = "cancelled"
    <3>1. pc'[p] = "notify" /\ job' = job /\ UNCHANGED status
      BY <1>1, <2>1 DEF HandleRefresh, IsInTerminalState, HandleCancelled, Goto, rowVars,
         Terminal
    <3> QED
      BY <2>1, <3>1
  <2>2. CASE status[job[p]] # "cancelled"
    <3>1. ~ (IsInTerminalState(p) /\ status[job[p]] \in Ended)
      BY DEF IsInTerminalState, Early, Ended
    <3>2. pc'[p] \in {"mark_clean", "mark_dirty", "write"} /\ job' = job
      BY <1>1, <2>2, <3>1 DEF HandleRefresh, IsInTerminalState, MarkPoint, Goto, Ended
    <3> QED
      BY <3>2 DEF Early
  <2> QED
    BY <2>1, <2>2
<1>2. CASE HandleWarn(p) \/ HandleMark(p)
  BY <1>2 DEF HandleWarn, HandleMark, MarkPoint, Goto, Early
<1>3. CASE HandleCheckFails(p) \/ Build(p)
  BY <1>3 DEF HandleCheckFails, Build, Transition, Goto, Early, rowVars
<1>4. CASE UpdateDeploymentStatus(p)
  <2>1. pc'[p] = "notify" /\ job' = job /\ status' = [status EXCEPT ![job[p]] = goal[p]]
    BY <1>4 DEF UpdateDeploymentStatus, Goto
  <2>2. goal[p] \in {"finished", "failed"}
    BY <1>4 DEF UpdateDeploymentStatus, Control
  <2> QED
    BY <2>1, <2>2
<1> QED
  BY <1>1, <1>2, <1>3, <1>4
     DEF Early, Begin, Request, ForceStart, TakeJob, CancelApi, CancelUi, CancelRow,
     CleanupPreview, CheckQueue, Step, LockStep, LockApp, LockServer, QueueStep, AdmitReject,
     AdmitDecide, CommitQueue, StartDecline, StartDecide, CommitStart, Dispatch,
     DispatchFails, FailUndispatchable, ListQueued, StartNext, AdvanceDone, JobStep,
     DeployToAdditional, AllChildrenQueued, SideEffectsFail, NoticeRead, NoticeAdd, JobTail,
     Sweep

\* Who ends a child: its worker, or the worker of its parent that could not
\* push its job.
LEMMA ChildEnds ==
    ASSUME TypeInv, EndInv, NEW p \in Procs, Begin(p) \/ Step(p), NEW c \in Deployments,
           Parent[c] # NoDep, status'[c] \in Ended, status'[c] # status[c]
    PROVE  \/ pc[p] = "undispatchable" /\ cur[p] = c
           \/ pc[p] = "write" /\ job[p] = c /\ pc'[p] = "notify"
<1>1. Wrote(p, c)
  BY StatusWrites
<1> QED
  BY <1>1 DEF Wrote, EndInv, Ended

\* A job of a child that was going to look at the notification still is, or
\* does so now.
LEMMA Settles ==
    ASSUME TypeInv, JobsInv, EndInv, ChildInv, NEW p \in Procs, Begin(p) \/ Step(p),
           NEW c \in Deployments, Parent[c] # NoDep, Unsettled(c)
    PROVE  \/ Unsettled(c)'
           \/ pc'[p] = "notify" /\ job'[p] = c /\ status'[c] # "in_progress"
<1> USE DEF Unsettled
<1>1. CASE redis[c] > 0
  <2>1. redis[c] \in Nat
    BY DEF TypeInv, SharedOK
  <2>2. CASE redis'[c] = redis[c] \/ redis'[c] = redis[c] + 1
    BY <1>1, <2>1, <2>2
  <2>3. CASE pc'[p] = "refresh" /\ job'[p] = c
    BY <2>3 DEF Early
  <2> QED
    BY <2>2, <2>3, JobMoves
<1>2. CASE \E q \in Procs : job[q] = c /\ (pc[q] \in Early \/ (pc[q] = "end" /\ status[c] \notin Ended))
  <2>1. PICK q \in Procs : job[q] = c /\ (pc[q] \in Early \/ (pc[q] = "end" /\ status[c] \notin Ended))
    BY <1>2
  <2>2. CASE q # p
    <3>1. pc'[q] = pc[q] /\ job'[q] = c
      BY <2>1, <2>2, StepOthers DEF Others, Frame
    <3>2. CASE pc[q] = "end" /\ status'[c] \in Ended /\ status[c] \notin Ended
      <4>1. \/ pc[p] = "undispatchable" /\ cur[p] = c
            \/ pc[p] = "write" /\ job[p] = c
        BY <3>2, ChildEnds
      <4>2. taken[c] > 0 /\ job[p] # c
        BY <2>1, <2>2 DEF JobsInv, WorkerInv
      <4>3. ~ (pc[p] = "undispatchable" /\ cur[p] = c)
        BY <4>2 DEF ChildInv, ChildOK
      <4> QED
        BY <4>1, <4>2, <4>3
    <3> QED
      BY <2>1, <3>1, <3>2
  <2>3. CASE q = p
    <3>1. pc[p] \in Early => status[c] \notin Ended
      BY <2>1, <2>3 DEF ChildInv, ChildOK
    <3> QED
      BY <2>1, <2>3, <3>1, ChildFlow
  <2> QED
    BY <2>2, <2>3
<1> QED
  BY <1>1, <1>2

\* The queue helper works on a child only for the worker of its parent.
LEMMA ChildPushedByParent ==
    ASSUME TypeInv, FamilyInv, NEW p \in Procs, NEW c \in Deployments, Parent[c] # NoDep,
           pc[p] \in Working, cur[p] = c
    PROVE  job[p] = Parent[c] /\ Parent[c] \in Deployments /\ ret[p] = "children"
  BY QueueAssumption DEF FamilyInv, Family

\* Every step of a process keeps ChildInv.
LEMMA ChildStep ==
    ASSUME TypeInv, JobsInv, EndInv, FamilyInv, ChildInv, NEW p \in Procs, Begin(p) \/ Step(p)
    PROVE  ChildInv'
<1> SUFFICES ASSUME NEW c \in Deployments, Parent[c] # NoDep PROVE ChildOK(c)'
  BY DEF ChildInv
<1>1. Frame(p) /\ ChildOK(c)
  BY StepOthers DEF Others, ChildInv
<1>2. redis[c] \in Nat /\ taken[c] \in Nat /\ redis[c] + taken[c] <= 1
  BY DEF JobsInv, DispatchedOnce, TypeInv, SharedOK
<1>3. ASSUME status'[c] = "in_progress" PROVE Unsettled(c)' \/ Pushing(c)'
  <2>1. CASE status[c] # "in_progress"
    <3>1. Wrote(p, c)
      BY <1>3, <2>1, StatusWrites
    <3>2. pc[p] = "write" => goal[p] # "in_progress"
      BY DEF TypeInv, ProcInv, Control
    <3>3. \/ pc'[p] = "dispatch" /\ cur'[p] = c
          \/ pc'[p] = "build" /\ job'[p] = c
      BY <1>3, <3>1, <3>2 DEF Wrote
    <3> QED
      BY <3>3 DEF Unsettled, Pushing, Early
  <2>2. CASE Unsettled(c)
    BY <1>3, <2>2, Settles
  <2>3. CASE Pushing(c) /\ status[c] = "in_progress"
    <3>1. PICK q \in Procs : pc[q] \in {"dispatch", "undispatchable"} /\ cur[q] = c
      BY <2>3 DEF Pushing
    <3>2. CASE q # p
      BY <1>1, <3>1, <3>2 DEF Frame, Pushing
    <3>3. CASE q = p
      <4>1. Dispatch(p) \/ DispatchFails(p) \/ FailUndispatchable(p)
        BY <3>1, <3>3
           DEF Begin, Request, ForceStart, TakeJob, CancelApi, CancelUi, CancelRow,
           CleanupPreview, CheckQueue, Step, LockStep, LockApp, LockServer, QueueStep,
           AdmitReject, AdmitDecide, CommitQueue, StartDecline, StartDecide, CommitStart,
           ListQueued, StartNext, AdvanceDone, JobStep, HandleRefresh, HandleWarn,
           HandleCheckFails, HandleMark, Build, IsInTerminalState, UpdateDeploymentStatus,
           DeployToAdditional, AllChildrenQueued, SideEffectsFail, NoticeRead, NoticeAdd,
           JobTail, Sweep
      <4>2. CASE Dispatch(p)
        <5>1. redis' = [redis EXCEPT ![c] = redis[c] + 1]
          BY <3>1, <3>3, <4>2 DEF Dispatch
        <5>2. redis'[c] > 0
          BY <1>2, <5>1 DEF TypeInv, SharedOK
        <5> QED
          BY <5>2 DEF Unsettled
      <4>3. CASE DispatchFails(p)
        BY <3>1, <3>3, <4>3 DEF DispatchFails, Goto, Pushing, TypeInv, ProcInv, ProcOK
      <4>4. CASE FailUndispatchable(p)
        <5>1. status' = [status EXCEPT ![c] = "failed"]
          BY <2>3, <3>1, <3>3, <4>4 DEF FailUndispatchable
        <5> QED
          BY <1>3, <5>1 DEF TypeInv, SharedOK
      <4> QED
        BY <4>1, <4>2, <4>3, <4>4
    <3> QED
      BY <3>2, <3>3
  <2> QED
    BY <1>1, <2>1, <2>2, <2>3 DEF ChildOK
<1>4. ASSUME status'[c] \in Ended, status'[c] # status[c]
      PROVE  /\ redis'[c] = 0
             /\ \A q \in Procs : job'[q] = c => pc'[q] \notin Early
             /\ \A q \in Procs : cur'[q] = c => pc'[q] # "dispatch"
  <2>1. pc'[p] # "dispatch"
    BY <1>4, PointEntry, StatusWrites DEF CommitStart, Wrote, Ended
  <2>2. pc'[p] \notin Early
    BY <1>4, EarlyEntry, ChildEnds DEF Early, TakeJob
  <2>3. CASE pc[p] = "undispatchable" /\ cur[p] = c
    <3>1. redis[c] = 0 /\ taken[c] = 0
      BY <1>1, <2>3 DEF ChildOK
    <3>2. redis'[c] = 0
      BY <2>3, <3>1, JobMoves
    <3>3. \A q \in Procs : job[q] # c
      BY <3>1 DEF JobsInv, WorkerInv
    <3>4. ASSUME NEW q \in Procs, q # p, cur[q] = c, pc[q] = "dispatch" PROVE FALSE
      <4>1. job[q] = Parent[c] /\ job[p] = Parent[c] /\ Parent[c] \in Deployments
        BY <2>3, <3>4, ChildPushedByParent DEF Working
      <4> QED
        BY <3>4, <4>1 DEF JobsInv, WorkerInv
    <3> QED
      BY <1>1, <2>1, <2>2, <3>2, <3>3, <3>4 DEF Frame
  <2>4. CASE pc[p] = "write" /\ job[p] = c /\ pc'[p] = "notify"
    <3>1. taken[c] > 0 /\ \A q \in Procs : job[q] = c => q = p
      BY <2>4 DEF JobsInv, WorkerInv
    <3>2. redis'[c] = 0
      BY <1>2, <2>4, <3>1, JobMoves
    <3>3. \A q \in Procs : pc[q] = "dispatch" => cur[q] # c
      BY <3>1 DEF JobsInv, DispatchInv
    <3> QED
      BY <1>1, <2>1, <2>2, <3>1, <3>2, <3>3 DEF Frame
  <2> QED
    BY <1>4, <2>3, <2>4, ChildEnds
<1>5. ASSUME status'[c] \in Ended, status'[c] = status[c]
      PROVE  /\ redis'[c] = 0
             /\ \A q \in Procs : job'[q] = c => pc'[q] \notin Early
             /\ \A q \in Procs : cur'[q] = c => pc'[q] # "dispatch"
  <2>1. /\ redis[c] = 0
        /\ \A q \in Procs : job[q] = c => pc[q] \notin Early
        /\ \A q \in Procs : cur[q] = c => pc[q] # "dispatch"
    BY <1>1, <1>5 DEF ChildOK
  <2>2. ~ TakeJob(p, c) /\ redis'[c] = 0
    BY <2>1, JobMoves DEF TakeJob
  <2>3. job'[p] = c => pc'[p] \notin Early
    BY <1>5, <2>1, <2>2, EarlyEntry DEF Ended, Terminal
  <2>4. cur'[p] = c => pc'[p] # "dispatch"
    <3>1. CASE CommitStart(p) /\ cur'[p] = c
      <4>1. cur' = cur /\ status' = [status EXCEPT ![cur[p]] = "in_progress"]
        BY <3>1 DEF CommitStart
      <4> QED
        BY <1>5, <3>1, <4>1 DEF Ended, TypeInv, SharedOK
    <3> QED
      BY <3>1, PointEntry
  <2> QED
    BY <1>1, <2>1, <2>2, <2>3, <2>4 DEF Frame
<1>6. ASSUME NEW q \in Procs, pc'[q] = "undispatchable", cur'[q] = c
      PROVE  redis'[c] = 0 /\ taken'[c] = 0
  <2>1. CASE q = p
    <3>1. DispatchFails(p)
      BY <1>6, <2>1, PointEntry
    <3>2. pc[p] = "dispatch" /\ cur' = cur /\ UNCHANGED <<redis, taken>>
      BY <3>1 DEF DispatchFails, jobVars
    <3> QED
      BY <1>6, <2>1, <3>2 DEF JobsInv, DispatchInv
  <2>2. CASE q # p
    <3>1. pc[q] = "undispatchable" /\ cur[q] = c
      BY <1>1, <1>6, <2>2 DEF Frame
    <3>2. redis[c] = 0 /\ taken[c] = 0
      BY <1>1, <3>1 DEF ChildOK
    <3>3. ~ (pc[p] = "dispatch" /\ cur[p] = c)
      <4>1. ASSUME pc[p] = "dispatch", cur[p] = c PROVE FALSE
        <5>1. job[q] = Parent[c] /\ job[p] = Parent[c] /\ Parent[c] \in Deployments
          BY <3>1, <4>1, ChildPushedByParent DEF Working
        <5> QED
          BY <2>2, <5>1 DEF JobsInv, WorkerInv
      <4> QED
        BY <4>1
    <3> QED
      BY <3>2, <3>3, JobMoves
  <2> QED
    BY <2>1, <2>2
<1> QED
  BY <1>3, <1>4, <1>5, <1>6 DEF ChildOK

-----------------------------------------------------------------------------
(* The combined notification is lost only by an exception. *)

\* Once all servers are queued and all their deployments ended, the
\* notification was sent, an exception kept a job from sending it, or a process
\* is about to look at it.
Covered(d) ==
    \/ SentOrThrown(d)
    \/ \E p \in Procs : pc[p] \in {"notify", "notify_add"} /\ NoticeParent(p) = d
    \/ \E c \in Children(d) : Unsettled(c)

NoticeInv ==
    /\ FlagInv
    /\ \A d \in Deployments : allQueued[d] /\ AllChildrenEnded(d) => Covered(d)

\* A job of a child that was going to look at the notification covers it still.
LEMMA SettlesCovered ==
    ASSUME TypeInv, JobsInv, EndInv, ChildInv, NEW p \in Procs, Begin(p) \/ Step(p),
           NEW d \in Deployments, NEW c \in Children(d), Unsettled(c)
    PROVE  Covered(d)'
<1>1. c \in Deployments /\ Parent[c] = d /\ d # NoDep
  BY QueueAssumption DEF Children
<1>2. CASE Unsettled(c)'
  BY <1>2 DEF Covered, Children
<1>3. CASE pc'[p] = "notify" /\ job'[p] = c
  BY <1>1, <1>3 DEF Covered, NoticeParent
<1> QED
  BY <1>1, <1>2, <1>3, Settles

\* A process that looks at the notification once all servers are done sends it
\* or throws.
LEMMA NotifyCovered ==
    ASSUME TypeInv, FlagInv, NEW p \in Procs, Begin(p) \/ Step(p), NEW d \in Deployments,
           allQueued[d], AllChildrenEnded(d), NEW q \in Procs,
           pc[q] \in {"notify", "notify_add"}, NoticeParent(q) = d
    PROVE  Covered(d)'
<1>1. CASE q # p
  <2>1. pc'[q] = pc[q] /\ job'[q] = job[q]
    BY <1>1, StepOthers DEF Others, Frame
  <2> QED
    BY <2>1 DEF Covered, NoticeParent
<1>2. CASE q = p
  <2>1. NoticeRead(p) \/ NoticeAdd(p) \/ SideEffectsFail(p)
    BY <1>2
       DEF Begin, Request, ForceStart, TakeJob, CancelApi, CancelUi, CancelRow,
       CleanupPreview, CheckQueue, Step, LockStep, LockApp, LockServer, QueueStep,
       AdmitReject, AdmitDecide, CommitQueue, StartDecline, StartDecide, CommitStart,
       Dispatch, DispatchFails, FailUndispatchable, ListQueued, StartNext, AdvanceDone,
       JobStep, HandleRefresh, HandleWarn, HandleCheckFails, HandleMark, Build,
       IsInTerminalState, UpdateDeploymentStatus, DeployToAdditional, AllChildrenQueued,
       JobTail, Sweep
  <2>2. CASE NoticeRead(p)
    <3>1. pc'[p] = "notify_add" /\ job' = job
      BY <1>2, <2>2 DEF NoticeRead, Goto, TypeInv, ProcInv, ProcOK
    <3> QED
      BY <1>2, <3>1 DEF Covered, NoticeParent
  <2>3. CASE NoticeAdd(p)
    BY <1>2, <2>3, NoticeMoves DEF Covered
  <2>4. CASE SideEffectsFail(p)
    BY <1>2, <2>4 DEF SideEffectsFail, WouldSend, Covered, SentOrThrown
  <2> QED
    BY <2>1, <2>2, <2>3, <2>4
<1> QED
  BY <1>1, <1>2

\* Every step of a process keeps NoticeInv.
LEMMA NoticeStep ==
    ASSUME TypeInv, JobsInv, EndInv, FamilyInv, PastInv, ChildInv, NoticeInv,
           NEW p \in Procs, Begin(p) \/ Step(p)
    PROVE  NoticeInv'
<1>0. FlagInv /\ FlagInv'
  BY NoticeMoves DEF NoticeInv
<1> SUFFICES ASSUME NEW d \in Deployments, allQueued'[d], AllChildrenEnded(d)'
             PROVE  Covered(d)'
  BY <1>0 DEF NoticeInv
<1>1. CASE ~ allQueued[d]
  <2>1. pc[p] = "children" /\ job[p] = d /\ pc'[p] = "notify" /\ job' = job
    BY <1>1, FlagSet
  <2>2. Parent[d] = NoDep
    BY <2>1 DEF FamilyInv, Family
  <2> QED
    BY <2>1, <2>2 DEF Covered, NoticeParent
<1>2. CASE allQueued[d] /\ ~ AllChildrenEnded(d)
  <2>1. PICK c \in Children(d) : c \in Rows /\ status[c] \notin Terminal
    BY <1>2 DEF AllChildrenEnded
  <2>2. c \in Deployments /\ Parent[c] = d /\ d # NoDep
    BY QueueAssumption DEF Children
  <2>3. status[c] = "in_progress"
    BY <2>1, <2>2 DEF Rows, Active, FamilyInv
  <2>4. ~ Pushing(c)
    <3>1. ASSUME NEW q \in Procs, pc[q] \in {"dispatch", "undispatchable"}, cur[q] = c PROVE FALSE
      <4>1. job[q] = d /\ ret[q] = "children"
        BY <2>2, <3>1, ChildPushedByParent DEF Working
      <4> QED
        BY <1>2, <4>1 DEF PastInv
    <3> QED
      BY <3>1 DEF Pushing
  <2>5. Unsettled(c)
    BY <2>2, <2>3, <2>4 DEF ChildInv, ChildOK
  <2> QED
    BY <2>5, SettlesCovered
<1>3. CASE allQueued[d] /\ AllChildrenEnded(d)
  <2>1. Covered(d)
    BY <1>3 DEF NoticeInv
  <2>2. CASE SentOrThrown(d)
    BY <1>0, <2>2, NoticeMoves DEF Covered
  <2>3. CASE \E q \in Procs : pc[q] \in {"notify", "notify_add"} /\ NoticeParent(q) = d
    BY <1>0, <1>3, <2>3, NotifyCovered
  <2>4. CASE \E c \in Children(d) : Unsettled(c)
    BY <2>4, SettlesCovered
  <2> QED
    BY <2>1, <2>2, <2>3, <2>4 DEF Covered
<1> QED
  BY <1>1, <1>2, <1>3

\* Neither a restart nor an operator's check:deployment-queue happened.
Undisturbed == sweeps = 0 /\ restarts = 0

\* A step that leaves the instance undisturbed found it so, and was neither.
LEMMA UndisturbedStep ==
    ASSUME TypeInv, [Next]_vars, Undisturbed'
    PROVE  /\ Undisturbed /\ ~ Restart
           /\ \A p \in Procs : ~ CheckQueue(p)
<1> USE DEF Undisturbed, TypeInv, SharedOK
<1>1. ~ Restart /\ \A p \in Procs : ~ CheckQueue(p)
  BY DEF Restart, CheckQueue
<1>2. ASSUME NEW p \in Procs, Begin(p) \/ Step(p) PROVE UNCHANGED boundVars
  BY <1>1, <1>2
     DEF Begin, Request, ForceStart, TakeJob, CancelApi, CancelUi,
     CancelRow, CleanupPreview, Step, LockStep, LockApp, LockServer, QueueStep, AdmitReject,
     AdmitDecide, CommitQueue, StartDecline, StartDecide, CommitStart, Dispatch,
     DispatchFails, FailUndispatchable, ListQueued, StartNext, AdvanceDone, JobStep,
     HandleRefresh, HandleWarn, HandleCheckFails, HandleMark, Build, IsInTerminalState,
     UpdateDeploymentStatus, DeployToAdditional, AllChildrenQueued, NoticeRead, NoticeAdd,
     SideEffectsFail, JobTail, Sweep
<1> QED
  BY <1>1, <1>2 DEF Next, Idle, vars, boundVars

\* sendMultiServerDeploymentNotification, called by every job that ends: once
\* everything is quiet, the notification of a multi-server deployment whose
\* servers were all queued and whose deployments all ended was sent, however
\* jobs, cancellations, clean-ups and failing dispatches interleave, unless the
\* side effects of a job that would have sent it threw, or a restart or an
\* operator's check:deployment-queue ended rows without their jobs.  The
\* additional servers are queued with no_questions_asked.
THEOREM NoticeLostOnlyByException ==
    ASSUME ChildrenUnquestioned
    PROVE  Spec => []NoticeLostOnlyByThrow
<1> DEFINE Inv == EndInv /\ FamilyInv /\ PastInv /\ ChildInv /\ NoticeInv
           IInv == Undisturbed => Inv
<1>1. Init => IInv
  <2> SUFFICES ASSUME Init PROVE Inv
    OBVIOUS
  <2>1. FamilyInv
    BY DEF Init, FamilyInv, Family, Working, InLock, Decided
  <2>2. PastInv /\ EndInv
    BY DEF Init, PastInv, EndInv
  <2>3. ChildInv
    BY DEF Init, ChildInv, ChildOK, Ended
  <2>4. NoticeInv
    BY DEF Init, NoticeInv, FlagInv
  <2> QED
    BY <2>1, <2>2, <2>3, <2>4
<1>2. Inv /\ UNCHANGED vars => Inv'
  <2> SUFFICES ASSUME Inv, UNCHANGED vars PROVE Inv'
    OBVIOUS
  <2> USE DEF vars, rowVars, jobVars, noteVars, procVars
  <2>1. FamilyInv' /\ EndInv'
    BY DEF FamilyInv, Family, EndInv
  <2>2. PastInv'
    BY DEF PastInv
  <2>3. ChildInv'
    BY DEF ChildInv, ChildOK, Unsettled, Pushing
  <2>4. NoticeInv'
    BY DEF NoticeInv, FlagInv, SentOrThrown, Covered, Unsettled, NoticeParent,
       AllChildrenEnded, Rows
  <2> QED
    BY <2>1, <2>2, <2>3, <2>4
<1>3. ASSUME TypeInv, JobsInv, Inv, NEW p \in Procs, Begin(p) \/ Step(p), ~ CheckQueue(p)
      PROVE  Inv'
  BY <1>3, EndStep, FamilyStep, PastStep, ChildStep, NoticeStep
<1>4. TypeInv /\ JobsInv /\ IInv /\ [Next]_vars => IInv'
  <2> SUFFICES ASSUME TypeInv, JobsInv, IInv, [Next]_vars, Undisturbed' PROVE Inv'
    OBVIOUS
  <2>1. Inv /\ ~ Restart /\ \A p \in Procs : ~ CheckQueue(p)
    BY UndisturbedStep
  <2> HIDE DEF Inv
  <2> QED
    BY <1>2, <1>3, <2>1 DEF Next, Idle
<1>5. IInv => NoticeLostOnlyByThrow
  <2> SUFFICES ASSUME Inv, Quiet, NEW d \in Deployments, allQueued[d], AllChildrenEnded(d)
               PROVE  SentOrThrown(d)
    BY DEF NoticeLostOnlyByThrow, Undisturbed, SentOrThrown
  <2>1. Covered(d)
    BY DEF NoticeInv
  <2>2. \A c \in Children(d) : ~ Unsettled(c)
    BY DEF Quiet, Unsettled, Children, Early
  <2> QED
    BY <2>1, <2>2 DEF Covered, Quiet
<1> QED
  BY <1>1, <1>4, <1>5, TypeInvariant, JobsInvariant, PTL DEF Spec
=============================================================================
