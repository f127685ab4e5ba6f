---------------------- MODULE DeploymentStrandedProofs ----------------------
(***************************************************************************)
(* Proofs about the advancing of the deployment queue: a queued deployment *)
(* that could run is left behind only when a pass could not see it.        *)
(***************************************************************************)
EXTENDS DeploymentNoticeProofs

-----------------------------------------------------------------------------
(* The loops of a process. *)

\* No caller of queue_application_deployment passes a server together with a
\* pull request: its deployments run on the main server of the application.
PreviewsOnPrimary ==
    \A d \in Deployments : Slot[d] \in Previews => Server[d] = PrimaryServer[App[d]]

\* Only a process that advances the queue has ended deployments to handle and
\* a list of queued ones; a clean-up lists the deployments of one pull request.
Loop(p) ==
    /\ mode[p] = "start" => pc[p] \in {"advance"} \cup Working
    /\ mode[p] # "start" => pend[p] = <<>> /\ (pc[p] # "sweep" => todo[p] = {})
    /\ ret[p] = "children" => pc[p] \in {"children", "advance"} \cup Working
    /\ pc[p] = "children" => ret[p] = "children"
    /\ pc[p] = "sweep" => \E s \in Previews : \A d \in todo[p] : Slot[d] = s

LoopInv == \A p \in Procs : Loop(p)

\* The other processes keep the ended deployments they have to handle.
LEMMA PendOthers ==
    ASSUME TypeInv, NEW p \in Procs, Begin(p) \/ Step(p), NEW q \in Procs, q # p
    PROVE  pend'[q] = pend[q]
<1> USE DEF TypeInv, ProcInv, ProcOK
<1>1. CASE Finish(p)
  BY <1>1 DEF Finish
<1>2. CASE UNCHANGED pend
  BY <1>2
<1>3. CASE \E d : QueueNextDeployment(p, d)
  BY <1>3 DEF QueueNextDeployment
<1>4. CASE ListQueued(p)
  BY <1>4 DEF ListQueued
<1> QED
  BY <1>1, <1>2, <1>3, <1>4
     DEF Begin, Request, ForceStart, TakeJob, CancelApi, CancelUi, CancelRow, CleanupPreview,
     CheckQueue, Step, LockStep, LockApp, LockServer, QueueStep, AdmitReject, AdmitDecide,
     CommitQueue, StartDecline, StartDecide, CommitStart, Dispatch, DispatchFails,
     FailUndispatchable, StartNext, AdvanceDone, Return, JobStep, HandleRefresh,
     HandleWarn, HandleCheckFails, HandleMark, Build, IsInTerminalState, HandleCancelled,
     UpdateDeploymentStatus, DeployToAdditional, AllChildrenQueued, SideEffectsFail,
     AfterException, NoticeRead, NoticeAdd, AfterNotice, AdvanceAfterEnd, JobTail, Sweep

\* The control moves that several actions share.
LEMMA FinishLoop ==
    ASSUME ProcInv, NEW p \in Procs, Finish(p)
    PROVE  Loop(p)'
  BY DEF ProcInv, ProcOK, Finish, Goto, Loop, Working, InLock, Decided

\* Entering the loop over the queue keeps Loop,
LEMMA QueueNextLoop ==
    ASSUME ProcInv, NEW p \in Procs, Loop(p), NEW d, QueueNextDeployment(p, d)
    PROVE  Loop(p)'
  BY DEF ProcInv, ProcOK, QueueNextDeployment, Goto, Loop, Working, InLock, Decided

\* and so does returning from it.
LEMMA ReturnLoop ==
    ASSUME ProcInv, NEW p \in Procs, Loop(p), Return(p), pc[p] # "sweep"
    PROVE  Loop(p)'
<1> USE DEF ProcInv, ProcOK
<1>1. CASE Finish(p)
  BY <1>1, FinishLoop
<1>2. CASE mode[p] = "start" /\ ~ Finish(p)
  BY <1>2 DEF Return, Goto, Loop, Working, InLock, Decided
<1>3. CASE mode[p] # "start" /\ ~ Finish(p)
  <2>1. /\ pc'[p] = ret[p] /\ mode'[p] = "none" /\ ret' = ret /\ todo' = todo /\ pend' = pend
        /\ ret[p] # "idle"
    BY <1>3 DEF Return, Goto
  <2>2. ret[p] \in {"children", "tail"}
    BY <2>1
  <2> QED
    BY <1>3, <2>1, <2>2 DEF Loop, Working, InLock, Decided
<1> QED
  BY <1>1, <1>2, <1>3

\* The steps of the loop itself,
LEMMA LoopQueue ==
    ASSUME TypeInv, LoopInv, NEW p \in Procs, LockStep(p) \/ QueueStep(p)
    PROVE  Loop(p)'
<1> USE DEF TypeInv, ProcInv, ProcOK
<1>0. Loop(p) /\ ProcInv
  BY DEF LoopInv
<1>1. CASE AdmitReject(p) \/ CommitQueue(p) \/ StartDecline(p) \/ Dispatch(p)
  BY <1>0, <1>1, ReturnLoop DEF AdmitReject, CommitQueue, StartDecline, Dispatch
<1>2. CASE LockApp(p) \/ LockServer(p) \/ AdmitDecide(p) \/ StartDecide(p) \/ CommitStart(p)
             \/ DispatchFails(p)
  <2>1. pc[p] \in Working /\ pc'[p] \in Working /\ UNCHANGED <<mode, ret, todo, pend>>
    BY <1>2 DEF LockApp, LockServer, AdmitDecide, StartDecide, CommitStart, DispatchFails,
       Goto, Working, InLock, Decided
  <2> QED
    BY <1>0, <2>1 DEF Loop, Working, InLock, Decided
<1>3. CASE FailUndispatchable(p)
  BY <1>0, <1>3, ReturnLoop, QueueNextLoop DEF FailUndispatchable
<1>4. CASE ListQueued(p) \/ StartNext(p)
  <2>1. /\ pc[p] = "advance" /\ pc'[p] \in {"advance", "lock_app"}
        /\ UNCHANGED <<mode, ret>>
    BY <1>4 DEF ListQueued, StartNext, Goto
  <2>2. mode[p] = "start"
    BY <2>1 DEF Control
  <2> QED
    BY <1>0, <2>1, <2>2 DEF Loop, Working, InLock, Decided
<1>5. CASE AdvanceDone(p)
  <2>1. CASE Finish(p)
    BY <2>1, FinishLoop
  <2>2. CASE ~ Finish(p)
    <3>1. /\ pc[p] = "advance" /\ pc'[p] = ret[p] /\ ret[p] # "idle" /\ mode'[p] = "none"
          /\ UNCHANGED <<ret, todo, pend>> /\ todo[p] = {} /\ pend[p] = <<>>
      BY <1>5, <2>2 DEF AdvanceDone, Goto
    <3>2. ret[p] \in {"children", "tail"}
      BY <3>1
    <3> QED
      BY <1>0, <3>1, <3>2 DEF Loop, Working, InLock, Decided
  <2> QED
    BY <2>1, <2>2
<1> QED
  BY <1>1, <1>2, <1>3, <1>4, <1>5 DEF LockStep, QueueStep

\* the steps of a job and of the sweep,
LEMMA LoopJob ==
    ASSUME TypeInv, LoopInv, NEW p \in Procs, JobStep(p) \/ Sweep(p)
    PROVE  Loop(p)'
<1> USE DEF TypeInv, ProcInv, ProcOK
<1>0. Loop(p) /\ ProcInv
  BY DEF LoopInv
<1>1. CASE Finish(p)
  BY <1>1, FinishLoop
<1>2. CASE \E d : QueueNextDeployment(p, d)
  BY <1>0, <1>2, QueueNextLoop
<1>3. CASE /\ pc[p] \in JobPcs /\ pc'[p] \in JobPcs \cup {"lock_app"}
           /\ mode'[p] \in {mode[p], "admit"} /\ ret'[p] = ret[p] /\ UNCHANGED <<todo, pend>>
           /\ pc[p] = "children" => pc'[p] = "lock_app"
           /\ pc'[p] # "children"
  BY <1>0, <1>3 DEF Loop, Working, InLock, Decided, JobPcs
<1>4. CASE /\ pc[p] \in JobPcs /\ pc'[p] = "notify" /\ ret'[p] \in {"idle", "tail"}
           /\ UNCHANGED <<mode, todo, pend>>
  BY <1>0, <1>4 DEF Loop, Working, InLock, Decided, JobPcs
<1>5. CASE HandleRefresh(p) \/ IsInTerminalState(p)
  <2>1. CASE HandleCancelled(p)
    BY <1>1, <1>4, <1>5, <2>1 DEF HandleRefresh, IsInTerminalState, HandleCancelled, Goto, JobPcs
  <2>2. CASE ~ HandleCancelled(p)
    BY <1>1, <1>3, <1>5, <2>2 DEF HandleRefresh, IsInTerminalState, MarkPoint, Goto, JobPcs
  <2> QED
    BY <2>1, <2>2
<1>6. CASE HandleWarn(p) \/ HandleCheckFails(p) \/ HandleMark(p) \/ Build(p)
  BY <1>3, <1>6 DEF HandleWarn, HandleCheckFails, HandleMark, Build, Transition, MarkPoint,
     Goto, JobPcs
<1>7. CASE UpdateDeploymentStatus(p)
  <2>1. pc[p] = "write"
    BY <1>7 DEF UpdateDeploymentStatus
  <2>2. CASE pc'[p] = "children" /\ ret'[p] = "children" /\ UNCHANGED <<mode, todo, pend>>
    BY <1>0, <2>1, <2>2 DEF Loop, Working, InLock, Decided
  <2> QED
    BY <1>2, <1>4, <1>7, <2>1, <2>2 DEF UpdateDeploymentStatus, AdvanceAfterEnd, Goto, JobPcs
<1>8. CASE DeployToAdditional(p)
  BY <1>3, <1>8 DEF DeployToAdditional, Goto, JobPcs
<1>9. CASE AllChildrenQueued(p)
  BY <1>2, <1>4, <1>9 DEF AllChildrenQueued, AdvanceAfterEnd, Goto, JobPcs
<1>10. CASE NoticeRead(p) \/ NoticeAdd(p)
  BY <1>1, <1>2, <1>3, <1>10 DEF NoticeRead, NoticeAdd, AfterNotice, AdvanceAfterEnd, Goto, JobPcs
<1>11. CASE JobTail(p)
  BY <1>1, <1>3, <1>11 DEF JobTail, Transition, Goto, JobPcs
<1>12. CASE SideEffectsFail(p)
  <2>1. CASE ret[p] = "idle" /\ Transition(p, "failed") /\ UNCHANGED <<mode, ret, todo, pend>>
    <3>1. pc[p] \in {"notify", "notify_add"} /\ pc'[p] = "end"
      BY <1>0, <1>12, <2>1 DEF SideEffectsFail, Transition, Goto, Loop
    <3> QED
      BY <1>3, <2>1, <3>1 DEF JobPcs
  <2> QED
    BY <1>1, <1>2, <1>12, <2>1 DEF SideEffectsFail, AfterException, AdvanceAfterEnd
<1>13. CASE Sweep(p)
  <2>1. pc[p] = "sweep"
    BY <1>13 DEF Sweep
  <2>2. CASE UNCHANGED <<pc, mode, ret, pend>> /\ todo'[p] \subseteq todo[p]
    BY <1>0, <2>1, <2>2 DEF Loop, Working, InLock, Decided
  <2> QED
    BY <1>1, <1>2, <1>13, <2>2 DEF Sweep
<1> QED
  BY <1>5, <1>6, <1>7, <1>8, <1>9, <1>10, <1>11, <1>12, <1>13 DEF JobStep

\* and the first steps keep Loop of the process that takes them.
LEMMA LoopBegin ==
    ASSUME TypeInv, LoopInv, MaxSweeps = 0, NEW p \in Procs, Begin(p)
    PROVE  Loop(p)'
<1> USE DEF TypeInv, ProcInv, ProcOK
<1>0. Loop(p) /\ ProcInv
  BY DEF LoopInv
<1>1. CASE \E d \in Deployments : Request(p, d) \/ ForceStart(p, d) \/ TakeJob(p, d)
  <2>1. /\ pc[p] = "idle" /\ pc'[p] \in {"lock_app", "refresh"}
        /\ mode'[p] \in {mode[p], "admit", "force"} /\ UNCHANGED <<ret, todo, pend>>
    BY <1>1 DEF Request, ForceStart, TakeJob, Goto
  <2> QED
    BY <1>0, <2>1 DEF Loop, Working, InLock, Decided
<1>2. CASE \E d \in Deployments : CancelApi(p, d) \/ CancelUi(p, d)
  BY <1>0, <1>2, QueueNextLoop DEF CancelApi, CancelUi, CancelRow
<1>3. CASE \E s \in Slots : CleanupPreview(p, s)
  <2>1. PICK s \in Slots : CleanupPreview(p, s)
    BY <1>3
  <2>2. /\ pc[p] = "idle" /\ pc'[p] = "sweep" /\ mode'[p] = "cleanup" /\ UNCHANGED <<ret, pend>>
        /\ s \in Previews /\ \A d \in todo'[p] : Slot[d] = s
    BY <2>1 DEF CleanupPreview, Goto
  <2> QED
    BY <1>0, <2>2 DEF Loop, Working, InLock, Decided
<1>4. ~ CheckQueue(p)
  BY QueueAssumption DEF CheckQueue, SharedOK
<1> QED
  BY <1>1, <1>2, <1>3, <1>4 DEF Begin

\* Every step of a process keeps LoopInv.
LEMMA LoopStep ==
    ASSUME TypeInv, LoopInv, MaxSweeps = 0, NEW p \in Procs, Begin(p) \/ Step(p)
    PROVE  LoopInv'
<1>1. Loop(p)'
  BY LoopQueue, LoopJob, LoopBegin DEF Step
<1>2. ASSUME NEW q \in Procs, q # p PROVE Loop(q)'
  <2>1. /\ pc'[q] = pc[q] /\ mode'[q] = mode[q] /\ ret'[q] = ret[q] /\ todo'[q] = todo[q]
        /\ pend'[q] = pend[q]
    BY <1>2, StepOthers, PendOthers DEF Others, Frame
  <2>2. Loop(q)
    BY DEF LoopInv
  <2> QED
    BY <2>1, <2>2 DEF Loop
<1> QED
  BY <1>1, <1>2 DEF LoopInv

-----------------------------------------------------------------------------
(* A pass that is still to come. *)

\* A pass for the ended deployment e lists d when d is queued.
Related(e, d) == App[e] = App[d] \/ Server[e] = Server[d]

\* Process p is going to try to start deployment d: it has an ended deployment
\* whose pass lists d, it is going to advance the queue for its job, it has
\* listed d, it works on d, or it cleans up deployments that d may wait for.
Sees(p, d) ==
    \/ \E i \in 1 .. Len(pend[p]) : Related(pend[p][i], d)
    \/ /\ job[p] \in Deployments /\ Related(job[p], d)
       /\ ret[p] = "children" \/ (pc[p] \in {"notify", "notify_add"} /\ ret[p] # "idle")
    \/ d \in todo[p] /\ mode[p] = "start"
    \/ /\ cur[p] = d /\ mode[p] \in {"start", "force"}
       /\ pc[p] \in {"lock_app", "lock_server", "decide", "commit_start"}
    \/ pc[p] = "sweep" /\ \E e \in todo[p] : Related(e, d)

\* The row of d is queued, or its admission is about to commit it as queued.
Waiting(d) == status[d] = "queued" \/ \E p \in Procs : pc[p] = "commit_queue" /\ cur[p] = d

\* A deployment that waits and could run was not seen by a pass, or a process
\* is going to try to start it.
StrandInv ==
    \A d \in Deployments :
        Waiting(d) /\ NextQueuable(d) => d \in unseen \/ \E p \in Procs : Sees(p, d)

\* queue_next_deployment will look at the deployments related to the one that ended.
LEMMA QueueNextSees ==
    ASSUME ProcInv, NEW p \in Procs, NEW e \in Deployments, QueueNextDeployment(p, e),
           NEW d \in Deployments, Related(e, d)
    PROVE  Sees(p, d)'
<1>1. pend'[p] = Append(pend[p], e) /\ pend[p] \in Seq(Deployments)
  BY DEF ProcInv, ProcOK, QueueNextDeployment
<1>2. Len(pend'[p]) = Len(pend[p]) + 1 /\ pend'[p][Len(pend[p]) + 1] = e
        /\ Len(pend[p]) + 1 \in 1 .. Len(pend'[p])
  BY <1>1
<1> QED
  BY <1>2 DEF Sees, Related

\* An ended deployment that p has still to handle stays in its list when p
\* appends another.
LEMMA QueueNextKeeps ==
    ASSUME ProcInv, NEW p \in Procs, NEW e \in Deployments, QueueNextDeployment(p, e),
           NEW d \in Deployments, UNCHANGED <<ret, job, todo>>, pc[p] \in {"undispatchable"},
           Sees(p, d)
    PROVE  Sees(p, d)'
<1>1. /\ pend'[p] = Append(pend[p], e) /\ pend[p] \in Seq(Deployments)
      /\ mode'[p] = "start" /\ pc'[p] = "advance"
  BY DEF ProcInv, ProcOK, QueueNextDeployment, Goto
<1>2. Len(pend[p]) \in Nat /\ Len(pend'[p]) = Len(pend[p]) + 1
        /\ \A i \in 1 .. Len(pend[p]) : pend'[p][i] = pend[p][i]
  BY <1>1
<1>3. CASE \E i \in 1 .. Len(pend[p]) : Related(pend[p][i], d)
  <2>1. PICK i \in 1 .. Len(pend[p]) : Related(pend[p][i], d)
    BY <1>3
  <2>2. i \in 1 .. Len(pend'[p]) /\ pend'[p][i] = pend[p][i]
    BY <1>2
  <2>3. \E k \in 1 .. Len(pend'[p]) : Related(pend'[p][k], d)
    BY <2>1, <2>2
  <2> QED
    BY <2>3 DEF Sees, Related
<1>4. CASE job[p] \in Deployments /\ Related(job[p], d) /\ ret[p] = "children"
  BY <1>4 DEF Sees, Related
<1>5. CASE d \in todo[p] /\ mode[p] = "start"
  BY <1>1, <1>5 DEF Sees
<1> QED
  BY <1>3, <1>4, <1>5 DEF Sees

\* A process keeps what it sees when it keeps its registers.
LEMMA SameSees ==
    ASSUME NEW p \in Procs, NEW d \in Deployments, Sees(p, d),
           pc'[p] = pc[p], mode'[p] = mode[p], ret'[p] = ret[p], cur'[p] = cur[p],
           job'[p] = job[p], todo'[p] = todo[p], pend'[p] = pend[p]
    PROVE  Sees(p, d)'
  BY DEF Sees, Related

\* Whoever ends a deployment is going to advance the queue for it.
LEMMA Leaves ==
    ASSUME TypeInv, JobsInv, EndInv, LoopInv, PreviewsOnPrimary, NEW p \in Procs,
           Begin(p) \/ Step(p), NEW e \in Deployments, NEW d \in Deployments,
           status[e] = "in_progress", status'[e] # "in_progress", Related(e, d)
    PROVE  Sees(p, d)'
<1> USE DEF TypeInv, SharedOK, ProcInv, ProcOK
<1>0. ProcInv /\ Loop(p)
  BY DEF LoopInv
<1>1. Wrote(p, e) /\ status'[e] \notin NoRow
  BY StatusWrites, TerminalLeft DEF Active
<1>2. pc[p] # "commit_queue" \/ cur[p] # e
  BY DEF JobsInv, AdmitInv, Admitting, Control, InLock, Decided
<1>3. CASE pc[p] = "undispatchable" /\ cur[p] = e
  <2>1. FailUndispatchable(p)
    BY <1>3
       DEF Begin, Request, ForceStart, TakeJob, CancelApi, CancelUi, CancelRow,
       CleanupPreview, CheckQueue, Step, LockStep, LockApp, LockServer, QueueStep,
       AdmitReject, AdmitDecide, CommitQueue, StartDecline, StartDecide, CommitStart,
       Dispatch, DispatchFails, ListQueued, StartNext, AdvanceDone, JobStep, HandleRefresh,
       HandleWarn, HandleCheckFails, HandleMark, Build, IsInTerminalState,
       UpdateDeploymentStatus, DeployToAdditional, AllChildrenQueued, SideEffectsFail,
       NoticeRead, NoticeAdd, JobTail, Sweep
  <2>2. QueueNextDeployment(p, e)
    BY <1>3, <2>1 DEF FailUndispatchable
  <2> QED
    BY <1>0, <2>2, QueueNextSees
<1>4. CASE pc[p] = "write" /\ job[p] = e
  <2>1. UpdateDeploymentStatus(p)
    BY <1>4
       DEF Begin, Request, ForceStart, TakeJob, CancelApi, CancelUi, CancelRow,
       CleanupPreview, CheckQueue, Step, LockStep, LockApp, LockServer, QueueStep,
       AdmitReject, AdmitDecide, CommitQueue, StartDecline, StartDecide, CommitStart,
       Dispatch, DispatchFails, FailUndispatchable, ListQueued, StartNext, AdvanceDone,
       JobStep, HandleRefresh, HandleWarn, HandleCheckFails, HandleMark, Build,
       IsInTerminalState, DeployToAdditional, AllChildrenQueued, SideEffectsFail,
       NoticeRead, NoticeAdd, JobTail, Sweep
  <2>2. CASE AdvanceAfterEnd(p)
    BY <1>0, <1>4, <2>2, QueueNextSees DEF AdvanceAfterEnd
  <2>3. CASE ~ AdvanceAfterEnd(p)
    <3>1. /\ job' = job
          /\ ret'[p] = "children" \/ (pc'[p] = "notify" /\ ret'[p] = "tail")
      BY <2>1, <2>3 DEF UpdateDeploymentStatus, Goto
    <3> QED
      BY <1>4, <3>1 DEF Sees, Related
  <2> QED
    BY <2>2, <2>3
<1>5. CASE pc[p] = "idle"
  <2>1. PICK x \in Deployments : CancelRow(p, x)
    BY <1>5
       DEF Begin, Request, ForceStart, TakeJob, CancelApi, CancelUi, CleanupPreview, CheckQueue,
       Step, LockStep, LockApp, LockServer, QueueStep, AdmitReject, AdmitDecide, CommitQueue,
       StartDecline, StartDecide, CommitStart, Dispatch, DispatchFails, FailUndispatchable,
       ListQueued, StartNext, AdvanceDone, JobStep, HandleRefresh, HandleWarn,
       HandleCheckFails, HandleMark, Build, IsInTerminalState, UpdateDeploymentStatus,
       DeployToAdditional, AllChildrenQueued, SideEffectsFail, NoticeRead, NoticeAdd, JobTail,
       Sweep, rowVars
  <2>2. QueueNextDeployment(p, x) /\ status' = [status EXCEPT ![x] = "cancelled"]
    BY <2>1 DEF CancelRow
  <2>3. x = e
    BY <2>2
  <2> QED
    BY <1>0, <2>2, <2>3, QueueNextSees
<1>6. CASE pc[p] = "sweep"
  <2>1. Sweep(p)
    BY <1>6
       DEF Begin, Request, ForceStart, TakeJob, CancelApi, CancelUi, CancelRow,
       CleanupPreview, CheckQueue, Step, LockStep, LockApp, LockServer, QueueStep,
       AdmitReject, AdmitDecide, CommitQueue, StartDecline, StartDecide, CommitStart,
       Dispatch, DispatchFails, FailUndispatchable, ListQueued, StartNext, AdvanceDone,
       JobStep, HandleRefresh, HandleWarn, HandleCheckFails, HandleMark, Build,
       IsInTerminalState, UpdateDeploymentStatus, DeployToAdditional, AllChildrenQueued,
       SideEffectsFail, NoticeRead, NoticeAdd, JobTail
  <2>2. PICK x \in todo[p] :
           /\ status' = [status EXCEPT ![x] = IF mode[p] = "cleanup" THEN "cancelled" ELSE "failed"]
           /\ \/ /\ todo[p] # {x} /\ todo' = [todo EXCEPT ![p] = todo[p] \ {x}]
                 /\ UNCHANGED pc
              \/ QueueNextDeployment(p, x)
              \/ mode[p] = "check"
    BY <2>1 DEF Sweep
  <2>3. x = e /\ mode[p] = "cleanup"
    BY <1>6, <2>2 DEF EndInv
  <2>4. CASE QueueNextDeployment(p, x)
    BY <1>0, <2>3, <2>4, QueueNextSees
  <2>5. CASE todo[p] # {x} /\ todo' = [todo EXCEPT ![p] = todo[p] \ {x}] /\ UNCHANGED pc
    <3>1. PICK y \in todo[p] : y # x
      BY <2>5
    <3>2. y \in todo'[p] /\ y \in Deployments
      BY <2>5, <3>1
    <3>3. Slot[y] = Slot[e] /\ Slot[e] \in Previews
      BY <1>0, <1>6, <2>3, <3>1 DEF Loop
    <3>4. App[y] = App[e] /\ Server[y] = Server[e]
      <4>1. App[y] = App[e]
        BY <3>2, <3>3, SlotAssumption
      <4>2. Server[y] = PrimaryServer[App[y]] /\ Server[e] = PrimaryServer[App[e]]
        BY <3>2, <3>3 DEF PreviewsOnPrimary
      <4> QED
        BY <4>1, <4>2
    <3>5. Related(y, d)
      BY <3>4 DEF Related
    <3> QED
      BY <1>6, <2>5, <3>2, <3>5 DEF Sees, Related
  <2> QED
    BY <2>2, <2>3, <2>4, <2>5
<1> QED
  BY <1>1, <1>2, <1>3, <1>4, <1>5, <1>6 DEF Wrote, NoRow

\* A deployment that could not run and now can was held up by a related
\* deployment that just left in_progress.
LEMMA Unblocked ==
    ASSUME TypeInv, NEW d \in Deployments, ~ NextQueuable(d), NextQueuable(d)'
    PROVE  \E e \in Deployments :
              status[e] = "in_progress" /\ status'[e] # "in_progress" /\ Related(e, d)
<1> DEFINE On  == InProgressOn(Server[d])
           On1 == InProgressOn(Server[d])'
<1>1. On = {e \in Deployments : Server[e] = Server[d] /\ status[e] = "in_progress"}
      /\ On1 = {e \in Deployments : Server[e] = Server[d] /\ status'[e] = "in_progress"}
  BY DEF InProgressOn
<1>2. CASE \E e \in Deployments : status[e] = "in_progress" /\ Slot[e] = Slot[d]
  <2>1. PICK e \in Deployments : status[e] = "in_progress" /\ Slot[e] = Slot[d]
    BY <1>2
  <2>2. status'[e] # "in_progress"
    BY <2>1 DEF NextQueuable
  <2>3. App[e] = App[d]
    BY <2>1, SlotAssumption
  <2> QED
    BY <2>1, <2>2, <2>3 DEF Related
<1>3. CASE ~ (Cardinality(On) < ConcurrentBuilds[Server[d]])
  <2>1. Cardinality(On1) < ConcurrentBuilds[Server[d]]
    BY DEF NextQueuable
  <2>2. IsFiniteSet(On) /\ IsFiniteSet(On1)
    BY <1>1, QueueAssumption, FS_Subset
  <2>3. Cardinality(On) \in Nat /\ Cardinality(On1) \in Nat /\ ConcurrentBuilds[Server[d]] \in Nat
    BY <2>2, QueueAssumption, FS_CardinalityType
  <2>4. On \subseteq On1 => Cardinality(On) <= Cardinality(On1)
    BY <2>2, FS_Subset
  <2>5. PICK e \in On : e \notin On1
    BY <1>3, <2>1, <2>3, <2>4
  <2> QED
    BY <1>1, <2>5 DEF Related
<1> QED
  BY <1>2, <1>3 DEF NextQueuable

\* A process that returns from a queue helper keeps what it sees, apart from
\* the deployment it worked on.
LEMMA ReturnSees ==
    ASSUME ProcInv, NEW p \in Procs, Loop(p), Return(p), NEW d \in Deployments, Sees(p, d),
           pc[p] \in Working, ~ (cur[p] = d /\ mode[p] \in {"start", "force"} /\ pc[p] = "decide"),
           pc[p] \notin {"lock_app", "lock_server", "commit_start"}
    PROVE  Sees(p, d)'
<1> USE DEF ProcInv, ProcOK
<1>1. CASE mode[p] = "start"
  <2>1. UNCHANGED <<mode, ret, job, todo, pend>>
    BY <1>1 DEF Return
  <2> QED
    BY <2>1 DEF Sees, Related, Working, InLock, Decided
<1>2. CASE mode[p] # "start"
  <2>1. pend[p] = <<>> /\ todo[p] = {}
    BY <1>2 DEF Loop, Working, InLock, Decided
  <2>2. job[p] \in Deployments /\ Related(job[p], d) /\ ret[p] = "children"
    BY <1>2, <2>1 DEF Sees, Working, InLock, Decided
  <2>3. UNCHANGED <<ret, job>>
    BY <1>2, <2>2 DEF Return
  <2> QED
    BY <2>2, <2>3 DEF Sees, Related
<1> QED
  BY <1>1, <1>2

\* While a deployment waits and could run, the process that sees it tries to
\* start it, or a pass could not see it.
LEMMA SeesQueue ==
    ASSUME TypeInv, LockInv, LoopInv, NEW p \in Procs, LockStep(p) \/ QueueStep(p),
           NEW d \in Deployments, Waiting(d), NextQueuable(d)', Sees(p, d)
    PROVE  d \in unseen' \/ Sees(p, d)'
<1> USE DEF TypeInv, ProcInv, ProcOK
<1>0. Loop(p) /\ ProcInv
  BY DEF LoopInv
<1>1. CASE AdmitReject(p) \/ CommitQueue(p) \/ Dispatch(p)
  <2>1. Return(p) /\ pc[p] \in {"decide", "commit_queue", "dispatch"}
          /\ (pc[p] = "decide" => mode[p] = "admit")
    BY <1>1 DEF AdmitReject, CommitQueue, Dispatch
  <2> QED
    BY <1>0, <2>1, ReturnSees DEF Working, InLock, Decided
<1>2. CASE StartDecline(p)
  <2>1. Return(p) /\ pc[p] = "decide" /\ UNCHANGED status /\ mode[p] \in {"start", "force"}
          /\ (status[cur[p]] # "queued" \/ (mode[p] = "start" /\ ~ NextQueuable(cur[p])))
    BY <1>2 DEF StartDecline, rowVars
  <2>2. CASE cur[p] # d
    BY <1>0, <2>1, <2>2, ReturnSees DEF Working, InLock, Decided
  <2>3. CASE cur[p] = d
    <3>1. NextQueuable(d)
      BY <2>1 DEF NextQueuable, InProgressOn
    <3>2. PICK q \in Procs : pc[q] = "commit_queue" /\ cur[q] = d
      BY <2>1, <2>3, <3>1 DEF Waiting
    <3>3. appLock[App[d]] = p /\ appLock[App[d]] = q
      <4>1. pc[p] \in InLock /\ pc[q] \in InLock
        BY <2>1, <3>2 DEF InLock, Decided
      <4> QED
        BY <2>3, <3>2, <4>1 DEF LockInv
    <3> QED
      BY <2>1, <3>2, <3>3
  <2> QED
    BY <2>2, <2>3
<1>3. CASE LockApp(p) \/ LockServer(p) \/ AdmitDecide(p) \/ StartDecide(p) \/ DispatchFails(p)
  <2>1. /\ UNCHANGED <<mode, ret, cur, job, todo, pend>>
        /\ pc[p] \in Working /\ ((pc[p] = "decide" /\ mode[p] = "admit") \/ pc[p] = "dispatch"
             \/ pc'[p] \in {"lock_server", "decide", "commit_start"})
    BY <1>3 DEF LockApp, LockServer, AdmitDecide, StartDecide, DispatchFails, Goto, Working,
       InLock, Decided
  <2> QED
    BY <2>1 DEF Sees, Related, Working, InLock, Decided
<1>4. CASE CommitStart(p)
  <2>1. /\ UNCHANGED <<mode, ret, cur, job, todo, pend>> /\ pc[p] = "commit_start"
        /\ status' = [status EXCEPT ![cur[p]] = "in_progress"]
    BY <1>4 DEF CommitStart
  <2>2. cur[p] # d
    BY <2>1 DEF NextQueuable, SharedOK
  <2> QED
    BY <2>1, <2>2 DEF Sees, Related
<1>5. CASE FailUndispatchable(p)
  <2>1. pc[p] = "undispatchable" /\ cur[p] \in Deployments
    BY <1>5, WorkingCur DEF FailUndispatchable, Working
  <2>2. CASE Return(p)
    BY <1>0, <2>1, <2>2, ReturnSees DEF Working, InLock, Decided
  <2>3. CASE ~ Return(p)
    <3>1. QueueNextDeployment(p, cur[p]) /\ UNCHANGED <<ret, job, todo>>
      BY <1>5, <2>3 DEF FailUndispatchable
    <3> QED
      BY <1>0, <2>1, <3>1, QueueNextKeeps
  <2> QED
    BY <2>2, <2>3
<1>6. CASE ListQueued(p)
  <2>1. /\ pc[p] = "advance" /\ todo[p] = {} /\ pend[p] # <<>> /\ pend[p] \in Seq(Deployments)
        /\ UNCHANGED <<pc, mode, ret, cur, job>> /\ unseen' = unseen \cup Uncommitted
        /\ todo'[p] = {e \in QueuedRows : Server[e] \in PassServers(Head(pend[p]))}
        /\ pend'[p] = Tail(pend[p])
    BY <1>6 DEF ListQueued
  <2>2. mode[p] = "start"
    BY <2>1 DEF Control
  <2>3. CASE \E i \in 1 .. Len(pend[p]) : i # 1 /\ Related(pend[p][i], d)
    <3>1. PICK i \in 1 .. Len(pend[p]) : i # 1 /\ Related(pend[p][i], d)
      BY <2>3
    <3>2. i - 1 \in 1 .. Len(Tail(pend[p])) /\ Tail(pend[p])[i - 1] = pend[p][i]
      BY <2>1, <3>1
    <3> QED
      BY <2>1, <3>1, <3>2 DEF Sees, Related
  <2>4. CASE Related(pend[p][1], d)
    <3>1. Head(pend[p]) = pend[p][1]
      BY <2>1
    <3>2. CASE status[d] = "queued"
      <4>1. d \in QueuedRows /\ Server[d] \in PassServers(Head(pend[p]))
        BY <2>4, <3>1, <3>2 DEF QueuedRows, PassServers, Related
      <4> QED
        BY <2>1, <2>2, <4>1 DEF Sees
    <3>3. CASE status[d] # "queued"
      BY <2>1, <3>3 DEF Waiting, Uncommitted
    <3> QED
      BY <3>2, <3>3
  <2>5. CASE job[p] \in Deployments /\ Related(job[p], d) /\ ret[p] = "children"
    BY <2>1, <2>5 DEF Sees, Related
  <2> QED
    BY <2>1, <2>3, <2>4, <2>5 DEF Sees
<1>7. CASE StartNext(p)
  <2>1. PICK e \in todo[p] : /\ cur' = [cur EXCEPT ![p] = e]
                             /\ todo' = [todo EXCEPT ![p] = todo[p] \ {e}]
    BY <1>7 DEF StartNext
  <2>2. pc[p] = "advance" /\ pc'[p] = "lock_app" /\ UNCHANGED <<mode, ret, job, pend>>
    BY <1>7 DEF StartNext, Goto
  <2>3. mode[p] = "start" /\ cur'[p] = e /\ todo'[p] = todo[p] \ {e}
    BY <2>1, <2>2 DEF Control
  <2>4. CASE e = d
    BY <2>2, <2>3, <2>4 DEF Sees
  <2>5. CASE e # d
    BY <2>2, <2>3, <2>5 DEF Sees, Related
  <2> QED
    BY <2>4, <2>5
<1>8. CASE AdvanceDone(p)
  <2>1. pc[p] = "advance" /\ todo[p] = {} /\ pend[p] = <<>>
    BY <1>8 DEF AdvanceDone
  <2>2. job[p] \in Deployments /\ Related(job[p], d) /\ ret[p] = "children"
    BY <2>1 DEF Sees
  <2>3. UNCHANGED <<ret, job>>
    BY <1>8, <2>2 DEF AdvanceDone
  <2> QED
    BY <2>2, <2>3 DEF Sees, Related
<1> QED
  BY <1>1, <1>2, <1>3, <1>4, <1>5, <1>6, <1>7, <1>8 DEF LockStep, QueueStep

\* The same for the steps of the job, and for a clean-up.
LEMMA SeesJob ==
    ASSUME TypeInv, LoopInv, EndInv, PreviewsOnPrimary, NEW p \in Procs, JobStep(p) \/ Sweep(p),
           NEW d \in Deployments, Sees(p, d)
    PROVE  Sees(p, d)'
<1> USE DEF TypeInv, ProcInv, ProcOK
<1>0. Loop(p) /\ ProcInv
  BY DEF LoopInv
<1>1. CASE Sweep(p)
  <2>1. pc[p] = "sweep" /\ mode[p] = "cleanup"
    BY <1>1 DEF Sweep, EndInv
  <2>2. PICK e \in todo[p] : Related(e, d)
    BY <1>0, <2>1 DEF Sees, Loop, Working, InLock, Decided
  <2>3. ASSUME NEW x \in todo[p] PROVE x \in Deployments /\ Related(x, d)
    <3>1. x \in Deployments /\ e \in Deployments
      BY <2>2, <2>3
    <3>2. Slot[x] = Slot[e] /\ Slot[e] \in Previews
      BY <1>0, <2>1, <2>2, <2>3 DEF Loop
    <3>3. App[x] = App[e]
      BY <3>1, <3>2, SlotAssumption
    <3>4. Server[x] = PrimaryServer[App[x]] /\ Server[e] = PrimaryServer[App[e]]
      BY <3>1, <3>2 DEF PreviewsOnPrimary
    <3> QED
      BY <2>2, <3>1, <3>3, <3>4 DEF Related
  <2>4. PICK x \in todo[p] : \/ /\ todo[p] # {x} /\ todo' = [todo EXCEPT ![p] = todo[p] \ {x}]
                                /\ UNCHANGED pc
                             \/ QueueNextDeployment(p, x)
    BY <1>1, <2>1 DEF Sweep
  <2>5. CASE QueueNextDeployment(p, x)
    BY <1>0, <2>3, <2>5, QueueNextSees
  <2>6. CASE todo[p] # {x} /\ todo' = [todo EXCEPT ![p] = todo[p] \ {x}] /\ UNCHANGED pc
    <3>1. PICK y \in todo[p] : y # x
      BY <2>6
    <3>2. y \in todo'[p] /\ Related(y, d)
      BY <2>3, <2>6, <3>1
    <3> QED
      BY <2>1, <2>6, <3>2 DEF Sees, Related
  <2> QED
    BY <2>4, <2>5, <2>6
<1>2. CASE JobStep(p)
  <2>1. pc[p] \in JobPcs
    BY <1>2 DEF JobStep, HandleRefresh, HandleWarn, HandleCheckFails, HandleMark, Build,
       IsInTerminalState, UpdateDeploymentStatus, DeployToAdditional, AllChildrenQueued,
       SideEffectsFail, NoticeRead, NoticeAdd, JobTail, JobPcs
  <2>2. mode[p] # "start" /\ pend[p] = <<>>
    BY <1>0, <2>1 DEF Loop, Working, InLock, Decided, JobPcs
  <2>3. /\ job[p] \in Deployments /\ Related(job[p], d) /\ ret[p] # "idle"
        /\ pc[p] \in {"children", "notify", "notify_add"}
        /\ pc[p] = "children" => ret[p] = "children"
    BY <1>0, <2>1, <2>2 DEF Sees, Loop, Working, InLock, Decided, JobPcs
  <2>4. CASE AdvanceAfterEnd(p)
    BY <1>0, <2>3, <2>4, QueueNextSees DEF AdvanceAfterEnd
  <2>5. CASE DeployToAdditional(p)
    <3>1. pc[p] = "children" /\ UNCHANGED <<ret, job>>
      BY <2>5 DEF DeployToAdditional
    <3> QED
      BY <2>3, <3>1 DEF Sees, Related
  <2>6. CASE AllChildrenQueued(p) /\ ~ AdvanceAfterEnd(p)
    <3>1. pc'[p] = "notify" /\ ret'[p] = "tail" /\ job' = job
      BY <2>6 DEF AllChildrenQueued, Goto
    <3> QED
      BY <2>3, <3>1 DEF Sees, Related
  <2>7. CASE (NoticeRead(p) \/ NoticeAdd(p)) /\ ~ AdvanceAfterEnd(p)
    <3>1. pc'[p] = "notify_add" /\ UNCHANGED <<ret, job>>
      BY <2>3, <2>7 DEF NoticeRead, NoticeAdd, AfterNotice, Goto
    <3> QED
      BY <2>3, <3>1 DEF Sees, Related
  <2> QED
    BY <1>2, <2>3, <2>4, <2>5, <2>6, <2>7
       DEF JobStep, HandleRefresh, HandleWarn, HandleCheckFails, HandleMark, Build,
       IsInTerminalState, UpdateDeploymentStatus, SideEffectsFail, AfterException, JobTail
<1> QED
  BY <1>1, <1>2

\* A process that begins an operation saw nothing.
LEMMA SeesIdle ==
    ASSUME TypeInv, LoopInv, NEW p \in Procs, Begin(p), NEW d \in Deployments
    PROVE  ~ Sees(p, d)
<1>1. pc[p] = "idle"
  BY DEF Begin, Request, ForceStart, TakeJob, CancelApi, CancelUi, CancelRow, CleanupPreview,
     CheckQueue
<1>2. mode[p] # "start" /\ pend[p] = <<>> /\ ret[p] # "children"
  BY <1>1 DEF LoopInv, Loop, Working, InLock, Decided
<1> QED
  BY <1>1, <1>2 DEF Sees

\* A deployment begins to wait only when the limits do not let it run.
LEMMA BeginsToWait ==
    ASSUME TypeInv, NEW p \in Procs, Begin(p) \/ Step(p), NEW d \in Deployments,
           ~ Waiting(d), Waiting(d)'
    PROVE  ~ NextQueuable(d)'
<1> USE DEF TypeInv, ProcInv, ProcOK
<1>1. status'[d] # "queued"
  <2>1. ASSUME status'[d] = "queued" PROVE FALSE
    <3>1. Wrote(p, d)
      BY <2>1, StatusWrites DEF Waiting
    <3>2. pc[p] = "write" => goal[p] # "queued"
      OBVIOUS
    <3> QED
      BY <2>1, <3>1, <3>2 DEF Wrote, Waiting
  <2> QED
    BY <2>1
<1>2. PICK q \in Procs : pc'[q] = "commit_queue" /\ cur'[q] = d
  BY <1>1 DEF Waiting
<1>3. q = p
  BY <1>2, StepOthers DEF Others, Frame, Waiting
<1>4. pc'[p] = "commit_queue" /\ cur'[p] = d
  BY <1>2, <1>3
<1>5. ~ Finish(p) /\ ~ (\E e : QueueNextDeployment(p, e))
  BY <1>4 DEF Finish, QueueNextDeployment, Goto
<1>6. ~ Return(p)
  BY <1>4, <1>5 DEF Return, Goto
<1>7. ~ HandleCancelled(p)
  BY <1>4, <1>5 DEF HandleCancelled, Goto
<1>8. ~ Begin(p)
  BY <1>4, <1>5 DEF Begin, Request, ForceStart, TakeJob, CancelApi, CancelUi, CancelRow,
     CleanupPreview, CheckQueue, Goto
<1>9. ~ JobStep(p)
  <2>1. ~ (HandleCheckFails(p) \/ Build(p) \/ UpdateDeploymentStatus(p) \/ DeployToAdditional(p)
           \/ AllChildrenQueued(p) \/ SideEffectsFail(p) \/ JobTail(p))
    BY <1>4, <1>5 DEF HandleCheckFails, Build, Transition, UpdateDeploymentStatus,
       DeployToAdditional, AllChildrenQueued, SideEffectsFail, AfterException,
       AdvanceAfterEnd, JobTail, Goto
  <2>2. ~ (IsInTerminalState(p) \/ NoticeRead(p) \/ NoticeAdd(p))
    BY <1>4, <1>5, <1>7 DEF IsInTerminalState, NoticeRead, NoticeAdd, AfterNotice,
       AdvanceAfterEnd, Goto
  <2>3. ~ (HandleRefresh(p) \/ HandleWarn(p) \/ HandleMark(p))
    BY <1>4, <1>7 DEF HandleRefresh, HandleWarn, HandleMark, MarkPoint, Goto
  <2> QED
    BY <2>1, <2>2, <2>3 DEF JobStep
<1>10. ~ Sweep(p)
  BY <1>4, <1>5 DEF Sweep
<1>11. AdmitDecide(p)
  <2>1. ~ (ListQueued(p) \/ AdvanceDone(p))
    BY <1>4, <1>5 DEF ListQueued, AdvanceDone, Goto
  <2> QED
    BY <1>4, <1>5, <1>6, <1>8, <1>9, <1>10, <2>1
       DEF Step, LockStep, LockApp, LockServer, QueueStep, AdmitReject, CommitQueue,
       StartDecline, StartDecide, CommitStart, Dispatch, DispatchFails, FailUndispatchable,
       StartNext, Goto
<1>12. ~ NextQueuable(cur[p]) /\ cur' = cur /\ UNCHANGED status
  BY <1>4, <1>11 DEF AdmitDecide, Goto, rowVars
<1> QED
  BY <1>4, <1>12 DEF NextQueuable, InProgressOn

\* Every step of a process keeps StrandInv.
LEMMA StrandStep ==
    ASSUME TypeInv, LockInv, JobsInv, EndInv, LoopInv, StrandInv, PreviewsOnPrimary,
           NEW p \in Procs, Begin(p) \/ Step(p)
    PROVE  StrandInv'
<1> SUFFICES ASSUME NEW d \in Deployments, Waiting(d)', NextQueuable(d)'
             PROVE  d \in unseen' \/ \E q \in Procs : Sees(q, d)'
  BY DEF StrandInv
<1>1. Waiting(d)
  BY BeginsToWait
<1>2. unseen \subseteq unseen'
  BY DEF Begin, Request, ForceStart, TakeJob, CancelApi, CancelUi, CancelRow, CleanupPreview,
     CheckQueue, Step, LockStep, LockApp, LockServer, QueueStep, AdmitReject, AdmitDecide,
     CommitQueue, StartDecline, StartDecide, CommitStart, Dispatch, DispatchFails,
     FailUndispatchable, ListQueued, StartNext, AdvanceDone, JobStep, HandleRefresh,
     HandleWarn, HandleCheckFails, HandleMark, Build, IsInTerminalState,
     UpdateDeploymentStatus, DeployToAdditional, AllChildrenQueued, SideEffectsFail,
     NoticeRead, NoticeAdd, JobTail, Sweep
<1>3. CASE ~ NextQueuable(d)
  <2>1. PICK e \in Deployments :
           status[e] = "in_progress" /\ status'[e] # "in_progress" /\ Related(e, d)
    BY <1>3, Unblocked
  <2> QED
    BY <2>1, Leaves
<1>4. CASE d \in unseen
  BY <1>2, <1>4
<1>5. ASSUME NEW q \in Procs, Sees(q, d) PROVE d \in unseen' \/ \E r \in Procs : Sees(r, d)'
  <2>1. CASE q # p
    <3>1. /\ pc'[q] = pc[q] /\ mode'[q] = mode[q] /\ ret'[q] = ret[q] /\ cur'[q] = cur[q]
          /\ job'[q] = job[q] /\ todo'[q] = todo[q] /\ pend'[q] = pend[q]
      BY <2>1, StepOthers, PendOthers DEF Others, Frame
    <3> QED
      BY <1>5, <3>1, SameSees
  <2>2. CASE q = p
    BY <1>1, <1>5, <2>2, SeesQueue, SeesJob, SeesIdle DEF Step
  <2> QED
    BY <2>1, <2>2
<1> QED
  BY <1>1, <1>3, <1>4, <1>5 DEF StrandInv

\* queue_next_deployment: once everything is quiet, a queued deployment that
\* could run now is one whose admission was still uncommitted when a pass
\* listed the queue.  No other interleaving of admissions, passes, force starts,
\* cancellations, clean-ups, failing dispatches, ending jobs and restarts leaves
\* a deployment behind.  An operator's check:deployment-queue, which does not
\* advance the queue, is excluded.
THEOREM OnlyUnseenStranded ==
    ASSUME MaxSweeps = 0, PreviewsOnPrimary
    PROVE  Spec => []StrandedOnlyIfUnseen
<1>1. Init => LoopInv /\ StrandInv
  BY DEF Init, LoopInv, Loop, StrandInv, Waiting
<1>2. LoopInv /\ StrandInv /\ UNCHANGED vars => LoopInv' /\ StrandInv'
  <2> SUFFICES ASSUME LoopInv, StrandInv, UNCHANGED vars PROVE LoopInv' /\ StrandInv'
    OBVIOUS
  <2> USE DEF vars, rowVars, procVars
  <2>1. LoopInv'
    BY DEF LoopInv, Loop
  <2>2. StrandInv'
    BY DEF StrandInv, Waiting, NextQueuable, InProgressOn, Sees, Related
  <2> QED
    BY <2>1, <2>2
<1>3. ASSUME TypeInv, Restart PROVE LoopInv' /\ StrandInv'
  <2>1. \A d \in Deployments : status'[d] # "queued"
    BY <1>3 DEF Restart, Active
  <2>2. \A p \in Procs : /\ pc'[p] = "idle" /\ mode'[p] = "none" /\ ret'[p] = "idle"
                         /\ todo'[p] = {} /\ pend'[p] = <<>>
    BY <1>3 DEF Restart, ProcessesDie
  <2> QED
    BY <2>1, <2>2 DEF LoopInv, Loop, StrandInv, Waiting
<1>4. ASSUME TypeInv, LockInv, JobsInv, EndInv, LoopInv, StrandInv, NEW p \in Procs,
             Begin(p) \/ Step(p)
      PROVE  LoopInv' /\ StrandInv'
  BY <1>4, LoopStep, StrandStep
<1>5. TypeInv /\ LockInv /\ JobsInv /\ EndInv /\ LoopInv /\ StrandInv /\ [Next]_vars =>
        LoopInv' /\ StrandInv'
  BY <1>2, <1>3, <1>4 DEF Next, Idle
<1>6. LoopInv /\ StrandInv => StrandedOnlyIfUnseen
  <2> SUFFICES ASSUME LoopInv, StrandInv, Quiet, NEW d \in QueuedRows, NextQueuable(d)
               PROVE  d \in unseen
    BY DEF StrandedOnlyIfUnseen
  <2>1. d \in Deployments /\ Waiting(d)
    BY DEF QueuedRows, Waiting
  <2>2. ASSUME NEW p \in Procs PROVE ~ Sees(p, d)
    <3>1. pc[p] = "idle"
      BY DEF Quiet
    <3>2. mode[p] # "start" /\ pend[p] = <<>> /\ ret[p] # "children"
      BY <3>1 DEF LoopInv, Loop, Working, InLock, Decided
    <3> QED
      BY <3>1, <3>2 DEF Sees
  <2> QED
    BY <2>1, <2>2 DEF StrandInv
<1> QED
  BY <1>1, <1>5, <1>6, TypeInvariant, LockInvariant, JobsInvariant, EndInvariant, PTL DEF Spec
=============================================================================
