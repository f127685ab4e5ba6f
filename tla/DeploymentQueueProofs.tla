----------------------- MODULE DeploymentQueueProofs -----------------------
(***************************************************************************)
(* Proofs about DeploymentQueue for any finite number of deployments and   *)
(* any number of processes, applications and servers.                      *)
(***************************************************************************)
EXTENDS DeploymentQueue, FiniteSetTheorems, TLAPS

-----------------------------------------------------------------------------
(* Type correctness, together with what the control point of a process says *)
(* about its registers.                                                     *)

Decided == {"decide", "commit_queue", "commit_start"}
InLock  == {"lock_server"} \cup Decided
Working == {"lock_app", "dispatch", "undispatchable"} \cup InLock
JobPcs  == {"refresh", "mark_clean", "mark_dirty", "build", "end", "write",
            "children", "notify", "notify_add", "tail"}

\* The part of TypeOK about shared state, and the part about the processes.
SharedOK ==
    /\ status \in [Deployments -> Statuses]
    /\ via \in [Deployments -> {"none", "limits", "forced", "worker"}]
    /\ createdAt \in [Deployments -> Nat]
    /\ appLock \in [Apps -> Procs \cup {NoProc}]
    /\ srvLock \in [Servers -> Procs \cup {NoProc}]
    /\ redis \in [Deployments -> Nat] /\ taken \in [Deployments -> Nat]
    /\ allQueued \in [Deployments -> BOOLEAN] /\ notices \in [Deployments -> Nat]
    /\ notified \subseteq Deployments /\ thrown \subseteq Deployments
    /\ unseen \in SUBSET Deployments
    /\ sweeps \in Nat /\ restarts \in Nat

ProcOK ==
    /\ pc \in [Procs -> PcValues]
    /\ mode \in [Procs -> {"none", "admit", "start", "force", "cleanup", "check"}]
    /\ ret \in [Procs -> {"idle", "children", "tail"}]
    /\ cur \in [Procs -> Deployments \cup {NoDep}]
    /\ job \in [Procs -> Deployments \cup {NoDep}]
    /\ goal \in [Procs -> {"none", "finished", "failed"}]
    /\ todo \in [Procs -> SUBSET Deployments]
    /\ pend \in [Procs -> Seq(Deployments)]

\* What process p has in its registers at its control point.
Control(p) ==
    /\ pc[p] \in Working => cur[p] \in Deployments /\ mode[p] \in {"admit", "start", "force"}
    /\ pc[p] = "advance" => mode[p] = "start"
    /\ pc[p] = "commit_queue" => mode[p] = "admit"
    /\ pc[p] \in JobPcs \/ ret[p] # "idle" => job[p] \in Deployments
    /\ pc[p] \in {"end", "write"} => goal[p] \in {"finished", "failed"}

ProcInv == ProcOK /\ \A p \in Procs : Control(p)
TypeInv == SharedOK /\ ProcInv

LEMMA TypeParts == TypeInv => TypeOK
  BY DEF TypeInv, ProcInv, SharedOK, ProcOK, TypeOK

LEMMA TypeInit == Init => TypeInv
<1> SUFFICES ASSUME Init PROVE TypeInv
  OBVIOUS
<1>1. allQueued \in [Deployments -> BOOLEAN]
  BY Zenon DEF Init
<1>2. SharedOK
  BY <1>1, QueueAssumption DEF Init, SharedOK, Statuses
<1>3. ProcOK
  BY DEF Init, ProcOK, PcValues
<1>4. \A p \in Procs : Control(p)
  BY DEF Init, Control, Working, InLock, Decided, JobPcs
<1> QED
  BY <1>2, <1>3, <1>4 DEF TypeInv, ProcInv

LEMMA RowsCardinality == Cardinality(Rows) \in Nat
<1>1. Rows \subseteq Deployments
  BY DEF Rows
<1> QED
  BY <1>1, QueueAssumption, FS_Subset, FS_CardinalityType

(* The control moves that several actions share. *)

LEMMA FinishType ==
    ASSUME ProcInv, NEW p \in Procs, Finish(p)
    PROVE  ProcInv'
  BY DEF ProcInv, ProcOK, Control, Finish, Goto, PcValues, Working, InLock, Decided, JobPcs

LEMMA QueueNextType ==
    ASSUME ProcInv, NEW p \in Procs, NEW d \in Deployments, QueueNextDeployment(p, d),
           UNCHANGED goal,
           job' = job, ret' \in [Procs -> {"idle", "children", "tail"}],
           todo' \in [Procs -> SUBSET Deployments],
           \A q \in Procs : ret'[q] # "idle" => ret[q] # "idle" \/ job[q] \in Deployments
    PROVE  ProcInv'
<1>1. ProcOK'
  <2>1. pend' \in [Procs -> Seq(Deployments)]
    BY DEF ProcInv, ProcOK, QueueNextDeployment
  <2> QED
    BY <2>1 DEF ProcInv, ProcOK, QueueNextDeployment, Goto, PcValues
<1>2. ASSUME NEW q \in Procs PROVE Control(q)'
  BY <1>2 DEF ProcInv, ProcOK, Control, QueueNextDeployment, Goto, Working, InLock,
     Decided, JobPcs
<1> QED
  BY <1>1, <1>2 DEF ProcInv

LEMMA AdvanceType ==
    ASSUME ProcInv, NEW p \in Procs, job[p] \in Deployments, AdvanceAfterEnd(p)
    PROVE  ProcInv'
<1>1. ret' \in [Procs -> {"idle", "children", "tail"}] /\ todo' \in [Procs -> SUBSET Deployments]
  BY DEF ProcInv, ProcOK, AdvanceAfterEnd
<1>2. \A q \in Procs : ret'[q] # "idle" => ret[q] # "idle" \/ job[q] \in Deployments
  BY DEF ProcInv, ProcOK, AdvanceAfterEnd
<1> QED
  BY <1>1, <1>2, QueueNextType DEF AdvanceAfterEnd

LEMMA ReturnType ==
    ASSUME ProcInv, NEW p \in Procs, Return(p)
    PROVE  ProcInv'
<1>1. CASE mode[p] = "start"
  <2>1. ProcOK'
    BY <1>1 DEF ProcInv, ProcOK, Return, Goto, PcValues
  <2>2. ASSUME NEW q \in Procs PROVE Control(q)'
    BY <1>1, <2>2 DEF ProcInv, ProcOK, Control, Return, Goto, Working, InLock, Decided, JobPcs
  <2> QED
    BY <2>1, <2>2 DEF ProcInv
<1>2. CASE mode[p] # "start" /\ ret[p] = "idle"
  BY <1>2, FinishType DEF Return
<1>3. CASE mode[p] # "start" /\ ret[p] # "idle"
  <2>1. ProcOK'
    <3>1. ret[p] \in PcValues
      BY DEF ProcInv, ProcOK, PcValues
    <3>2. pc' = [pc EXCEPT ![p] = ret[p]] /\ mode' = [mode EXCEPT ![p] = "none"]
            /\ cur' = [cur EXCEPT ![p] = NoDep] /\ UNCHANGED <<ret, job, goal, todo, pend>>
      BY <1>3 DEF Return, Goto
    <3> QED
      BY <3>1, <3>2 DEF ProcInv, ProcOK
  <2>2. ASSUME NEW q \in Procs PROVE Control(q)'
    BY <1>3, <2>2 DEF ProcInv, ProcOK, Control, Return, Goto, Working, InLock, Decided, JobPcs
  <2> QED
    BY <2>1, <2>2 DEF ProcInv
<1> QED
  BY <1>1, <1>2, <1>3

LEMMA TypeQueue ==
    ASSUME TypeInv, NEW p \in Procs, LockStep(p) \/ QueueStep(p)
    PROVE  TypeInv'
<1> USE DEF TypeInv
<1>1. CASE LockApp(p)
  <2>1. appLock' \in [Apps -> Procs \cup {NoProc}]
    BY <1>1 DEF LockApp, SharedOK, rowVars, lockVars, jobVars, noteVars, boundVars
  <2>2. SharedOK'
    BY <1>1, <2>1 DEF LockApp, SharedOK, rowVars, lockVars, jobVars, noteVars, boundVars
  <2>3. ProcInv'
    <3>1. ProcOK'
      BY <1>1 DEF LockApp, ProcInv, ProcOK, Goto, PcValues
    <3>2. ASSUME NEW q \in Procs PROVE Control(q)'
      BY <1>1, <3>2 DEF LockApp, ProcInv, ProcOK, Control, Goto, Working, InLock,
         Decided, JobPcs
    <3> QED
      BY <3>1, <3>2 DEF ProcInv
  <2> QED
    BY <2>2, <2>3
<1>2. CASE LockServer(p)
  <2>1. srvLock' \in [Servers -> Procs \cup {NoProc}]
    BY <1>2 DEF LockServer, SharedOK, rowVars, lockVars, jobVars, noteVars, boundVars
  <2>2. SharedOK'
    BY <1>2, <2>1 DEF LockServer, SharedOK, rowVars, lockVars, jobVars, noteVars,
       boundVars
  <2>3. ProcInv'
    <3>1. ProcOK'
      BY <1>2 DEF LockServer, ProcInv, ProcOK, Goto, PcValues
    <3>2. ASSUME NEW q \in Procs PROVE Control(q)'
      BY <1>2, <3>2 DEF LockServer, ProcInv, ProcOK, Control, Goto, Working, InLock,
         Decided, JobPcs
    <3> QED
      BY <3>1, <3>2 DEF ProcInv
  <2> QED
    BY <2>2, <2>3
<1>3. CASE AdmitReject(p)
  <2>1. status' \in [Deployments -> Statuses]
    BY <1>3 DEF AdmitReject, Unlock, Statuses, Active, Terminal, SharedOK, rowVars,
       lockVars, jobVars, noteVars, boundVars
  <2>2. appLock' \in [Apps -> Procs \cup {NoProc}]
    BY <1>3 DEF AdmitReject, Unlock, SharedOK, rowVars, lockVars, jobVars, noteVars,
       boundVars
  <2>3. srvLock' \in [Servers -> Procs \cup {NoProc}]
    BY <1>3 DEF AdmitReject, Unlock, SharedOK, rowVars, lockVars, jobVars, noteVars,
       boundVars
  <2>4. SharedOK'
    BY <1>3, <2>1, <2>2, <2>3 DEF AdmitReject, SharedOK, rowVars, lockVars, jobVars,
       noteVars, boundVars
  <2>5. ProcInv'
    BY <1>3, ReturnType DEF AdmitReject
  <2> QED
    BY <2>4, <2>5
<1>4. CASE AdmitDecide(p)
  <2>1. SharedOK'
    BY <1>4 DEF AdmitDecide, SharedOK, rowVars, lockVars, jobVars, noteVars, boundVars
  <2>2. ProcInv'
    <3>1. ProcOK'
      BY <1>4 DEF AdmitDecide, ProcInv, ProcOK, Goto, PcValues
    <3>2. ASSUME NEW q \in Procs PROVE Control(q)'
      BY <1>4, <3>2 DEF AdmitDecide, ProcInv, ProcOK, Control, Goto, Working, InLock,
         Decided, JobPcs
    <3> QED
      BY <3>1, <3>2 DEF ProcInv
  <2> QED
    BY <2>1, <2>2
<1>5. CASE CommitQueue(p)
  <2>1. cur[p] \in Deployments
    BY <1>5 DEF CommitQueue, ProcInv, Control, Working, InLock, Decided, JobPcs
  <2>2. status' \in [Deployments -> Statuses]
    BY <1>5, <2>1 DEF CommitQueue, Unlock, Statuses, Active, Terminal, SharedOK,
       rowVars, lockVars, jobVars, noteVars, boundVars
  <2>3. createdAt' \in [Deployments -> Nat]
    BY <1>5, <2>1, RowsCardinality DEF CommitQueue, Unlock, SharedOK, rowVars, lockVars,
       jobVars, noteVars, boundVars
  <2>4. appLock' \in [Apps -> Procs \cup {NoProc}]
    BY <1>5, <2>1 DEF CommitQueue, Unlock, SharedOK, rowVars, lockVars, jobVars,
       noteVars, boundVars
  <2>5. srvLock' \in [Servers -> Procs \cup {NoProc}]
    BY <1>5, <2>1 DEF CommitQueue, Unlock, SharedOK, rowVars, lockVars, jobVars,
       noteVars, boundVars
  <2>6. SharedOK'
    BY <1>5, <2>2, <2>3, <2>4, <2>5 DEF CommitQueue, SharedOK, rowVars, lockVars,
       jobVars, noteVars, boundVars
  <2>7. ProcInv'
    BY <1>5, <2>1, ReturnType DEF CommitQueue
  <2> QED
    BY <2>6, <2>7
<1>6. CASE StartDecline(p)
  <2>1. appLock' \in [Apps -> Procs \cup {NoProc}]
    BY <1>6 DEF StartDecline, Unlock, SharedOK, rowVars, lockVars, jobVars, noteVars,
       boundVars
  <2>2. srvLock' \in [Servers -> Procs \cup {NoProc}]
    BY <1>6 DEF StartDecline, Unlock, SharedOK, rowVars, lockVars, jobVars, noteVars,
       boundVars
  <2>3. SharedOK'
    BY <1>6, <2>1, <2>2 DEF StartDecline, SharedOK, rowVars, lockVars, jobVars,
       noteVars, boundVars
  <2>4. ProcInv'
    BY <1>6, ReturnType DEF StartDecline
  <2> QED
    BY <2>3, <2>4
<1>7. CASE StartDecide(p)
  <2>1. SharedOK'
    BY <1>7 DEF StartDecide, SharedOK, rowVars, lockVars, jobVars, noteVars, boundVars
  <2>2. ProcInv'
    <3>1. ProcOK'
      BY <1>7 DEF StartDecide, ProcInv, ProcOK, Goto, PcValues
    <3>2. ASSUME NEW q \in Procs PROVE Control(q)'
      BY <1>7, <3>2 DEF StartDecide, ProcInv, ProcOK, Control, Goto, Working, InLock,
         Decided, JobPcs
    <3> QED
      BY <3>1, <3>2 DEF ProcInv
  <2> QED
    BY <2>1, <2>2
<1>8. CASE CommitStart(p)
  <2>1. cur[p] \in Deployments
    BY <1>8 DEF CommitStart, ProcInv, Control, Working, InLock, Decided, JobPcs
  <2>2. status' \in [Deployments -> Statuses]
    BY <1>8, <2>1 DEF CommitStart, Unlock, Statuses, Active, Terminal, SharedOK,
       rowVars, lockVars, jobVars, noteVars, boundVars
  <2>3. via' \in [Deployments -> {"none", "limits", "forced", "worker"}]
    BY <1>8, <2>1 DEF CommitStart, Unlock, StartedBy, SharedOK, rowVars, lockVars,
       jobVars, noteVars, boundVars
  <2>4. createdAt' \in [Deployments -> Nat]
    BY <1>8, <2>1, RowsCardinality DEF CommitStart, Unlock, SharedOK, rowVars, lockVars,
       jobVars, noteVars, boundVars
  <2>5. appLock' \in [Apps -> Procs \cup {NoProc}]
    BY <1>8, <2>1 DEF CommitStart, Unlock, SharedOK, rowVars, lockVars, jobVars,
       noteVars, boundVars
  <2>6. srvLock' \in [Servers -> Procs \cup {NoProc}]
    BY <1>8, <2>1 DEF CommitStart, Unlock, SharedOK, rowVars, lockVars, jobVars,
       noteVars, boundVars
  <2>7. SharedOK'
    BY <1>8, <2>2, <2>3, <2>4, <2>5, <2>6 DEF CommitStart, SharedOK, rowVars, lockVars,
       jobVars, noteVars, boundVars
  <2>8. ProcInv'
    <3>1. ProcOK'
      BY <1>8, <2>1 DEF CommitStart, ProcInv, ProcOK, Goto, PcValues
    <3>2. ASSUME NEW q \in Procs PROVE Control(q)'
      BY <1>8, <2>1, <3>2 DEF CommitStart, ProcInv, ProcOK, Control, Goto, Working,
         InLock, Decided, JobPcs
    <3> QED
      BY <3>1, <3>2 DEF ProcInv
  <2> QED
    BY <2>7, <2>8
<1>9. CASE Dispatch(p)
  <2>1. cur[p] \in Deployments
    BY <1>9 DEF Dispatch, ProcInv, Control, Working, InLock, Decided, JobPcs
  <2>2. redis' \in [Deployments -> Nat]
    BY <1>9, <2>1 DEF Dispatch, SharedOK, rowVars, lockVars, jobVars, noteVars,
       boundVars
  <2>3. SharedOK'
    BY <1>9, <2>2 DEF Dispatch, SharedOK, rowVars, lockVars, jobVars, noteVars,
       boundVars
  <2>4. ProcInv'
    BY <1>9, <2>1, ReturnType DEF Dispatch
  <2> QED
    BY <2>3, <2>4
<1>10. CASE DispatchFails(p)
  <2>1. SharedOK'
    BY <1>10 DEF DispatchFails, SharedOK, rowVars, lockVars, jobVars, noteVars,
       boundVars
  <2>2. ProcInv'
    <3>1. ProcOK'
      BY <1>10 DEF DispatchFails, ProcInv, ProcOK, Goto, PcValues
    <3>2. ASSUME NEW q \in Procs PROVE Control(q)'
      BY <1>10, <3>2 DEF DispatchFails, ProcInv, ProcOK, Control, Goto, Working, InLock,
         Decided, JobPcs
    <3> QED
      BY <3>1, <3>2 DEF ProcInv
  <2> QED
    BY <2>1, <2>2
<1>11. CASE FailUndispatchable(p)
  <2>1. cur[p] \in Deployments
    BY <1>11 DEF FailUndispatchable, ProcInv, Control, Working, InLock, Decided, JobPcs
  <2>2. status' \in [Deployments -> Statuses]
    BY <1>11, <2>1 DEF FailUndispatchable, Statuses, Active, Terminal, SharedOK,
       rowVars, lockVars, jobVars, noteVars, boundVars
  <2>3. SharedOK'
    BY <1>11, <2>2 DEF FailUndispatchable, SharedOK, rowVars, lockVars, jobVars,
       noteVars, boundVars
  <2>4. ProcInv'
    <3>1. CASE status[cur[p]] = "in_progress"
      BY <1>11, <2>1, <3>1, QueueNextType DEF FailUndispatchable, ProcInv, ProcOK
    <3>2. CASE status[cur[p]] # "in_progress"
      BY <1>11, <2>1, <3>2, ReturnType DEF FailUndispatchable
    <3> QED
      BY <3>1, <3>2
  <2> QED
    BY <2>3, <2>4
<1>12. CASE ListQueued(p)
  <2>1. unseen' \in SUBSET Deployments
    BY <1>12 DEF ListQueued, Uncommitted, ProcInv, ProcOK, Control, Working, InLock,
       Decided, SharedOK, rowVars, lockVars, jobVars, noteVars, boundVars
  <2>2. SharedOK'
    BY <1>12, <2>1 DEF ListQueued, SharedOK, rowVars, lockVars, jobVars, noteVars,
       boundVars
  <2>3. ProcInv'
    <3>1. pend' \in [Procs -> Seq(Deployments)]
      <4>1. pend[p] \in Seq(Deployments) /\ pend[p] # <<>>
        BY <1>12 DEF ListQueued, ProcInv, ProcOK
      <4>2. Tail(pend[p]) \in Seq(Deployments)
        BY <4>1
      <4> QED
        BY <1>12, <4>2 DEF ListQueued, ProcInv, ProcOK
    <3>2. todo' \in [Procs -> SUBSET Deployments]
      BY <1>12 DEF ListQueued, QueuedRows, ProcInv, ProcOK
    <3>3. UNCHANGED <<pc, mode, ret, cur, job, goal>>
      BY <1>12 DEF ListQueued
    <3> QED
      BY <3>1, <3>2, <3>3 DEF ProcInv, ProcOK, Control
  <2> QED
    BY <2>2, <2>3
<1>13. CASE StartNext(p)
  <2>1. SharedOK'
    BY <1>13 DEF StartNext, SharedOK, rowVars, lockVars, jobVars, noteVars, boundVars
  <2>2. ProcInv'
    <3>1. ProcOK'
      BY <1>13 DEF StartNext, ProcInv, ProcOK, Goto, PcValues
    <3>2. ASSUME NEW q \in Procs PROVE Control(q)'
      BY <1>13, <3>2 DEF StartNext, ProcInv, ProcOK, Control, Goto, Working, InLock,
         Decided, JobPcs
    <3> QED
      BY <3>1, <3>2 DEF ProcInv
  <2> QED
    BY <2>1, <2>2
<1>14. CASE AdvanceDone(p)
  <2>1. SharedOK'
    BY <1>14 DEF AdvanceDone, SharedOK, rowVars, lockVars, jobVars, noteVars, boundVars
  <2>2. ProcInv'
    <3>1. CASE Finish(p)
      BY <1>14, <3>1, FinishType
    <3>2. CASE ~ Finish(p)
      <4>1. ProcOK'
        <5>1. ret[p] \in PcValues
          BY DEF ProcInv, ProcOK, PcValues
        <5>2. pc' = [pc EXCEPT ![p] = ret[p]] /\ mode' = [mode EXCEPT ![p] = "none"]
                /\ UNCHANGED <<ret, cur, job, goal, todo, pend>>
          BY <1>14, <3>2 DEF AdvanceDone, Goto
        <5> QED
          BY <5>1, <5>2 DEF ProcInv, ProcOK
      <4>2. ASSUME NEW q \in Procs PROVE Control(q)'
        BY <1>14, <3>2, <4>2 DEF AdvanceDone, ProcInv, ProcOK, Control, Goto, Working,
           InLock, Decided, JobPcs
      <4> QED
        BY <4>1, <4>2 DEF ProcInv
    <3> QED
      BY <3>1, <3>2
  <2> QED
    BY <2>1, <2>2
<1> QED
  BY <1>1, <1>2, <1>3, <1>4, <1>5, <1>6, <1>7, <1>8, <1>9, <1>10, <1>11, <1>12, <1>13,
     <1>14 DEF LockStep, QueueStep

LEMMA TypeJob ==
    ASSUME TypeInv, NEW p \in Procs, JobStep(p) \/ Sweep(p)
    PROVE  TypeInv'
<1> USE DEF TypeInv
<1>1. CASE HandleRefresh(p)
  <2>1. job[p] \in Deployments
    BY <1>1 DEF HandleRefresh, ProcInv, Control, Working, InLock, Decided, JobPcs
  <2>2. SharedOK'
    BY <1>1 DEF HandleRefresh, SharedOK, rowVars, lockVars, jobVars, noteVars, boundVars
  <2>3. ProcInv'
    <3>1. CASE Finish(p)
      BY <1>1, <2>1, <3>1, FinishType
    <3>2. CASE Goto(p, "notify") /\ ret' = [ret EXCEPT ![p] = "idle"]
                 /\ job[p] \in Deployments /\ UNCHANGED <<mode, cur, job, goal, todo, pend>>
      <4>1. ProcOK'
        BY <3>2, <2>1 DEF Goto, ProcInv, ProcOK, Goto, PcValues
      <4>2. ASSUME NEW q \in Procs PROVE Control(q)'
        BY <3>2, <2>1, <4>2 DEF Goto, ProcInv, ProcOK, Control, Goto, Working, InLock,
           Decided, JobPcs
      <4> QED
        BY <4>1, <4>2 DEF ProcInv
    <3>3. CASE Goto(p, MarkPoint(status[job[p]])) /\ UNCHANGED <<mode, ret, cur, job, goal, todo, pend>>
                 /\ job[p] \in Deployments
      <4>1. ProcOK'
        BY <3>3, <2>1 DEF MarkPoint, ProcInv, ProcOK, Goto, PcValues
      <4>2. ASSUME NEW q \in Procs PROVE Control(q)'
        BY <3>3, <2>1, <4>2 DEF MarkPoint, ProcInv, ProcOK, Control, Goto, Working,
           InLock, Decided, JobPcs
      <4> QED
        BY <4>1, <4>2 DEF ProcInv
    <3> QED
      BY <1>1, <2>1, <3>1, <3>2, <3>3 DEF HandleRefresh, HandleCancelled
  <2> QED
    BY <2>2, <2>3
<1>2. CASE HandleWarn(p)
  <2>1. SharedOK'
    BY <1>2 DEF HandleWarn, SharedOK, rowVars, lockVars, jobVars, noteVars, boundVars
  <2>2. ProcInv'
    <3>1. ProcOK'
      BY <1>2 DEF HandleWarn, MarkPoint, ProcInv, ProcOK, Goto, PcValues
    <3>2. ASSUME NEW q \in Procs PROVE Control(q)'
      BY <1>2, <3>2 DEF HandleWarn, MarkPoint, ProcInv, ProcOK, Control, Goto, Working,
         InLock, Decided, JobPcs
    <3> QED
      BY <3>1, <3>2 DEF ProcInv
  <2> QED
    BY <2>1, <2>2
<1>3. CASE HandleCheckFails(p)
  <2>1. SharedOK'
    BY <1>3 DEF HandleCheckFails, SharedOK, rowVars, lockVars, jobVars, noteVars,
       boundVars
  <2>2. ProcInv'
    <3>1. ProcOK'
      BY <1>3 DEF HandleCheckFails, Transition, ProcInv, ProcOK, Goto, PcValues
    <3>2. ASSUME NEW q \in Procs PROVE Control(q)'
      BY <1>3, <3>2 DEF HandleCheckFails, Transition, ProcInv, ProcOK, Control, Goto,
         Working, InLock, Decided, JobPcs
    <3> QED
      BY <3>1, <3>2 DEF ProcInv
  <2> QED
    BY <2>1, <2>2
<1>4. CASE HandleMark(p)
  <2>1. status' \in [Deployments -> Statuses]
    BY <1>4 DEF HandleMark, Statuses, Active, Terminal, SharedOK, rowVars, lockVars,
       jobVars, noteVars, boundVars
  <2>2. via' \in [Deployments -> {"none", "limits", "forced", "worker"}]
    BY <1>4 DEF HandleMark, SharedOK, rowVars, lockVars, jobVars, noteVars, boundVars
  <2>3. SharedOK'
    BY <1>4, <2>1, <2>2 DEF HandleMark, SharedOK, rowVars, lockVars, jobVars, noteVars,
       boundVars
  <2>4. ProcInv'
    <3>1. ProcOK'
      BY <1>4 DEF HandleMark, ProcInv, ProcOK, Goto, PcValues
    <3>2. ASSUME NEW q \in Procs PROVE Control(q)'
      BY <1>4, <3>2 DEF HandleMark, ProcInv, ProcOK, Control, Goto, Working, InLock,
         Decided, JobPcs
    <3> QED
      BY <3>1, <3>2 DEF ProcInv
  <2> QED
    BY <2>3, <2>4
<1>5. CASE Build(p)
  <2>1. SharedOK'
    BY <1>5 DEF Build, SharedOK, rowVars, lockVars, jobVars, noteVars, boundVars
  <2>2. ProcInv'
    <3>1. ProcOK'
      BY <1>5 DEF Build, Transition, ProcInv, ProcOK, Goto, PcValues
    <3>2. ASSUME NEW q \in Procs PROVE Control(q)'
      BY <1>5, <3>2 DEF Build, Transition, ProcInv, ProcOK, Control, Goto, Working,
         InLock, Decided, JobPcs
    <3> QED
      BY <3>1, <3>2 DEF ProcInv
  <2> QED
    BY <2>1, <2>2
<1>6. CASE IsInTerminalState(p)
  <2>1. job[p] \in Deployments
    BY <1>6 DEF IsInTerminalState, ProcInv, Control, Working, InLock, Decided, JobPcs
  <2>2. SharedOK'
    BY <1>6 DEF IsInTerminalState, SharedOK, rowVars, lockVars, jobVars, noteVars,
       boundVars
  <2>3. ProcInv'
    <3>1. CASE Finish(p)
      BY <1>6, <2>1, <3>1, FinishType
    <3>2. CASE Goto(p, "notify") /\ ret' = [ret EXCEPT ![p] = "idle"]
                 /\ job[p] \in Deployments /\ UNCHANGED <<mode, cur, job, goal, todo, pend>>
      <4>1. ProcOK'
        BY <3>2, <2>1 DEF Goto, ProcInv, ProcOK, Goto, PcValues
      <4>2. ASSUME NEW q \in Procs PROVE Control(q)'
        BY <3>2, <2>1, <4>2 DEF Goto, ProcInv, ProcOK, Control, Goto, Working, InLock,
           Decided, JobPcs
      <4> QED
        BY <4>1, <4>2 DEF ProcInv
    <3>3. CASE pc[p] = "end" /\ Goto(p, "write") /\ UNCHANGED <<mode, ret, cur, job, goal, todo, pend>>
      <4>1. ProcOK'
        BY <3>3, <2>1 DEF Goto, ProcInv, ProcOK, Goto, PcValues
      <4>2. ASSUME NEW q \in Procs PROVE Control(q)'
        BY <3>3, <2>1, <4>2 DEF Goto, ProcInv, ProcOK, Control, Goto, Working, InLock,
           Decided, JobPcs
      <4> QED
        BY <4>1, <4>2 DEF ProcInv
    <3> QED
      BY <1>6, <2>1, <3>1, <3>2, <3>3 DEF IsInTerminalState, HandleCancelled
  <2> QED
    BY <2>2, <2>3
<1>7. CASE UpdateDeploymentStatus(p)
  <2>1. job[p] \in Deployments
    BY <1>7 DEF UpdateDeploymentStatus, ProcInv, Control, Working, InLock, Decided,
       JobPcs
  <2>2. status' \in [Deployments -> Statuses]
    BY <1>7, <2>1 DEF UpdateDeploymentStatus, ProcInv, ProcOK, Statuses, Active,
       Terminal, SharedOK, rowVars, lockVars, jobVars, noteVars, boundVars
  <2>3. SharedOK'
    BY <1>7, <2>2 DEF UpdateDeploymentStatus, SharedOK, rowVars, lockVars, jobVars,
       noteVars, boundVars
  <2>4. ProcInv'
    <3>1. CASE AdvanceAfterEnd(p)
      BY <1>7, <2>1, <3>1, AdvanceType
    <3>2. CASE ~ AdvanceAfterEnd(p)
      <4>1. ProcOK'
        BY <1>7, <2>1, <3>2 DEF UpdateDeploymentStatus, ProcInv, ProcOK, Goto, PcValues
      <4>2. ASSUME NEW q \in Procs PROVE Control(q)'
        BY <1>7, <2>1, <3>2, <4>2 DEF UpdateDeploymentStatus, ProcInv, ProcOK, Control,
           Goto, Working, InLock, Decided, JobPcs
      <4> QED
        BY <4>1, <4>2 DEF ProcInv
    <3> QED
      BY <3>1, <3>2
  <2> QED
    BY <2>3, <2>4
<1>8. CASE DeployToAdditional(p)
  <2>1. SharedOK'
    BY <1>8 DEF DeployToAdditional, SharedOK, rowVars, lockVars, jobVars, noteVars,
       boundVars
  <2>2. ProcInv'
    <3>1. ProcOK'
      BY <1>8 DEF DeployToAdditional, Children, ProcInv, ProcOK, Goto, PcValues
    <3>2. ASSUME NEW q \in Procs PROVE Control(q)'
      BY <1>8, <3>2 DEF DeployToAdditional, Children, ProcInv, ProcOK, Control, Goto,
         Working, InLock, Decided, JobPcs
    <3> QED
      BY <3>1, <3>2 DEF ProcInv
  <2> QED
    BY <2>1, <2>2
<1>9. CASE AllChildrenQueued(p)
  <2>1. job[p] \in Deployments
    BY <1>9 DEF AllChildrenQueued, ProcInv, Control, Working, InLock, Decided, JobPcs
  <2>2. allQueued' \in [Deployments -> BOOLEAN]
    BY <1>9, <2>1 DEF AllChildrenQueued, SharedOK, rowVars, lockVars, jobVars, noteVars,
       boundVars
  <2>3. SharedOK'
    BY <1>9, <2>2 DEF AllChildrenQueued, SharedOK, rowVars, lockVars, jobVars, noteVars,
       boundVars
  <2>4. ProcInv'
    <3>1. CASE AdvanceAfterEnd(p)
      BY <1>9, <2>1, <3>1, AdvanceType
    <3>2. CASE ~ AdvanceAfterEnd(p)
      <4>1. ProcOK'
        BY <1>9, <2>1, <3>2 DEF AllChildrenQueued, ProcInv, ProcOK, Goto, PcValues
      <4>2. ASSUME NEW q \in Procs PROVE Control(q)'
        BY <1>9, <2>1, <3>2, <4>2 DEF AllChildrenQueued, ProcInv, ProcOK, Control, Goto,
           Working, InLock, Decided, JobPcs
      <4> QED
        BY <4>1, <4>2 DEF ProcInv
    <3> QED
      BY <3>1, <3>2
  <2> QED
    BY <2>3, <2>4
<1>10. CASE SideEffectsFail(p)
  <2>1. job[p] \in Deployments
    BY <1>10 DEF SideEffectsFail, ProcInv, Control, Working, InLock, Decided, JobPcs
  <2>2. NoticeParent(p) \in Deployments
    BY <2>1, QueueAssumption DEF NoticeParent
  <2>3. notified' \subseteq Deployments
    BY <1>10, <2>2 DEF SideEffectsFail, SharedOK
  <2>4. thrown' \subseteq Deployments
    BY <1>10, <2>2 DEF SideEffectsFail, SharedOK
  <2>5. SharedOK'
    BY <1>10, <2>3, <2>4 DEF SideEffectsFail, SharedOK, rowVars, lockVars, jobVars, noteVars,
       boundVars
  <2>6. ProcInv'
    <3>1. CASE Finish(p) \/ AdvanceAfterEnd(p)
      BY <2>1, <3>1, FinishType, AdvanceType
    <3>2. CASE Transition(p, "failed") /\ UNCHANGED <<mode, ret, cur, job, todo, pend>>
      <4>1. ProcOK'
        BY <3>2 DEF Transition, ProcInv, ProcOK, Goto, PcValues
      <4>2. ASSUME NEW q \in Procs PROVE Control(q)'
        BY <2>1, <3>2, <4>2 DEF Transition, ProcInv, ProcOK, Control, Goto, Working,
           InLock, Decided, JobPcs
      <4> QED
        BY <4>1, <4>2 DEF ProcInv
    <3> QED
      BY <1>10, <3>1, <3>2 DEF SideEffectsFail, AfterException
  <2> QED
    BY <2>5, <2>6
<1>11. CASE NoticeRead(p)
  <2>1. job[p] \in Deployments
    BY <1>11 DEF NoticeRead, ProcInv, Control, Working, InLock, Decided, JobPcs
  <2>2. SharedOK'
    BY <1>11 DEF NoticeRead, SharedOK, rowVars, lockVars, jobVars, noteVars, boundVars
  <2>3. ProcInv'
    <3>1. CASE Finish(p)
      BY <1>11, <2>1, <3>1, FinishType
    <3>2. CASE AdvanceAfterEnd(p)
      BY <1>11, <2>1, <3>2, AdvanceType
    <3>3. CASE ~ Finish(p) /\ ~ AdvanceAfterEnd(p)
      <4>1. ProcOK'
        BY <1>11, <2>1, <3>3 DEF NoticeRead, AfterNotice, ProcInv, ProcOK, Goto,
           PcValues
      <4>2. ASSUME NEW q \in Procs PROVE Control(q)'
        BY <1>11, <2>1, <3>3, <4>2 DEF NoticeRead, AfterNotice, ProcInv, ProcOK,
           Control, Goto, Working, InLock, Decided, JobPcs
      <4> QED
        BY <4>1, <4>2 DEF ProcInv
    <3> QED
      BY <3>1, <3>2, <3>3
  <2> QED
    BY <2>2, <2>3
<1>12. CASE NoticeAdd(p)
  <2>1. job[p] \in Deployments
    BY <1>12 DEF NoticeAdd, ProcInv, Control, Working, InLock, Decided, JobPcs
  <2>2. NoticeParent(p) \in Deployments
    BY <2>1, QueueAssumption DEF NoticeParent
  <2>3. notices' \in [Deployments -> Nat] /\ notified' \subseteq Deployments
    BY <1>12, <2>2 DEF NoticeAdd, SharedOK
  <2>4. SharedOK'
    BY <1>12, <2>3 DEF NoticeAdd, SharedOK, rowVars, lockVars, jobVars, noteVars,
       boundVars
  <2>5. ProcInv'
    <3>1. CASE Finish(p)
      BY <1>12, <2>1, <3>1, FinishType
    <3>2. CASE AdvanceAfterEnd(p)
      BY <1>12, <2>1, <3>2, AdvanceType
    <3>3. CASE ~ Finish(p) /\ ~ AdvanceAfterEnd(p)
      <4>1. ProcOK'
        BY <1>12, <2>1, <3>3 DEF NoticeAdd, AfterNotice, ProcInv, ProcOK, Goto, PcValues
      <4>2. ASSUME NEW q \in Procs PROVE Control(q)'
        BY <1>12, <2>1, <3>3, <4>2 DEF NoticeAdd, AfterNotice, ProcInv, ProcOK, Control,
           Goto, Working, InLock, Decided, JobPcs
      <4> QED
        BY <4>1, <4>2 DEF ProcInv
    <3> QED
      BY <3>1, <3>2, <3>3
  <2> QED
    BY <2>4, <2>5
<1>13. CASE JobTail(p)
  <2>1. SharedOK'
    BY <1>13 DEF JobTail, SharedOK, rowVars, lockVars, jobVars, noteVars, boundVars
  <2>2. ProcInv'
    <3>1. CASE Finish(p)
      BY <1>13, <3>1, FinishType
    <3>2. CASE ~ Finish(p)
      <4>1. ProcOK'
        <5>1. PICK s \in {"finished", "failed"} :
                Transition(p, s) /\ UNCHANGED <<mode, ret, cur, job, todo, pend>>
          BY <1>13, <3>2 DEF JobTail
        <5> QED
          BY <5>1 DEF Transition, ProcInv, ProcOK, Goto, PcValues
      <4>2. ASSUME NEW q \in Procs PROVE Control(q)'
        BY <1>13, <3>2, <4>2 DEF JobTail, Transition, ProcInv, ProcOK, Control, Goto,
           Working, InLock, Decided, JobPcs
      <4> QED
        BY <4>1, <4>2 DEF ProcInv
    <3> QED
      BY <3>1, <3>2
  <2> QED
    BY <2>1, <2>2
<1>14. CASE Sweep(p)
  <2>1. status' \in [Deployments -> Statuses]
    BY <1>14 DEF Sweep, Statuses, Active, Terminal, SharedOK, rowVars, lockVars,
       jobVars, noteVars, boundVars
  <2>2. SharedOK'
    BY <1>14, <2>1 DEF Sweep, SharedOK, rowVars, lockVars, jobVars, noteVars, boundVars
  <2>3. ProcInv'
    <3>1. CASE Finish(p)
      BY <1>14, <3>1, FinishType
    <3>2. CASE \E d \in todo[p] : QueueNextDeployment(p, d) /\ UNCHANGED <<ret, job, goal>>
                 /\ todo' = [todo EXCEPT ![p] = {}]
      BY <1>14, <3>2, QueueNextType DEF ProcInv, ProcOK
    <3>3. CASE \E d \in todo[p] : todo' = [todo EXCEPT ![p] = @ \ {d}]
                 /\ UNCHANGED <<pc, mode, ret, cur, job, goal, pend>>
      <4>1. ProcOK'
        BY <3>3 DEF Goto, ProcInv, ProcOK, Goto, PcValues
      <4>2. ASSUME NEW q \in Procs PROVE Control(q)'
        BY <3>3, <4>2 DEF Goto, ProcInv, ProcOK, Control, Goto, Working, InLock,
           Decided, JobPcs
      <4> QED
        BY <4>1, <4>2 DEF ProcInv
    <3> QED
      BY <1>14, <3>1, <3>2, <3>3 DEF Sweep
  <2> QED
    BY <2>2, <2>3
<1> QED
  BY <1>1, <1>2, <1>3, <1>4, <1>5, <1>6, <1>7, <1>8, <1>9, <1>10, <1>11, <1>12, <1>13,
     <1>14 DEF JobStep

LEMMA TypeBegin ==
    ASSUME TypeInv, NEW p \in Procs, Begin(p)
    PROVE  TypeInv'
<1> USE DEF TypeInv
<1>1. CASE \E d \in Deployments : Request(p, d)
  <2>1. SharedOK'
    BY <1>1 DEF Request, SharedOK, rowVars, lockVars, jobVars, noteVars, boundVars
  <2>2. ProcInv'
    <3>1. ProcOK'
      BY <1>1 DEF Request, ProcInv, ProcOK, Goto, PcValues
    <3>2. ASSUME NEW q \in Procs PROVE Control(q)'
      BY <1>1, <3>2 DEF Request, ProcInv, ProcOK, Control, Goto, Working, InLock,
         Decided, JobPcs
    <3> QED
      BY <3>1, <3>2 DEF ProcInv
  <2> QED
    BY <2>1, <2>2
<1>2. CASE \E d \in Deployments : ForceStart(p, d)
  <2>1. SharedOK'
    BY <1>2 DEF ForceStart, SharedOK, rowVars, lockVars, jobVars, noteVars, boundVars
  <2>2. ProcInv'
    <3>1. ProcOK'
      BY <1>2 DEF ForceStart, ProcInv, ProcOK, Goto, PcValues
    <3>2. ASSUME NEW q \in Procs PROVE Control(q)'
      BY <1>2, <3>2 DEF ForceStart, ProcInv, ProcOK, Control, Goto, Working, InLock,
         Decided, JobPcs
    <3> QED
      BY <3>1, <3>2 DEF ProcInv
  <2> QED
    BY <2>1, <2>2
<1>3. CASE \E d \in Deployments : TakeJob(p, d)
  <2>1. redis' \in [Deployments -> Nat]
    BY <1>3 DEF TakeJob, SharedOK, rowVars, lockVars, jobVars, noteVars, boundVars
  <2>2. taken' \in [Deployments -> Nat]
    BY <1>3 DEF TakeJob, SharedOK, rowVars, lockVars, jobVars, noteVars, boundVars
  <2>3. SharedOK'
    BY <1>3, <2>1, <2>2 DEF TakeJob, SharedOK, rowVars, lockVars, jobVars, noteVars,
       boundVars
  <2>4. ProcInv'
    <3>1. ProcOK'
      BY <1>3 DEF TakeJob, ProcInv, ProcOK, Goto, PcValues
    <3>2. ASSUME NEW q \in Procs PROVE Control(q)'
      BY <1>3, <3>2 DEF TakeJob, ProcInv, ProcOK, Control, Goto, Working, InLock,
         Decided, JobPcs
    <3> QED
      BY <3>1, <3>2 DEF ProcInv
  <2> QED
    BY <2>3, <2>4
<1>4. CASE \E d \in Deployments : CancelApi(p, d)
  <2>1. status' \in [Deployments -> Statuses]
    BY <1>4 DEF CancelApi, CancelRow, Statuses, Active, Terminal, SharedOK, rowVars,
       lockVars, jobVars, noteVars, boundVars
  <2>2. SharedOK'
    BY <1>4, <2>1 DEF CancelApi, CancelRow, SharedOK, rowVars, lockVars, jobVars,
       noteVars, boundVars
  <2>3. ProcInv'
    <3>1. PICK d \in Deployments : CancelApi(p, d)
      BY <1>4
    <3> QED
      BY <3>1, QueueNextType DEF CancelApi, CancelRow, ProcInv, ProcOK
  <2> QED
    BY <2>2, <2>3
<1>5. CASE \E d \in Deployments : CancelUi(p, d)
  <2>1. status' \in [Deployments -> Statuses]
    BY <1>5 DEF CancelUi, CancelRow, Statuses, Active, Terminal, SharedOK, rowVars,
       lockVars, jobVars, noteVars, boundVars
  <2>2. SharedOK'
    BY <1>5, <2>1 DEF CancelUi, CancelRow, SharedOK, rowVars, lockVars, jobVars,
       noteVars, boundVars
  <2>3. ProcInv'
    <3>1. PICK d \in Deployments : CancelUi(p, d)
      BY <1>5
    <3> QED
      BY <3>1, QueueNextType DEF CancelUi, CancelRow, ProcInv, ProcOK
  <2> QED
    BY <2>2, <2>3
<1>6. CASE \E s \in Slots : CleanupPreview(p, s)
  <2>1. SharedOK'
    BY <1>6 DEF CleanupPreview, SharedOK, rowVars, lockVars, jobVars, noteVars,
       boundVars
  <2>2. ProcInv'
    <3>1. ProcOK'
      BY <1>6 DEF CleanupPreview, ProcInv, ProcOK, Goto, PcValues
    <3>2. ASSUME NEW q \in Procs PROVE Control(q)'
      BY <1>6, <3>2 DEF CleanupPreview, ProcInv, ProcOK, Control, Goto, Working, InLock,
         Decided, JobPcs
    <3> QED
      BY <3>1, <3>2 DEF ProcInv
  <2> QED
    BY <2>1, <2>2
<1>7. CASE CheckQueue(p)
  <2>1. SharedOK'
    BY <1>7 DEF CheckQueue, SharedOK, rowVars, lockVars, jobVars, noteVars, boundVars
  <2>2. ProcInv'
    <3>1. ProcOK'
      BY <1>7 DEF CheckQueue, ProcInv, ProcOK, Goto, PcValues
    <3>2. ASSUME NEW q \in Procs PROVE Control(q)'
      BY <1>7, <3>2 DEF CheckQueue, ProcInv, ProcOK, Control, Goto, Working, InLock,
         Decided, JobPcs
    <3> QED
      BY <3>1, <3>2 DEF ProcInv
  <2> QED
    BY <2>1, <2>2
<1> QED
  BY <1>1, <1>2, <1>3, <1>4, <1>5, <1>6, <1>7 DEF Begin

LEMMA TypeRestart == TypeInv /\ Restart => TypeInv'
<1> SUFFICES ASSUME TypeInv, Restart PROVE TypeInv'
  OBVIOUS
<1>1. SharedOK'
  BY QueueAssumption DEF TypeInv, SharedOK, Restart, ProcessesDie, Statuses, Active, Terminal,
     jobVars, noteVars
<1>2. ProcInv'
  BY DEF ProcInv, ProcOK, Control, Restart, ProcessesDie, PcValues, Working, InLock, Decided,
     JobPcs
<1> QED
  BY <1>1, <1>2 DEF TypeInv

LEMMA TypeStutter == TypeInv /\ UNCHANGED vars => TypeInv'
  BY DEF TypeInv, SharedOK, ProcInv, ProcOK, Control, vars, rowVars, lockVars, jobVars,
     noteVars, boundVars, procVars

LEMMA TypeInvariant == Spec => []TypeInv
<1>1. TypeInv /\ [Next]_vars => TypeInv'
  BY TypeQueue, TypeJob, TypeBegin, TypeRestart, TypeStutter DEF Next, Step, Idle
<1> QED
  BY TypeInit, <1>1, PTL DEF Spec

\* Type correctness of the queue for every value of the constants.
THEOREM TypeCorrect == Spec => []TypeOK
  BY TypeParts, TypeInvariant, PTL

-----------------------------------------------------------------------------
(* The row locks and the limits of next_queuable. *)

\* A process between lockForUpdate() and its commit holds the rows it locked.
LockInv ==
    \A p \in Procs :
        /\ pc[p] \in InLock => appLock[App[cur[p]]] = p
        /\ pc[p] \in Decided => srvLock[Server[cur[p]]] = p

\* Process p has checked the limits and is about to commit.
AboutToStart(p) == pc[p] = "commit_start" /\ StartedBy(p) = "limits"

LimitedOn(s) == {d \in Limited : Server[d] = s}

\* The result of the limits check stays true until the commit.
SlotInv ==
    /\ OnePerSlot
    /\ \A p \in Procs : AboutToStart(p) => \A e \in Limited : Slot[e] # Slot[cur[p]]

RoomOn(s) ==
    /\ Cardinality(LimitedOn(s)) <= ConcurrentBuilds[s]
    /\ \A p \in Procs : AboutToStart(p) /\ Server[cur[p]] = s =>
          Cardinality(LimitedOn(s)) < ConcurrentBuilds[s]

BuildsInv == \A s \in Servers : RoomOn(s)

(* For these invariants a step of process p is one of a few kinds. *)

\* The other processes stay where they are.
Frame(p) ==
    \A q \in Procs : q # p => pc'[q] = pc[q] /\ mode'[q] = mode[q] /\ cur'[q] = cur[q]
                                /\ job'[q] = job[q]

\* Deployments enter in_progress through the limits check only in CommitStart.
NoneLimited ==
    \A d \in Deployments : status'[d] = "in_progress" /\ via'[d] = "limits" =>
                             status[d] = "in_progress" /\ via[d] = "limits"

\* A step outside the transactions.
Neutral(p) == UNCHANGED lockVars /\ pc'[p] \notin InLock /\ NoneLimited

\* The end of a transaction that starts nothing.
Release(p) == pc[p] \in Decided /\ Unlock(p) /\ pc'[p] \notin InLock /\ NoneLimited

LEMMA FinishFrame ==
    ASSUME ProcInv, NEW p \in Procs, Finish(p)
    PROVE  Frame(p) /\ pc'[p] \notin InLock
  BY DEF ProcInv, ProcOK, Finish, Goto, Frame, InLock, Decided

LEMMA QueueNextFrame ==
    ASSUME ProcInv, NEW p \in Procs, NEW d, QueueNextDeployment(p, d), job' = job
    PROVE  Frame(p) /\ pc'[p] \notin InLock
  BY DEF ProcInv, ProcOK, QueueNextDeployment, Goto, Frame, InLock, Decided

LEMMA AdvanceFrame ==
    ASSUME ProcInv, NEW p \in Procs, AdvanceAfterEnd(p)
    PROVE  Frame(p) /\ pc'[p] \notin InLock
  BY QueueNextFrame DEF AdvanceAfterEnd

LEMMA ReturnFrame ==
    ASSUME ProcInv, NEW p \in Procs, Return(p)
    PROVE  Frame(p) /\ pc'[p] \notin InLock
<1>1. CASE Finish(p)
  BY <1>1, FinishFrame
<1>2. CASE ~ Finish(p)
  BY <1>2 DEF ProcInv, ProcOK, Return, Goto, Frame, InLock, Decided
<1> QED
  BY <1>1, <1>2

LEMMA QueueKinds ==
    ASSUME TypeInv, NEW p \in Procs, LockStep(p) \/ QueueStep(p)
    PROVE  /\ Frame(p)
           /\ \/ Neutral(p) \/ Release(p) \/ LockApp(p) \/ LockServer(p)
              \/ AdmitDecide(p) \/ StartDecide(p) \/ CommitStart(p)
<1> USE DEF TypeInv
<1>1. CASE LockApp(p) \/ LockServer(p) \/ AdmitDecide(p) \/ StartDecide(p) \/ CommitStart(p)
  BY <1>1 DEF LockApp, LockServer, AdmitDecide, StartDecide, CommitStart, Goto, Frame,
     ProcInv, ProcOK
<1>2. CASE AdmitReject(p)
  BY <1>2, ReturnFrame DEF AdmitReject, Release, NoneLimited, Decided, SharedOK
<1>3. CASE CommitQueue(p)
  BY <1>3, ReturnFrame DEF CommitQueue, Release, NoneLimited, Decided, SharedOK
<1>4. CASE StartDecline(p)
  BY <1>4, ReturnFrame DEF StartDecline, Release, NoneLimited, Decided, rowVars
<1>5. CASE Dispatch(p)
  BY <1>5, ReturnFrame DEF Dispatch, Neutral, NoneLimited, rowVars
<1>6. CASE DispatchFails(p)
  BY <1>6 DEF DispatchFails, Goto, Frame, Neutral, NoneLimited, rowVars, InLock, Decided,
     ProcInv, ProcOK
<1>7. CASE FailUndispatchable(p)
  BY <1>7, ReturnFrame, QueueNextFrame
     DEF FailUndispatchable, Neutral, NoneLimited, SharedOK
<1>8. CASE ListQueued(p)
  BY <1>8 DEF ListQueued, Frame, Neutral, NoneLimited, rowVars, InLock, Decided
<1>9. CASE StartNext(p)
  BY <1>9 DEF StartNext, Goto, Frame, Neutral, NoneLimited, rowVars, InLock, Decided,
     ProcInv, ProcOK
<1>10. CASE AdvanceDone(p)
  <2>1. CASE Finish(p)
    BY <1>10, <2>1, FinishFrame DEF AdvanceDone, Neutral, NoneLimited, rowVars
  <2>2. CASE ~ Finish(p)
    BY <1>10, <2>2 DEF AdvanceDone, Goto, Frame, Neutral, NoneLimited, rowVars, InLock,
       Decided, ProcInv, ProcOK
  <2> QED
    BY <2>1, <2>2
<1> QED
  BY <1>1, <1>2, <1>3, <1>4, <1>5, <1>6, <1>7, <1>8, <1>9, <1>10 DEF LockStep, QueueStep

LEMMA JobKinds ==
    ASSUME TypeInv, NEW p \in Procs, JobStep(p) \/ Sweep(p)
    PROVE  Frame(p) /\ Neutral(p)
<1> USE DEF TypeInv
<1>1. UNCHANGED lockVars
  BY DEF JobStep, HandleRefresh, HandleWarn, HandleCheckFails, HandleMark, Build,
     IsInTerminalState, UpdateDeploymentStatus, DeployToAdditional, AllChildrenQueued,
     SideEffectsFail, NoticeRead, NoticeAdd, JobTail, Sweep
<1>2. NoneLimited
  <2>1. CASE UNCHANGED <<status, via>>
    BY <2>1 DEF NoneLimited
  <2>2. CASE HandleMark(p)
    BY <2>2 DEF HandleMark, NoneLimited, SharedOK
  <2>3. CASE UpdateDeploymentStatus(p)
    BY <2>3 DEF UpdateDeploymentStatus, NoneLimited, SharedOK, ProcInv, ProcOK
  <2>4. CASE Sweep(p)
    BY <2>4 DEF Sweep, NoneLimited, SharedOK
  <2> QED
    BY <2>1, <2>2, <2>3, <2>4
       DEF JobStep, HandleRefresh, HandleWarn, HandleCheckFails, Build, IsInTerminalState,
       DeployToAdditional, AllChildrenQueued, SideEffectsFail, NoticeRead, NoticeAdd,
       JobTail, rowVars
<1>3. Frame(p) /\ pc'[p] \notin InLock
  <2>1. CASE Finish(p) \/ AdvanceAfterEnd(p)
    BY <2>1, FinishFrame, AdvanceFrame
  <2>2. CASE HandleRefresh(p) \/ IsInTerminalState(p)
    BY <2>1, <2>2 DEF HandleRefresh, IsInTerminalState, HandleCancelled, MarkPoint, Goto,
       Frame, InLock, Decided, ProcInv, ProcOK
  <2>3. CASE HandleWarn(p) \/ HandleCheckFails(p) \/ HandleMark(p) \/ Build(p)
    BY <2>3 DEF HandleWarn, HandleCheckFails, HandleMark, Build, Transition, MarkPoint,
       Goto, Frame, InLock, Decided, ProcInv, ProcOK
  <2>4. CASE UpdateDeploymentStatus(p) \/ AllChildrenQueued(p) \/ SideEffectsFail(p)
    BY <2>1, <2>4 DEF UpdateDeploymentStatus, AllChildrenQueued, SideEffectsFail,
       AfterException, Transition, Goto, Frame, InLock, Decided, ProcInv, ProcOK
  <2>5. CASE DeployToAdditional(p)
    BY <2>5 DEF DeployToAdditional, Goto, Frame, InLock, Decided, ProcInv, ProcOK
  <2>6. CASE NoticeRead(p) \/ NoticeAdd(p)
    BY <2>1, <2>6 DEF NoticeRead, NoticeAdd, AfterNotice, Goto, Frame, InLock, Decided,
       ProcInv, ProcOK
  <2>7. CASE JobTail(p)
    BY <2>1, <2>7 DEF JobTail, Transition, Goto, Frame, InLock, Decided, ProcInv, ProcOK
  <2>8. CASE Sweep(p)
    BY <2>1, <2>8, QueueNextFrame DEF Sweep, Frame, InLock, Decided, ProcInv, ProcOK
  <2> QED
    BY <2>2, <2>3, <2>4, <2>5, <2>6, <2>7, <2>8 DEF JobStep
<1> QED
  BY <1>1, <1>2, <1>3 DEF Neutral

LEMMA BeginKinds ==
    ASSUME TypeInv, NEW p \in Procs, Begin(p)
    PROVE  Frame(p) /\ Neutral(p)
<1> USE DEF TypeInv
<1>1. CASE \E d \in Deployments : CancelApi(p, d) \/ CancelUi(p, d)
  <2>1. PICK d \in Deployments : CancelRow(p, d)
    BY <1>1 DEF CancelApi, CancelUi
  <2> QED
    BY <2>1, QueueNextFrame DEF CancelRow, Neutral, NoneLimited, SharedOK
<1>2. CASE \/ \E d \in Deployments : Request(p, d) \/ ForceStart(p, d) \/ TakeJob(p, d)
           \/ \E s \in Slots : CleanupPreview(p, s)
           \/ CheckQueue(p)
  <2>1. UNCHANGED rowVars /\ UNCHANGED lockVars
    BY <1>2 DEF Request, ForceStart, TakeJob, CleanupPreview, CheckQueue
  <2>2. Frame(p) /\ pc'[p] \notin InLock
    BY <1>2 DEF Request, ForceStart, TakeJob, CleanupPreview, CheckQueue, Goto, Frame,
       InLock, Decided, ProcInv, ProcOK
  <2> QED
    BY <2>1, <2>2 DEF Neutral, NoneLimited, rowVars
<1> QED
  BY <1>1, <1>2 DEF Begin

LEMMA StepKinds ==
    ASSUME TypeInv, NEW p \in Procs, Begin(p) \/ Step(p)
    PROVE  /\ Frame(p)
           /\ \/ Neutral(p) \/ Release(p) \/ LockApp(p) \/ LockServer(p)
              \/ AdmitDecide(p) \/ StartDecide(p) \/ CommitStart(p)
  BY QueueKinds, JobKinds, BeginKinds DEF Step

\* A process at work has a deployment of an application on a server.
LEMMA WorkingCur ==
    ASSUME TypeInv, NEW p \in Procs, pc[p] \in Working
    PROVE  cur[p] \in Deployments /\ App[cur[p]] \in Apps /\ Server[cur[p]] \in Servers
  BY QueueAssumption DEF TypeInv, ProcInv, Control

\* What Unlock leaves to the other processes.
LEMMA UnlockOthers ==
    ASSUME TypeInv, LockInv, NEW p \in Procs, pc[p] \in Decided, Unlock(p),
           NEW q \in Procs, q # p
    PROVE  /\ pc[q] \in InLock => appLock'[App[cur[q]]] = q
           /\ pc[q] \in Decided => srvLock'[Server[cur[q]]] = q
  BY WorkingCur DEF LockInv, Unlock, InLock, Working, TypeInv, SharedOK

LEMMA LockStepInv ==
    ASSUME TypeInv, LockInv, NEW p \in Procs, Begin(p) \/ Step(p)
    PROVE  LockInv'
<1>0. Frame(p)
  BY StepKinds
<1>1. CASE Neutral(p)
  BY <1>0, <1>1 DEF Neutral, Frame, LockInv, lockVars, InLock
<1>2. CASE Release(p)
  BY <1>0, <1>2, UnlockOthers DEF Release, Frame, LockInv, InLock
<1>3. CASE CommitStart(p)
  <2>1. pc[p] \in Decided /\ Unlock(p) /\ pc'[p] = "dispatch"
    BY <1>3 DEF CommitStart, Goto, Decided, TypeInv, ProcInv, ProcOK
  <2> QED
    BY <1>0, <2>1, UnlockOthers DEF Frame, LockInv, InLock, Decided
<1>4. CASE LockApp(p)
  <2>1. App[cur[p]] \in Apps
    BY <1>4, WorkingCur DEF LockApp, Working
  <2>2. \A q \in Procs : q # p /\ pc[q] \in InLock => App[cur[q]] # App[cur[p]]
    BY <1>4, QueueAssumption DEF LockApp, LockInv
  <2>3. pc'[p] = "lock_server" /\ cur' = cur /\ srvLock' = srvLock
          /\ appLock' = [appLock EXCEPT ![App[cur[p]]] = p]
    BY <1>4 DEF LockApp, Goto, TypeInv, ProcInv, ProcOK
  <2> QED
    BY <1>0, <2>1, <2>2, <2>3 DEF Frame, LockInv, TypeInv, SharedOK, InLock, Decided
<1>5. CASE LockServer(p)
  <2>1. Server[cur[p]] \in Servers
    BY <1>5, WorkingCur DEF LockServer, Working, InLock
  <2>2. \A q \in Procs : q # p /\ pc[q] \in Decided => Server[cur[q]] # Server[cur[p]]
    BY <1>5, QueueAssumption DEF LockServer, LockInv
  <2>3. pc[p] \in InLock /\ pc'[p] = "decide" /\ cur' = cur /\ appLock' = appLock
          /\ srvLock' = [srvLock EXCEPT ![Server[cur[p]]] = p]
    BY <1>5 DEF LockServer, Goto, InLock, TypeInv, ProcInv, ProcOK
  <2> QED
    BY <1>0, <2>1, <2>2, <2>3 DEF Frame, LockInv, TypeInv, SharedOK, InLock, Decided
<1>6. CASE AdmitDecide(p) \/ StartDecide(p)
  <2>1. pc[p] \in Decided /\ pc'[p] \in Decided /\ cur' = cur /\ UNCHANGED lockVars
    BY <1>6 DEF AdmitDecide, StartDecide, Goto, Decided, TypeInv, ProcInv, ProcOK
  <2> QED
    BY <1>0, <2>1 DEF Frame, LockInv, lockVars, InLock
<1> QED
  BY <1>1, <1>2, <1>3, <1>4, <1>5, <1>6, StepKinds

LEMMA LockInvariant == Spec => []LockInv
<1>1. Init => LockInv
  BY DEF Init, LockInv, InLock, Decided
<1>2. LockInv /\ UNCHANGED vars => LockInv'
  BY DEF LockInv, vars, lockVars, procVars
<1>3. Restart => LockInv'
  BY DEF LockInv, Restart, ProcessesDie, InLock, Decided
<1>4. TypeInv /\ LockInv /\ [Next]_vars => LockInv'
  BY <1>2, <1>3, LockStepInv DEF Next, Idle
<1> QED
  BY <1>1, <1>4, TypeInvariant, PTL DEF Spec

LEMMA LimitedShrinks ==
    ASSUME NoneLimited
    PROVE  Limited' \subseteq Limited
  BY DEF NoneLimited, Limited

\* CommitStart adds at most its own deployment to Limited.
LEMMA LimitedGrows ==
    ASSUME TypeInv, NEW p \in Procs, CommitStart(p)
    PROVE  /\ Limited' \subseteq Limited \cup {cur[p]}
           /\ ~ AboutToStart(p) => Limited' \subseteq Limited
  BY DEF CommitStart, Limited, AboutToStart, TypeInv, SharedOK

\* A process that stays at its commit point.
LEMMA AboutFrame ==
    ASSUME NEW p \in Procs, Frame(p), NEW q \in Procs, q # p
    PROVE  AboutToStart(q)' <=> AboutToStart(q)
  BY DEF Frame, AboutToStart, StartedBy

\* Two processes in the transactions have different applications and servers.
LEMMA LocksExclude ==
    ASSUME TypeInv, LockInv, NEW p \in Procs, NEW q \in Procs, p # q,
           pc[p] = "commit_start", pc[q] = "commit_start"
    PROVE  App[cur[p]] # App[cur[q]] /\ Server[cur[p]] # Server[cur[q]]
  BY DEF LockInv, InLock, Decided

\* What the limits check read when it lets a deployment start.
LEMMA LimitsChecked ==
    ASSUME TypeInv, NEW p \in Procs, AdmitDecide(p) \/ StartDecide(p), AboutToStart(p)'
    PROVE  cur[p] \in Deployments /\ NextQueuable(cur[p]) /\ UNCHANGED <<cur, status, via>>
<1>1. cur[p] \in Deployments /\ UNCHANGED <<cur, status, via, mode>>
  BY WorkingCur DEF AdmitDecide, StartDecide, Working, InLock, Decided, rowVars
<1>2. CASE AdmitDecide(p)
  BY <1>1, <1>2
     DEF AdmitDecide, AboutToStart, StartedBy, Goto, TypeInv, ProcInv, ProcOK
<1>3. CASE StartDecide(p)
  BY <1>1, <1>3 DEF StartDecide, AboutToStart, StartedBy
<1> QED
  BY <1>1, <1>2, <1>3

LEMMA SlotStepInv ==
    ASSUME TypeInv, LockInv, SlotInv, NEW p \in Procs, Begin(p) \/ Step(p)
    PROVE  SlotInv'
<1>0. Frame(p)
  BY StepKinds
<1>1. CASE Neutral(p) \/ Release(p)
  <2>1. Limited' \subseteq Limited /\ ~ AboutToStart(p)'
    BY <1>1, LimitedShrinks DEF Neutral, Release, AboutToStart, InLock, Decided
  <2> QED
    BY <1>0, <2>1, AboutFrame DEF SlotInv, OnePerSlot, Frame
<1>2. CASE LockApp(p) \/ LockServer(p)
  <2>1. Limited' = Limited /\ ~ AboutToStart(p)'
    BY <1>2 DEF LockApp, LockServer, Goto, Limited, AboutToStart, rowVars, TypeInv, ProcInv,
       ProcOK
  <2> QED
    BY <1>0, <2>1, AboutFrame DEF SlotInv, OnePerSlot, Frame
<1>3. CASE AdmitDecide(p) \/ StartDecide(p)
  <2>1. Limited' = Limited
    BY <1>3 DEF AdmitDecide, StartDecide, Limited, rowVars
  <2>2. ASSUME AboutToStart(p)', NEW e \in Limited
        PROVE  Slot[e] # Slot[cur'[p]]
    BY <1>3, <2>2, LimitsChecked DEF NextQueuable, Limited
  <2> QED
    BY <1>0, <2>1, <2>2, AboutFrame DEF SlotInv, OnePerSlot, Frame
<1>4. CASE CommitStart(p)
  <2>1. /\ Limited' \subseteq Limited \cup {cur[p]}
        /\ ~ AboutToStart(p) => Limited' \subseteq Limited
    BY <1>4, LimitedGrows
  <2>2. pc[p] = "commit_start" /\ ~ AboutToStart(p)' /\ cur[p] \in Deployments
    BY <1>4, WorkingCur DEF CommitStart, Goto, AboutToStart, Working, InLock, Decided,
       TypeInv, ProcInv, ProcOK
  <2>3. OnePerSlot'
    BY <2>1 DEF SlotInv, OnePerSlot
  <2>4. ASSUME NEW q \in Procs, AboutToStart(q)', NEW e \in Limited'
        PROVE  Slot[e] # Slot[cur'[q]]
    <3>1. q # p
      BY <2>2, <2>4
    <3>2. AboutToStart(q) /\ cur'[q] = cur[q] /\ cur[q] \in Deployments
      BY <1>0, <2>4, <3>1, AboutFrame, WorkingCur
         DEF Frame, AboutToStart, Working, InLock, Decided
    <3>3. App[cur[p]] # App[cur[q]]
      BY <2>2, <3>1, <3>2, LocksExclude DEF AboutToStart
    <3>4. Slot[cur[p]] # Slot[cur[q]]
      BY <2>2, <3>2, <3>3, SlotAssumption
    <3> QED
      BY <2>1, <2>4, <3>2, <3>4 DEF SlotInv
  <2> QED
    BY <2>3, <2>4 DEF SlotInv
<1> QED
  BY <1>1, <1>2, <1>3, <1>4, StepKinds

\* next_queuable and lockForUpdate() on the application row: whatever
\* processes admit, advance, cancel and restart, two deployments that started
\* through the limits check never run at once for one application and pull
\* request.
THEOREM OneDeploymentPerSlot == Spec => []OnePerSlot
<1>1. Init => SlotInv
  BY DEF Init, SlotInv, OnePerSlot, Limited, AboutToStart
<1>2. SlotInv /\ UNCHANGED vars => SlotInv'
  BY DEF SlotInv, OnePerSlot, Limited, AboutToStart, StartedBy, vars, rowVars, procVars
<1>3. ASSUME SlotInv, Restart PROVE SlotInv'
  <2>1. Limited' \subseteq Limited
    BY <1>3 DEF Restart, Limited, Active
  <2> QED
    BY <1>3, <2>1 DEF SlotInv, OnePerSlot, AboutToStart, Restart, ProcessesDie
<1>4. TypeInv /\ LockInv /\ SlotInv /\ [Next]_vars => SlotInv'
  BY <1>2, <1>3, SlotStepInv DEF Next, Idle
<1>5. SlotInv => OnePerSlot
  BY DEF SlotInv
<1> QED
  BY <1>1, <1>4, <1>5, TypeInvariant, LockInvariant, PTL DEF Spec

LEMMA LimitedFinite ==
    ASSUME NEW s
    PROVE  IsFiniteSet(LimitedOn(s)) /\ Cardinality(LimitedOn(s)) \in Nat
<1>1. LimitedOn(s) \subseteq Deployments
  BY DEF LimitedOn, Limited
<1> QED
  BY <1>1, QueueAssumption, FS_Subset, FS_CardinalityType

LEMMA BuildsShrink ==
    ASSUME Limited' \subseteq Limited, NEW s
    PROVE  Cardinality(LimitedOn(s)') <= Cardinality(LimitedOn(s))
<1>1. LimitedOn(s)' \subseteq LimitedOn(s)
  BY DEF LimitedOn
<1> QED
  BY <1>1, LimitedFinite, FS_Subset

LEMMA BuildsStepInv ==
    ASSUME TypeInv, LockInv, NEW s \in Servers, RoomOn(s),
           NEW p \in Procs, Begin(p) \/ Step(p)
    PROVE  RoomOn(s)'
<1>0. Frame(p)
  BY StepKinds
<1>c. ConcurrentBuilds[s] \in Nat
  BY QueueAssumption
<1>n. Cardinality(LimitedOn(s)) \in Nat /\ Cardinality(LimitedOn(s)') \in Nat
  <2>1. LimitedOn(s)' \subseteq Deployments
    BY DEF LimitedOn, Limited
  <2> QED
    BY <2>1, LimitedFinite, QueueAssumption, FS_Subset, FS_CardinalityType
<1>q. ASSUME NEW q \in Procs, AboutToStart(q)', q # p
      PROVE  AboutToStart(q) /\ cur'[q] = cur[q]
  BY <1>0, <1>q, AboutFrame DEF Frame
<1>1. ASSUME Limited' \subseteq Limited,
             AboutToStart(p)' /\ Server[cur'[p]] = s =>
               Cardinality(LimitedOn(s)) < ConcurrentBuilds[s]
      PROVE  RoomOn(s)'
  <2>1. Cardinality(LimitedOn(s)') <= Cardinality(LimitedOn(s))
    BY <1>1, BuildsShrink
  <2>2. ASSUME NEW q \in Procs, AboutToStart(q)', Server[cur'[q]] = s
        PROVE  Cardinality(LimitedOn(s)') < ConcurrentBuilds[s]
    <3>1. Cardinality(LimitedOn(s)) < ConcurrentBuilds[s]
      BY <1>1, <1>q, <2>2 DEF RoomOn
    <3> QED
      BY <1>c, <1>n, <2>1, <3>1
  <2>3. Cardinality(LimitedOn(s)') <= ConcurrentBuilds[s]
    BY <1>c, <1>n, <2>1 DEF RoomOn
  <2> QED
    BY <2>2, <2>3 DEF RoomOn
<1>2. CASE Neutral(p) \/ Release(p)
  BY <1>1, <1>2, LimitedShrinks DEF Neutral, Release, AboutToStart, InLock, Decided
<1>3. CASE LockApp(p) \/ LockServer(p)
  <2>1. Limited' = Limited /\ ~ AboutToStart(p)'
    BY <1>3 DEF LockApp, LockServer, Goto, Limited, AboutToStart, rowVars, TypeInv, ProcInv,
       ProcOK
  <2> QED
    BY <1>1, <2>1
<1>4. CASE AdmitDecide(p) \/ StartDecide(p)
  <2>1. Limited' = Limited
    BY <1>4 DEF AdmitDecide, StartDecide, Limited, rowVars
  <2>2. ASSUME AboutToStart(p)', Server[cur'[p]] = s
        PROVE  Cardinality(LimitedOn(s)) < ConcurrentBuilds[s]
    <3>1. LimitedOn(s) \subseteq InProgressOn(s) /\ InProgressOn(s) \subseteq Deployments
      BY DEF LimitedOn, Limited, InProgressOn
    <3>2. /\ Cardinality(LimitedOn(s)) <= Cardinality(InProgressOn(s))
          /\ Cardinality(InProgressOn(s)) \in Nat
      BY <3>1, QueueAssumption, FS_Subset, FS_CardinalityType
    <3>3. Cardinality(InProgressOn(s)) < ConcurrentBuilds[s]
      BY <1>4, <2>2, LimitsChecked DEF NextQueuable
    <3> QED
      BY <1>c, <1>n, <3>2, <3>3
  <2> QED
    BY <1>1, <2>1, <2>2
<1>5. CASE CommitStart(p)
  <2>1. /\ Limited' \subseteq Limited \cup {cur[p]}
        /\ ~ AboutToStart(p) => Limited' \subseteq Limited
    BY <1>5, LimitedGrows
  <2>2. pc[p] = "commit_start" /\ ~ AboutToStart(p)'
    BY <1>5 DEF CommitStart, Goto, AboutToStart, TypeInv, ProcInv, ProcOK
  <2>3. CASE ~ AboutToStart(p)
    BY <1>1, <2>1, <2>2, <2>3
  <2>4. CASE AboutToStart(p) /\ Server[cur[p]] # s
    <3>1. LimitedOn(s)' \subseteq LimitedOn(s)
      BY <2>1, <2>4 DEF LimitedOn
    <3>2. Cardinality(LimitedOn(s)') <= Cardinality(LimitedOn(s))
      BY <3>1, LimitedFinite, FS_Subset
    <3>3. ASSUME NEW q \in Procs, AboutToStart(q)', Server[cur'[q]] = s
          PROVE  Cardinality(LimitedOn(s)') < ConcurrentBuilds[s]
      <4>1. Cardinality(LimitedOn(s)) < ConcurrentBuilds[s]
        BY <1>q, <2>2, <3>3 DEF RoomOn
      <4> QED
        BY <1>c, <1>n, <3>2, <4>1
    <3>4. Cardinality(LimitedOn(s)') <= ConcurrentBuilds[s]
      BY <1>c, <1>n, <3>2 DEF RoomOn
    <3> QED
      BY <3>3, <3>4 DEF RoomOn
  <2>5. CASE AboutToStart(p) /\ Server[cur[p]] = s
    <3>1. PICK d \in Deployments : d = cur[p]
      BY <2>2, WorkingCur DEF Working, InLock, Decided
    <3>2. LimitedOn(s)' \subseteq LimitedOn(s) \cup {d}
      BY <2>1, <3>1 DEF LimitedOn
    <3>3. IsFiniteSet(LimitedOn(s))
      BY LimitedFinite
    <3>4. /\ IsFiniteSet(LimitedOn(s) \cup {d})
          /\ \/ Cardinality(LimitedOn(s) \cup {d}) = Cardinality(LimitedOn(s))
             \/ Cardinality(LimitedOn(s) \cup {d}) = Cardinality(LimitedOn(s)) + 1
      BY <3>3, FS_AddElement
    <3>5. Cardinality(LimitedOn(s)') <= Cardinality(LimitedOn(s) \cup {d})
      BY <3>2, <3>4, FS_Subset
    <3>6. Cardinality(LimitedOn(s)) < ConcurrentBuilds[s]
      BY <2>5 DEF RoomOn
    <3>7. Cardinality(LimitedOn(s)') <= ConcurrentBuilds[s]
      BY <1>c, <1>n, <3>4, <3>5, <3>6
    <3>8. ASSUME NEW q \in Procs, AboutToStart(q)', Server[cur'[q]] = s
          PROVE  FALSE
      <4>1. q # p /\ AboutToStart(q) /\ Server[cur[q]] = s
        BY <1>q, <2>2, <3>8
      <4> QED
        BY <2>2, <2>5, <4>1, LocksExclude DEF AboutToStart
    <3> QED
      BY <3>7, <3>8 DEF RoomOn
  <2> QED
    BY <2>3, <2>4, <2>5
<1> QED
  BY <1>2, <1>3, <1>4, <1>5, StepKinds

\* next_queuable and lockForUpdate() on the server row: the deployments that
\* started through the limits check never exceed concurrent_builds of their
\* server.
THEOREM BuildsWithinLimit == Spec => []WithinConcurrentBuilds
<1>1. Init => BuildsInv
  <2> SUFFICES ASSUME Init, NEW s \in Servers PROVE RoomOn(s)
    BY DEF BuildsInv
  <2>1. LimitedOn(s) = {}
    BY DEF Init, LimitedOn, Limited
  <2> QED
    BY <2>1, QueueAssumption, FS_EmptySet DEF Init, RoomOn, AboutToStart
<1>2. BuildsInv /\ UNCHANGED vars => BuildsInv'
  BY DEF BuildsInv, RoomOn, LimitedOn, Limited, AboutToStart, StartedBy, vars, rowVars, procVars
<1>3. ASSUME BuildsInv, Restart PROVE BuildsInv'
  <2> SUFFICES ASSUME NEW s \in Servers PROVE RoomOn(s)'
    BY DEF BuildsInv
  <2>1. Limited' \subseteq Limited
    BY <1>3 DEF Restart, Limited, Active
  <2>2. Cardinality(LimitedOn(s)') <= Cardinality(LimitedOn(s))
    BY <2>1, BuildsShrink
  <2>3. LimitedOn(s)' \subseteq Deployments
    BY DEF LimitedOn, Limited
  <2>4. Cardinality(LimitedOn(s)') \in Nat
    BY <2>3, QueueAssumption, FS_Subset, FS_CardinalityType
  <2>5. Cardinality(LimitedOn(s)') <= ConcurrentBuilds[s]
    BY <1>3, <2>2, <2>4, LimitedFinite, QueueAssumption DEF BuildsInv, RoomOn
  <2> QED
    BY <1>3, <2>5 DEF RoomOn, AboutToStart, Restart, ProcessesDie
<1>4. ASSUME TypeInv, LockInv, BuildsInv, NEW p \in Procs, Begin(p) \/ Step(p)
      PROVE  BuildsInv'
  BY <1>4, BuildsStepInv DEF BuildsInv
<1>5. TypeInv /\ LockInv /\ BuildsInv /\ [Next]_vars => BuildsInv'
  BY <1>2, <1>3, <1>4 DEF Next, Idle
<1>6. BuildsInv => WithinConcurrentBuilds
  BY DEF BuildsInv, RoomOn, WithinConcurrentBuilds, LimitedOn
<1> QED
  BY <1>1, <1>5, <1>6, TypeInvariant, LockInvariant, PTL DEF Spec

-----------------------------------------------------------------------------
(* One job per deployment. *)

NoRow == {"none", "rejected"}
Unstarted == {"none", "queued", "rejected"}

\* Process p works on the admission of deployment cur[p].
Admitting(p) == mode[p] = "admit" /\ pc[p] \in {"lock_app"} \cup InLock

\* A deployment that was not started has no job.
UnstartedInv == \A d \in Deployments : status[d] \in Unstarted => redis[d] = 0 /\ taken[d] = 0

\* A process about to push a job is the only one, and there is none yet.
DispatchInv ==
    /\ \A p \in Procs : pc[p] = "dispatch" =>
          status[cur[p]] \notin Unstarted /\ redis[cur[p]] = 0 /\ taken[cur[p]] = 0
    /\ \A p, q \in Procs : pc[p] = "dispatch" /\ pc[q] = "dispatch" /\ cur[p] = cur[q] => p = q

\* A deployment is run by one worker, which took its job.
WorkerInv ==
    /\ \A p \in Procs : job[p] \in Deployments => taken[job[p]] > 0
    /\ \A p, q \in Procs : job[p] \in Deployments /\ job[p] = job[q] => p = q

\* A deployment is admitted by one process: the request, or the worker of its
\* parent.
AdmitInv ==
    /\ \A p \in Procs : Admitting(p) =>
          /\ status[cur[p]] = "none"
          /\ Parent[cur[p]] # NoDep => job[p] = Parent[cur[p]]
    /\ \A p, q \in Procs : Admitting(p) /\ Admitting(q) /\ cur[p] = cur[q] => p = q

\* The row lock of start_queued_deployment keeps its deployment queued.
StartInv ==
    \A p \in Procs : pc[p] = "commit_start" /\ mode[p] # "admit" => status[cur[p]] = "queued"

\* Loops list existing rows.
TodoInv == \A p \in Procs : \A d \in todo[p] : status[d] \notin NoRow

JobsInv ==
    /\ UnstartedInv /\ DispatchInv /\ WorkerInv /\ AdmitInv /\ StartInv /\ TodoInv
    /\ DispatchedOnce

\* An update of an existing row by another process than the one that locks it.
RowWrite ==
    \E d \in Deployments :
        /\ status[d] \notin NoRow /\ RowUnlocked(d)
        /\ status'[d] \in Statuses \ Unstarted
        /\ \A e \in Deployments : e # d => status'[e] = status[e]

Track == {"lock_app", "dispatch"} \cup InLock

\* Process p leaves the tracked control points, or stays outside them.
Calm(p) ==
    /\ Frame(p) /\ pc'[p] \notin Track
    /\ job'[p] = job[p] \/ job'[p] = NoDep

\* Loops only get existing rows.
Known ==
    \A q \in Procs : \A d \in todo'[q] :
        d \in todo[q] \/ (d \in Deployments /\ status[d] \notin NoRow)

\* A step that pushes and takes no job and admits nothing.
Harmless(p) ==
    Calm(p) /\ Known /\ UNCHANGED jobVars /\ (UNCHANGED status \/ RowWrite)

LEMMA FinishCalm ==
    ASSUME ProcInv, NEW p \in Procs, Finish(p)
    PROVE  Calm(p) /\ Known
<1>1. Frame(p)
  BY FinishFrame
<1>2. Known
  BY DEF ProcInv, ProcOK, Finish, Known
<1> QED
  BY <1>1, <1>2 DEF ProcInv, ProcOK, Finish, Goto, Calm, Track, InLock, Decided

LEMMA QueueNextCalm ==
    ASSUME ProcInv, NEW p \in Procs, NEW d, QueueNextDeployment(p, d), job' = job
    PROVE  Calm(p)
<1>1. Frame(p)
  BY QueueNextFrame
<1> QED
  BY <1>1 DEF ProcInv, ProcOK, QueueNextDeployment, Goto, Calm, Track, InLock, Decided

LEMMA AdvanceCalm ==
    ASSUME ProcInv, NEW p \in Procs, AdvanceAfterEnd(p)
    PROVE  Calm(p) /\ Known
  BY QueueNextCalm DEF AdvanceAfterEnd, Known

LEMMA ReturnCalm ==
    ASSUME ProcInv, NEW p \in Procs, Return(p)
    PROVE  Calm(p) /\ Known
<1>1. CASE Finish(p)
  BY <1>1, FinishCalm
<1>2. CASE ~ Finish(p)
  <2>1. Frame(p)
    BY ReturnFrame
  <2>2. job' = job /\ todo' = todo
    BY <1>2 DEF Return
  <2>3. pc'[p] \notin Track
    BY <1>2 DEF ProcInv, ProcOK, Return, Goto, Track, InLock, Decided
  <2> QED
    BY <2>1, <2>2, <2>3 DEF Calm, Known
<1> QED
  BY <1>1, <1>2

LEMMA HarmlessQueue ==
    ASSUME TypeInv, NEW p \in Procs,
           StartDecline(p) \/ DispatchFails(p) \/ FailUndispatchable(p) \/ ListQueued(p)
             \/ AdvanceDone(p)
    PROVE  Harmless(p)
<1> USE DEF TypeInv
<1>1. CASE StartDecline(p)
  BY <1>1, ReturnCalm DEF StartDecline, Harmless, rowVars
<1>2. CASE DispatchFails(p)
  BY <1>2 DEF DispatchFails, Harmless, Calm, Known, Frame, Goto, Track, InLock, Decided,
     ProcInv, ProcOK, rowVars
<1>3. CASE FailUndispatchable(p)
  <2>1. Calm(p) /\ Known
    BY <1>3, ReturnCalm, QueueNextCalm DEF FailUndispatchable, Known
  <2>2. cur[p] \in Deployments
    BY <1>3, WorkingCur DEF FailUndispatchable, Working
  <2>3. UNCHANGED status \/ RowWrite
    BY <1>3, <2>2 DEF FailUndispatchable, RowWrite, NoRow, Unstarted, Statuses, Terminal,
       SharedOK
  <2> QED
    BY <1>3, <2>1, <2>3 DEF FailUndispatchable, Harmless
<1>4. CASE ListQueued(p)
  <2>1. Known
    BY <1>4 DEF ListQueued, Known, QueuedRows, NoRow, ProcInv, ProcOK
  <2> QED
    BY <1>4, <2>1 DEF ListQueued, Harmless, Calm, Frame, Track, InLock, Decided, rowVars
<1>5. CASE AdvanceDone(p)
  <2>1. CASE Finish(p)
    BY <1>5, <2>1, FinishCalm DEF AdvanceDone, Harmless, rowVars
  <2>2. CASE ~ Finish(p)
    BY <1>5, <2>2 DEF AdvanceDone, Harmless, Calm, Known, Frame, Goto, Track, InLock, Decided,
       ProcInv, ProcOK, rowVars
  <2> QED
    BY <2>1, <2>2
<1> QED
  BY <1>1, <1>2, <1>3, <1>4, <1>5

LEMMA HarmlessJob ==
    ASSUME TypeInv, JobsInv, NEW p \in Procs, JobStep(p) \/ Sweep(p), ~ DeployToAdditional(p)
    PROVE  Harmless(p)
<1> USE DEF TypeInv
<1>1. Frame(p)
  BY JobKinds
<1>2. UNCHANGED jobVars
  BY DEF JobStep, HandleRefresh, HandleWarn, HandleCheckFails, HandleMark, Build,
     IsInTerminalState, UpdateDeploymentStatus, AllChildrenQueued,
     SideEffectsFail, NoticeRead, NoticeAdd, JobTail, Sweep
<1>3. pc[p] \in JobPcs => job[p] \in Deployments /\ status[job[p]] \notin Unstarted
  BY DEF JobsInv, UnstartedInv, WorkerInv, ProcInv, Control
<1>4. UNCHANGED status \/ RowWrite
  <2>1. CASE HandleMark(p)
    BY <1>3, <2>1 DEF HandleMark, RowWrite, JobPcs, NoRow, Unstarted, Statuses, Active,
       SharedOK
  <2>2. CASE UpdateDeploymentStatus(p)
    <3>1. goal[p] \in {"finished", "failed"}
      BY <2>2 DEF UpdateDeploymentStatus, ProcInv, Control
    <3> QED
      BY <1>3, <2>2, <3>1 DEF UpdateDeploymentStatus, RowWrite, JobPcs, NoRow, Unstarted,
         Statuses, Terminal, SharedOK
  <2>3. CASE Sweep(p)
    BY <2>3 DEF Sweep, RowWrite, JobsInv, TodoInv, NoRow, Unstarted, Statuses, Terminal,
       SharedOK, ProcInv, ProcOK
  <2> QED
    BY <2>1, <2>2, <2>3 DEF JobStep, HandleRefresh, HandleWarn, HandleCheckFails, Build,
       IsInTerminalState, AllChildrenQueued, SideEffectsFail, NoticeRead, NoticeAdd, JobTail,
       rowVars
<1>5. Calm(p) /\ Known
  <2> USE DEF Goto, Calm, Known, Track, InLock, Decided, ProcInv, ProcOK
  <2>1. CASE Finish(p) \/ AdvanceAfterEnd(p)
    BY <2>1, FinishCalm, AdvanceCalm
  <2>2. CASE HandleRefresh(p) \/ IsInTerminalState(p)
    BY <1>1, <2>1, <2>2 DEF HandleRefresh, IsInTerminalState, HandleCancelled, MarkPoint
  <2>3. CASE HandleWarn(p) \/ HandleCheckFails(p) \/ HandleMark(p) \/ Build(p)
    BY <1>1, <2>3 DEF HandleWarn, HandleCheckFails, HandleMark, Build, Transition, MarkPoint
  <2>4. CASE UpdateDeploymentStatus(p) \/ AllChildrenQueued(p) \/ SideEffectsFail(p)
    BY <1>1, <2>1, <2>4 DEF UpdateDeploymentStatus, AllChildrenQueued, SideEffectsFail,
       AfterException, Transition
  <2>5. CASE NoticeRead(p) \/ NoticeAdd(p)
    BY <1>1, <2>1, <2>5 DEF NoticeRead, NoticeAdd, AfterNotice
  <2>6. CASE JobTail(p)
    BY <1>1, <2>1, <2>6 DEF JobTail, Transition
  <2>7. CASE Sweep(p)
    <3>1. Known
      <4>1. CASE Finish(p)
        BY <4>1, FinishCalm
      <4>2. CASE ~ Finish(p)
        <5>1. \E d \in todo[p] : \/ todo' = [todo EXCEPT ![p] = todo[p] \ {d}]
                                 \/ todo' = [todo EXCEPT ![p] = {}]
          BY <2>7, <4>2 DEF Sweep
        <5> QED
          BY <5>1
      <4> QED
        BY <4>1, <4>2
    <3>2. CASE \E d \in Deployments : QueueNextDeployment(p, d) /\ job' = job
      BY <3>1, <3>2, QueueNextCalm
    <3>3. CASE pc' = pc /\ job' = job
      BY <1>1, <2>7, <3>1, <3>3 DEF Sweep
    <3> QED
      BY <2>1, <2>7, <3>2, <3>3 DEF Sweep
  <2> QED
    BY <2>2, <2>3, <2>4, <2>5, <2>6, <2>7 DEF JobStep
<1> QED
  BY <1>2, <1>4, <1>5 DEF Harmless

LEMMA HarmlessBegin ==
    ASSUME TypeInv, NEW p \in Procs,
           \/ \E d \in Deployments : CancelApi(p, d) \/ CancelUi(p, d)
           \/ \E s \in Slots : CleanupPreview(p, s)
           \/ CheckQueue(p)
    PROVE  Harmless(p)
<1> USE DEF TypeInv
<1>1. CASE \E d \in Deployments : CancelApi(p, d) \/ CancelUi(p, d)
  <2>1. PICK d \in Deployments : CancelRow(p, d) /\ status[d] \notin NoRow
    BY <1>1 DEF CancelApi, CancelUi, NoRow, Active, Terminal, Rows
  <2>2. Calm(p) /\ Known
    BY <2>1, QueueNextCalm DEF CancelRow, Known
  <2>3. RowWrite
    BY <2>1 DEF CancelRow, RowWrite, Unstarted, Statuses, Terminal, SharedOK
  <2> QED
    BY <2>1, <2>2, <2>3 DEF CancelRow, Harmless
<1>2. CASE \E s \in Slots : CleanupPreview(p, s)
  BY <1>2 DEF CleanupPreview, Harmless, Calm, Known, Frame, Goto, Track, InLock, Decided,
     ProcInv, ProcOK, rowVars, Active, NoRow
<1>3. CASE CheckQueue(p)
  BY <1>3 DEF CheckQueue, Harmless, Calm, Known, Frame, Goto, Track, InLock, Decided,
     ProcInv, ProcOK, rowVars, Active, NoRow
<1> QED
  BY <1>1, <1>2, <1>3

(* How each kind of step keeps JobsInv. *)

LEMMA HarmlessKeeps ==
    ASSUME TypeInv, JobsInv, NEW p \in Procs, Harmless(p)
    PROVE  JobsInv'
<1> USE DEF JobsInv
<1>1. ASSUME NEW d \in Deployments
      PROVE  /\ status'[d] \in Unstarted => status'[d] = status[d]
             /\ status[d] \in NoRow => status'[d] = status[d]
             /\ status[d] \notin NoRow => status'[d] \notin NoRow
             /\ status'[d] # status[d] => RowUnlocked(d)
  BY <1>1 DEF Harmless, RowWrite, Unstarted, NoRow
<1>2. \A q \in Procs : pc'[q] \in Track =>
         q # p /\ pc'[q] = pc[q] /\ mode'[q] = mode[q] /\ cur'[q] = cur[q] /\ job'[q] = job[q]
  BY DEF Harmless, Calm, Frame
<1>3. \A q \in Procs : pc'[q] \in Track => cur[q] \in Deployments
  BY <1>2, WorkingCur DEF Track, Working
<1>4. UnstartedInv' /\ DispatchedOnce'
  BY <1>1 DEF UnstartedInv, DispatchedOnce, Harmless, jobVars
<1>5. DispatchInv'
  BY <1>1, <1>2, <1>3 DEF DispatchInv, Track, Harmless, jobVars
<1>6. WorkerInv'
  <2>1. \A q \in Procs : job'[q] = job[q] \/ job'[q] = NoDep
    BY DEF Harmless, Calm, Frame
  <2> QED
    BY <2>1, QueueAssumption DEF WorkerInv, Harmless, jobVars
<1>7. AdmitInv'
  <2>1. \A q \in Procs : Admitting(q)' =>
           Admitting(q) /\ cur'[q] = cur[q] /\ job'[q] = job[q] /\ cur[q] \in Deployments
    BY <1>2, <1>3 DEF Admitting, Track
  <2> QED
    BY <1>1, <2>1 DEF AdmitInv, NoRow
<1>8. StartInv'
  <2> SUFFICES ASSUME NEW q \in Procs, pc'[q] = "commit_start", mode'[q] # "admit"
               PROVE  status'[cur'[q]] = "queued"
    BY DEF StartInv
  <2>1. cur'[q] = cur[q] /\ cur[q] \in Deployments /\ pc[q] = "commit_start" /\ mode[q] # "admit"
    BY <1>2, <1>3 DEF Track, InLock, Decided
  <2>2. ~ RowUnlocked(cur[q])
    BY <2>1 DEF RowUnlocked
  <2> QED
    BY <1>1, <2>1, <2>2 DEF StartInv
<1>9. TodoInv'
  BY <1>1 DEF TodoInv, Harmless, Known, TypeInv, ProcInv, ProcOK
<1> QED
  BY <1>4, <1>5, <1>6, <1>7, <1>8, <1>9

\* A step within the transactions that writes no row.
LEMMA WithinKeeps ==
    ASSUME TypeInv, JobsInv, NEW p \in Procs,
           LockApp(p) \/ LockServer(p) \/ AdmitDecide(p) \/ StartDecide(p)
    PROVE  JobsInv'
<1> USE DEF JobsInv
<1>1. Frame(p) /\ UNCHANGED <<status, redis, taken, mode, cur, job, todo>>
  BY QueueKinds
     DEF LockStep, QueueStep, LockApp, LockServer, AdmitDecide, StartDecide, rowVars, jobVars
<1>2. pc[p] \in Track \ {"dispatch"} /\ pc'[p] \in InLock
  BY DEF LockApp, LockServer, AdmitDecide, StartDecide, Goto, Track, InLock, Decided, TypeInv,
     ProcInv, ProcOK
<1>3. \A q \in Procs : (Admitting(q)' => Admitting(q))
                         /\ (pc'[q] = "dispatch" => pc[q] = "dispatch")
  BY <1>1, <1>2 DEF Admitting, Frame, Track, InLock, Decided
<1>4. UnstartedInv' /\ DispatchedOnce' /\ WorkerInv' /\ TodoInv'
  BY <1>1 DEF UnstartedInv, DispatchedOnce, WorkerInv, TodoInv
<1>5. DispatchInv'
  BY <1>1, <1>3 DEF DispatchInv
<1>6. AdmitInv'
  BY <1>1, <1>3 DEF AdmitInv
<1>7. StartInv'
  <2>1. pc'[p] = "commit_start" /\ mode[p] # "admit" => status[cur[p]] = "queued"
    BY DEF LockApp, LockServer, AdmitDecide, StartDecide, Goto, TypeInv, ProcInv, ProcOK
  <2> QED
    BY <1>1, <2>1 DEF StartInv, Frame
<1> QED
  BY <1>4, <1>5, <1>6, <1>7

\* A process begins to work on a deployment.
LEMMA EntryKeeps ==
    ASSUME TypeInv, JobsInv, NEW p \in Procs,
           \/ \E d \in Deployments : Request(p, d) \/ ForceStart(p, d)
           \/ StartNext(p) \/ DeployToAdditional(p)
    PROVE  JobsInv'
<1> USE DEF JobsInv
<1>1. Frame(p)
  BY QueueKinds, JobKinds, BeginKinds DEF QueueStep, JobStep, Begin
<1>2. UNCHANGED <<status, redis, taken, job>> /\ pc'[p] = "lock_app"
        /\ \A q \in Procs : todo'[q] \subseteq todo[q]
  BY DEF Request, ForceStart, StartNext, DeployToAdditional, Goto, rowVars, jobVars, TypeInv,
     ProcInv, ProcOK
<1>3. UnstartedInv' /\ DispatchedOnce' /\ WorkerInv' /\ TodoInv'
  BY <1>2 DEF UnstartedInv, DispatchedOnce, WorkerInv, TodoInv
<1>4. DispatchInv' /\ StartInv'
  BY <1>1, <1>2 DEF DispatchInv, StartInv, Frame
<1>5. Admitting(p)' => /\ status[cur'[p]] = "none"
                       /\ Parent[cur'[p]] # NoDep => job[p] = Parent[cur'[p]]
                       /\ \A q \in Procs : q # p /\ Admitting(q) => cur[q] # cur'[p]
  <2>1. CASE \E d \in Deployments : Request(p, d)
    BY <2>1 DEF Request, TypeInv, ProcInv, ProcOK
  <2>2. CASE (\E d \in Deployments : ForceStart(p, d)) \/ StartNext(p)
    BY <2>2 DEF ForceStart, StartNext, Admitting, TypeInv, ProcInv, ProcOK, Control
  <2>3. CASE DeployToAdditional(p)
    <3>1. job[p] \in Deployments
      BY <2>3 DEF DeployToAdditional, TypeInv, ProcInv, Control, JobPcs
    <3>2. status[cur'[p]] = "none" /\ Parent[cur'[p]] = job[p]
      BY <2>3 DEF DeployToAdditional, Children, TypeInv, ProcInv, ProcOK
    <3>3. ASSUME NEW q \in Procs, q # p, Admitting(q), cur[q] = cur'[p] PROVE FALSE
      BY <3>1, <3>2, <3>3, QueueAssumption DEF AdmitInv, WorkerInv
    <3> QED
      BY <3>2, <3>3
  <2> QED
    BY <2>1, <2>2, <2>3
<1>6. \A q \in Procs : q # p =>
         (Admitting(q)' <=> Admitting(q)) /\ cur'[q] = cur[q] /\ job'[q] = job[q]
  BY <1>1 DEF Frame, Admitting
<1>7. AdmitInv'
  BY <1>2, <1>5, <1>6 DEF AdmitInv
<1> QED
  BY <1>3, <1>4, <1>7

\* An admission that ends without a job: rejected, or queued.
LEMMA AdmittedKeeps ==
    ASSUME TypeInv, JobsInv, NEW p \in Procs, AdmitReject(p) \/ CommitQueue(p)
    PROVE  JobsInv'
<1> USE DEF JobsInv
<1>1. PICK d \in Deployments : d = cur[p]
  BY WorkingCur DEF AdmitReject, CommitQueue, Working, InLock, Decided
<1>2. Admitting(p) /\ status[d] = "none"
  BY <1>1 DEF AdmitReject, CommitQueue, Admitting, AdmitInv, InLock, Decided, TypeInv, ProcInv,
     Control
<1>3. Calm(p) /\ Known
  BY ReturnCalm DEF AdmitReject, CommitQueue, TypeInv
<1>4. UNCHANGED <<redis, taken>> /\ status'[d] \in {"rejected", "queued"}
        /\ \A e \in Deployments : e # d => status'[e] = status[e]
  BY <1>1 DEF AdmitReject, CommitQueue, jobVars, TypeInv, SharedOK
<1>5. \A q \in Procs : pc'[q] \in Track =>
         q # p /\ pc'[q] = pc[q] /\ mode'[q] = mode[q] /\ cur'[q] = cur[q] /\ job'[q] = job[q]
           /\ cur[q] \in Deployments
  BY <1>3, WorkingCur DEF Calm, Frame, Track, Working
<1>6. UnstartedInv' /\ DispatchedOnce'
  BY <1>2, <1>4 DEF UnstartedInv, DispatchedOnce, Unstarted
<1>7. DispatchInv'
  BY <1>2, <1>4, <1>5 DEF DispatchInv, Track, Unstarted
<1>8. WorkerInv'
  <2>1. \A q \in Procs : job'[q] = job[q] \/ job'[q] = NoDep
    BY <1>3 DEF Calm, Frame
  <2> QED
    BY <1>4, <2>1, QueueAssumption DEF WorkerInv
<1>9. AdmitInv'
  <2>1. \A q \in Procs : Admitting(q)' =>
           Admitting(q) /\ cur'[q] = cur[q] /\ job'[q] = job[q] /\ cur[q] # d
             /\ cur[q] \in Deployments
    BY <1>1, <1>2, <1>5 DEF Admitting, Track, AdmitInv
  <2> QED
    BY <1>4, <2>1 DEF AdmitInv
<1>10. StartInv'
  BY <1>2, <1>4, <1>5 DEF StartInv, Track, InLock, Decided
<1>11. TodoInv'
  <2> SUFFICES ASSUME NEW q \in Procs, NEW e \in todo'[q] PROVE status'[e] \notin NoRow
    BY DEF TodoInv
  <2>1. e \in Deployments /\ status[e] \notin NoRow
    BY <1>3 DEF Known, TodoInv, TypeInv, ProcInv, ProcOK
  <2> QED
    BY <1>2, <1>4, <2>1 DEF NoRow
<1> QED
  BY <1>6, <1>7, <1>8, <1>9, <1>10, <1>11

LEMMA CommitStartKeeps ==
    ASSUME TypeInv, LockInv, JobsInv, NEW p \in Procs, CommitStart(p)
    PROVE  JobsInv'
<1> USE DEF JobsInv
<1>1. PICK d \in Deployments : d = cur[p]
  BY WorkingCur DEF CommitStart, Working, InLock, Decided
<1>2. status[d] \in {"none", "queued"} /\ redis[d] = 0 /\ taken[d] = 0
  <2>1. status[d] \in {"none", "queued"}
    BY <1>1 DEF CommitStart, AdmitInv, StartInv, Admitting, InLock, Decided
  <2> QED
    BY <2>1 DEF UnstartedInv, Unstarted
<1>3. Frame(p) /\ pc'[p] = "dispatch" /\ UNCHANGED <<redis, taken, mode, cur, job, todo>>
        /\ pc[p] = "commit_start"
  BY QueueKinds DEF QueueStep, CommitStart, Goto, jobVars, TypeInv, ProcInv, ProcOK
<1>4. status' = [status EXCEPT ![d] = "in_progress"]
  BY <1>1 DEF CommitStart
<1>5. \A e \in Deployments : status'[e] = IF e = d THEN "in_progress" ELSE status[e]
  BY <1>4 DEF TypeInv, SharedOK
<1>6. \A q \in Procs : q # p /\ pc[q] \in Track =>
         cur[q] \in Deployments /\ (pc[q] = "dispatch" => cur[q] # d)
  BY <1>2, WorkingCur DEF DispatchInv, Unstarted, Track, Working
<1>7. UnstartedInv' /\ DispatchedOnce'
  BY <1>3, <1>5 DEF UnstartedInv, DispatchedOnce, Unstarted
<1>8. DispatchInv'
  <2>1. \A q \in Procs : pc'[q] = "dispatch" => q = p \/ (pc[q] = "dispatch" /\ cur[q] # d)
    BY <1>3, <1>6 DEF Frame, Track
  <2> QED
    BY <1>1, <1>2, <1>3, <1>5, <1>6, <2>1 DEF DispatchInv, Unstarted, Track, Frame
<1>9. WorkerInv'
  BY <1>3 DEF WorkerInv
<1>10. ASSUME NEW q \in Procs, q # p, pc[q] \in InLock PROVE cur[q] # d
  BY <1>1, <1>3, <1>10 DEF LockInv, InLock, Decided
<1>11. AdmitInv'
  <2>1. \A q \in Procs : Admitting(q)' => q # p /\ Admitting(q) /\ cur[q] \in Deployments
    BY <1>3, <1>6 DEF Admitting, Frame, Track, InLock, Decided
  <2>2. ASSUME NEW q \in Procs, Admitting(q)', cur[q] = d PROVE FALSE
    <3>1. q # p /\ Admitting(q) /\ pc[q] = "lock_app" /\ status[d] = "none"
      BY <1>10, <2>1, <2>2 DEF Admitting, AdmitInv
    <3>2. Admitting(p)
      BY <1>1, <1>3, <3>1 DEF Admitting, StartInv, InLock, Decided
    <3> QED
      BY <1>1, <2>2, <3>1, <3>2 DEF AdmitInv
  <2> QED
    BY <1>3, <1>5, <2>1, <2>2 DEF AdmitInv
<1>12. StartInv'
  <2> SUFFICES ASSUME NEW q \in Procs, pc'[q] = "commit_start", mode'[q] # "admit"
               PROVE  status'[cur'[q]] = "queued"
    BY DEF StartInv
  <2>1. q # p /\ pc[q] = "commit_start" /\ mode[q] # "admit" /\ cur'[q] = cur[q]
    BY <1>3 DEF Frame
  <2>2. cur[q] \in Deployments /\ cur[q] # d
    BY <1>6, <1>10, <2>1 DEF Track, InLock, Decided
  <2> QED
    BY <1>5, <2>1, <2>2 DEF StartInv
<1>13. TodoInv'
  BY <1>3, <1>5 DEF TodoInv, NoRow, TypeInv, ProcInv, ProcOK
<1> QED
  BY <1>7, <1>8, <1>9, <1>11, <1>12, <1>13

LEMMA DispatchKeeps ==
    ASSUME TypeInv, JobsInv, NEW p \in Procs, Dispatch(p)
    PROVE  JobsInv'
<1> USE DEF JobsInv
<1>1. PICK d \in Deployments : d = cur[p]
  BY WorkingCur DEF Dispatch, Working
<1>2. status[d] \notin Unstarted /\ redis[d] = 0 /\ taken[d] = 0 /\ pc[p] = "dispatch"
  BY <1>1 DEF Dispatch, DispatchInv
<1>3. Calm(p) /\ Known
  BY ReturnCalm DEF Dispatch, TypeInv
<1>4. UNCHANGED <<status, taken>> /\ \A e \in Deployments : redis'[e] = IF e = d THEN 1 ELSE redis[e]
  BY <1>1, <1>2 DEF Dispatch, rowVars, TypeInv, SharedOK
<1>5. \A q \in Procs : pc'[q] \in Track =>
         q # p /\ pc'[q] = pc[q] /\ mode'[q] = mode[q] /\ cur'[q] = cur[q] /\ job'[q] = job[q]
           /\ cur[q] \in Deployments
  BY <1>3, WorkingCur DEF Calm, Frame, Track, Working
<1>6. UnstartedInv' /\ DispatchedOnce'
  <2>1. UnstartedInv'
    BY <1>2, <1>4 DEF UnstartedInv
  <2>2. \A e \in Deployments : redis'[e] + taken'[e] = IF e = d THEN 1 ELSE redis[e] + taken[e]
    BY <1>2, <1>4
  <2> QED
    BY <2>1, <2>2 DEF DispatchedOnce
<1>7. DispatchInv'
  <2>1. \A q \in Procs : pc'[q] = "dispatch" =>
           pc[q] = "dispatch" /\ cur'[q] = cur[q] /\ cur[q] # d /\ cur[q] \in Deployments
    BY <1>1, <1>2, <1>5 DEF DispatchInv, Track
  <2> QED
    BY <1>4, <2>1 DEF DispatchInv
<1>8. WorkerInv'
  <2>1. \A q \in Procs : job'[q] = job[q] \/ job'[q] = NoDep
    BY <1>3 DEF Calm, Frame
  <2> QED
    BY <1>4, <2>1, QueueAssumption DEF WorkerInv
<1>9. AdmitInv'
  <2>1. \A q \in Procs : Admitting(q)' =>
           Admitting(q) /\ cur'[q] = cur[q] /\ job'[q] = job[q]
    BY <1>5 DEF Admitting, Track
  <2> QED
    BY <1>4, <2>1 DEF AdmitInv
<1>10. StartInv'
  BY <1>4, <1>5 DEF StartInv, Track, InLock, Decided
<1>11. TodoInv'
  BY <1>3, <1>4 DEF TodoInv, Known
<1> QED
  BY <1>6, <1>7, <1>8, <1>9, <1>10, <1>11

LEMMA TakeJobKeeps ==
    ASSUME TypeInv, JobsInv, NEW p \in Procs, NEW d \in Deployments, TakeJob(p, d)
    PROVE  JobsInv'
<1> USE DEF JobsInv
<1>1. redis[d] = 1 /\ taken[d] = 0 /\ status[d] \notin Unstarted
  <2>1. redis[d] \in Nat /\ taken[d] \in Nat /\ redis[d] > 0 /\ redis[d] + taken[d] <= 1
    BY DEF TakeJob, DispatchedOnce, TypeInv, SharedOK
  <2>2. redis[d] = 1 /\ taken[d] = 0
    BY <2>1
  <2> QED
    BY <2>2 DEF UnstartedInv
<1>2. UNCHANGED <<status, mode, cur, todo>> /\ pc[p] = "idle" /\ pc'[p] = "refresh"
        /\ \A q \in Procs : q # p => pc'[q] = pc[q]
  BY DEF TakeJob, Goto, rowVars, TypeInv, ProcInv, ProcOK
<1>3. \A e \in Deployments : /\ redis'[e] = IF e = d THEN 0 ELSE redis[e]
                             /\ taken'[e] = IF e = d THEN 1 ELSE taken[e]
  BY <1>1 DEF TakeJob, TypeInv, SharedOK
<1>4. \A q \in Procs : job'[q] = IF q = p THEN d ELSE job[q]
  BY DEF TakeJob, TypeInv, ProcInv, ProcOK
<1>5. UnstartedInv' /\ DispatchedOnce'
  BY <1>1, <1>2, <1>3 DEF UnstartedInv, DispatchedOnce
<1>6. DispatchInv'
  <2>1. \A q \in Procs : pc'[q] = "dispatch" =>
           pc[q] = "dispatch" /\ cur[q] # d /\ cur[q] \in Deployments
    BY <1>1, <1>2, WorkingCur DEF DispatchInv, Working
  <2> QED
    BY <1>2, <1>3, <2>1 DEF DispatchInv
<1>7. WorkerInv'
  <2>1. \A q \in Procs : job[q] # d
    BY <1>1 DEF WorkerInv
  <2> QED
    BY <1>3, <1>4, <2>1 DEF WorkerInv
<1>8. AdmitInv'
  <2>1. \A q \in Procs : Admitting(q)' => Admitting(q) /\ job'[q] = job[q]
    BY <1>2, <1>4 DEF Admitting, InLock, Decided
  <2> QED
    BY <1>2, <2>1 DEF AdmitInv
<1>9. StartInv' /\ TodoInv'
  BY <1>2 DEF StartInv, TodoInv
<1> QED
  BY <1>5, <1>6, <1>7, <1>8, <1>9

LEMMA RestartKeeps ==
    ASSUME TypeInv, JobsInv, Restart
    PROVE  JobsInv'
<1> USE DEF JobsInv
<1>1. \A d \in Deployments : status'[d] \in Unstarted => status[d] = status'[d]
  BY DEF Restart, Unstarted, Active
<1>2. UNCHANGED <<redis, taken>>
        /\ \A p \in Procs : pc'[p] = "idle" /\ job'[p] = NoDep /\ todo'[p] = {}
  BY DEF Restart, ProcessesDie, jobVars
<1>3. UnstartedInv' /\ DispatchedOnce'
  BY <1>1, <1>2 DEF UnstartedInv, DispatchedOnce
<1>4. DispatchInv' /\ WorkerInv' /\ StartInv' /\ TodoInv'
  BY <1>2, QueueAssumption DEF DispatchInv, WorkerInv, StartInv, TodoInv
<1>5. AdmitInv'
  BY <1>2 DEF AdmitInv, Admitting, InLock, Decided
<1> QED
  BY <1>3, <1>4, <1>5

\* JobsInv is an invariant.
LEMMA JobsInvariant == Spec => []JobsInv
<1>1. Init => JobsInv
  BY QueueAssumption DEF Init, JobsInv, UnstartedInv, DispatchInv, WorkerInv, AdmitInv, StartInv,
     TodoInv, DispatchedOnce, Admitting, InLock, Decided
<1>2. JobsInv /\ UNCHANGED vars => JobsInv'
  BY DEF JobsInv, UnstartedInv, DispatchInv, WorkerInv, AdmitInv, StartInv, TodoInv,
     DispatchedOnce, Admitting, vars, rowVars, jobVars, procVars
<1>3. ASSUME TypeInv, LockInv, JobsInv, NEW p \in Procs, Begin(p) \/ Step(p)
      PROVE  JobsInv'
  <2>1. CASE Begin(p)
    BY <1>3, <2>1, HarmlessBegin, HarmlessKeeps, EntryKeeps, TakeJobKeeps DEF Begin
  <2>2. CASE LockStep(p) \/ QueueStep(p)
    BY <1>3, <2>2, HarmlessQueue, HarmlessKeeps, WithinKeeps, EntryKeeps, AdmittedKeeps,
       CommitStartKeeps, DispatchKeeps DEF LockStep, QueueStep
  <2>3. CASE JobStep(p) \/ Sweep(p)
    BY <1>3, <2>3, HarmlessJob, HarmlessKeeps, EntryKeeps
  <2> QED
    BY <1>3, <2>1, <2>2, <2>3 DEF Step
<1>4. TypeInv /\ LockInv /\ JobsInv /\ [Next]_vars => JobsInv'
  BY <1>2, <1>3, RestartKeeps DEF Next, Idle
<1> QED
  BY <1>1, <1>4, TypeInvariant, LockInvariant, PTL DEF Spec

\* start_queued_deployment: however admissions, passes over the queue, force
\* starts, dispatch failures and restarts interleave, a deployment gets at
\* most one job.
THEOREM OneJobPerDeployment == Spec => []DispatchedOnce
<1>1. JobsInv => DispatchedOnce
  BY DEF JobsInv
<1> QED
  BY <1>1, JobsInvariant, PTL
=============================================================================
