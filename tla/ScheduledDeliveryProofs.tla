---------------------- MODULE ScheduledDeliveryProofs ----------------------
(***************************************************************************)
(* Proofs about ScheduledDelivery for any number of slots, manager runs,   *)
(* jobs and faults.                                                        *)
(***************************************************************************)
EXTENDS ScheduledDelivery, TLAPS

LEMMA TypeInit == Init => TypeOK
<1> SUFFICES ASSUME Init PROVE TypeOK
  OBVIOUS
<1>1. late \in [Managers -> BOOLEAN]
  BY Zenon DEF Init
<1> QED
  BY <1>1, DeliveryAssumption DEF Init, TypeOK, Open, Unclaimed

LEMMA TypeManager ==
    ASSUME TypeOK, NEW m \in Managers, ManagerStart(m) \/ ManagerStep(m)
    PROVE  TypeOK'
<1> USE DeliveryAssumption DEF TypeOK, Open, Unclaimed, rowVars, timeVars, jobVars,
        mgrVars, countVars
<1>1. CASE ManagerStart(m)
  BY <1>1 DEF ManagerStart
<1>2. CASE ManagerNext(m)
  BY <1>2 DEF ManagerNext
<1>3. CASE Decide(m)
  BY <1>3 DEF Decide
<1>4. CASE Move(m)
  <2>1. CASE StillUnstarted(m) /\ late[m]
    BY <1>4, <2>1 DEF Move
  <2>2. CASE StillUnstarted(m) /\ ~ late[m]
    <3>1. missed' \in [Slots -> Nat]
      BY <1>4, <2>2 DEF Move
    <3>2. late' \in [Managers -> BOOLEAN]
      BY <1>4, <2>2 DEF Move, NextItem
    <3>3. /\ pc' = [pc EXCEPT ![m] = phase[m]]
          /\ cur' = [cur EXCEPT ![m] = 0]
          /\ due' = IF phase[m] = "idle" THEN [due EXCEPT ![m] = 0] ELSE due
          /\ UNCHANGED <<phase, todo>>
      BY <1>4, <2>2 DEF Move, NextItem
    <3>4. row' = [row EXCEPT ![cur[m]] = "failed"]
      BY <1>4, <2>2 DEF Move
    <3>5. UNCHANGED <<lastFor, token, timeVars, jobVars, recorded, ran, faults>>
      BY <1>4 DEF Move
    <3> QED
      BY <3>1, <3>2, <3>3, <3>4, <3>5
  <2>3. CASE ~ StillUnstarted(m)
    <3>1. NextItem(m) /\ UNCHANGED <<row, missed>>
      BY <1>4, <2>3, Zenon DEF Move
    <3>2. UNCHANGED <<lastFor, token, timeVars, jobVars, recorded, ran, faults>>
      BY <1>4 DEF Move
    <3> QED
      BY <3>1, <3>2 DEF NextItem
  <2> QED
    BY <2>1, <2>2, <2>3
<1>5. CASE FailInterrupted(m)
  BY <1>5 DEF FailInterrupted
<1>6. CASE PublishSkipped(m)
  BY <1>6 DEF PublishSkipped, NextItem
<1>7. CASE Publish(m)
  BY <1>7 DEF Publish
<1>8. CASE PublishFails(m)
  BY <1>8 DEF PublishFails, NextItem, Fault
<1>9. CASE MarkEnqueued(m)
  BY <1>9 DEF MarkEnqueued, NextItem
<1>10. CASE Record(m)
  BY <1>10 DEF Record
<1>11. CASE RecordSkipped(m)
  BY <1>11 DEF RecordSkipped
<1>12. CASE ManagerStop(m)
  BY <1>12 DEF ManagerStop, Fault
<1> QED
  BY <1>1, <1>2, <1>3, <1>4, <1>5, <1>6, <1>7, <1>8, <1>9, <1>10, <1>11, <1>12
     DEF ManagerStep

LEMMA TypeJob ==
    ASSUME TypeOK, NEW j \in Jobs, JobStep(j) \/ Lose(j) \/ Kill(j)
    PROVE  TypeOK'
<1> USE DeliveryAssumption DEF TypeOK, Open, Unclaimed, rowVars, timeVars, jobVars,
        mgrVars, countVars
<1>1. CASE Take(j)
  BY <1>1 DEF Take, SetJob
<1>2. CASE Skip(j)
  BY <1>2 DEF Skip, FreeJob
<1>3. CASE Claim(j)
  <2>1. CASE row[jobOf[j]] \in Unclaimed
    BY <1>3, <2>1 DEF Claim, SetJob
  <2>2. CASE row[jobOf[j]] \notin Unclaimed
    BY <1>3, <2>2 DEF Claim, FreeJob, ReleaseLock
  <2> QED BY <2>1, <2>2
<1>4. CASE Complete(j)
  BY <1>4 DEF Complete, DeleteRow, ages, FreeJob, ReleaseLock
<1>5. CASE Fail(j)
  BY <1>5 DEF Fail, FreeJob
<1>6. CASE Lose(j)
  BY <1>6 DEF Lose, FreeJob, Fault
<1>7. CASE Kill(j)
  BY <1>7 DEF Kill, SetJob, Fault
<1> QED
  BY <1>1, <1>2, <1>3, <1>4, <1>5, <1>6, <1>7 DEF JobStep

LEMMA TypeWorld ==
    ASSUME TypeOK,
           Tick \/ DeleteResource \/ LockExpires \/ DeleteOld \/ (\E o \in Slots : Age(o))
    PROVE  TypeOK'
<1> USE DeliveryAssumption DEF TypeOK, Open, Unclaimed, rowVars, timeVars, jobVars,
        mgrVars, countVars
<1>1. CASE Tick
  <2>1. now' \in Slots
    BY <1>1 DEF Tick, Slots
  <2> QED
    BY <1>1, <2>1 DEF Tick
<1>2. CASE DeleteResource
  BY <1>2 DEF DeleteResource, Fault
<1>3. CASE LockExpires
  BY <1>3 DEF LockExpires
<1>4. CASE DeleteOld
  BY <1>4 DEF DeleteOld, DeleteRow, ages
<1>5. CASE \E o \in Slots : Age(o)
  BY <1>5 DEF Age
<1> QED
  BY <1>1, <1>2, <1>3, <1>4, <1>5

LEMMA TypeStutter == TypeOK /\ UNCHANGED vars => TypeOK'
  BY DEF TypeOK, vars, rowVars, timeVars, jobVars, mgrVars, countVars

\* Type correctness of the delivery for every value of the constants.
THEOREM TypeCorrect == Spec => []TypeOK
<1>1. TypeOK /\ [Next]_vars => TypeOK'
  BY TypeManager, TypeJob, TypeWorld, TypeStutter DEF Next
<1> QED
  BY TypeInit, <1>1, PTL DEF Spec

-----------------------------------------------------------------------------
(* What the conditional updates keep true of every occurrence. *)

\* Until it is recorded an occurrence was neither published, run nor missed;
\* as long as it can be claimed it was neither run nor missed.
OccurrenceInv ==
    \A o \in Slots :
        /\ o > lastFor =>
             row[o] \notin Unclaimed /\ recorded[o] = 0 /\ ran[o] = 0 /\ missed[o] = 0
        /\ row[o] \in Unclaimed => ran[o] = 0 /\ missed[o] = 0
        /\ recorded[o] <= 1 /\ ran[o] <= 1 /\ missed[o] <= 1
        /\ missed[o] = 1 => ran[o] = 0
        /\ o \in SameLocal /\ o - 1 \in Slots => recorded[o] + recorded[o - 1] <= 1

\* A step that neither counts nor records, and makes no occurrence claimable.
LEMMA OccurrenceQuiet ==
    ASSUME OccurrenceInv, UNCHANGED <<lastFor, countVars>>,
           \A o \in Slots : row'[o] \in Unclaimed => row[o] \in Unclaimed
    PROVE  OccurrenceInv'
  BY DEF OccurrenceInv, countVars, Unclaimed

LEMMA OccurrenceRecorded ==
    ASSUME TypeOK, OccurrenceInv, NEW o \in Slots, ~ IsDuplicate(o),
           lastFor' = o, recorded' = [recorded EXCEPT ![o] = @ + 1],
           UNCHANGED <<ran, missed>>,
           row' = row \/ row' = [row EXCEPT ![o] = "pending"]
    PROVE  OccurrenceInv'
<1> DEFINE First(q) == recorded'[q] = IF q = o THEN 1 ELSE recorded[q]
<1>1. o > lastFor /\ (o \in SameLocal => lastFor # o - 1)
  BY DeliveryAssumption DEF TypeOK, IsDuplicate, Slots
<1>2. recorded[o] = 0 /\ ran[o] = 0 /\ missed[o] = 0
  BY <1>1 DEF OccurrenceInv
<1>3. \A q \in Slots : First(q)
  BY <1>2 DEF TypeOK
<1>4. ASSUME NEW q \in Slots, q > o
      PROVE  row'[q] \notin Unclaimed /\ recorded'[q] = 0 /\ ran'[q] = 0 /\ missed'[q] = 0
  <2>1. q > lastFor /\ q # o
    BY <1>1, <1>4, DeliveryAssumption DEF TypeOK, Slots
  <2> QED
    BY <1>3, <2>1 DEF OccurrenceInv, TypeOK
<1>5. \A q \in Slots : row'[q] \in Unclaimed => ran'[q] = 0 /\ missed'[q] = 0
  BY <1>2 DEF OccurrenceInv, TypeOK
<1>6. \A q \in Slots : recorded'[q] <= 1 /\ ran'[q] <= 1 /\ missed'[q] <= 1
                         /\ (missed'[q] = 1 => ran'[q] = 0)
  BY <1>3 DEF OccurrenceInv
<1>7. ASSUME NEW q \in Slots, q \in SameLocal, q - 1 \in Slots
      PROVE  recorded'[q] + recorded'[q - 1] <= 1
  <2>1. CASE q = o
    <3>1. q - 1 > lastFor
      BY <1>1, <1>7, <2>1, DeliveryAssumption DEF TypeOK, Slots
    <3> QED
      BY <3>1, <1>3, <1>7, <2>1, DeliveryAssumption DEF OccurrenceInv, Slots
  <2>2. CASE q - 1 = o
    <3>1. q > lastFor /\ q # o
      BY <1>1, <1>7, <2>2, DeliveryAssumption DEF TypeOK, Slots
    <3> QED
      BY <3>1, <1>3, <1>7, <2>2 DEF OccurrenceInv
  <2>3. CASE q # o /\ q - 1 # o
    BY <1>3, <1>7, <2>3 DEF OccurrenceInv
  <2> QED
    BY <2>1, <2>2, <2>3
<1> QED
  BY <1>4, <1>5, <1>6, <1>7 DEF OccurrenceInv

LEMMA OccurrenceManager ==
    ASSUME TypeOK, OccurrenceInv, NEW m \in Managers, ManagerStart(m) \/ ManagerStep(m)
    PROVE  OccurrenceInv'
<1> USE DEF rowVars
<1>1. CASE ManagerStart(m) \/ ManagerNext(m) \/ Decide(m) \/ PublishFails(m)
             \/ ManagerStop(m) \/ Publish(m)
  BY <1>1, OccurrenceQuiet
     DEF ManagerStart, ManagerNext, Decide, PublishFails, ManagerStop, Publish
<1>2. CASE Move(m)
  <2>1. CASE StillUnstarted(m) /\ ~ late[m]
    <3>1. row[cur[m]] \in Unclaimed
      BY <2>1 DEF StillUnstarted, Unclaimed
    <3>2. row' = [row EXCEPT ![cur[m]] = "failed"]
            /\ UNCHANGED <<lastFor, recorded, ran>>
            /\ (missed' = missed \/ missed' = [missed EXCEPT ![cur[m]] = @ + 1])
      BY <1>2, <2>1 DEF Move
    <3> QED
      BY <3>1, <3>2 DEF OccurrenceInv, TypeOK, Unclaimed
  <2>2. CASE StillUnstarted(m) /\ late[m]
    <3>1. row[cur[m]] \in Unclaimed
      BY <2>2 DEF StillUnstarted, Unclaimed
    <3>2. row' = [row EXCEPT ![cur[m]] = "pending"] /\ UNCHANGED <<lastFor, countVars>>
      BY <1>2, <2>2 DEF Move, countVars
    <3> QED
      BY <3>1, <3>2, OccurrenceQuiet DEF TypeOK
  <2>3. CASE ~ StillUnstarted(m)
    <3>1. UNCHANGED <<row, lastFor, countVars>>
      BY <1>2, <2>3 DEF Move, countVars
    <3> QED
      BY <3>1, OccurrenceQuiet
  <2> QED
    BY <2>1, <2>2, <2>3
<1>3. CASE FailInterrupted(m)
  BY <1>3, OccurrenceQuiet DEF FailInterrupted, Unclaimed
<1>4. CASE PublishSkipped(m)
  BY <1>4, OccurrenceQuiet DEF PublishSkipped, Unclaimed, TypeOK
<1>5. CASE MarkEnqueued(m)
  BY <1>5, OccurrenceQuiet DEF MarkEnqueued, Unclaimed, TypeOK
<1>6. CASE Record(m)
  BY <1>6, OccurrenceRecorded DEF Record
<1>7. CASE RecordSkipped(m)
  BY <1>7, OccurrenceRecorded DEF RecordSkipped
<1> QED
  BY <1>1, <1>2, <1>3, <1>4, <1>5, <1>6, <1>7 DEF ManagerStep

LEMMA OccurrenceJob ==
    ASSUME TypeOK, OccurrenceInv, NEW j \in Jobs, JobStep(j) \/ Lose(j) \/ Kill(j)
    PROVE  OccurrenceInv'
<1> USE DEF rowVars
<1>1. CASE Take(j) \/ Lose(j) \/ Kill(j)
  BY <1>1, OccurrenceQuiet DEF Take, Lose, Kill
<1>2. CASE Skip(j)
  BY <1>2, OccurrenceQuiet DEF Skip, Unclaimed, TypeOK
<1>3. CASE Claim(j)
  <2>1. CASE row[jobOf[j]] \in Unclaimed
    <3>1. row' = [row EXCEPT ![jobOf[j]] = "claimed"]
            /\ ran' = [ran EXCEPT ![jobOf[j]] = @ + 1]
            /\ UNCHANGED <<lastFor, recorded, missed>>
      BY <1>3, <2>1 DEF Claim
    <3> QED
      BY <2>1, <3>1 DEF OccurrenceInv, TypeOK, Unclaimed
  <2>2. CASE row[jobOf[j]] \notin Unclaimed
    BY <1>3, <2>2, OccurrenceQuiet DEF Claim, countVars
  <2> QED
    BY <2>1, <2>2
<1>4. CASE Complete(j)
  BY <1>4, OccurrenceQuiet DEF Complete, DeleteRow, Unclaimed, TypeOK
<1>5. CASE Fail(j)
  BY <1>5, OccurrenceQuiet DEF Fail, Unclaimed, TypeOK
<1> QED
  BY <1>1, <1>2, <1>3, <1>4, <1>5 DEF JobStep

LEMMA OccurrenceWorld ==
    ASSUME TypeOK, OccurrenceInv,
           Tick \/ DeleteResource \/ LockExpires \/ DeleteOld
             \/ (\E o \in Slots : Age(o)) \/ UNCHANGED vars
    PROVE  OccurrenceInv'
<1>1. CASE DeleteOld
  BY <1>1, OccurrenceQuiet DEF DeleteOld, DeleteRow, Unclaimed, TypeOK
<1>2. CASE Tick \/ DeleteResource \/ LockExpires \/ (\E o \in Slots : Age(o))
             \/ UNCHANGED vars
  BY <1>2, OccurrenceQuiet DEF Tick, DeleteResource, LockExpires, Age, vars, rowVars
<1> QED
  BY <1>1, <1>2

LEMMA OccurrenceInvariant == Spec => []OccurrenceInv
<1>1. Init => OccurrenceInv
  BY DEF Init, OccurrenceInv, Unclaimed
<1>2. TypeOK /\ OccurrenceInv /\ [Next]_vars => OccurrenceInv'
  BY OccurrenceManager, OccurrenceJob, OccurrenceWorld DEF Next
<1> QED
  BY <1>1, <1>2, TypeCorrect, PTL DEF Spec

\* claim(): whatever managers publish again and whichever jobs race, at most
\* one job runs an occurrence.
THEOREM OccurrenceRunsOnce == Spec => []RunsOnce
<1>1. OccurrenceInv => RunsOnce
  BY DEF OccurrenceInv, RunsOnce
<1> QED
  BY <1>1, OccurrenceInvariant, PTL

\* isDuplicateOccurrence: overlapping managers record a due time at most once,
\* and one of two due times with the same local time.
THEOREM OccurrenceRecordedOnce == Spec => []RecordedOnce
<1>1. OccurrenceInv => RecordedOnce
  BY DEF OccurrenceInv, RecordedOnce
<1> QED
  BY <1>1, OccurrenceInvariant, PTL

\* recoverUnstartedOccurrence: a missed occurrence is reported once and is
\* never run, before or after the report.
THEOREM OccurrenceMissedIsFinal == Spec => []MissedIsFinal
<1>1. OccurrenceInv => MissedIsFinal
  BY DEF OccurrenceInv, MissedIsFinal
<1> QED
  BY <1>1, OccurrenceInvariant, PTL

-----------------------------------------------------------------------------
(* The overlap lock. *)

\* A job that started under the overlap lock still holds it.
OverlapInv ==
    Overlap /\ LockOutlives =>
        \A j \in Jobs : jstate[j] \in {"started", "running"} => lock = j

LEMMA OverlapQuiet ==
    ASSUME OverlapInv, UNCHANGED lock,
           \A j \in Jobs : jstate'[j] \in {"started", "running"} =>
                             jstate[j] \in {"started", "running"}
    PROVE  OverlapInv'
  BY DEF OverlapInv

LEMMA OverlapJob ==
    ASSUME TypeOK, OverlapInv, NEW j \in Jobs, JobStep(j) \/ Lose(j) \/ Kill(j)
    PROVE  OverlapInv'
<1> USE DeliveryAssumption DEF OverlapInv, TypeOK
<1>1. CASE Take(j)
  BY <1>1 DEF Take, SetJob
<1>2. CASE Skip(j)
  BY <1>2 DEF Skip, FreeJob
<1>3. CASE Claim(j)
  <2>1. CASE row[jobOf[j]] \in Unclaimed
    BY <1>3, <2>1 DEF Claim, SetJob
  <2>2. CASE row[jobOf[j]] \notin Unclaimed
    BY <1>3, <2>2 DEF Claim, FreeJob, ReleaseLock
  <2> QED BY <2>1, <2>2
<1>4. CASE Complete(j)
  BY <1>4 DEF Complete, FreeJob, ReleaseLock
<1>5. CASE Fail(j)
  BY <1>5 DEF Fail, FreeJob
<1>6. CASE Lose(j)
  BY <1>6 DEF Lose, FreeJob
<1>7. CASE Kill(j)
  BY <1>7 DEF Kill, SetJob
<1> QED
  BY <1>1, <1>2, <1>3, <1>4, <1>5, <1>6, <1>7 DEF JobStep

LEMMA OverlapManager ==
    ASSUME TypeOK, OverlapInv, NEW m \in Managers, ManagerStart(m) \/ ManagerStep(m)
    PROVE  OverlapInv'
<1>1. CASE Publish(m)
  BY <1>1, OverlapQuiet DEF Publish, TypeOK
<1>2. CASE ~ Publish(m)
  <2>1. UNCHANGED jobVars
    BY <1>2 DEF ManagerStart, ManagerStep, ManagerNext, Decide, Move, FailInterrupted,
       PublishSkipped, PublishFails, MarkEnqueued, Record, RecordSkipped, ManagerStop
  <2> QED
    BY <2>1, OverlapQuiet DEF jobVars
<1> QED
  BY <1>1, <1>2

\* withoutOverlapping: two runs of a schedule with an overlap lock never run at once,
\* provided that the lock outlives the job that holds it.
THEOREM RunsDoNotOverlap == Spec => []NoOverlap
<1>1. Init => OverlapInv
  BY DEF Init, OverlapInv
<1>2. TypeOK /\ OverlapInv /\ [Next]_vars => OverlapInv'
  <2> SUFFICES ASSUME TypeOK, OverlapInv, [Next]_vars PROVE OverlapInv'
    OBVIOUS
  <2>1. CASE \E j \in Jobs : JobStep(j) \/ Lose(j) \/ Kill(j)
    BY <2>1, OverlapJob
  <2>2. CASE \E m \in Managers : ManagerStart(m) \/ ManagerStep(m)
    BY <2>2, OverlapManager
  <2>3. CASE LockExpires
    BY <2>3 DEF LockExpires, OverlapInv
  <2>4. CASE Tick \/ DeleteResource \/ DeleteOld \/ (\E o \in Slots : Age(o))
               \/ UNCHANGED vars
    BY <2>4, OverlapQuiet DEF Tick, DeleteResource, DeleteOld, Age, vars, jobVars
  <2> QED
    BY <2>1, <2>2, <2>3, <2>4 DEF Next
<1>3. OverlapInv => NoOverlap
  BY DEF OverlapInv, NoOverlap
<1> QED
  BY <1>1, <1>2, <1>3, TypeCorrect, PTL DEF Spec


-----------------------------------------------------------------------------
(* The refinement of OccurrenceLedger. *)

\* An occurrence after the last recorded one has no row, only a claimed or closed
\* row has a claim token, and a manager only handles occurrences that have a row.
LedgerInv ==
    /\ \A o \in Slots : o > lastFor => row[o] = "none"
    /\ \A o \in Slots : row[o] \in {"none", "deleted"} \cup Unclaimed => token[o] = NoJob
    /\ \A m \in Managers : \A o \in Slots : o \in todo[m] \/ o = cur[m] => row[o] # "none"

\* A step that moves rows: each stays, or it may not become one that has none.
LEMMA LedgerInvRows ==
    ASSUME TypeOK, LedgerInv, lastFor' = lastFor,
           \A o \in Slots :
              /\ row'[o] = "none" <=> row[o] = "none"
              /\ \/ token'[o] = NoJob
                 \/ /\ token'[o] = token[o]
                    /\ row'[o] \in {"deleted"} \cup Unclaimed
                         => row[o] \in {"none", "deleted"} \cup Unclaimed
                 \/ row'[o] \in {"claimed", "failed", "skipped"},
           \A m \in Managers : \A o \in Slots :
              o \in todo'[m] \/ o = cur'[m] => o \in todo[m] \/ o = cur[m] \/ row[o] # "none"
    PROVE  LedgerInv'
<1>1. \A o \in Slots : o > lastFor' => row'[o] = "none"
  BY DEF LedgerInv
<1>2. ASSUME NEW o \in Slots, row'[o] \in {"none", "deleted"} \cup Unclaimed
      PROVE  token'[o] = NoJob
  BY <1>2 DEF LedgerInv, Unclaimed
<1>3. ASSUME NEW m \in Managers, NEW o \in Slots, o \in todo'[m] \/ o = cur'[m]
      PROVE  row'[o] # "none"
  BY <1>3 DEF LedgerInv
<1> QED BY <1>1, <1>2, <1>3 DEF LedgerInv


LEMMA LedgerInvManager ==
    ASSUME TypeOK, LedgerInv, NEW m \in Managers, ManagerStart(m) \/ ManagerStep(m)
    PROVE  LedgerInv'
<1> USE DEF rowVars
<1>a. ASSUME UNCHANGED <<cur, todo>>
             \/ (todo' = todo /\ cur' = [cur EXCEPT ![m] = 0])
      PROVE  \A n \in Managers : \A o \in Slots :
                o \in todo'[n] \/ o = cur'[n] => o \in todo[n] \/ o = cur[n] \/ row[o] # "none"
  BY <1>a DEF TypeOK, Slots
<1>1. CASE ManagerStart(m)
  <2>1. UNCHANGED <<lastFor, row, token, cur>>
    BY <1>1 DEF ManagerStart
  <2>2. todo' = [todo EXCEPT ![m] = {o \in oldEnqueued : row[o] = "enqueued"}]
    BY <1>1 DEF ManagerStart
  <2> QED BY <2>1, <2>2, LedgerInvRows DEF TypeOK
<1>2. CASE ManagerNext(m)
  <2>1. UNCHANGED <<lastFor, row, token>>
    BY <1>2 DEF ManagerNext
  <2>2. PICK o \in todo[m] : /\ cur' = [cur EXCEPT ![m] = o]
                             /\ todo' = [todo EXCEPT ![m] = @ \ {o}]
    BY <1>2 DEF ManagerNext
  <2> QED BY <2>1, <2>2, LedgerInvRows DEF TypeOK
<1>3. CASE Decide(m) \/ Publish(m)
  BY <1>3, LedgerInvRows DEF Decide, Publish
<1>4. CASE PublishFails(m)
  BY <1>4, <1>a, LedgerInvRows DEF PublishFails, NextItem
<1>5. CASE ManagerStop(m)
  <2>1. \A n \in Managers : /\ todo'[n] = todo[n] \/ todo'[n] = {}
                            /\ cur'[n] = cur[n] \/ cur'[n] = 0
    BY <1>5 DEF ManagerStop, TypeOK
  <2>2. 0 \notin Slots
    BY DEF Slots
  <2>3. UNCHANGED <<lastFor, row, token>>
    BY <1>5 DEF ManagerStop
  <2> QED BY <2>1, <2>2, <2>3, LedgerInvRows
<1>6. CASE Move(m)
  <2>1. /\ UNCHANGED <<lastFor, token>>
        /\ UNCHANGED <<cur, todo>> \/ (todo' = todo /\ cur' = [cur EXCEPT ![m] = 0])
    BY <1>6 DEF Move, NextItem
  <2>2. CASE StillUnstarted(m)
    <3>1. row[cur[m]] \in Unclaimed
      BY <2>2 DEF StillUnstarted, Unclaimed
    <3>2. PICK s \in {"pending", "failed"} : row' = [row EXCEPT ![cur[m]] = s]
      BY <1>6, <2>2 DEF Move
    <3> QED BY <2>1, <3>1, <3>2, <1>a, LedgerInvRows DEF TypeOK, Unclaimed
  <2>3. CASE ~ StillUnstarted(m)
    BY <1>6, <2>1, <2>3, <1>a, LedgerInvRows DEF Move
  <2> QED BY <2>2, <2>3
<1>7. CASE FailInterrupted(m)
  <2>1. PICK dead \in SUBSET {o \in Slots : Interrupted(o)} :
          row' = [o \in Slots |-> IF o \in dead THEN "failed" ELSE row[o]]
    BY <1>7 DEF FailInterrupted
  <2>2. \A o \in Slots : \/ row'[o] = row[o]
                         \/ row'[o] = "failed" /\ row[o] = "claimed"
    BY <2>1 DEF Interrupted
  <2>3. /\ UNCHANGED <<lastFor, token, cur>>
        /\ todo' = [todo EXCEPT ![m] = {o \in Slots : row[o] = "pending"}]
    BY <1>7 DEF FailInterrupted
  <2> QED BY <2>2, <2>3, LedgerInvRows DEF TypeOK
<1>8. CASE PublishSkipped(m)
  <2>1. /\ UNCHANGED <<lastFor, token, todo>> /\ cur' = [cur EXCEPT ![m] = 0]
        /\ row' = [row EXCEPT ![cur[m]] = IF @ = "deleted" THEN @ ELSE "skipped"]
    BY <1>8 DEF PublishSkipped, NextItem
  <2>2. \A o \in Slots : row'[o] = row[o] \/ (row'[o] = "skipped" /\ row[o] # "none")
    BY <2>1 DEF LedgerInv, TypeOK
  <2> QED BY <2>1, <2>2, <1>a, LedgerInvRows
<1>9. CASE MarkEnqueued(m)
  <2>1. UNCHANGED <<lastFor, token, todo>> /\ cur' = [cur EXCEPT ![m] = 0]
    BY <1>9 DEF MarkEnqueued, NextItem
  <2>2. \A o \in Slots : row'[o] = row[o] \/ (row'[o] = "enqueued" /\ row[o] = "pending")
    BY <1>9 DEF MarkEnqueued, TypeOK
  <2> QED BY <2>1, <2>2, <1>a, LedgerInvRows DEF Unclaimed
<1>10. ASSUME NEW o \in Slots, ~ IsDuplicate(o), lastFor' = o, token' = token,
              row' = row \/ row' = [row EXCEPT ![o] = "pending"], todo' = todo,
              cur' = cur \/ (cur' = [cur EXCEPT ![m] = o] /\ row'[o] = "pending")
       PROVE  LedgerInv'
  <2>1. o > lastFor
    BY <1>10, DeliveryAssumption DEF TypeOK, IsDuplicate, Slots
  <2>2. row[o] = "none" /\ token[o] = NoJob
    BY <2>1 DEF LedgerInv
  <2>3. ASSUME NEW q \in Slots, q > o PROVE row'[q] = "none"
    <3>1. q > lastFor /\ q # o
      BY <2>1, <2>3, DeliveryAssumption DEF TypeOK, Slots
    <3> QED BY <1>10, <3>1 DEF LedgerInv, TypeOK
  <2>4. \A q \in Slots : row'[q] = row[q] \/ (q = o /\ row'[q] = "pending")
    BY <1>10 DEF TypeOK
  <2>5. ASSUME NEW q \in Slots, row'[q] \in {"none", "deleted"} \cup Unclaimed
        PROVE  token'[q] = NoJob
    BY <1>10, <2>2, <2>4, <2>5 DEF LedgerInv
  <2>6. ASSUME NEW n \in Managers, NEW q \in Slots, q \in todo'[n] \/ q = cur'[n]
        PROVE  row'[q] # "none"
    BY <1>10, <2>4, <2>6 DEF LedgerInv, TypeOK
  <2> QED BY <1>10, <2>3, <2>5, <2>6 DEF LedgerInv
<1>11. CASE Record(m)
  <2>1. due[m] \in Slots /\ row' = [row EXCEPT ![due[m]] = "pending"]
    BY <1>11 DEF Record
  <2>2. row'[due[m]] = "pending"
    BY <2>1 DEF TypeOK
  <2> QED BY <1>11, <2>1, <2>2, <1>10 DEF Record
<1>12. CASE RecordSkipped(m)
  BY <1>12, <1>10 DEF RecordSkipped
<1> QED
  BY <1>1, <1>2, <1>3, <1>4, <1>5, <1>6, <1>7, <1>8, <1>9, <1>11, <1>12 DEF ManagerStep


LEMMA LedgerInvJob ==
    ASSUME TypeOK, LedgerInv, NEW j \in Jobs, JobStep(j) \/ Lose(j) \/ Kill(j)
    PROVE  LedgerInv'
<1> USE DEF rowVars, mgrVars
<1>1. CASE Take(j) \/ Lose(j) \/ Kill(j)
  BY <1>1, LedgerInvRows DEF Take, Lose, Kill
<1>2. CASE Skip(j)
  <2>1. UNCHANGED <<lastFor, token, mgrVars>>
    BY <1>2 DEF Skip
  <2>2. \A o \in Slots : row'[o] = row[o] \/ (row'[o] = "skipped" /\ row[o] \in Unclaimed)
    BY <1>2 DEF Skip, TypeOK
  <2> QED BY <2>1, <2>2, LedgerInvRows DEF Unclaimed
<1>3. CASE Claim(j)
  <2>1. UNCHANGED <<lastFor, mgrVars>>
    BY <1>3 DEF Claim
  <2>2. CASE row[jobOf[j]] \in Unclaimed
    <3>1. /\ row' = [row EXCEPT ![jobOf[j]] = "claimed"]
          /\ token' = [token EXCEPT ![jobOf[j]] = j]
      BY <1>3, <2>2 DEF Claim
    <3>2. \A o \in Slots : \/ row'[o] = row[o] /\ token'[o] = token[o]
                           \/ row'[o] = "claimed" /\ row[o] \in Unclaimed
      BY <2>2, <3>1 DEF TypeOK
    <3> QED BY <2>1, <3>2, LedgerInvRows DEF Unclaimed
  <2>3. CASE row[jobOf[j]] \notin Unclaimed
    <3>1. UNCHANGED <<row, token>>
      BY <1>3, <2>3 DEF Claim
    <3> QED BY <2>1, <3>1, LedgerInvRows
  <2> QED BY <2>2, <2>3
<1>4. CASE Complete(j)
  <2>1. UNCHANGED <<lastFor, mgrVars>>
    BY <1>4 DEF Complete
  <2>2. CASE token[jobOf[j]] = j /\ DeleteRow(jobOf[j])
    <3>1. ASSUME NEW o \in Slots
          PROVE  \/ row'[o] = row[o] /\ token'[o] = token[o]
                 \/ row'[o] = "deleted" /\ row[o] # "none" /\ token'[o] = NoJob
      BY <2>2, DeliveryAssumption DEF DeleteRow, TypeOK, LedgerInv
    <3> QED BY <2>1, <3>1, LedgerInvRows
  <2>3. CASE UNCHANGED <<row, token>>
    BY <2>1, <2>3, LedgerInvRows
  <2> QED BY <1>4, <2>2, <2>3 DEF Complete
<1>5. CASE Fail(j)
  <2>1. UNCHANGED <<lastFor, token, mgrVars>>
    BY <1>5 DEF Fail
  <2>2. ASSUME NEW o \in Slots
        PROVE  row'[o] = row[o] \/ (row'[o] = "failed" /\ row[o] # "none")
    BY <1>5, DeliveryAssumption DEF Fail, TypeOK, LedgerInv
  <2> QED BY <2>1, <2>2, LedgerInvRows
<1> QED BY <1>1, <1>2, <1>3, <1>4, <1>5 DEF JobStep

LEMMA LedgerInvWorld ==
    ASSUME TypeOK, LedgerInv,
           Tick \/ DeleteResource \/ LockExpires \/ DeleteOld
             \/ (\E o \in Slots : Age(o)) \/ UNCHANGED vars
    PROVE  LedgerInv'
<1> USE DEF rowVars, mgrVars
<1>1. CASE Tick \/ DeleteResource \/ LockExpires \/ (\E o \in Slots : Age(o)) \/ UNCHANGED vars
  <2>1. UNCHANGED <<lastFor, row, token, todo, cur>>
    BY <1>1 DEF Tick, DeleteResource, LockExpires, Age, vars
  <2> QED BY <2>1, LedgerInvRows
<1>2. CASE DeleteOld
  <2>1. UNCHANGED <<lastFor, mgrVars>>
    BY <1>2 DEF DeleteOld
  <2>2. PICK q \in Slots : \/ row[q] \in {"failed", "skipped"} /\ DeleteRow(q)
                           \/ /\ Interrupted(q)
                              /\ row' = [row EXCEPT ![q] = "failed"]
                              /\ token' = token
    BY <1>2 DEF DeleteOld
  <2>3. ASSUME NEW o \in Slots
        PROVE  \/ row'[o] = row[o] /\ token'[o] = token[o]
               \/ row'[o] = "deleted" /\ row[o] # "none" /\ token'[o] = NoJob
               \/ row'[o] = "failed" /\ row[o] # "none" /\ token'[o] = token[o]
    BY <2>2 DEF DeleteRow, Interrupted, TypeOK
  <2> QED BY <2>1, <2>3, LedgerInvRows
<1> QED BY <1>1, <1>2

LEMMA LedgerInvariant == Spec => []LedgerInv
<1>1. Init => LedgerInv
  BY DEF Init, LedgerInv, Unclaimed, Slots
<1>2. TypeOK /\ LedgerInv /\ [Next]_vars => LedgerInv'
  BY LedgerInvManager, LedgerInvJob, LedgerInvWorld DEF Next
<1> QED BY <1>1, <1>2, TypeCorrect, PTL DEF Spec


\* The status of a row and the state of the occurrence.
LEMMA Labels ==
    /\ LedgerLabel("none") = "none"
    /\ \A s \in Unclaimed : LedgerLabel(s) = "waiting"
    /\ LedgerLabel("claimed") = "taken"
    /\ \A s \in {"failed", "skipped", "deleted"} : LedgerLabel(s) = "closed"
  BY DEF LedgerLabel, Unclaimed

\* A step that only closes occurrences or keeps what their rows stand for.
LEMMA LedgerClose ==
    ASSUME UNCHANGED <<lastFor, ran, missed>>,
           \A o \in Slots : \/ LedgerLabel(row'[o]) = LedgerLabel(row[o])
                            \/ /\ LedgerLabel(row[o]) \in {"waiting", "taken"}
                               /\ LedgerLabel(row'[o]) = "closed"
    PROVE  [Ledger!Next]_(Ledger!ledgerVars)
<1> DEFINE S == {o \in Slots : LedgerLabel(row'[o]) # LedgerLabel(row[o])}
<1>1. \A o \in S : LedgerState[o] \in {"waiting", "taken"}
  BY DEF LedgerState
<1>2. LedgerState' = [o \in Slots |-> IF o \in S THEN "closed" ELSE LedgerState[o]]
  BY DEF LedgerState
<1>3. Ledger!Close(S)
  BY <1>1, <1>2 DEF Ledger!Close
<1>4. S \in SUBSET Slots
  OBVIOUS
<1> HIDE DEF S
<1> QED BY <1>3, <1>4 DEF Ledger!Next

\* A step that records an occurrence.
LEMMA LedgerRecord ==
    ASSUME TypeOK, LedgerInv, NEW o \in Slots, ~ IsDuplicate(o), lastFor' = o,
           UNCHANGED <<ran, missed>>,
           row' = row \/ row' = [row EXCEPT ![o] = "pending"]
    PROVE  [Ledger!Next]_(Ledger!ledgerVars)
<1>1. Ledger!IsNew(o) /\ o > lastFor
  BY DeliveryAssumption DEF Ledger!IsNew, IsDuplicate, TypeOK, Slots
<1>2. CASE row' = row
  <2>1. LedgerState' = LedgerState
    BY <1>2 DEF LedgerState
  <2>2. Ledger!Pass(o)
    BY <1>1, <2>1 DEF Ledger!Pass
  <2> QED BY <2>2 DEF Ledger!Next
<1>3. CASE row' = [row EXCEPT ![o] = "pending"]
  <2>1. LedgerState[o] = "none"
    BY <1>1, Labels DEF LedgerInv, LedgerState
  <2>2. LedgerState' = [LedgerState EXCEPT ![o] = "waiting"]
    <3>1. \A q \in Slots : row'[q] = IF q = o THEN "pending" ELSE row[q]
      BY <1>3 DEF TypeOK
    <3>2. LedgerLabel("pending") = "waiting"
      BY Labels DEF Unclaimed
    <3>3. \A q \in Slots : LedgerLabel(row'[q]) = IF q = o THEN "waiting" ELSE LedgerLabel(row[q])
      BY <3>1, <3>2
    <3> QED BY <3>3 DEF LedgerState
  <2>3. Ledger!Record(o)
    BY <1>1, <2>1, <2>2 DEF Ledger!Record
  <2> QED BY <2>3 DEF Ledger!Next
<1> QED BY <1>2, <1>3

\* A step that moves one occurrence that waits.
LEMMA LedgerMove ==
    ASSUME TypeOK, NEW o \in Slots, row[o] \in Unclaimed,
           NEW s \in {"claimed", "failed"}, row' = [row EXCEPT ![o] = s]
    PROVE  /\ LedgerState[o] = "waiting"
           /\ LedgerState' = [LedgerState EXCEPT ![o] = LedgerLabel(s)]
<1>1. LedgerState[o] = "waiting"
  BY Labels DEF LedgerState
<1>2. \A q \in Slots : row'[q] = IF q = o THEN s ELSE row[q]
  BY DEF TypeOK
<1>3. \A q \in Slots : LedgerLabel(row'[q]) = IF q = o THEN LedgerLabel(s) ELSE LedgerLabel(row[q])
  BY <1>2
<1> QED BY <1>1, <1>3 DEF LedgerState


\* An update outside the domain of a function leaves it alone.
LEMMA ExceptOutside ==
    ASSUME NEW S, NEW T, NEW f \in [S -> T], NEW x, x \notin S, NEW v
    PROVE  [f EXCEPT ![x] = v] = f
  OBVIOUS

LEMMA LedgerManager ==
    ASSUME TypeOK, LedgerInv, NEW m \in Managers, ManagerStart(m) \/ ManagerStep(m)
    PROVE  [Ledger!Next]_(Ledger!ledgerVars)
<1> USE DEF rowVars, countVars
<1>1. CASE ManagerStart(m) \/ ManagerNext(m) \/ Decide(m) \/ PublishFails(m)
             \/ ManagerStop(m) \/ Publish(m)
  <2>1. UNCHANGED <<lastFor, row, ran, missed>>
    BY <1>1 DEF ManagerStart, ManagerNext, Decide, PublishFails, ManagerStop, Publish
  <2> QED BY <2>1, LedgerClose
<1>2. CASE Move(m)
  <2>1. UNCHANGED <<lastFor, ran>>
    BY <1>2 DEF Move
  <2>2. CASE ~ StillUnstarted(m)
    <3>1. UNCHANGED <<row, missed>>
      BY <1>2, <2>2 DEF Move
    <3> QED BY <2>1, <3>1, LedgerClose
  <2>3. CASE StillUnstarted(m) /\ late[m]
    <3>1. row[cur[m]] \in Unclaimed
      BY <2>3 DEF StillUnstarted, Unclaimed
    <3>2. row' = [row EXCEPT ![cur[m]] = "pending"] /\ missed' = missed
      BY <1>2, <2>3 DEF Move
    <3>3. \A o \in Slots : \/ row'[o] = row[o]
                           \/ row'[o] \in Unclaimed /\ row[o] \in Unclaimed
      BY <3>1, <3>2 DEF TypeOK, Unclaimed
    <3>4. \A o \in Slots : LedgerLabel(row'[o]) = LedgerLabel(row[o])
      BY <3>3, Labels
    <3> QED BY <2>1, <3>2, <3>4, LedgerClose
  <2>4. CASE StillUnstarted(m) /\ ~ late[m]
    <3>1. row[cur[m]] \in Unclaimed
      BY <2>4 DEF StillUnstarted, Unclaimed
    <3>2. /\ row' = [row EXCEPT ![cur[m]] = "failed"]
          /\ missed' = missed \/ missed' = [missed EXCEPT ![cur[m]] = @ + 1]
      BY <1>2, <2>4 DEF Move
    <3>3. CASE cur[m] \notin Slots
      <4>1. row' = row /\ missed' = missed
        BY <3>2, <3>3, ExceptOutside DEF TypeOK
      <4> QED BY <2>1, <4>1, LedgerClose
    <3>4. CASE cur[m] \in Slots
      <4>1. /\ LedgerState[cur[m]] = "waiting"
            /\ LedgerState' = [LedgerState EXCEPT ![cur[m]] = LedgerLabel("failed")]
        BY <3>1, <3>2, <3>4, LedgerMove
      <4>2. LedgerLabel("failed") = "closed"
        BY Labels
      <4>3. CASE missed' = [missed EXCEPT ![cur[m]] = @ + 1]
        <5>1. Ledger!Miss(cur[m])
          BY <2>1, <4>1, <4>2, <4>3 DEF Ledger!Miss
        <5> QED BY <3>4, <5>1 DEF Ledger!Next
      <4>4. CASE missed' = missed
        <5>1. \A o \in Slots : row'[o] = row[o]
                               \/ (row[o] \in Unclaimed /\ row'[o] = "failed")
          BY <3>1, <3>2 DEF TypeOK
        <5>2. \A o \in Slots : \/ LedgerLabel(row'[o]) = LedgerLabel(row[o])
                               \/ /\ LedgerLabel(row[o]) \in {"waiting", "taken"}
                                  /\ LedgerLabel(row'[o]) = "closed"
          BY <5>1, Labels
        <5> QED BY <2>1, <4>4, <5>2, LedgerClose
      <4> QED BY <3>2, <4>3, <4>4
    <3> QED BY <3>3, <3>4
  <2> QED BY <2>2, <2>3, <2>4
<1>3. CASE FailInterrupted(m)
  <2>1. UNCHANGED <<lastFor, ran, missed>>
    BY <1>3 DEF FailInterrupted
  <2>2. \A o \in Slots : row'[o] = row[o] \/ (row[o] = "claimed" /\ row'[o] = "failed")
    BY <1>3 DEF FailInterrupted, Interrupted
  <2>3. \A o \in Slots : \/ LedgerLabel(row'[o]) = LedgerLabel(row[o])
                         \/ /\ LedgerLabel(row[o]) \in {"waiting", "taken"}
                            /\ LedgerLabel(row'[o]) = "closed"
    BY <2>2, Labels
  <2> QED BY <2>1, <2>3, LedgerClose
<1>4. CASE PublishSkipped(m)
  <2>1. UNCHANGED <<lastFor, ran, missed>>
    BY <1>4 DEF PublishSkipped
  <2>2. \A o \in Slots : row'[o] = row[o] \/ (row[o] # "none" /\ row'[o] = "skipped")
    BY <1>4 DEF PublishSkipped, LedgerInv, TypeOK
  <2>3. \A o \in Slots : \/ LedgerLabel(row'[o]) = LedgerLabel(row[o])
                         \/ /\ LedgerLabel(row[o]) \in {"waiting", "taken"}
                            /\ LedgerLabel(row'[o]) = "closed"
    BY <2>2, Labels DEF TypeOK, Open
  <2> QED BY <2>1, <2>3, LedgerClose
<1>5. CASE MarkEnqueued(m)
  <2>1. UNCHANGED <<lastFor, ran, missed>>
    BY <1>5 DEF MarkEnqueued
  <2>2. \A o \in Slots : row'[o] = row[o] \/ (row[o] = "pending" /\ row'[o] = "enqueued")
    BY <1>5 DEF MarkEnqueued, TypeOK
  <2>3. \A o \in Slots : LedgerLabel(row'[o]) = LedgerLabel(row[o])
    BY <2>2, Labels DEF Unclaimed
  <2> QED BY <2>1, <2>3, LedgerClose
<1>6. CASE Record(m)
  BY <1>6, LedgerRecord DEF Record
<1>7. CASE RecordSkipped(m)
  BY <1>7, LedgerRecord DEF RecordSkipped
<1> QED
  BY <1>1, <1>2, <1>3, <1>4, <1>5, <1>6, <1>7 DEF ManagerStep

LEMMA LedgerJob ==
    ASSUME TypeOK, LedgerInv, NEW j \in Jobs, JobStep(j) \/ Lose(j) \/ Kill(j)
    PROVE  [Ledger!Next]_(Ledger!ledgerVars)
<1> USE DEF rowVars, countVars
<1>a. ASSUME UNCHANGED <<lastFor, ran, missed>>,
             \A o \in Slots : \/ row'[o] = row[o]
                              \/ row[o] # "none" /\ row'[o] \in {"failed", "skipped", "deleted"}
      PROVE  [Ledger!Next]_(Ledger!ledgerVars)
  <2>1. \A o \in Slots : \/ LedgerLabel(row'[o]) = LedgerLabel(row[o])
                         \/ /\ LedgerLabel(row[o]) \in {"waiting", "taken"}
                            /\ LedgerLabel(row'[o]) = "closed"
    BY <1>a, Labels DEF TypeOK, Open
  <2> QED BY <1>a, <2>1, LedgerClose
<1>1. CASE Take(j) \/ Lose(j) \/ Kill(j)
  <2>1. UNCHANGED <<lastFor, row, ran, missed>>
    BY <1>1 DEF Take, Lose, Kill
  <2> QED BY <2>1, LedgerClose
<1>2. CASE Skip(j)
  <2>1. UNCHANGED <<lastFor, ran, missed>>
    BY <1>2 DEF Skip
  <2>2. \A o \in Slots : row'[o] = row[o] \/ (row[o] \in Unclaimed /\ row'[o] = "skipped")
    BY <1>2 DEF Skip, TypeOK
  <2> QED BY <1>a, <2>1, <2>2 DEF Unclaimed
<1>3. CASE Claim(j)
  <2>1. UNCHANGED <<lastFor, missed>>
    BY <1>3 DEF Claim
  <2>2. CASE row[jobOf[j]] \notin Unclaimed
    <3>1. UNCHANGED <<row, ran>>
      BY <1>3, <2>2 DEF Claim
    <3> QED BY <2>1, <3>1, LedgerClose
  <2>3. CASE row[jobOf[j]] \in Unclaimed
    <3>1. /\ row' = [row EXCEPT ![jobOf[j]] = "claimed"]
          /\ ran' = [ran EXCEPT ![jobOf[j]] = @ + 1]
      BY <1>3, <2>3 DEF Claim
    <3>2. CASE jobOf[j] \notin Slots
      <4>1. row' = row /\ ran' = ran
        BY <3>1, <3>2, ExceptOutside DEF TypeOK
      <4> QED BY <2>1, <4>1, LedgerClose
    <3>3. CASE jobOf[j] \in Slots
      <4>1. /\ LedgerState[jobOf[j]] = "waiting"
            /\ LedgerState' = [LedgerState EXCEPT ![jobOf[j]] = LedgerLabel("claimed")]
        BY <2>3, <3>1, <3>3, LedgerMove
      <4>2. LedgerLabel("claimed") = "taken"
        BY Labels
      <4>3. Ledger!Take(jobOf[j])
        BY <2>1, <3>1, <4>1, <4>2 DEF Ledger!Take
      <4> QED BY <3>3, <4>3 DEF Ledger!Next
    <3> QED BY <3>2, <3>3
  <2> QED BY <2>2, <2>3
<1>4. CASE Complete(j)
  <2>1. UNCHANGED <<lastFor, ran, missed>>
    BY <1>4 DEF Complete
  <2>2. ASSUME NEW o \in Slots
        PROVE  row'[o] = row[o] \/ (row[o] # "none" /\ row'[o] = "deleted")
    BY <1>4, DeliveryAssumption DEF Complete, DeleteRow, TypeOK, LedgerInv
  <2> QED BY <1>a, <2>1, <2>2
<1>5. CASE Fail(j)
  <2>1. UNCHANGED <<lastFor, ran, missed>>
    BY <1>5 DEF Fail
  <2>2. ASSUME NEW o \in Slots
        PROVE  row'[o] = row[o] \/ (row[o] # "none" /\ row'[o] = "failed")
    BY <1>5, DeliveryAssumption DEF Fail, TypeOK, LedgerInv
  <2> QED BY <1>a, <2>1, <2>2
<1> QED BY <1>1, <1>2, <1>3, <1>4, <1>5 DEF JobStep

LEMMA LedgerWorld ==
    ASSUME TypeOK,
           Tick \/ DeleteResource \/ LockExpires \/ DeleteOld
             \/ (\E o \in Slots : Age(o)) \/ UNCHANGED vars
    PROVE  [Ledger!Next]_(Ledger!ledgerVars)
<1> USE DEF rowVars, countVars
<1>1. CASE Tick \/ DeleteResource \/ LockExpires \/ (\E o \in Slots : Age(o)) \/ UNCHANGED vars
  <2>1. UNCHANGED <<lastFor, row, ran, missed>>
    BY <1>1 DEF Tick, DeleteResource, LockExpires, Age, vars
  <2> QED BY <2>1, LedgerClose
<1>2. CASE DeleteOld
  <2>1. UNCHANGED <<lastFor, ran, missed>>
    BY <1>2 DEF DeleteOld
  <2>2. \A o \in Slots : \/ row'[o] = row[o]
                         \/ row[o] \in {"failed", "skipped"} /\ row'[o] = "deleted"
                         \/ row[o] = "claimed" /\ row'[o] = "failed"
    BY <1>2 DEF DeleteOld, DeleteRow, Interrupted, TypeOK
  <2>3. \A o \in Slots : \/ LedgerLabel(row'[o]) = LedgerLabel(row[o])
                         \/ /\ LedgerLabel(row[o]) \in {"waiting", "taken"}
                            /\ LedgerLabel(row'[o]) = "closed"
    BY <2>2, Labels
  <2> QED BY <2>1, <2>3, LedgerClose
<1> QED BY <1>1, <1>2

\* ScheduledJobDeliveryService keeps the promise of OccurrenceLedger through any
\* number of overlapping managers, duplicate and lost jobs, killed workers and
\* clean-ups: an occurrence goes from waiting to taken or closed and never back.
THEOREM DeliveryImplementsLedger == Spec => ImplementsLedger
<1>1. Init => Ledger!Init
  <2>1. Init => LedgerState = [o \in Slots |-> "none"]
    BY Labels DEF Init, LedgerState
  <2> QED BY <2>1 DEF Init, Ledger!Init
<1>2. TypeOK /\ LedgerInv /\ [Next]_vars => [Ledger!Next]_(Ledger!ledgerVars)
  BY LedgerManager, LedgerJob, LedgerWorld DEF Next
<1> QED BY <1>1, <1>2, TypeCorrect, LedgerInvariant, PTL DEF Spec, ImplementsLedger, Ledger!Spec


\* An occurrence is run or reported once in all, and not as long as it waits.
LedgerCounts ==
    /\ ran \in [Slots -> Nat] /\ missed \in [Slots -> Nat]
    /\ \A o \in Slots :
          /\ LedgerState[o] \in {"none", "waiting"} => ran[o] = 0 /\ missed[o] = 0
          /\ ran[o] + missed[o] <= 1

LEMMA LedgerCountsStep ==
    ASSUME LedgerCounts, [Ledger!Next]_(Ledger!ledgerVars)
    PROVE  LedgerCounts'
<1>1. LedgerState = [o \in Slots |-> LedgerState[o]] /\ DOMAIN LedgerState = Slots
  BY DEF LedgerState
<1>2. ASSUME NEW o \in Slots, Ledger!Record(o) PROVE LedgerCounts'
  BY <1>1, <1>2 DEF LedgerCounts, Ledger!Record
<1>3. ASSUME NEW o \in Slots, Ledger!Pass(o) PROVE LedgerCounts'
  BY <1>3 DEF LedgerCounts, Ledger!Pass
<1>4. ASSUME NEW o \in Slots, Ledger!Take(o) PROVE LedgerCounts'
  BY <1>1, <1>4 DEF LedgerCounts, Ledger!Take
<1>5. ASSUME NEW o \in Slots, Ledger!Miss(o) PROVE LedgerCounts'
  BY <1>1, <1>5 DEF LedgerCounts, Ledger!Miss
<1>6. ASSUME NEW S \in SUBSET Slots, Ledger!Close(S) PROVE LedgerCounts'
  BY <1>1, <1>6 DEF LedgerCounts, Ledger!Close
<1>7. CASE UNCHANGED Ledger!ledgerVars
  BY <1>7 DEF LedgerCounts, Ledger!ledgerVars
<1> QED BY <1>2, <1>3, <1>4, <1>5, <1>6, <1>7 DEF Ledger!Next

\* The promise of OccurrenceLedger is strong enough: whatever keeps it runs an
\* occurrence at most once and never runs one that was reported as missed.
THEOREM LedgerIsEnough == ImplementsLedger => [](RunsOnce /\ MissedIsFinal)
<1>1. Ledger!Init => LedgerCounts
  BY DEF Ledger!Init, LedgerCounts
<1>2. LedgerCounts => RunsOnce /\ MissedIsFinal
  BY DEF LedgerCounts, RunsOnce, MissedIsFinal
<1>3. LedgerCounts /\ [Ledger!Next]_(Ledger!ledgerVars) => LedgerCounts'
  BY LedgerCountsStep
<1> QED BY <1>1, <1>2, <1>3, PTL DEF ImplementsLedger, Ledger!Spec
=============================================================================
