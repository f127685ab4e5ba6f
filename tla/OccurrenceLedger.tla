-------------------------- MODULE OccurrenceLedger --------------------------
(***************************************************************************)
(* What ScheduledJobDeliveryService promises about the occurrences of one  *)
(* schedule: due times are recorded in order, an occurrence that waits is  *)
(* taken by one run, reported as missed or closed, and nothing makes a     *)
(* taken or closed one wait again.  ScheduledDelivery implements it.       *)
(***************************************************************************)
EXTENDS Naturals

CONSTANTS
    Slots,     \* the due times
    SameLocal  \* those with the local time of the one before

VARIABLES
    last,    \* the latest due time recorded
    state,   \* "none", "waiting", "taken" or "closed"
    runs,    \* how often an occurrence was run
    reports  \* how often it was reported as missed

ledgerVars == <<last, state, runs, reports>>

Init ==
    /\ last = 0
    /\ state = [o \in Slots |-> "none"]
    /\ runs = [o \in Slots |-> 0]
    /\ reports = [o \in Slots |-> 0]

IsNew(o) == last < o /\ ~ (o \in SameLocal /\ last = o - 1)

\* The occurrence is recorded, to be run.
Record(o) ==
    /\ IsNew(o)
    /\ state[o] = "none"
    /\ last' = o
    /\ state' = [state EXCEPT ![o] = "waiting"]
    /\ UNCHANGED <<runs, reports>>

\* It is recorded as one that is not to be run.
Pass(o) ==
    /\ IsNew(o)
    /\ last' = o
    /\ UNCHANGED <<state, runs, reports>>

Take(o) ==
    /\ state[o] = "waiting"
    /\ state' = [state EXCEPT ![o] = "taken"]
    /\ runs' = [runs EXCEPT ![o] = @ + 1]
    /\ UNCHANGED <<last, reports>>

Miss(o) ==
    /\ state[o] = "waiting"
    /\ state' = [state EXCEPT ![o] = "closed"]
    /\ reports' = [reports EXCEPT ![o] = @ + 1]
    /\ UNCHANGED <<last, runs>>

\* Occurrences are closed: done, failed, skipped or given up.
Close(S) ==
    /\ \A o \in S : state[o] \in {"waiting", "taken"}
    /\ state' = [o \in Slots |-> IF o \in S THEN "closed" ELSE state[o]]
    /\ UNCHANGED <<last, runs, reports>>

Next ==
    \/ \E o \in Slots : Record(o) \/ Pass(o) \/ Take(o) \/ Miss(o)
    \/ \E S \in SUBSET Slots : Close(S)

Spec == Init /\ [][Next]_ledgerVars
=============================================================================
