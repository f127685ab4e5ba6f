---------------------------- MODULE TerminalSlot ----------------------------
(***************************************************************************)
(* What the terminal server promises to one browser connection: a request  *)
(* for a terminal is answered at most once, either with a process or with  *)
(* a refusal, and a process starts only when no other one of the connection *)
(* is running.  TerminalSession implements this specification.              *)
(***************************************************************************)

CONSTANTS Requests, NoPty

VARIABLES running, answered

slotVars == <<running, answered>>

Init ==
    /\ running = NoPty
    /\ answered = {}

Start(r) ==
    /\ running = NoPty
    /\ r \notin answered
    /\ running' = r
    /\ answered' = answered \cup {r}

Refuse(R) ==
    /\ R \cap answered = {}
    /\ answered' = answered \cup R
    /\ UNCHANGED running

Exit ==
    /\ running # NoPty
    /\ running' = NoPty
    /\ UNCHANGED answered

Next ==
    \/ \E r \in Requests : Start(r)
    \/ \E R \in SUBSET Requests : Refuse(R)
    \/ Exit

Spec == Init /\ [][Next]_slotVars
=============================================================================
