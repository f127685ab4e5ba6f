----------------------- MODULE TerminalSessionProofs ------------------------
(***************************************************************************)
(* The safety properties of TerminalSession and its refinement of           *)
(* TerminalSlot, for every number of requests, kill loops and attempts.     *)
(***************************************************************************)
EXTENDS TerminalSession, TLAPS

\* A request waits for its kill loop exactly while the loop runs, so it can
\* neither be lost nor continue twice.
WaitsForItsLoop == \A r \in Requests : req[r] = "replacing" <=> attempts[r] > 0

\* The inductive invariant.
SessionInv ==
    /\ TypeOK
    /\ ActiveIsLive
    /\ HasDeadline
    /\ WaitsForItsLoop

\* The type of the state is an invariant of every single step.
LEMMA TypeStep == TypeOK /\ [Next]_vars => TypeOK'
<1> SUFFICES ASSUME TypeOK, [Next]_vars PROVE TypeOK'
  OBVIOUS
<1> USE SessionAssumption DEF TypeOK, Waiters, Events
<1>a. ASSUME NEW w \in Waiters PROVE Kill(w) \in [Waiters -> 0..MaxAttempts]
  BY <1>a DEF Kill
<1>1. CASE Browser
  <2>1. CASE PeerVanishes BY <2>1 DEF PeerVanishes, ptyVars
  <2>2. CASE Pong BY <2>2 DEF Pong, ptyVars
  <2>3. ASSUME NEW r \in Requests, TerminalToken(r) PROVE TypeOK'
    BY <2>3 DEF TerminalToken, ptyVars, Handled, Rejects, Closed
  <2>4. ASSUME NEW f \in Forces, ForceKill(f) PROVE TypeOK'
    BY <2>4, <1>a DEF ForceKill, ptyVars, connVars
  <2> QED BY <1>1, <2>1, <2>2, <2>3, <2>4 DEF Browser
<1>2. CASE Coolify
  <2>1. CASE UpgradeAccepted BY <2>1 DEF UpgradeAccepted, ptyVars
  <2>2. CASE UpgradeRefused BY <2>2 DEF UpgradeRefused, ptyVars
  <2>3. CASE AuthorizedHosts
    BY <2>3 DEF AuthorizedHosts, ptyVars, Handled, Rejects, Closed
  <2>4. CASE AuthorizedHostsFailed
    BY <2>4 DEF AuthorizedHostsFailed, ptyVars, Closed
  <2>5. ASSUME NEW r \in Requests, TokenRefused(r) PROVE TypeOK'
    BY <2>5 DEF TokenRefused, ptyVars, Closed
  <2>6. ASSUME NEW r \in Requests, TokenRedeemed(r) PROVE TypeOK'
    <3>1. CASE ~inMap
      BY <2>6, <3>1 DEF TokenRedeemed, ptyVars, Closed
    <3>2. CASE inMap /\ isActive
      BY <2>6, <3>2, <1>a DEF TokenRedeemed, ptyVars
    <3>3. CASE inMap /\ ~isActive /\ Spawn(r)
      BY <2>6, <3>3 DEF TokenRedeemed, Spawn
    <3>4. CASE inMap /\ ~isActive /\ CommandRefused
      BY <2>6, <3>4 DEF TokenRedeemed, CommandRefused, Closed
    <3> QED BY <2>6, <3>1, <3>2, <3>3, <3>4 DEF TokenRedeemed
  <2> QED BY <1>2, <2>1, <2>2, <2>3, <2>4, <2>5, <2>6 DEF Coolify
<1>3. CASE Node
  <2>1. CASE SocketClosed BY <2>1, <1>a DEF SocketClosed, ptyVars
  <2>2. CASE SocketError BY <2>2, <1>a DEF SocketError, ptyVars
  <2>3. CASE Heartbeat BY <2>3 DEF Heartbeat, ptyVars
  <2>4. CASE SessionTimeout BY <2>4, <1>a DEF SessionTimeout, connVars
  <2>5. ASSUME NEW p \in Requests, PtyExit(p) PROVE TypeOK'
    BY <2>5 DEF PtyExit, connVars
  <2>6. ASSUME NEW w \in Waiters, KillTick(w) PROVE TypeOK'
    <3>1. CASE KillAgain(w) BY <3>1 DEF KillAgain, connVars, ptyVars
    <3>2. CASE KillSucceeded(w)
      <4>1. CASE w \in Requests /\ Spawn(w)
        BY <3>2, <4>1 DEF KillSucceeded, Spawn
      <4>2. CASE w \in Requests /\ CommandRefused
        BY <3>2, <4>2 DEF KillSucceeded, CommandRefused, Closed
      <4>3. CASE w \notin Requests
        BY <3>2, <4>3 DEF KillSucceeded
      <4> QED BY <3>2, <4>1, <4>2, <4>3 DEF KillSucceeded
    <3>3. CASE KillGaveUp(w) BY <3>3 DEF KillGaveUp, connVars, ptyVars
    <3> QED BY <2>6, <3>1, <3>2, <3>3 DEF KillTick
  <2> QED BY <1>3, <2>1, <2>2, <2>3, <2>4, <2>5, <2>6 DEF Node
<1>4. CASE UNCHANGED vars BY <1>4 DEF vars
<1> QED BY <1>1, <1>2, <1>3, <1>4 DEF Next

\* The initial state is well typed.
LEMMA TypeInit == Init => TypeOK
<1> SUFFICES ASSUME Init PROVE TypeOK
  OBVIOUS
<1>1. req \in [Requests -> {"unsent", "buffered", "redeeming", "replacing", "done"}]
  BY DEF Init
<1>2. attempts \in [Waiters -> 0..MaxAttempts]
  BY SessionAssumption DEF Init
<1>3. QED BY <1>1, <1>2 DEF Init, TypeOK

\* The type invariant of a terminal session holds in every reachable state.
THEOREM TypeCorrect == Spec => []TypeOK
BY TypeInit, TypeStep, PTL DEF Spec

-----------------------------------------------------------------------------
(* One PTY with a deadline, and no lost request                             *)

\* A PTY that is active is a request, so it is not NoPty.
LEMMA ActivePty ==
    ASSUME TypeOK, ActiveIsLive, isActive
    PROVE  pty \in Requests /\ pty # NoPty
BY SessionAssumption DEF TypeOK, ActiveIsLive

\* The steps that touch the PTY: a spawn finds none, an exit is that of the
\* current one, and the timer is cleared only when none runs.
LEMMA PtyStep ==
    ASSUME SessionInv, [Next]_vars
    PROVE  ActiveIsLive' /\ HasDeadline'
<1> USE DEF SessionInv, ActiveIsLive, HasDeadline
<1>0. CASE UNCHANGED ptyVars BY <1>0 DEF ptyVars
<1>s. ASSUME NEW r \in Requests, ~isActive, Spawn(r)
      PROVE  ActiveIsLive' /\ HasDeadline'
  BY <1>s DEF Spawn
<1>c. ASSUME ~isActive, CommandRefused
      PROVE  ActiveIsLive' /\ HasDeadline'
  BY <1>c DEF CommandRefused
<1>1. ASSUME NEW r \in Requests, TokenRedeemed(r)
      PROVE  ActiveIsLive' /\ HasDeadline'
  BY <1>1, <1>0, <1>s, <1>c DEF TokenRedeemed
<1>2. ASSUME NEW p \in Requests, PtyExit(p)
      PROVE  ActiveIsLive' /\ HasDeadline'
  BY <1>2 DEF PtyExit
<1>3. CASE SessionTimeout
  BY <1>3 DEF SessionTimeout
<1>4. ASSUME NEW w \in Waiters, KillTick(w)
      PROVE  ActiveIsLive' /\ HasDeadline'
  <2>1. CASE KillAgain(w) BY <2>1, <1>0 DEF KillAgain
  <2>2. CASE KillSucceeded(w)
    BY <2>2, <1>s, <1>c DEF KillSucceeded
  <2>3. CASE KillGaveUp(w) BY <2>3, <1>0 DEF KillGaveUp
  <2> QED BY <1>4, <2>1, <2>2, <2>3 DEF KillTick
<1>5. CASE Browser
  BY <1>5, <1>0 DEF Browser, PeerVanishes, Pong, TerminalToken, ForceKill
<1>6. CASE Coolify
  BY <1>6, <1>0, <1>1 DEF Coolify, UpgradeAccepted, UpgradeRefused,
     AuthorizedHosts, AuthorizedHostsFailed, TokenRefused
<1>7. CASE Node
  BY <1>7, <1>0, <1>2, <1>3, <1>4 DEF Node, SocketClosed, SocketError, Heartbeat
<1>8. CASE UNCHANGED vars BY <1>8, <1>0 DEF vars, ptyVars
<1> QED BY <1>5, <1>6, <1>7, <1>8 DEF Next

\* The loop of a request starts when the request begins to wait and ends when it
\* goes on.
LEMMA LoopStep ==
    ASSUME SessionInv, [Next]_vars
    PROVE  WaitsForItsLoop'
<1> USE SessionAssumption DEF SessionInv, TypeOK, WaitsForItsLoop, Waiters, Events
<1>0. CASE req' = req /\ attempts' = attempts BY <1>0
<1>k. ASSUME NEW w \in Waiters \ Requests, attempts' = Kill(w), req' = req
      PROVE  WaitsForItsLoop'
  BY <1>k DEF Kill
<1>1. ASSUME NEW r \in Requests, TerminalToken(r) PROVE WaitsForItsLoop'
  BY <1>1 DEF TerminalToken, Handled
<1>2. CASE AuthorizedHosts
  BY <1>2 DEF AuthorizedHosts, Handled
<1>3. ASSUME NEW r \in Requests, TokenRefused(r) PROVE WaitsForItsLoop'
  BY <1>3 DEF TokenRefused
<1>4. ASSUME NEW r \in Requests, TokenRedeemed(r) PROVE WaitsForItsLoop'
  <2>1. CASE inMap /\ isActive
    BY <1>4, <2>1, ActivePty DEF TokenRedeemed, Kill, CanKill
  <2>2. CASE ~(inMap /\ isActive)
    BY <1>4, <2>2 DEF TokenRedeemed
  <2> QED BY <2>1, <2>2
<1>5. ASSUME NEW w \in Waiters, KillTick(w) PROVE WaitsForItsLoop'
  <2>1. CASE KillAgain(w)
    BY <2>1 DEF KillAgain
  <2>2. CASE KillSucceeded(w)
    BY <2>2 DEF KillSucceeded
  <2>3. CASE KillGaveUp(w)
    BY <2>3 DEF KillGaveUp
  <2> QED BY <1>5, <2>1, <2>2, <2>3 DEF KillTick
<1>6. CASE Browser
  <2>1. ASSUME NEW f \in Forces, ForceKill(f) PROVE WaitsForItsLoop'
    BY <2>1, <1>k DEF ForceKill
  <2> QED BY <1>6, <1>0, <1>1, <2>1 DEF Browser, PeerVanishes, Pong
<1>7. CASE Coolify
  BY <1>7, <1>0, <1>2, <1>3, <1>4 DEF Coolify, UpgradeAccepted, UpgradeRefused,
     AuthorizedHostsFailed
<1>8. CASE Node
  <2>1. CASE SocketClosed BY <2>1, <1>k DEF SocketClosed
  <2>2. CASE SocketError BY <2>2, <1>k DEF SocketError
  <2>3. CASE SessionTimeout BY <2>3, <1>k DEF SessionTimeout
  <2>4. CASE Heartbeat BY <2>4, <1>0 DEF Heartbeat
  <2>5. ASSUME NEW p \in Requests, PtyExit(p) PROVE WaitsForItsLoop'
    BY <2>5, <1>0 DEF PtyExit
  <2> QED BY <1>8, <1>5, <2>1, <2>2, <2>3, <2>4, <2>5 DEF Node
<1>9. CASE UNCHANGED vars BY <1>9, <1>0 DEF vars
<1> QED BY <1>6, <1>7, <1>8, <1>9 DEF Next

\* The inductive invariant holds initially and is kept by every step.
LEMMA InvInit == Init => SessionInv
<1> SUFFICES ASSUME Init PROVE SessionInv
  OBVIOUS
<1>1. TypeOK BY TypeInit
<1>2. ActiveIsLive /\ HasDeadline BY DEF Init, ActiveIsLive, HasDeadline
<1>3. WaitsForItsLoop
  BY SessionAssumption DEF Init, WaitsForItsLoop, Waiters
<1> QED BY <1>1, <1>2, <1>3 DEF SessionInv

LEMMA InvStep == SessionInv /\ [Next]_vars => SessionInv'
BY TypeStep, PtyStep, LoopStep DEF SessionInv

LEMMA InvHolds == Spec => []SessionInv
BY InvInit, InvStep, PTL DEF Spec

\* However many requests and kill loops overlap, a session runs at most one PTY
\* and isActive and ptyProcess describe it truthfully.
THEOREM OneLivePty == Spec => []ActiveIsLive
<1>1. SessionInv => ActiveIsLive BY DEF SessionInv
<1>2. QED BY <1>1, InvHolds, PTL

\* A running PTY has a deadline.
THEOREM EveryPtyHasDeadline == Spec => []HasDeadline
<1>1. SessionInv => HasDeadline BY DEF SessionInv
<1>2. QED BY <1>1, InvHolds, PTL

-----------------------------------------------------------------------------
(* The session is forgotten with a PTY only after the last attempt          *)

\* handleClose deletes the session of a running PTY only when it gave up on it.
THEOREM ForgetsSafely == Spec => ForgetsOnlyDeadOrExhausted
<1>1. ASSUME SessionInv, [Next]_vars
      PROVE  [inMap /\ ~inMap' => live' = {} \/ attempts["close"] = MaxAttempts]_vars
  <2> SUFFICES ASSUME inMap, ~inMap', Next
               PROVE  live' = {} \/ attempts["close"] = MaxAttempts
    BY <1>1 DEF vars
  <2> USE <1>1, SessionAssumption DEF SessionInv
  <2>1. CASE SocketClosed
    BY <2>1, ActivePty DEF SocketClosed, CanKill, ActiveIsLive, ptyVars
  <2>2. ASSUME NEW w \in Waiters, KillTick(w)
        PROVE  live' = {} \/ attempts["close"] = MaxAttempts
    <3>1. CASE KillAgain(w) BY <3>1 DEF KillAgain
    <3>2. CASE KillSucceeded(w)
      BY <3>2 DEF KillSucceeded, ActiveIsLive, Events
    <3>3. CASE KillGaveUp(w) BY <3>3 DEF KillGaveUp
    <3> QED BY <2>2, <3>1, <3>2, <3>3 DEF KillTick
  <2>3. CASE Browser
    BY <2>3 DEF Browser, PeerVanishes, Pong, TerminalToken, ForceKill
  <2>4. CASE Coolify
    BY <2>4 DEF Coolify, UpgradeAccepted, UpgradeRefused, AuthorizedHosts,
       AuthorizedHostsFailed, TokenRefused, TokenRedeemed
  <2>5. CASE Node
    BY <2>5, <2>1, <2>2 DEF Node, SocketError, Heartbeat, SessionTimeout, PtyExit
  <2> QED BY <2>3, <2>4, <2>5 DEF Next
<1>2. QED BY <1>1, InvHolds, PTL DEF Spec, ForgetsOnlyDeadOrExhausted

-----------------------------------------------------------------------------
(* Refinement of TerminalSlot                                               *)

\* A step that touches neither the PTY nor an answer is a stutter.
LEMMA SlotStutter ==
    ASSUME isActive' = isActive, pty' = pty,
           \A r \in Requests : req'[r] = "done" <=> req[r] = "done"
    PROVE  UNCHANGED Slot!slotVars
BY DEF Slot!slotVars

\* A step that answers some requests and leaves the PTY alone is a refusal.
LEMMA SlotRefusal ==
    ASSUME isActive' = isActive, pty' = pty, NEW R \in SUBSET Requests,
           \A r \in R : req[r] # "done",
           \A r \in Requests : req'[r] = "done" <=> (r \in R \/ req[r] = "done")
    PROVE  Slot!Next
<1>1. Slot!Refuse(R)
  BY DEF Slot!Refuse
<1> QED BY <1>1 DEF Slot!Next

\* A spawn for an unanswered request while no PTY runs is a start.
LEMMA SlotStart ==
    ASSUME TypeOK, NEW r \in Requests, req[r] # "done", ~isActive, Spawn(r),
           req' = [req EXCEPT ![r] = "done"]
    PROVE  Slot!Next
<1>1. Slot!Start(r)
  BY SessionAssumption DEF Slot!Start, Spawn, TypeOK
<1> QED BY <1>1 DEF Slot!Next

\* The answer to r after handleCommand: a start or a refusal.
LEMMA SlotAnswer ==
    ASSUME TypeOK, NEW r \in Requests, req[r] # "done", ~isActive,
           Spawn(r) \/ CommandRefused, req' = [req EXCEPT ![r] = "done"]
    PROVE  Slot!Next
<1>1. CASE Spawn(r) BY <1>1, SlotStart
<1>2. CASE CommandRefused
  <2>1. {r} \in SUBSET Requests
    OBVIOUS
  <2>2. \A q \in Requests : req'[q] = "done" <=> (q \in {r} \/ req[q] = "done")
    BY DEF TypeOK
  <2> QED BY <1>2, <2>1, <2>2, SlotRefusal DEF CommandRefused
<1> QED BY <1>1, <1>2

\* Every step of the session is a step of the slot or a stutter.
LEMMA SlotStep ==
    ASSUME SessionInv, [Next]_vars
    PROVE  [Slot!Next]_(Slot!slotVars)
<1> USE DEF SessionInv
<1>0. CASE isActive' = isActive /\ pty' = pty /\ req' = req
  BY <1>0, SlotStutter
<1>r. ASSUME NEW r \in Requests, req[r] # "done", isActive' = isActive, pty' = pty,
             req' = [req EXCEPT ![r] = "done"]
      PROVE  Slot!Next
  <2>1. \A q \in Requests : req'[q] = "done" <=> (q \in {r} \/ req[q] = "done")
    BY <1>r DEF TypeOK
  <2> QED BY <1>r, <2>1, SlotRefusal
<1>1. ASSUME NEW r \in Requests, TerminalToken(r) PROVE [Slot!Next]_(Slot!slotVars)
  <2>1. CASE req' = [req EXCEPT ![r] = "done"]
    BY <1>1, <2>1, <1>r DEF TerminalToken, ptyVars
  <2>2. CASE req' # [req EXCEPT ![r] = "done"]
    BY <1>1, <2>2, SlotStutter DEF TerminalToken, ptyVars, Handled, TypeOK
  <2> QED BY <2>1, <2>2
<1>2. CASE AuthorizedHosts
  <2> DEFINE R == {r \in Malformed : req[r] = "buffered"}
  <2>1. R \in SUBSET Requests BY SessionAssumption
  <2>2. \A q \in Requests : req'[q] = "done" <=> (q \in R \/ req[q] = "done")
    BY <1>2 DEF AuthorizedHosts, Handled
  <2> QED BY <1>2, <2>1, <2>2, SlotRefusal DEF AuthorizedHosts, ptyVars
<1>3. ASSUME NEW r \in Requests, TokenRefused(r) PROVE [Slot!Next]_(Slot!slotVars)
  BY <1>3, <1>r DEF TokenRefused, ptyVars
<1>4. ASSUME NEW r \in Requests, TokenRedeemed(r) PROVE [Slot!Next]_(Slot!slotVars)
  <2>1. CASE ~inMap
    BY <1>4, <2>1, <1>r DEF TokenRedeemed, ptyVars
  <2>2. CASE inMap /\ isActive
    BY <1>4, <2>2, SlotStutter DEF TokenRedeemed, ptyVars, TypeOK
  <2>3. CASE inMap /\ ~isActive
    BY <1>4, <2>3, SlotAnswer DEF TokenRedeemed
  <2> QED BY <2>1, <2>2, <2>3
<1>5. ASSUME NEW p \in Requests, PtyExit(p) PROVE [Slot!Next]_(Slot!slotVars)
  <2>1. isActive /\ pty # NoPty
    BY <1>5, SessionAssumption DEF PtyExit, ActiveIsLive, TypeOK
  <2>2. Slot!Exit
    BY <1>5, <2>1 DEF PtyExit, Slot!Exit
  <2> QED BY <2>2 DEF Slot!Next
<1>6. ASSUME NEW w \in Waiters, KillTick(w) PROVE [Slot!Next]_(Slot!slotVars)
  <2>w. w \in Requests /\ attempts[w] > 0 => req[w] # "done"
    BY DEF WaitsForItsLoop
  <2>1. CASE KillAgain(w) BY <2>1, <1>0 DEF KillAgain, ptyVars
  <2>2. CASE KillSucceeded(w)
    BY <2>2, <2>w, <1>0, SlotAnswer DEF KillSucceeded
  <2>3. CASE KillGaveUp(w)
    BY <2>3, <2>w, <1>0, <1>r, SessionAssumption DEF KillGaveUp, ptyVars
  <2> QED BY <1>6, <2>1, <2>2, <2>3 DEF KillTick
<1>7. CASE Browser
  BY <1>7, <1>0, <1>1 DEF Browser, PeerVanishes, Pong, ForceKill, ptyVars
<1>8. CASE Coolify
  BY <1>8, <1>0, <1>2, <1>3, <1>4 DEF Coolify, UpgradeAccepted, UpgradeRefused,
     AuthorizedHostsFailed, ptyVars
<1>9. CASE Node
  BY <1>9, <1>0, <1>5, <1>6 DEF Node, SocketClosed, SocketError, Heartbeat,
     SessionTimeout, ptyVars
<1>10. CASE UNCHANGED vars BY <1>10, <1>0 DEF vars
<1> QED BY <1>7, <1>8, <1>9, <1>10 DEF Next

\* The server keeps the promise of TerminalSlot: an answer per request at most
\* once, and a process only when no other one of the connection runs.
THEOREM SessionImplementsSlot == Spec => ImplementsSlot
<1>1. Init => Slot!Init
  BY DEF Init, Slot!Init
<1>2. SessionInv /\ [Next]_vars => [Slot!Next]_(Slot!slotVars)
  BY SlotStep
<1>3. QED BY <1>1, <1>2, InvHolds, PTL DEF Spec, ImplementsSlot, Slot!Spec
=============================================================================
