-------------------------- MODULE TerminalSession ---------------------------
(***************************************************************************)
(* One connection of the terminal server, docker/coolify-terminal: the      *)
(* upgrade, the fetch of the authorised hosts, the requests for a terminal  *)
(* (a token redeemed at Coolify, then an ssh process in a PTY), the loops   *)
(* that kill a PTY, the session deadline, the heartbeat and the clean-up.   *)
(*                                                                          *)
(* Connections share only the map userSessions, under random keys, so one   *)
(* connection is modelled.  Node runs one callback at a time and drains the *)
(* promise continuations before the next one: an action is one callback     *)
(* with the continuations it resolves.  A PTY is named by the request it    *)
(* was spawned for.  Messages that only pass through to the PTY (input,     *)
(* resize, pause, resume) or are answered at once (ping, checkActive)       *)
(* change no state of the server and are not actions.                       *)
(***************************************************************************)
EXTENDS Integers, FiniteSets

CONSTANTS
    Requests,    \* the terminalToken messages of the client
    Malformed,   \* those whose token does not match the token pattern
    Forces,      \* the kill loops that checkActive messages may start
    MaxAttempts, \* maxAttempts of killPtyProcess
    NoPty

Events == {"close", "error", "timer"}
Waiters == Requests \cup Forces \cup Events

ASSUME SessionAssumption ==
    /\ Malformed \subseteq Requests
    /\ MaxAttempts \in Nat \ {0}
    /\ NoPty \notin Requests
    /\ Requests \cap Events = {}
    /\ Forces \cap Requests = {}
    /\ Forces \cap Events = {}

VARIABLES
    phase,    \* how far the connection handler is
    ws,       \* readyState of the WebSocket; "closed" once the close event ran
    peer,     \* whether the browser is still there
    isAlive,  \* ws.isAlive
    inMap,    \* userSessions holds the session
    isActive, \* session.isActive
    pty,      \* session.ptyProcess
    live,     \* the PTYs whose exit event has not come yet
    timer,    \* session.terminalSessionTimer; "fired" keeps the stale handle
    req,      \* what became of each terminalToken message
    attempts  \* killAttempts of each running kill loop, 0 when it is not running

connVars == <<phase, ws, peer, isAlive>>
ptyVars == <<isActive, pty, live, timer>>
vars == <<phase, ws, peer, isAlive, inMap, isActive, pty, live, timer, req, attempts>>

\* The type invariant.
TypeOK ==
    /\ phase \in {"upgrade", "ips", "ready", "ended"}
    /\ ws \in {"connecting", "open", "closing", "closed"}
    /\ peer \in BOOLEAN
    /\ isAlive \in BOOLEAN
    /\ inMap \in BOOLEAN
    /\ isActive \in BOOLEAN
    /\ pty \in Requests \cup {NoPty}
    /\ live \in SUBSET Requests
    /\ timer \in {"none", "armed", "fired"}
    /\ req \in [Requests -> {"unsent", "buffered", "redeeming", "replacing", "done"}]
    /\ attempts \in [Waiters -> 0..MaxAttempts]

Init ==
    /\ phase = "upgrade"
    /\ ws = "connecting"
    /\ peer = TRUE
    /\ isAlive = TRUE
    /\ inMap = FALSE
    /\ isActive = FALSE
    /\ pty = NoPty
    /\ live = {}
    /\ timer = "none"
    /\ req = [r \in Requests |-> "unsent"]
    /\ attempts = [w \in Waiters |-> 0]

-----------------------------------------------------------------------------
(* Sockets                                                                  *)

Listening == ws \in {"open", "closing"}

\* rejectTerminalSocket and ws.close: a socket that is already closed stays so.
Closed(state) == IF state = "closed" THEN "closed" ELSE "closing"

\* Coolify answers /terminal/auth with 200: the connection event registers the
\* handlers and sends /terminal/auth/ips.
UpgradeAccepted ==
    /\ phase = "upgrade"
    /\ phase' = "ips"
    /\ ws' = "open"
    /\ UNCHANGED <<peer, isAlive, inMap, ptyVars, req, attempts>>

\* Any other answer, or none: the socket is upgraded only to be closed with a
\* code.  A client that left in the meantime gets no socket at all.
UpgradeRefused ==
    /\ phase = "upgrade"
    /\ phase' = "ended"
    /\ ws' \in {"closing", "closed"}
    /\ UNCHANGED <<peer, isAlive, inMap, ptyVars, req, attempts>>

\* killPtyProcess up to its first timer.
CanKill == inMap /\ pty # NoPty
Kill(w) == IF CanKill THEN [attempts EXCEPT ![w] = 1] ELSE attempts
\* Mutant of SocketClosed: handleClose does not await killPtyProcess.
SocketClosedForgets ==
    /\ Listening
    /\ ws = "open" => peer
    /\ ws' = "closed"
    /\ attempts' = Kill("close")
    /\ inMap' = FALSE
    /\ UNCHANGED <<phase, peer, isAlive, ptyVars, req>>

\* The close event: handleClose forgets the session once killPtyProcess is done,
\* which is at once when there is nothing to kill.
SocketClosed ==
    /\ Listening
    /\ ws = "open" => peer
    /\ ws' = "closed"
    /\ attempts' = Kill("close")
    /\ inMap' = (inMap /\ CanKill)
    /\ UNCHANGED <<phase, peer, isAlive, ptyVars, req>>

\* The error event: handleError, then ws closes the socket.
SocketError ==
    /\ Listening
    /\ attempts["error"] = 0
    /\ ws' = "closing"
    /\ attempts' = Kill("error")
    /\ UNCHANGED <<phase, peer, isAlive, inMap, ptyVars, req>>

\* The browser disappears without a close frame.
PeerVanishes ==
    /\ peer
    /\ peer' = FALSE
    /\ UNCHANGED <<phase, ws, isAlive, inMap, ptyVars, req, attempts>>
\* Mutant of Heartbeat: an unanswered ping has no consequence.
HeartbeatPingsOnly ==
    /\ Listening
    /\ isAlive' = FALSE
    /\ UNCHANGED <<phase, ws, peer, inMap, ptyVars, req, attempts>>

\* The heartbeat interval terminates a socket whose last ping was not answered.
Heartbeat ==
    /\ Listening
    /\ isAlive' = FALSE
    /\ ws' = IF isAlive THEN ws ELSE "closing"
    /\ UNCHANGED <<phase, peer, inMap, ptyVars, req, attempts>>

Pong ==
    /\ Listening
    /\ peer
    /\ isAlive' = TRUE
    /\ UNCHANGED <<phase, ws, peer, inMap, ptyVars, req, attempts>>

-----------------------------------------------------------------------------
(* Requests                                                                 *)

\* handleTerminalToken up to the request to Coolify.
Handled(r) == IF r \in Malformed THEN "done" ELSE "redeeming"

Rejects(R) == IF R \cap Malformed = {} THEN ws ELSE Closed(ws)

\* /terminal/auth/ips answers: the session enters the map, also when its socket
\* has closed by now, and the messages received so far are handled in order.
AuthorizedHosts ==
    /\ phase = "ips"
    /\ phase' = "ready"
    /\ inMap' = TRUE
    /\ req' = [r \in Requests |-> IF req[r] = "buffered" THEN Handled(r) ELSE req[r]]
    /\ ws' = Rejects({r \in Requests : req[r] = "buffered"})
    /\ UNCHANGED <<peer, isAlive, ptyVars, attempts>>

AuthorizedHostsFailed ==
    /\ phase = "ips"
    /\ phase' = "ended"
    /\ ws' = Closed(ws)
    /\ UNCHANGED <<peer, isAlive, inMap, ptyVars, req, attempts>>

TerminalToken(r) ==
    /\ Listening
    /\ peer
    /\ req[r] = "unsent"
    /\ \/ /\ phase = "ips"
          /\ req' = [req EXCEPT ![r] = "buffered"]
          /\ UNCHANGED ws
       \/ /\ phase = "ready"
          /\ req' = [req EXCEPT ![r] = Handled(r)]
          /\ ws' = Rejects({r})
    /\ UNCHANGED <<phase, peer, isAlive, inMap, ptyVars, attempts>>

\* Coolify refuses the token, or the request fails.
TokenRefused(r) ==
    /\ req[r] = "redeeming"
    /\ req' = [req EXCEPT ![r] = "done"]
    /\ ws' = Closed(ws)
    /\ UNCHANGED <<phase, peer, isAlive, inMap, ptyVars, attempts>>

\* The end of handleCommand: the command is checked and the PTY spawned, with a
\* fresh deadline; or a check fails and a message says so; or spawn throws and
\* the token is rejected.
Spawn(r) ==
    /\ isActive' = TRUE
    /\ pty' = r
    /\ live' = live \cup {r}
    /\ timer' = "armed"
    /\ UNCHANGED ws

CommandRefused ==
    /\ timer' = "none"
    /\ ws' \in {ws, Closed(ws)}
    /\ UNCHANGED <<isActive, pty, live>>
\* Mutants of TokenRedeemed: an active PTY is not killed first; the deadline is
\* cleared before the old PTY is gone.
TokenRedeemedKeepsOld(r) ==
    /\ req[r] = "redeeming"
    /\ inMap
    /\ req' = [req EXCEPT ![r] = "done"]
    /\ Spawn(r)
    /\ UNCHANGED <<phase, peer, isAlive, inMap, attempts>>

TokenRedeemedClearsFirst(r) ==
    /\ req[r] = "redeeming"
    /\ inMap
    /\ \/ /\ isActive
          /\ req' = [req EXCEPT ![r] = "replacing"]
          /\ attempts' = Kill(r)
          /\ timer' = "none"
          /\ UNCHANGED <<ws, isActive, pty, live>>
       \/ /\ ~isActive
          /\ req' = [req EXCEPT ![r] = "done"]
          /\ Spawn(r)
          /\ UNCHANGED attempts
    /\ UNCHANGED <<phase, peer, isAlive, inMap>>

\* Coolify redeems the token and handleCommand starts.  Without a session in the
\* map it throws and the token is rejected.
TokenRedeemed(r) ==
    /\ req[r] = "redeeming"
    /\ \/ /\ ~inMap
          /\ req' = [req EXCEPT ![r] = "done"]
          /\ ws' = Closed(ws)
          /\ UNCHANGED <<ptyVars, attempts>>
       \/ /\ inMap
          /\ isActive
          /\ req' = [req EXCEPT ![r] = "replacing"]
          /\ attempts' = Kill(r)
          /\ UNCHANGED <<ws, ptyVars>>
       \/ /\ inMap
          /\ ~isActive
          /\ req' = [req EXCEPT ![r] = "done"]
          /\ Spawn(r) \/ CommandRefused
          /\ UNCHANGED attempts
    /\ UNCHANGED <<phase, peer, isAlive, inMap>>

-----------------------------------------------------------------------------
(* PTYs                                                                     *)

\* onExit of PTY p.
PtyExit(p) ==
    /\ p \in live
    /\ live' = live \ {p}
    /\ isActive' = FALSE
    /\ timer' = "none"
    /\ UNCHANGED <<connVars, inMap, pty, req, attempts>>

\* checkActive: 'force' kills an active PTY.
ForceKill(f) ==
    /\ Listening
    /\ peer
    /\ phase = "ready"
    /\ isActive
    /\ attempts[f] = 0
    /\ attempts' = Kill(f)
    /\ UNCHANGED <<connVars, inMap, ptyVars, req>>

\* The deadline of the session, eight hours after the spawn.
SessionTimeout ==
    /\ timer = "armed"
    /\ attempts["timer"] = 0
    /\ timer' = "fired"
    /\ attempts' = Kill("timer")
    /\ UNCHANGED <<connVars, inMap, isActive, pty, live, req>>
\* Mutant of KillAgain: one attempt too many.
KillAgainOnceMore(w) ==
    /\ attempts[w] \in 1..MaxAttempts
    /\ isActive
    /\ attempts' = [attempts EXCEPT ![w] = @ + 1]
    /\ UNCHANGED <<connVars, inMap, ptyVars, req>>

\* The kill loop of w, 500 ms after its last attempt, and what awaits the loop:
\* handleCommand for a request, handleClose for the close event.
KillAgain(w) ==
    /\ attempts[w] \in 1..(MaxAttempts - 1)
    /\ isActive
    /\ attempts' = [attempts EXCEPT ![w] = @ + 1]
    /\ UNCHANGED <<connVars, inMap, ptyVars, req>>

KillSucceeded(w) ==
    /\ attempts[w] > 0
    /\ ~isActive
    /\ attempts' = [attempts EXCEPT ![w] = 0]
    /\ inMap' = (inMap /\ w # "close")
    /\ \/ /\ w \in Requests
          /\ req' = [req EXCEPT ![w] = "done"]
          /\ Spawn(w) \/ CommandRefused
       \/ /\ w \notin Requests
          /\ timer' = "none"
          /\ UNCHANGED <<isActive, pty, live, req, ws>>
    /\ UNCHANGED <<phase, peer, isAlive>>
\* Mutants of KillGaveUp: handleCommand ignores that the old PTY still runs; the
\* loop starts over.
KillGaveUpContinues(w) ==
    /\ attempts[w] = MaxAttempts
    /\ isActive
    /\ attempts' = [attempts EXCEPT ![w] = 0]
    /\ w \in Requests
    /\ req' = [req EXCEPT ![w] = "done"]
    /\ Spawn(w)
    /\ UNCHANGED <<phase, peer, isAlive, inMap>>

KillGaveUpNever(w) ==
    /\ attempts[w] = MaxAttempts
    /\ isActive
    /\ attempts' = [attempts EXCEPT ![w] = 1]
    /\ UNCHANGED <<connVars, inMap, ptyVars, req>>

KillGaveUp(w) ==
    /\ attempts[w] = MaxAttempts
    /\ isActive
    /\ attempts' = [attempts EXCEPT ![w] = 0]
    /\ inMap' = (inMap /\ w # "close")
    /\ req' = IF w \in Requests THEN [req EXCEPT ![w] = "done"] ELSE req
    /\ UNCHANGED <<connVars, ptyVars>>

KillTick(w) == KillAgain(w) \/ KillSucceeded(w) \/ KillGaveUp(w)

-----------------------------------------------------------------------------
Browser ==
    \/ PeerVanishes
    \/ Pong
    \/ \E r \in Requests : TerminalToken(r)
    \/ \E f \in Forces : ForceKill(f)

Coolify ==
    \/ UpgradeAccepted
    \/ UpgradeRefused
    \/ AuthorizedHosts
    \/ AuthorizedHostsFailed
    \/ \E r \in Requests : TokenRefused(r) \/ TokenRedeemed(r)

Node ==
    \/ SocketClosed
    \/ SocketError
    \/ Heartbeat
    \/ SessionTimeout
    \/ \E p \in Requests : PtyExit(p)
    \/ \E w \in Waiters : KillTick(w)

Next == Browser \/ Coolify \/ Node

Spec == Init /\ [][Next]_vars

\* Timers fire, sockets that are being closed close (ws and rejectTerminalSocket
\* destroy them after a while) and Coolify answers.  Nothing makes a shell exit
\* or a user act.
Fairness ==
    /\ WF_vars(Heartbeat)
    /\ WF_vars(ws = "closing" /\ SocketClosed)
    /\ \A r \in Requests : WF_vars(TokenRefused(r) \/ TokenRedeemed(r))
    /\ \A w \in Waiters : WF_vars(KillTick(w))

FairSpec == Spec /\ Fairness

-----------------------------------------------------------------------------
(* Properties                                                               *)

\* A session runs at most one PTY, and isActive says truthfully whether
\* session.ptyProcess is it: input, resize and kill commands always go to the
\* PTY that runs.  Several requests and kill loops may wait on the same PTY.
ActiveIsLive == live = IF isActive THEN {pty} ELSE {}

\* A running PTY has its deadline: no kill loop, exit or request clears the timer
\* of a PTY other than its own.
HasDeadline == live # {} => timer # "none"

\* userSessions.delete loses sight of a running PTY only when the fifth attempt
\* to kill it has failed.
ForgetsOnlyDeadOrExhausted ==
    [][inMap /\ ~inMap' => live' = {} \/ attempts["close"] = MaxAttempts]_vars

\* The connection as its client sees it: the PTY that runs, and the answered
\* requests.
Slot == INSTANCE TerminalSlot WITH
            running <- IF isActive THEN pty ELSE NoPty,
            answered <- {r \in Requests : req[r] = "done"}

\* The server implements the promise of TerminalSlot.
ImplementsSlot == Slot!Spec

\* A request that reached Coolify is answered, however the old PTY behaves:
\* killPtyProcess gives up after a bounded number of attempts.
RequestAnswered == \A r \in Requests : req[r] \in {"redeeming", "replacing"} ~> req[r] = "done"

\* A session whose browser disappeared leaves userSessions: the heartbeat closes
\* the half-open socket and handleClose ends.
AbandonedIsForgotten == (phase = "ready" /\ ws # "closed" /\ ~peer) ~> ~inMap
=============================================================================
