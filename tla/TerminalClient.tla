--------------------------- MODULE TerminalClient ---------------------------
(***************************************************************************)
(* The terminal of the browser, resources/js/terminal.js with               *)
(* terminal-connection.js: one Alpine component that opens a WebSocket to   *)
(* the terminal server, reopens it with back-off when it is lost, and asks  *)
(* for a shell with a single-use token that Livewire sends it.              *)
(*                                                                          *)
(* The handlers call each other and all change the fields of the component, *)
(* so the component is one record, a method is an operator from a record to *)
(* the record it leaves, and an action is one event of the browser's loop.  *)
(* The server and the network are the variables beside it; what they do is  *)
(* what docker/coolify-terminal/terminal-server.js does (TerminalSession    *)
(* has its detail).  Delays are left out: a timer fires at any time.        *)
(***************************************************************************)
EXTENDS Naturals, FiniteSets

CONSTANTS
    MaxAttempts, \* maxReconnectAttempts
    MaxMisses,   \* maxHeartbeatMisses
    MaxTokens    \* bound on the terminals asked for

ASSUME ClientAssumption == {MaxAttempts, MaxMisses, MaxTokens} \subseteq Nat \ {0}

NoToken == 0
Tokens == 1..MaxTokens

VARIABLES
    c,          \* the component
    code,       \* how a closing socket closes: "normal" (1000), "rejected"
                \* (4401, 4403) or "abnormal" (any other code)
    silent,     \* the network has dropped the open connection without a word
    pinged,     \* a ping waits for its pong
    unanswered, \* the tokens the server has received and not answered
    running,    \* a shell runs for this connection
    autoStart,  \* data-auto-start: request 1 was made by the page itself
    requests,   \* the Livewire requests for a terminal so far are 1..requests
    asked,      \* those under way; token t answers request t
    sends,      \* how often each token was put on a socket
    left        \* cleanup() has run

net == <<code, silent, pinged, unanswered, running>>
page == <<autoStart, requests, asked, left>>
vars == <<c, code, silent, pinged, unanswered, running,
          autoStart, requests, asked, sends, left>>

Component == [
    sock : {"none", "connecting", "open", "closing", "closed"}, \* socket.readyState
    conn : {"connecting", "connected", "disconnected", "reconnecting"}, \* connectionState
    attempts : 0..MaxAttempts,   \* reconnectAttempts
    initTimer : BOOLEAN,         \* the first connection, 100 ms after init()
    reconnect : BOOLEAN,         \* reconnectInterval
    connTimer : BOOLEAN,         \* connectionTimeoutId
    startTimer : BOOLEAN,        \* sessionStartTimeoutId
    ping : {"none", "armed", "probe"}, \* pingTimeoutId, and whose it is
    keepAlive : {"none", "running", "stopped"}, \* keepAliveInterval; "stopped" keeps the handle
    missed : 0..MaxMisses,       \* heartbeatMissed
    starting : BOOLEAN,
    active : BOOLEAN,            \* terminalActive
    error : {"none", "connection", "rejected", "session"}, \* connectionError
    rejected : BOOLEAN,          \* authRejected
    pending : {NoToken} \cup Tokens, \* pendingCommand
    visible : BOOLEAN,           \* isDocumentVisible
    wasConnected : BOOLEAN]      \* wasConnectedBeforeHidden

\* The type invariant.
TypeOK ==
    /\ c \in Component
    /\ code \in {"normal", "rejected", "abnormal"}
    /\ {silent, pinged, running, autoStart, left} \subseteq BOOLEAN
    /\ unanswered \subseteq Tokens
    /\ requests \in 0..MaxTokens
    /\ asked \subseteq 1..requests
    /\ sends \in [Tokens -> Nat]

\* init(), with and without data-auto-start.
Init ==
    /\ autoStart \in BOOLEAN
    /\ c = [sock |-> "none", conn |-> "disconnected", attempts |-> 0,
            initTimer |-> TRUE, reconnect |-> FALSE, connTimer |-> FALSE,
            startTimer |-> autoStart, ping |-> "none", keepAlive |-> "none",
            missed |-> 0, starting |-> autoStart, active |-> FALSE,
            error |-> "none", rejected |-> FALSE, pending |-> NoToken,
            visible |-> TRUE, wasConnected |-> FALSE]
    /\ requests = IF autoStart THEN 1 ELSE 0
    /\ asked = 1..requests
    /\ code = "abnormal"
    /\ silent = FALSE
    /\ pinged = FALSE
    /\ running = FALSE
    /\ left = FALSE
    /\ unanswered = {}
    /\ sends = [t \in Tokens |-> 0]

-----------------------------------------------------------------------------
(* Methods                                                                  *)

isTerminalSessionPending(x) == x.starting /\ ~x.active

HasNoSocket(x) == x.sock \in {"none", "closed"}

isWebSocketReady(x) == x.conn = "connected" /\ x.sock = "open"

clearAllTimers(x) ==
    [x EXCEPT !.keepAlive = "none", !.reconnect = FALSE, !.connTimer = FALSE, !.ping = "none"]
\* Mutant of Fail: "connecting..." stays.
FailKeepsStarting(x, reason, override) ==
    [x EXCEPT !.startTimer = FALSE, !.error = IF override \/ @ = "none" THEN reason ELSE @]

\* failTerminalConnection: the first reason wins, or the overriding one.
Fail(x, reason, override) ==
    [x EXCEPT !.starting = FALSE,
              !.startTimer = FALSE,
              !.error = IF override \/ @ = "none" THEN reason ELSE @]

FailIf(cond, x) == IF cond THEN Fail(x, "connection", FALSE) ELSE x
\* Mutant of scheduleReconnect: no limit.
scheduleReconnectForever(x) ==
    IF x.rejected THEN x ELSE [x EXCEPT !.conn = "reconnecting", !.reconnect = TRUE]

scheduleReconnect(x) ==
    IF x.rejected THEN x
    ELSE IF x.attempts >= MaxAttempts THEN Fail(x, "connection", FALSE)
    ELSE [x EXCEPT !.conn = "reconnecting", !.reconnect = TRUE]
\* Mutant of handleConnectionError: no reconnect.
handleConnectionErrorOnly(x) ==
    FailIf(isTerminalSessionPending(x) \/ x.attempts >= 2, [x EXCEPT !.conn = "disconnected"])

\* handleConnectionError: new WebSocket(url) threw.
handleConnectionError(x) ==
    scheduleReconnect(FailIf(isTerminalSessionPending(x) \/ x.attempts >= 2,
                             [x EXCEPT !.conn = "disconnected"]))

\* initializeWebSocket; opens says whether the constructor returned a socket.
initializeWebSocket(x, opens) ==
    IF ~HasNoSocket(x) THEN x
    ELSE IF opens
    THEN [clearAllTimers(x) EXCEPT !.conn = "connecting", !.sock = "connecting", !.connTimer = TRUE]
    ELSE handleConnectionError(clearAllTimers(x))

\* beginTerminalSessionStart with ensureWebSocketConnection.
beginTerminalSessionStart(x, opens) ==
    LET y == [x EXCEPT !.starting = TRUE, !.error = "none", !.rejected = FALSE, !.startTimer = TRUE]
    IN  IF HasNoSocket(y)
        THEN initializeWebSocket([y EXCEPT !.reconnect = FALSE, !.attempts = 0], opens)
        ELSE y

\* terminalActive becomes FALSE; its watcher stops the interval and keeps the handle.
Deactivate(x) ==
    [x EXCEPT !.active = FALSE,
              !.keepAlive = IF x.active /\ @ = "running" THEN "stopped" ELSE @]

\* handleSocketError: the close event that follows does the rest.
handleSocketError(x) == FailIf(isTerminalSessionPending(x), x)

\* resolveTerminalCloseOutcome: an abnormal close is reported when a session was
\* waiting to start or retries ran out.
Reported(x) == isTerminalSessionPending(x) \/ x.attempts >= MaxAttempts
\* Mutants of handleSocketClose: the timers stay; the rejection does not override
\* an earlier error.
handleSocketCloseKeepsTimers(x, how) ==
    LET y == [x EXCEPT !.sock = "closed", !.conn = "disconnected"]
    IN  IF how = "normal" THEN y ELSE scheduleReconnect(FailIf(isTerminalSessionPending(x), y))

handleSocketCloseFirstError(x, how) ==
    LET y == [clearAllTimers(x) EXCEPT !.sock = "closed", !.conn = "disconnected"]
    IN  IF how = "rejected"
        THEN Fail([y EXCEPT !.rejected = TRUE, !.pending = NoToken, !.active = FALSE],
                  "rejected", FALSE)
        ELSE scheduleReconnect(FailIf(isTerminalSessionPending(x), y))

\* handleSocketClose.
handleSocketClose(x, how) ==
    LET y == [clearAllTimers(x) EXCEPT !.sock = "closed", !.conn = "disconnected"]
        \* resetTerminal
        reset == IF y.attempts > 0 THEN [y EXCEPT !.pending = NoToken, !.active = FALSE] ELSE y
    IN  CASE how = "rejected" ->
               Fail([y EXCEPT !.rejected = TRUE, !.pending = NoToken, !.active = FALSE],
                    "rejected", TRUE)
          [] how = "normal" -> y
          [] how = "abnormal" ->
               scheduleReconnect(FailIf(Reported(x), reset))

-----------------------------------------------------------------------------
(* The user and Livewire                                                    *)

\* The user chooses a container: terminal-starting, and a Livewire request.
UserStart ==
    /\ requests < MaxTokens
    /\ requests' = requests + 1
    /\ asked' = asked \cup {requests'}
    /\ \E opens \in BOOLEAN : c' = beginTerminalSessionStart(c, opens)
    /\ UNCHANGED <<net, autoStart, sends, left>>

\* Put token t on the open socket.
Send(t) ==
    /\ sends' = [sends EXCEPT ![t] = @ + 1]
    /\ unanswered' = IF silent THEN unanswered ELSE unanswered \cup {t}

\* send-terminal-token: ignored after a rejection, else sent or kept as pending.
TokenArrives(t) ==
    /\ t \in asked
    /\ asked' = asked \ {t}
    /\ \/ /\ c.rejected
          /\ UNCHANGED <<c, sends, unanswered>>
       \/ /\ ~c.rejected
          /\ \E opens \in BOOLEAN :
              LET x == beginTerminalSessionStart(c, opens)
              IN  IF isWebSocketReady(x)
                  THEN /\ c' = x
                       /\ Send(t)
                  ELSE /\ c' = [x EXCEPT !.pending = t]
                       /\ UNCHANGED <<sends, unanswered>>
    /\ UNCHANGED <<code, silent, pinged, running, autoStart, requests, left>>

\* terminal-session-failed: no token, and the reason.
SessionFailed(t) ==
    /\ t \in asked
    /\ asked' = asked \ {t}
    /\ c' = Fail([c EXCEPT !.pending = NoToken], "session", TRUE)
    /\ UNCHANGED <<net, autoStart, requests, sends, left>>

\* terminal-auto-start-cancelled: the page shows a picker instead.
AutoStartCancelled ==
    /\ autoStart
    /\ 1 \in asked
    /\ asked' = asked \ {1}
    /\ c' = IF c.active \/ c.pending # NoToken THEN c
            ELSE [c EXCEPT !.starting = FALSE, !.startTimer = FALSE]
    /\ UNCHANGED <<net, autoStart, requests, sends, left>>

\* cleanup(), on livewire:navigated or beforeunload.  close(1000) on a socket that
\* is still connecting makes it fail.
Cleanup ==
    /\ ~left
    /\ left' = TRUE
    /\ c' = [clearAllTimers(c) EXCEPT
                !.startTimer = FALSE, !.conn = "disconnected", !.pending = NoToken,
                !.sock = IF HasNoSocket(c) THEN @ ELSE "closing"]
    /\ code' = IF c.sock = "open" THEN "normal" ELSE code
    /\ UNCHANGED <<silent, pinged, unanswered, running, autoStart, requests, asked, sends>>

\* handleVisibilityChange.
Hide ==
    /\ c.visible
    /\ c' = [c EXCEPT !.visible = FALSE, !.wasConnected = (c.conn = "connected"), !.ping = "none"]
    /\ UNCHANGED <<net, page, sends>>
\* Mutant of Show: reconnects after a rejection too.
ShowReconnects ==
    /\ ~c.visible
    /\ c.wasConnected
    /\ c.conn # "connected"
    /\ c' = initializeWebSocket([c EXCEPT !.visible = TRUE, !.attempts = 0], TRUE)
    /\ UNCHANGED <<net, page, sends>>

Show ==
    /\ ~c.visible
    /\ LET x == [c EXCEPT !.visible = TRUE]
       IN  \/ /\ c.wasConnected
              /\ c.sock = "open"
              /\ c' = [x EXCEPT !.missed = 0, !.ping = "probe"]
              /\ pinged' = TRUE
           \/ /\ c.wasConnected
              /\ c.sock # "open"
              /\ c.conn # "connected"
              /\ ~c.rejected
              /\ \E opens \in BOOLEAN :
                    c' = initializeWebSocket([x EXCEPT !.attempts = 0], opens)
              /\ UNCHANGED pinged
           \/ /\ ~c.wasConnected \/ (c.sock # "open" /\ (c.conn = "connected" \/ c.rejected))
              /\ c' = x
              /\ UNCHANGED pinged
    /\ UNCHANGED <<code, silent, unanswered, running, page, sends>>

-----------------------------------------------------------------------------
(* Timers                                                                   *)

InitialConnect ==
    /\ c.initTimer
    /\ \E opens \in BOOLEAN :
          c' = initializeWebSocket([c EXCEPT !.initTimer = FALSE], opens)
    /\ UNCHANGED <<net, page, sends>>
\* Mutant of Reconnect: attempts are not counted.
ReconnectUncounted ==
    /\ c.reconnect
    /\ c' = initializeWebSocket([c EXCEPT !.reconnect = FALSE], TRUE)
    /\ UNCHANGED <<net, page, sends>>

Reconnect ==
    /\ c.reconnect
    /\ \E opens \in BOOLEAN :
          c' = initializeWebSocket([c EXCEPT !.reconnect = FALSE, !.attempts = @ + 1], opens)
    /\ UNCHANGED <<net, page, sends>>

\* The connection timeout closes the socket; its close event reconnects.
ConnectionTimeout ==
    /\ c.connTimer
    /\ c.conn = "connecting"
    /\ c' = [FailIf(isTerminalSessionPending(c), c) EXCEPT !.connTimer = FALSE, !.sock = "closing"]
    /\ code' = "abnormal"
    /\ UNCHANGED <<silent, pinged, unanswered, running, page, sends>>

\* The session-start timeout.
StartTimeout ==
    /\ c.startTimer
    /\ LET x == [c EXCEPT !.startTimer = FALSE]
       IN  c' = IF isTerminalSessionPending(x)
                THEN Fail([x EXCEPT !.pending = NoToken], "connection", FALSE)
                ELSE x
    /\ UNCHANGED <<net, page, sends>>

\* keepAlive: the interval only runs while connected (TimersFitSocket), so its
\* other branch, which reconnects, is never taken.
KeepAlive ==
    /\ c.keepAlive = "running"
    /\ c.sock = "open"
    /\ pinged' = TRUE
    /\ UNCHANGED <<c, code, silent, unanswered, running, page, sends>>
\* The timeouts of resetPingTimeout, which only an open and a pong arm, and of the
\* probe after the tab was hidden.
PingTimeout ==
    /\ c.ping = "armed"
    /\ LET x == [c EXCEPT !.ping = "none", !.missed = @ + 1]
       IN  c' = IF x.missed >= MaxMisses THEN [x EXCEPT !.sock = "closing"] ELSE x
    /\ UNCHANGED <<net, page, sends>>

ProbeTimeout ==
    /\ c.ping = "probe"
    /\ c' = [c EXCEPT !.ping = "none", !.sock = "closing"]
    /\ code' = IF c.sock = "open" THEN "abnormal" ELSE code
    /\ UNCHANGED <<silent, pinged, unanswered, running, page, sends>>

-----------------------------------------------------------------------------
(* The socket                                                               *)
\* Mutant of SocketOpen: the pending token is kept.
SocketOpenKeepsToken ==
    /\ c.sock = "connecting"
    /\ c.pending # NoToken
    /\ c' = [c EXCEPT !.sock = "open", !.conn = "connected", !.attempts = 0, !.missed = 0,
                      !.connTimer = FALSE, !.keepAlive = "running", !.ping = "armed"]
    /\ Send(c.pending)
    /\ UNCHANGED <<code, silent, pinged, running, page>>

\* handleSocketOpen: a pending token is sent and forgotten.
SocketOpen ==
    /\ c.sock = "connecting"
    /\ LET x == [c EXCEPT !.sock = "open", !.conn = "connected", !.attempts = 0, !.missed = 0,
                          !.connTimer = FALSE, !.keepAlive = "running", !.ping = "armed"]
       IN  IF c.pending # NoToken
           THEN /\ c' = [x EXCEPT !.pending = NoToken, !.error = "none", !.starting = TRUE]
                /\ Send(c.pending)
           ELSE /\ c' = x
                /\ UNCHANGED <<sends, unanswered>>
    /\ UNCHANGED <<code, silent, pinged, running, page>>

\* The network stops delivering, without an event on either side.
NetworkDies ==
    /\ c.sock = "open"
    /\ ~silent
    /\ silent' = TRUE
    /\ UNCHANGED <<c, code, pinged, unanswered, running, page, sends>>

\* The server closes the connection with 4401 or 4403.
ServerRejects ==
    /\ c.sock = "open"
    /\ ~silent
    /\ c' = [c EXCEPT !.sock = "closing"]
    /\ code' = "rejected"
    /\ UNCHANGED <<silent, pinged, unanswered, running, page, sends>>

\* The close event, after an error event when the connection failed.  A close
\* handshake that does not complete ends abnormally.
SocketClosed ==
    /\ ~HasNoSocket(c)
    /\ \E how \in {"abnormal"} \cup (IF c.sock = "closing" THEN {code} ELSE {}),
          failed \in BOOLEAN :
        /\ failed => how = "abnormal"
        /\ c.sock = "connecting" => failed
        /\ c' = handleSocketClose(IF failed THEN handleSocketError(c) ELSE c, how)
    /\ code' = "abnormal"
    /\ silent' = FALSE
    /\ pinged' = FALSE
    /\ running' = FALSE
    /\ unanswered' = {}
    /\ UNCHANGED <<page, sends>>

-----------------------------------------------------------------------------
(* handleSocketMessage: what the server sends                               *)

Hears == c.sock = "open" /\ ~silent

\* Mutant of Pong: the timeout that runs is not replaced.
PongKeepsTimeout ==
    /\ Hears
    /\ pinged
    /\ pinged' = FALSE
    /\ c' = [c EXCEPT !.missed = 0]
    /\ UNCHANGED <<code, silent, unanswered, running, page, sends>>

\* A pong counts as an answer to every ping before it and restarts the timeout.
Pong ==
    /\ Hears
    /\ pinged
    /\ pinged' = FALSE
    /\ c' = [c EXCEPT !.missed = 0, !.ping = "armed"]
    /\ UNCHANGED <<code, silent, unanswered, running, page, sends>>

PtyReady(t) ==
    /\ Hears
    /\ t \in unanswered
    /\ ~running
    /\ running' = TRUE
    /\ unanswered' = unanswered \ {t}
    /\ c' = [c EXCEPT !.starting = FALSE, !.error = "none", !.startTimer = FALSE, !.active = TRUE]
    /\ UNCHANGED <<code, silent, pinged, page, sends>>

\* The shell that ran before could not be killed.
Unprocessable(t) ==
    /\ Hears
    /\ t \in unanswered
    /\ running
    /\ unanswered' = unanswered \ {t}
    /\ c' = [Deactivate(c) EXCEPT !.starting = FALSE, !.startTimer = FALSE]
    /\ UNCHANGED <<code, silent, pinged, running, page, sends>>

PtyExited ==
    /\ Hears
    /\ running
    /\ running' = FALSE
    /\ c' = [Deactivate(c) EXCEPT !.starting = FALSE]
    /\ UNCHANGED <<code, silent, pinged, unanswered, page, sends>>

\* An "Unauthorized: ..." or "Invalid SSH command: ..." text.  The refusal of the
\* token itself is followed by close code 4403.
StartupRejected(t) ==
    /\ Hears
    /\ t \in unanswered
    /\ unanswered' = unanswered \ {t}
    /\ LET x == [Deactivate(c) EXCEPT !.pending = NoToken]
       IN  \/ /\ ~running
              /\ c' = Fail(x, "session", TRUE)
              /\ UNCHANGED code
           \/ /\ c' = [Fail(x, "rejected", TRUE) EXCEPT !.sock = "closing"]
              /\ code' = "rejected"
    /\ UNCHANGED <<silent, pinged, running, page, sends>>

-----------------------------------------------------------------------------
User ==
    \/ UserStart \/ AutoStartCancelled \/ Cleanup \/ Hide \/ Show
    \/ \E t \in Tokens : TokenArrives(t) \/ SessionFailed(t)

Timers ==
    \/ InitialConnect \/ Reconnect \/ ConnectionTimeout \/ StartTimeout
    \/ KeepAlive \/ PingTimeout \/ ProbeTimeout

Socket == SocketOpen \/ NetworkDies \/ ServerRejects \/ SocketClosed

Messages ==
    \/ Pong
    \/ PtyExited
    \/ \E t \in Tokens : PtyReady(t) \/ Unprocessable(t) \/ StartupRejected(t)

Next == User \/ Timers \/ Socket \/ Messages

Spec == Init /\ [][Next]_vars

\* Timers fire, and a socket that is closing closes.  Whether a connection opens,
\* the server answers or the user acts is left open.
Fairness ==
    /\ WF_vars(InitialConnect)
    /\ WF_vars(Reconnect)
    /\ WF_vars(ConnectionTimeout)
    /\ WF_vars(StartTimeout)
    /\ WF_vars(KeepAlive)
    /\ WF_vars(PingTimeout)
    /\ WF_vars(ProbeTimeout)
    /\ WF_vars(c.sock = "closing" /\ SocketClosed)

FairSpec == Spec /\ Fairness

-----------------------------------------------------------------------------
(* Properties                                                               *)

\* A single-use token goes on a socket at most once, whatever is lost, reopened
\* or retried in between.
TokenSentOnce == \A t \in Tokens : sends[t] <= 1

\* After a rejection the user sees why, nothing is starting or kept for sending,
\* and no late Livewire event changes that.
RejectionShown ==
    c.rejected => /\ c.error \in {"rejected", "session"}
                  /\ ~c.starting /\ ~c.active
                  /\ c.pending = NoToken

\* "Auth rejections never reconnect": only a new start by the user does, apart
\* from the first connection that init() scheduled.
StaysRejected ==
    [][c.rejected /\ c'.rejected /\ HasNoSocket(c) /\ ~HasNoSocket(c') => c.initTimer]_vars

\* The timers of a connection never outlive it: no reconnect is scheduled beside a
\* socket, no ping, keep-alive or connection timeout without its socket.
TimersFitSocket ==
    /\ c.reconnect => HasNoSocket(c) /\ c.conn = "reconnecting"
    /\ c.connTimer => c.sock = "connecting" /\ c.conn = "connecting"
    /\ c.ping # "none" => c.sock \in {"open", "closing"}
    /\ c.keepAlive = "running" => c.sock \in {"open", "closing"} /\ c.conn = "connected"

\* A terminal without a connection has a reconnect ahead of it, or its user was
\* told.
GaveUpTold ==
    HasNoSocket(c) /\ ~left => c.reconnect \/ c.initTimer \/ c.error # "none"

\* Without a socket "connecting..." is shown only while the session-start timeout or
\* a reconnect is ahead.  It says nothing of an open socket: there a token that was
\* flushed late waits for the server without a timeout.
UnconnectedWaitIsTimed ==
    isTerminalSessionPending(c) /\ HasNoSocket(c) /\ ~left => c.startTimer \/ c.reconnect

\* A page that is not left closes an open connection only while a ping of its is
\* unanswered: a pong, of whichever ping, disarms the probe of a tab that was shown.
AnsweredStaysOpen ==
    [][c.sock = "open" /\ c'.sock = "closing" /\ ~left' /\ code' # "rejected" => pinged]_vars

\* A lost connection is restored or its user is told, also when the tab is hidden
\* and shown again, which starts counting attempts anew.
LostIsResolved ==
    HasNoSocket(c) /\ ~left ~> c.sock = "open" \/ c.error # "none" \/ left

\* "Too many missed heartbeats, closing connection": a visible page does not stay on a
\* connection that has gone silent, whose pings are all unanswered.
SilentIsClosed == silent /\ c.sock = "open" /\ c.visible ~> c.sock # "open" \/ ~c.visible

\* "Single-use tokens must not be sent after the user was told to retry": a
\* pending token is not sent while an error is shown.
FailedTokenNotSent ==
    [][c.pending # NoToken /\ sends' # sends /\ asked' = asked => c.error = "none"]_vars
=============================================================================
