------------------------ MODULE TerminalClientProofs ------------------------
(***************************************************************************)
(* The safety properties of TerminalClient, for every number of reconnect   *)
(* attempts, missed pongs and requests.  A handler is an operator on the    *)
(* record of the component, so the invariant is a predicate of a record and *)
(* every operator has a lemma on what it makes of it.                       *)
(***************************************************************************)
EXTENDS TerminalClient, TLAPS

-----------------------------------------------------------------------------
(* The inductive invariant                                                  *)

\* TimersFitSocket, and why the counters stay in their range: a reconnect is only
\* scheduled below the limit and never after a rejection, and a ping timeout that
\* counts has nothing to count yet.
TimersFit(x) ==
    /\ x.reconnect => /\ HasNoSocket(x) /\ x.conn = "reconnecting"
                      /\ x.attempts < MaxAttempts /\ ~x.rejected
    /\ x.connTimer => x.sock = "connecting" /\ x.conn = "connecting"
    /\ x.ping # "none" => x.sock \in {"open", "closing"}
    /\ x.ping = "armed" => x.missed = 0
    /\ x.keepAlive = "running" => x.sock \in {"open", "closing"} /\ x.conn = "connected"

Shown(x) ==
    x.rejected => /\ x.error \in {"rejected", "session"}
                  /\ ~x.starting /\ ~x.active
                  /\ x.pending = NoToken

Told(x) == HasNoSocket(x) => x.reconnect \/ x.initTimer \/ x.error # "none"

Waits(x) == isTerminalSessionPending(x) /\ HasNoSocket(x) => x.startTimer \/ x.reconnect

\* A token that is still asked for, kept or not made was never sent, and only one
\* of these holds.
TokensUnsent ==
    /\ \A t \in Tokens : t \in asked \/ t = c.pending \/ t > requests => sends[t] = 0
    /\ c.pending \notin asked
    /\ c.pending <= requests

\* A rejected component has nothing on the wire, and only the page that is left
\* closes normally.
NothingAfterRejection == c.rejected => unanswered = {}
NormalOnlyIfLeft == code = "normal" => left

ClientInv ==
    /\ TypeOK
    /\ TimersFit(c)
    /\ Shown(c)
    /\ ~left => Told(c) /\ Waits(c)
    /\ TokensUnsent
    /\ TokenSentOnce
    /\ NothingAfterRejection
    /\ NormalOnlyIfLeft

-----------------------------------------------------------------------------
(* The methods                                                              *)

\* The counters may be reset.
LEMMA ZeroInRange == 0 \in 0..MaxAttempts /\ 0 \in 0..MaxMisses
BY ClientAssumption

\* y differs from x in "starting", its timer and the error only.
SameButError(x, y) ==
    /\ y.sock = x.sock /\ y.conn = x.conn /\ y.attempts = x.attempts
    /\ y.initTimer = x.initTimer /\ y.reconnect = x.reconnect /\ y.connTimer = x.connTimer
    /\ y.ping = x.ping /\ y.keepAlive = x.keepAlive /\ y.missed = x.missed
    /\ y.active = x.active /\ y.rejected = x.rejected /\ y.pending = x.pending
    /\ y.visible = x.visible /\ y.wasConnected = x.wasConnected

\* Fail changes only what the user is shown, and ends the start.
LEMMA FailLemma ==
    ASSUME NEW x \in Component, NEW reason \in {"connection", "rejected", "session"},
           NEW override \in BOOLEAN,
           NEW y, y = Fail(x, reason, override)
    PROVE  /\ y \in Component
           /\ SameButError(x, y)
           /\ ~y.starting
           /\ y.error # "none"
           /\ y.error = IF override \/ x.error = "none" THEN reason ELSE x.error
<1>0. \A r \in {"none", "connection", "rejected", "session"} :
        [x EXCEPT !.starting = FALSE, !.startTimer = FALSE, !.error = r] \in Component
  BY DEF Component
<1>1. CASE override \/ x.error = "none"
  <2>1. y = [x EXCEPT !.starting = FALSE, !.startTimer = FALSE, !.error = reason]
    BY <1>1 DEF Fail
  <2>2. y \in Component
    BY <1>0, <2>1
  <2>3. ~y.starting /\ y.error = reason
    BY <2>1 DEF Component
  <2>4. SameButError(x, y)
    BY <2>1 DEF Component, SameButError
  <2> QED BY <1>1, <2>2, <2>3, <2>4
<1>2. CASE ~(override \/ x.error = "none")
  <2>1. y = [x EXCEPT !.starting = FALSE, !.startTimer = FALSE, !.error = x.error]
    BY <1>2 DEF Fail
  <2>2. y \in Component
    <3>1. x.error \in {"none", "connection", "rejected", "session"}
      BY DEF Component
    <3> QED BY <1>0, <2>1, <3>1
  <2>3. ~y.starting /\ y.error = x.error
    BY <2>1 DEF Component
  <2>4. SameButError(x, y)
    BY <2>1 DEF Component, SameButError
  <2> QED BY <1>2, <2>2, <2>3, <2>4
<1> QED BY <1>1, <1>2

\* A reason that overrides the first one is the one shown.
LEMMA FailOverride ==
    ASSUME NEW x \in Component, NEW reason \in {"rejected", "session"},
           NEW y, y = Fail(x, reason, TRUE)
    PROVE  /\ y \in Component
           /\ SameButError(x, y)
           /\ ~y.starting
           /\ y.error = reason
<1>1. reason \in {"connection", "rejected", "session"} /\ TRUE \in BOOLEAN
  OBVIOUS
<1> QED BY <1>1, FailLemma

\* The same on a condition.
LEMMA FailIfLemma ==
    ASSUME NEW x \in Component, NEW cond \in BOOLEAN,
           NEW y, y = FailIf(cond, x)
    PROVE  /\ y \in Component
           /\ SameButError(x, y)
           /\ cond => y.error # "none" /\ ~y.starting
           /\ ~cond => y = x
           /\ y.starting => x.starting /\ (x.startTimer => y.startTimer)
           /\ x.error # "none" => y.error = x.error
<1>1. CASE cond BY <1>1, FailLemma, Zenon DEF FailIf
<1>2. CASE ~cond BY <1>2 DEF FailIf, SameButError
<1> QED BY <1>1, <1>2

\* What holds after clearAllTimers() without a socket.
Quiet(x) ==
    /\ HasNoSocket(x)
    /\ ~x.reconnect /\ ~x.connTimer /\ x.ping = "none" /\ x.keepAlive = "none"

\* The part of the invariant that is about a component whose page is not left.
Sound(x) == TimersFit(x) /\ Shown(x) /\ Told(x) /\ Waits(x)

\* A component without timers is sound once scheduleReconnect() has run: it has a
\* reconnect, or it was rejected or has failed and says so.
LEMMA ScheduleLemma ==
    ASSUME NEW x \in Component, Quiet(x), Shown(x),
           NEW y, y = scheduleReconnect(x)
    PROVE  /\ y \in Component
           /\ Sound(y)
           /\ y.pending = x.pending
           /\ y.rejected = x.rejected
           /\ y.sock = x.sock
<1>1. CASE x.rejected
  <2>1. y = x
    BY <1>1 DEF scheduleReconnect
  <2>2. TimersFit(y)
    BY <2>1 DEF Quiet, TimersFit
  <2>3. Told(y) /\ Waits(y)
    BY <1>1, <2>1 DEF Shown, Told, Waits, isTerminalSessionPending
  <2> QED BY <2>1, <2>2, <2>3 DEF Sound
<1>2. CASE ~x.rejected /\ x.attempts >= MaxAttempts
  <2>1. y = FailIf(TRUE, x)
    BY <1>2 DEF scheduleReconnect, FailIf
  <2>2. y \in Component /\ SameButError(x, y) /\ ~y.starting /\ y.error # "none"
    BY <2>1, FailIfLemma
  <2>3. TimersFit(y)
    BY <2>2 DEF Quiet, SameButError, TimersFit
  <2>4. Shown(y)
    BY <1>2, <2>2 DEF SameButError, Shown
  <2>5. Told(y) /\ Waits(y)
    BY <2>2 DEF Told, Waits, isTerminalSessionPending
  <2>6. y.pending = x.pending /\ y.rejected = x.rejected /\ y.sock = x.sock
    BY <2>2 DEF SameButError
  <2> QED BY <2>2, <2>3, <2>4, <2>5, <2>6 DEF Sound
<1>3. CASE ~x.rejected /\ ~(x.attempts >= MaxAttempts)
  <2>1. y = [x EXCEPT !.conn = "reconnecting", !.reconnect = TRUE]
    BY <1>3 DEF scheduleReconnect
  <2>2. x.attempts < MaxAttempts
    BY <1>3, ClientAssumption DEF Component
  <2>3. y \in Component
    BY <2>1 DEF Component
  <2>4. /\ y.conn = "reconnecting" /\ y.reconnect /\ y.attempts = x.attempts
        /\ y.sock = x.sock /\ y.connTimer = x.connTimer /\ y.ping = x.ping
        /\ y.keepAlive = x.keepAlive
    BY <2>1 DEF Component
  <2>5. y.pending = x.pending /\ y.rejected = x.rejected
    BY <2>1 DEF Component
  <2>6. TimersFit(y)
    BY <1>3, <2>2, <2>4, <2>5 DEF Quiet, TimersFit, HasNoSocket
  <2>7. Shown(y)
    BY <1>3, <2>5 DEF Shown
  <2>8. Told(y) /\ Waits(y)
    BY <2>4 DEF Told, Waits
  <2> QED BY <2>3, <2>4, <2>5, <2>6, <2>7, <2>8 DEF Sound
<1> QED BY <1>1, <1>2, <1>3

\* initializeWebSocket() without a socket leaves a sound component, whether or not
\* the constructor of the socket throws.
LEMMA InitializeLemma ==
    ASSUME NEW x \in Component, NEW opens \in BOOLEAN, HasNoSocket(x), Shown(x),
           NEW y, y = initializeWebSocket(x, opens)
    PROVE  /\ y \in Component
           /\ Sound(y)
           /\ y.pending = x.pending
           /\ y.rejected = x.rejected
<1>1. CASE opens
  <2>1. y = [clearAllTimers(x) EXCEPT !.conn = "connecting", !.sock = "connecting",
                                      !.connTimer = TRUE]
    BY <1>1 DEF initializeWebSocket
  <2>2. y \in Component
    <3>1. PICK z : z = clearAllTimers(x) OBVIOUS
    <3>2. z \in Component
      BY <3>1 DEF clearAllTimers, Component
    <3>3. PICK w : w = [z EXCEPT !.conn = "connecting"] OBVIOUS
    <3>4. w \in Component
      BY <3>2, <3>3 DEF Component
    <3>5. PICK v : v = [w EXCEPT !.sock = "connecting"] OBVIOUS
    <3>6. v \in Component
      BY <3>4, <3>5 DEF Component
    <3>7. y = [v EXCEPT !.connTimer = TRUE]
      BY <2>1, <3>1, <3>3, <3>5
    <3> QED BY <3>6, <3>7 DEF Component
  <2>3. /\ y.conn = "connecting" /\ y.sock = "connecting" /\ y.connTimer
        /\ ~y.reconnect /\ y.ping = "none" /\ y.keepAlive = "none"
    BY <2>1 DEF clearAllTimers, Component
  <2>4. /\ y.rejected = x.rejected /\ y.error = x.error /\ y.pending = x.pending
        /\ y.starting = x.starting /\ y.active = x.active
    BY <2>1 DEF clearAllTimers, Component
  <2>5. TimersFit(y)
    BY <2>3 DEF TimersFit
  <2>6. Shown(y)
    BY <2>4 DEF Shown
  <2>7. Told(y) /\ Waits(y)
    BY <2>3 DEF Told, Waits, HasNoSocket
  <2> QED BY <2>2, <2>4, <2>5, <2>6, <2>7 DEF Sound
<1>2. CASE ~opens
  <2> DEFINE z == [clearAllTimers(x) EXCEPT !.conn = "disconnected"]
             b == isTerminalSessionPending(clearAllTimers(x)) \/ clearAllTimers(x).attempts >= 2
             w == FailIf(b, z)
  <2>1. y = scheduleReconnect(w)
    BY <1>2 DEF initializeWebSocket, handleConnectionError
  <2>2. /\ z \in Component /\ Quiet(z) /\ Shown(z)
        /\ z.pending = x.pending /\ z.rejected = x.rejected
    <3>1. z \in Component
      BY DEF clearAllTimers, Component
    <3>2. /\ z.sock = x.sock /\ ~z.reconnect /\ ~z.connTimer /\ z.ping = "none"
          /\ z.keepAlive = "none"
      BY DEF clearAllTimers, Component
    <3>3. /\ z.rejected = x.rejected /\ z.error = x.error /\ z.pending = x.pending
          /\ z.starting = x.starting /\ z.active = x.active
      BY DEF clearAllTimers, Component
    <3> HIDE DEF z
    <3>4. Quiet(z)
      BY <3>2 DEF Quiet, HasNoSocket
    <3>5. Shown(z)
      BY <3>3 DEF Shown
    <3> QED BY <3>1, <3>3, <3>4, <3>5
  <2>a. b \in BOOLEAN OBVIOUS
  <2>b. /\ w \in Component /\ SameButError(z, w)
        /\ w.starting => z.starting
        /\ z.error # "none" => w.error = z.error
    <3> HIDE DEF z, b
    <3> QED BY <2>2, <2>a, FailIfLemma
  <2>3. /\ w \in Component /\ Quiet(w) /\ Shown(w)
        /\ w.pending = x.pending /\ w.rejected = x.rejected
    <3> HIDE DEF z, w
    <3> QED BY <2>2, <2>b DEF Quiet, Shown, SameButError, HasNoSocket, Component
  <2> HIDE DEF w
  <2> QED BY <2>1, <2>3, ScheduleLemma
<1> QED BY <1>1, <1>2

\* beginTerminalSessionStart() forgets a rejection and leaves a sound component.
LEMMA BeginLemma ==
    ASSUME NEW x \in Component, NEW opens \in BOOLEAN, TimersFit(x),
           NEW y, y = beginTerminalSessionStart(x, opens)
    PROVE  /\ y \in Component
           /\ Sound(y)
           /\ y.pending = x.pending
           /\ ~y.rejected
<1> DEFINE z == [x EXCEPT !.starting = TRUE, !.error = "none", !.rejected = FALSE,
                          !.startTimer = TRUE]
           w == [z EXCEPT !.reconnect = FALSE, !.attempts = 0]
<1>1. /\ z \in Component /\ TimersFit(z) /\ Shown(z) /\ z.pending = x.pending
      /\ ~z.rejected /\ z.startTimer
  <2>1. z \in Component
    BY DEF Component
  <2>2. /\ z.sock = x.sock /\ z.conn = x.conn /\ z.attempts = x.attempts
        /\ z.reconnect = x.reconnect /\ z.connTimer = x.connTimer /\ z.ping = x.ping
        /\ z.missed = x.missed /\ z.keepAlive = x.keepAlive /\ z.pending = x.pending
    BY DEF Component
  <2>3. ~z.rejected /\ z.startTimer
    BY DEF Component
  <2> HIDE DEF z
  <2>4. TimersFit(z)
    BY <2>2, <2>3 DEF TimersFit, HasNoSocket
  <2>5. Shown(z)
    BY <2>3 DEF Shown
  <2> QED BY <2>1, <2>2, <2>3, <2>4, <2>5
<1>2. CASE HasNoSocket(z)
  <2>1. y = initializeWebSocket(w, opens)
    BY <1>2 DEF beginTerminalSessionStart
  <2>2. /\ w \in Component /\ HasNoSocket(w) /\ Shown(w)
        /\ w.pending = x.pending /\ ~w.rejected
    <3> HIDE DEF z
    <3> QED BY <1>1, <1>2, ZeroInRange DEF Component, HasNoSocket, Shown
  <2> HIDE DEF w
  <2> QED BY <2>1, <2>2, InitializeLemma
<1>3. CASE ~HasNoSocket(z)
  <2>1. y = z
    BY <1>3 DEF beginTerminalSessionStart
  <2> HIDE DEF z
  <2> QED BY <1>1, <1>3, <2>1 DEF Sound, Told, Waits
<1> QED BY <1>2, <1>3

\* handleSocketError() and the timeouts that call failTerminalConnection() while a
\* session waits to start.
LEMMA PendingFailLemma ==
    ASSUME NEW x \in Component, Shown(x),
           NEW y, y = FailIf(isTerminalSessionPending(x), x)
    PROVE  /\ y \in Component /\ Shown(y) /\ SameButError(x, y)
           /\ ~isTerminalSessionPending(y)
<1>1. isTerminalSessionPending(x) \in BOOLEAN
  BY DEF isTerminalSessionPending
<1>2. /\ y \in Component /\ SameButError(x, y)
      /\ isTerminalSessionPending(x) => y.error # "none" /\ ~y.starting
      /\ ~isTerminalSessionPending(x) => y = x
      /\ y.starting => x.starting
      /\ x.error # "none" => y.error = x.error
  BY <1>1, FailIfLemma
<1> QED BY <1>2 DEF Shown, SameButError, isTerminalSessionPending

\* handleSocketClose() leaves a sound component, except after a normal close, which
\* neither reconnects nor says anything.
LEMMA CloseLemma ==
    ASSUME NEW x \in Component, NEW how \in {"normal", "rejected", "abnormal"}, Shown(x),
           NEW y, y = handleSocketClose(x, how)
    PROVE  /\ y \in Component
           /\ TimersFit(y) /\ Shown(y)
           /\ how # "normal" => Sound(y)
           /\ y.pending \in {NoToken, x.pending}
           /\ y.sock = "closed"
<1> DEFINE z == [clearAllTimers(x) EXCEPT !.sock = "closed", !.conn = "disconnected"]
           cut == [z EXCEPT !.pending = NoToken, !.active = FALSE]
           reset == IF z.attempts > 0 THEN cut ELSE z
<1>1. z \in Component /\ Quiet(z) /\ Shown(z) /\ z.pending = x.pending /\ z.sock = "closed"
  <2>1. z \in Component
    BY DEF clearAllTimers, Component
  <2>2. /\ z.sock = "closed" /\ ~z.reconnect /\ ~z.connTimer /\ z.ping = "none"
        /\ z.keepAlive = "none"
    BY DEF clearAllTimers, Component
  <2>3. /\ z.rejected = x.rejected /\ z.error = x.error /\ z.pending = x.pending
        /\ z.starting = x.starting /\ z.active = x.active
    BY DEF clearAllTimers, Component
  <2> HIDE DEF z
  <2>4. Quiet(z)
    BY <2>2 DEF Quiet, HasNoSocket
  <2>5. Shown(z)
    BY <2>3 DEF Shown
  <2> QED BY <2>1, <2>2, <2>3, <2>4, <2>5
<1>2. CASE how = "normal"
  <2>1. y = z BY <1>2 DEF handleSocketClose
  <2> HIDE DEF z
  <2> QED BY <1>1, <1>2, <2>1 DEF Quiet, TimersFit
<1>3. CASE how = "rejected"
  <2> DEFINE w == [z EXCEPT !.rejected = TRUE, !.pending = NoToken, !.active = FALSE]
  <2>1. y = Fail(w, "rejected", TRUE)
    BY <1>3 DEF handleSocketClose
  <2>2. w \in Component /\ Quiet(w) /\ w.pending = NoToken /\ ~w.active /\ w.sock = "closed"
    <3> HIDE DEF z
    <3> QED BY <1>1 DEF Component, Quiet, HasNoSocket, Tokens, NoToken
  <2>3. /\ y \in Component /\ SameButError(w, y) /\ ~y.starting
        /\ y.error = "rejected"
    <3> HIDE DEF w
    <3> QED BY <2>1, <2>2, FailOverride
  <2> HIDE DEF w
  <2> QED BY <2>2, <2>3 DEF SameButError, Quiet, Sound, TimersFit, Shown, Told, Waits,
            HasNoSocket, isTerminalSessionPending
<1>4. CASE how = "abnormal"
  <2>1. y = scheduleReconnect(FailIf(Reported(x), reset))
    BY <1>4 DEF handleSocketClose
  <2>2. /\ reset \in Component /\ Quiet(reset) /\ Shown(reset)
        /\ reset.pending \in {NoToken, x.pending} /\ reset.sock = "closed"
    <3> HIDE DEF z
    <3>1. /\ cut \in Component /\ Quiet(cut) /\ Shown(cut) /\ cut.pending = NoToken
          /\ cut.sock = "closed"
      BY <1>1 DEF Component, Quiet, Shown, HasNoSocket, Tokens, NoToken
    <3> HIDE DEF cut
    <3> QED BY <1>1, <3>1
  <2> DEFINE w == FailIf(Reported(x), reset)
  <2>3. Reported(x) \in BOOLEAN BY DEF Reported
  <2>4. /\ w \in Component /\ SameButError(reset, w)
        /\ w.starting => reset.starting
        /\ reset.error # "none" => w.error = reset.error
    <3> HIDE DEF reset
    <3> QED BY <2>2, <2>3, FailIfLemma
  <2>5. w \in Component /\ Quiet(w) /\ Shown(w) /\ w.pending = reset.pending
        /\ w.sock = "closed"
    <3> HIDE DEF reset, w
    <3> QED BY <2>2, <2>4 DEF Quiet, Shown, SameButError, HasNoSocket
  <2> HIDE DEF w, reset
  <2> QED BY <1>4, <2>1, <2>2, <2>5, ScheduleLemma DEF Sound, w
<1> QED BY <1>2, <1>3, <1>4

-----------------------------------------------------------------------------
(* Steps                                                                    *)

\* The fields that TimersFit reads are the same.
SameTimers(x, y) ==
    /\ y.sock = x.sock /\ y.conn = x.conn /\ y.attempts = x.attempts
    /\ y.reconnect = x.reconnect /\ y.connTimer = x.connTimer /\ y.ping = x.ping
    /\ y.keepAlive = x.keepAlive /\ y.missed = x.missed /\ y.rejected = x.rejected

\* What Shown reads is the same, or less is under way.
SameMessage(x, y) ==
    /\ y.rejected = x.rejected /\ y.error = x.error /\ y.pending = x.pending
    /\ y.active = x.active
    /\ y.starting => x.starting

\* A step that keeps these fields keeps these parts of the invariant.
LEMMA KeepLemma ==
    ASSUME NEW x, NEW y
    PROVE  /\ SameTimers(x, y) /\ TimersFit(x) => TimersFit(y)
           /\ SameMessage(x, y) /\ Shown(x) => Shown(y)
           /\ /\ SameTimers(x, y) /\ SameMessage(x, y) /\ y.initTimer = x.initTimer
              /\ Told(x)
              => Told(y)
<1>1. ASSUME SameTimers(x, y), TimersFit(x) PROVE TimersFit(y)
  BY <1>1 DEF SameTimers, TimersFit, HasNoSocket
<1>2. ASSUME SameMessage(x, y), Shown(x) PROVE Shown(y)
  BY <1>2 DEF SameMessage, Shown
<1>3. ASSUME SameTimers(x, y), SameMessage(x, y), y.initTimer = x.initTimer, Told(x)
      PROVE  Told(y)
  BY <1>3 DEF SameTimers, SameMessage, Told, HasNoSocket
<1> QED BY <1>1, <1>2, <1>3

\* The watcher of terminalActive changes the interval of the keep-alive only.
LEMMA DeactivateLemma ==
    ASSUME NEW x \in Component, NEW y, y = Deactivate(x)
    PROVE  /\ y \in Component
           /\ ~y.active
           /\ y.sock = x.sock /\ y.conn = x.conn /\ y.reconnect = x.reconnect
           /\ y.connTimer = x.connTimer /\ y.ping = x.ping /\ y.missed = x.missed
           /\ y.keepAlive = "running" => x.keepAlive = "running"
           /\ y.rejected = x.rejected /\ y.error = x.error /\ y.pending = x.pending
           /\ y.starting = x.starting
<1>1. PICK z : z = [x EXCEPT !.active = FALSE] OBVIOUS
<1>2. z \in Component
  BY <1>1 DEF Component
<1>3. PICK k \in {x.keepAlive, "stopped"} : y = [z EXCEPT !.keepAlive = k]
  BY <1>1 DEF Deactivate
<1>4. y \in Component
  <2>1. CASE k = x.keepAlive
    <3>1. k \in {"none", "running", "stopped"}
      BY <2>1 DEF Component
    <3> QED BY <1>2, <1>3, <3>1 DEF Component
  <2>2. CASE k = "stopped"
    BY <1>2, <1>3, <2>2 DEF Component
  <2> QED BY <2>1, <2>2
<1>5. ~y.active /\ y.keepAlive = k
  BY <1>1, <1>2, <1>3 DEF Component
<1>6. /\ y.sock = x.sock /\ y.conn = x.conn /\ y.reconnect = x.reconnect
      /\ y.connTimer = x.connTimer /\ y.ping = x.ping /\ y.missed = x.missed
  BY <1>1, <1>2, <1>3 DEF Component
<1>7. /\ y.rejected = x.rejected /\ y.error = x.error /\ y.pending = x.pending
      /\ y.starting = x.starting
  BY <1>1, <1>2, <1>3 DEF Component
<1> QED BY <1>3, <1>4, <1>5, <1>6, <1>7

\* What a step makes of the component.
ComponentOK ==
    /\ c \in Component
    /\ TimersFit(c)
    /\ Shown(c)
    /\ ~left => Told(c) /\ Waits(c)

\* Steps of the user and of Livewire.
LEMMA UserKeepsComponent ==
    ASSUME ClientInv, User
    PROVE  ComponentOK'
<1> USE DEF ComponentOK
<1>c. c \in Component /\ TimersFit(c) /\ Shown(c) /\ (~left => Told(c) /\ Waits(c))
  BY DEF ClientInv, TypeOK
<1>1. CASE UserStart
  BY <1>c, <1>1, BeginLemma DEF UserStart, Sound
<1>2. ASSUME NEW t \in Tokens, TokenArrives(t) PROVE ComponentOK'
  <2>1. CASE c' = c /\ left' = left
    BY <1>c, <2>1
  <2>2. CASE ~c.rejected
    <3>1. PICK opens \in BOOLEAN :
             LET x == beginTerminalSessionStart(c, opens)
             IN  c' = x \/ c' = [x EXCEPT !.pending = t]
      BY <1>2, <2>2 DEF TokenArrives
    <3> DEFINE x == beginTerminalSessionStart(c, opens)
    <3>2. x \in Component /\ Sound(x) /\ ~x.rejected
      BY <1>c, BeginLemma
    <3>3. c' = x \/ c' = [x EXCEPT !.pending = t]
      BY <3>1
    <3> HIDE DEF x
    <3>4. CASE c' = x BY <3>2, <3>4 DEF Sound
    <3>5. CASE c' = [x EXCEPT !.pending = t]
      BY <3>2, <3>5 DEF Sound, Component, TimersFit, Shown, Told, Waits, HasNoSocket,
        isTerminalSessionPending
    <3> QED BY <3>3, <3>4, <3>5
  <2> QED BY <1>2, <2>1, <2>2 DEF TokenArrives
<1>3. ASSUME NEW t \in Tokens, SessionFailed(t) PROVE ComponentOK'
  <2> DEFINE x == [c EXCEPT !.pending = NoToken]
  <2>1. x \in Component /\ TimersFit(x) /\ x.pending = NoToken
        /\ x.active = c.active /\ x.rejected = c.rejected
    BY <1>c DEF Component, TimersFit, HasNoSocket
  <2>2. c' = Fail(x, "session", TRUE) /\ left' = left
    BY <1>3 DEF SessionFailed
  <2> HIDE DEF x
  <2>3. c' \in Component /\ SameButError(x, c') /\ ~c'.starting /\ c'.error = "session"
    BY <2>1, <2>2, FailOverride
  <2> QED BY <1>c, <2>1, <2>3 DEF SameButError, TimersFit, Shown, Told, Waits, HasNoSocket,
            isTerminalSessionPending
<1>4. CASE AutoStartCancelled
  <2>1. CASE c' = c BY <1>c, <1>4, <2>1 DEF AutoStartCancelled
  <2>2. CASE c' = [c EXCEPT !.starting = FALSE, !.startTimer = FALSE]
    <3>1. c' \in Component
      BY <1>c, <2>2 DEF Component
    <3>2. SameTimers(c, c')
      BY <1>c, <2>2 DEF Component, SameTimers
    <3>3. SameMessage(c, c') /\ c'.initTimer = c.initTimer /\ ~c'.starting
      BY <1>c, <2>2 DEF Component, SameMessage
    <3>4. left' = left
      BY <1>4 DEF AutoStartCancelled
    <3>5. Waits(c')
      BY <3>3 DEF Waits, isTerminalSessionPending
    <3> QED BY <1>c, <3>1, <3>2, <3>3, <3>4, <3>5, KeepLemma
  <2> QED BY <1>4, <2>1, <2>2 DEF AutoStartCancelled
<1>5. CASE Cleanup
  <2>1. PICK s \in {c.sock, "closing"} :
          c' = [clearAllTimers(c) EXCEPT !.startTimer = FALSE, !.conn = "disconnected",
                                         !.pending = NoToken, !.sock = s]
    BY <1>5 DEF Cleanup, clearAllTimers
  <2>2. PICK z : z = clearAllTimers(c) OBVIOUS
  <2>3. z \in Component
    BY <1>c, <2>2 DEF clearAllTimers, Component
  <2>4. /\ SameMessage(c, z)
        /\ ~z.reconnect /\ ~z.connTimer /\ z.ping = "none" /\ z.keepAlive = "none"
    BY <1>c, <2>2 DEF clearAllTimers, Component, SameMessage
  <2>5. PICK w : w = [z EXCEPT !.startTimer = FALSE, !.conn = "disconnected",
                               !.pending = NoToken]
    OBVIOUS
  <2>6. w \in Component /\ w.pending = NoToken
    BY <2>3, <2>5 DEF Component
  <2>7. /\ w.rejected = c.rejected /\ w.error = c.error /\ w.active = c.active
        /\ w.starting => c.starting
        /\ ~w.reconnect /\ ~w.connTimer /\ w.ping = "none" /\ w.keepAlive = "none"
    BY <2>3, <2>4, <2>5 DEF Component, SameMessage
  <2>8. c' = [w EXCEPT !.sock = s]
    BY <2>1, <2>2, <2>5
  <2>9. c' \in Component
    BY <1>c, <2>6, <2>8 DEF Component
  <2>10. /\ c'.rejected = c.rejected /\ c'.error = c.error /\ c'.active = c.active
         /\ c'.starting => c.starting
         /\ c'.pending = NoToken
    BY <2>6, <2>7, <2>8 DEF Component
  <2>11. ~c'.reconnect /\ ~c'.connTimer /\ c'.ping = "none" /\ c'.keepAlive = "none"
    BY <2>6, <2>7, <2>8 DEF Component
  <2>12. TimersFit(c')
    BY <2>11 DEF TimersFit
  <2>13. Shown(c')
    BY <1>c, <2>10 DEF Shown
  <2> QED BY <1>5, <2>9, <2>12, <2>13 DEF Cleanup
<1>6. CASE Hide
  <2>1. PICK b \in BOOLEAN : c' = [c EXCEPT !.visible = FALSE, !.wasConnected = b, !.ping = "none"]
    BY <1>6 DEF Hide
  <2>2. left' = left
    BY <1>6 DEF Hide, page
  <2>3. c' \in Component
    <3>1. PICK z : z = [c EXCEPT !.visible = FALSE, !.wasConnected = b] OBVIOUS
    <3>2. z \in Component
      BY <1>c, <3>1 DEF Component
    <3>3. c' = [z EXCEPT !.ping = "none"]
      BY <2>1, <3>1
    <3> QED BY <3>2, <3>3 DEF Component
  <2>4. /\ c'.sock = c.sock /\ c'.conn = c.conn /\ c'.attempts = c.attempts
        /\ c'.reconnect = c.reconnect /\ c'.connTimer = c.connTimer /\ c'.ping = "none"
        /\ c'.keepAlive = c.keepAlive
    BY <1>c, <2>1 DEF Component
  <2>5. /\ SameMessage(c, c') /\ c'.initTimer = c.initTimer /\ c'.starting = c.starting
        /\ c'.startTimer = c.startTimer
    BY <1>c, <2>1 DEF Component, SameMessage
  <2>6. TimersFit(c')
    BY <1>c, <2>4, <2>5 DEF TimersFit, HasNoSocket, SameMessage
  <2>7. Shown(c')
    BY <1>c, <2>5, KeepLemma
  <2>8. Told(c) => Told(c')
    BY <2>4, <2>5 DEF Told, SameMessage, HasNoSocket
  <2>9. Waits(c) => Waits(c')
    BY <2>4, <2>5 DEF Waits, SameMessage, HasNoSocket, isTerminalSessionPending
  <2> QED BY <1>c, <2>2, <2>3, <2>6, <2>7, <2>8, <2>9
<1>7. CASE Show
  <2> DEFINE x == [c EXCEPT !.visible = TRUE]
  <2>1. CASE c.sock = "open" /\ c' = [x EXCEPT !.missed = 0, !.ping = "probe"]
    <3>1. c' \in Component
      BY <1>c, <2>1, ZeroInRange DEF Component
    <3>2. /\ c'.sock = "open" /\ c'.reconnect = c.reconnect /\ c'.connTimer = c.connTimer
          /\ c'.ping = "probe" /\ c'.keepAlive = c.keepAlive /\ c'.conn = c.conn
      BY <1>c, <2>1 DEF Component
    <3>3. SameMessage(c, c')
      BY <1>c, <2>1 DEF Component, SameMessage
    <3>4. TimersFit(c')
      BY <1>c, <2>1, <3>2 DEF TimersFit, HasNoSocket
    <3>5. Shown(c')
      BY <1>c, <3>3, KeepLemma
    <3>6. Told(c') /\ Waits(c')
      BY <3>2 DEF Told, Waits, HasNoSocket
    <3> QED BY <3>1, <3>4, <3>5, <3>6
  <2>2. CASE \E opens \in BOOLEAN :
                /\ c.sock # "open"
                /\ c' = initializeWebSocket([x EXCEPT !.attempts = 0], opens)
    <3> DEFINE z == [x EXCEPT !.attempts = 0]
    <3>1. z \in Component /\ Shown(z) /\ z.sock = c.sock
      BY <1>c, ZeroInRange DEF Component, Shown
    <3> HIDE DEF z
    <3>2. CASE HasNoSocket(z)
      BY <2>2, <3>1, <3>2, InitializeLemma DEF Sound, z
    <3>3. CASE ~HasNoSocket(z)
      <4>1. c' = z BY <2>2, <3>3 DEF initializeWebSocket, z
      <4> QED BY <1>c, <3>1, <3>3, <4>1 DEF Component, TimersFit, Told, Waits, HasNoSocket, z
    <3> QED BY <3>2, <3>3
  <2>3. CASE c' = x
    <3>1. c' \in Component /\ left' = left
      BY <1>c, <1>7, <2>3 DEF Show, page, Component
    <3>2. SameTimers(c, c')
      BY <1>c, <2>3 DEF Component, SameTimers
    <3>3. SameMessage(c, c') /\ c'.initTimer = c.initTimer /\ c'.startTimer = c.startTimer
      BY <1>c, <2>3 DEF Component, SameMessage
    <3>4. Waits(c) => Waits(c')
      BY <3>2, <3>3
      DEF Waits, SameTimers, SameMessage, HasNoSocket, isTerminalSessionPending
    <3> QED BY <1>c, <3>1, <3>2, <3>3, <3>4, KeepLemma
  <2> QED BY <1>7, <2>1, <2>2, <2>3 DEF Show
<1> QED BY <1>1, <1>2, <1>3, <1>4, <1>5, <1>6, <1>7 DEF User

\* Timers.
LEMMA TimersKeepComponent ==
    ASSUME ClientInv, Timers
    PROVE  ComponentOK'
<1> USE DEF ComponentOK
<1>c. c \in Component /\ TimersFit(c) /\ Shown(c) /\ (~left => Told(c) /\ Waits(c))
  BY DEF ClientInv, TypeOK
<1>l. left' = left
  BY DEF Timers, InitialConnect, Reconnect, ConnectionTimeout, StartTimeout, KeepAlive,
    PingTimeout, ProbeTimeout, page
<1>1. CASE InitialConnect
  <2> DEFINE z == [c EXCEPT !.initTimer = FALSE]
  <2>1. z \in Component /\ Shown(z) /\ TimersFit(z) /\ z.sock = c.sock
    <3>1. z \in Component
      BY <1>c DEF Component
    <3>2. SameTimers(c, z) /\ z.sock = c.sock
      BY <1>c DEF Component, SameTimers
    <3>3. SameMessage(c, z)
      BY <1>c DEF Component, SameMessage
    <3> HIDE DEF z
    <3> QED BY <1>c, <3>1, <3>2, <3>3, KeepLemma
  <2>2. PICK opens \in BOOLEAN : c' = initializeWebSocket(z, opens)
    BY <1>1 DEF InitialConnect
  <2> HIDE DEF z
  <2>3. CASE HasNoSocket(z) BY <2>1, <2>2, <2>3, InitializeLemma DEF Sound
  <2>4. CASE ~HasNoSocket(z)
    BY <2>1, <2>2, <2>4 DEF initializeWebSocket, Told, Waits
  <2> QED BY <2>3, <2>4
<1>2. CASE Reconnect
  <2> DEFINE z == [c EXCEPT !.reconnect = FALSE, !.attempts = @ + 1]
  <2>1. HasNoSocket(c) /\ c.attempts + 1 \in 0..MaxAttempts
    BY <1>c, <1>2, ClientAssumption DEF Reconnect, TimersFit, Component
  <2>2. z \in Component /\ Shown(z) /\ HasNoSocket(z)
    BY <1>c, <2>1 DEF Component, Shown, HasNoSocket
  <2>3. PICK opens \in BOOLEAN : c' = initializeWebSocket(z, opens)
    BY <1>2 DEF Reconnect
  <2> HIDE DEF z
  <2> QED BY <2>2, <2>3, InitializeLemma DEF Sound
<1>3. CASE ConnectionTimeout
  <2> DEFINE w == FailIf(isTerminalSessionPending(c), c)
  <2>1. w \in Component /\ Shown(w) /\ SameButError(c, w)
    BY <1>c, PendingFailLemma
  <2>2. c' = [w EXCEPT !.connTimer = FALSE, !.sock = "closing"]
    BY <1>3 DEF ConnectionTimeout
  <2>3. TimersFit(w) /\ w.sock = "connecting"
    <3> HIDE DEF w
    <3> QED BY <1>c, <1>3, <2>1 DEF ConnectionTimeout, TimersFit, SameButError, HasNoSocket
  <2> HIDE DEF w
  <2> QED BY <2>1, <2>2, <2>3 DEF Component, TimersFit, Shown, Told, Waits, HasNoSocket
<1>4. CASE StartTimeout
  <2> DEFINE x == [c EXCEPT !.startTimer = FALSE]
             z == [x EXCEPT !.pending = NoToken]
  <2>1. x \in Component /\ TimersFit(x) /\ Shown(x) /\ (~left => Told(x))
    <3>1. x \in Component
      BY <1>c DEF Component
    <3>2. SameTimers(c, x)
      BY <1>c DEF Component, SameTimers
    <3>3. SameMessage(c, x) /\ x.initTimer = c.initTimer
      BY <1>c DEF Component, SameMessage
    <3> HIDE DEF x
    <3> QED BY <1>c, <3>1, <3>2, <3>3, KeepLemma
  <2>2. CASE isTerminalSessionPending(x)
    <3>1. c' = Fail(z, "connection", FALSE)
      BY <1>4, <2>2 DEF StartTimeout
    <3>2. /\ z \in Component /\ TimersFit(z) /\ Shown(z)
      <4> HIDE DEF x
      <4> QED BY <2>1 DEF Component, TimersFit, Shown, Told, HasNoSocket, Tokens, NoToken
    <3> HIDE DEF z
    <3>3. /\ c' \in Component /\ SameButError(z, c') /\ ~c'.starting /\ c'.error # "none"
          /\ c'.error = IF z.error = "none" THEN "connection" ELSE z.error
      BY <3>1, <3>2, FailLemma
    <3> QED BY <3>2, <3>3 DEF SameButError, TimersFit, Shown, Told, Waits, HasNoSocket,
              isTerminalSessionPending
  <2>3. CASE ~isTerminalSessionPending(x)
    <3>1. c' = x BY <1>4, <2>3 DEF StartTimeout
    <3> QED BY <1>l, <2>1, <2>3, <3>1 DEF Waits
  <2> QED BY <2>2, <2>3
<1>5. CASE KeepAlive
  BY <1>c, <1>l, <1>5 DEF KeepAlive
<1>6. CASE PingTimeout
  <2>1. c.sock \in {"open", "closing"} /\ c.missed + 1 \in 0..MaxMisses
    BY <1>c, <1>6, ClientAssumption DEF PingTimeout, TimersFit
  <2>2. PICK s \in {c.sock, "closing"} :
          c' = [c EXCEPT !.ping = "none", !.missed = @ + 1, !.sock = s]
    <3>1. CASE c' = [c EXCEPT !.ping = "none", !.missed = @ + 1]
      <4>1. c' = [c EXCEPT !.ping = "none", !.missed = @ + 1, !.sock = c.sock]
        BY <1>c, <3>1 DEF Component
      <4> QED BY <4>1
    <3>2. CASE c' = [c EXCEPT !.ping = "none", !.missed = @ + 1, !.sock = "closing"]
      BY <3>2
    <3> QED BY <1>6, <3>1, <3>2 DEF PingTimeout
  <2>3. s \in {"open", "closing"}
    BY <2>1, <2>2
  <2>4. c' \in Component
    <3>1. PICK x : x = [c EXCEPT !.ping = "none", !.missed = @ + 1] OBVIOUS
    <3>2. x \in Component
      BY <1>c, <2>1, <3>1 DEF Component
    <3>3. c' = [x EXCEPT !.sock = s]
      BY <2>2, <3>1
    <3> QED BY <2>3, <3>2, <3>3 DEF Component
  <2>5. /\ c'.sock = s /\ c'.ping = "none"
        /\ c'.conn = c.conn /\ c'.attempts = c.attempts /\ c'.reconnect = c.reconnect
        /\ c'.connTimer = c.connTimer /\ c'.keepAlive = c.keepAlive
    BY <1>c, <2>2 DEF Component
  <2>6. SameMessage(c, c')
    BY <1>c, <2>2 DEF Component, SameMessage
  <2>7. TimersFit(c')
    BY <1>c, <2>1, <2>3, <2>5 DEF TimersFit, HasNoSocket
  <2>8. Shown(c')
    BY <1>c, <2>6, KeepLemma
  <2>9. Told(c') /\ Waits(c')
    BY <2>3, <2>5 DEF Told, Waits, HasNoSocket
  <2> QED BY <2>4, <2>7, <2>8, <2>9
<1>7. CASE ProbeTimeout
  <2>1. c.sock \in {"open", "closing"}
    BY <1>c, <1>7 DEF ProbeTimeout, TimersFit
  <2> QED BY <1>c, <1>7, <2>1 DEF ProbeTimeout, Component, TimersFit, Shown, Told, Waits, HasNoSocket
<1> QED BY <1>1, <1>2, <1>3, <1>4, <1>5, <1>6, <1>7 DEF Timers

\* Events of the socket.
LEMMA SocketKeepsComponent ==
    ASSUME ClientInv, Socket
    PROVE  ComponentOK'
<1> USE DEF ComponentOK
<1>c. c \in Component /\ TimersFit(c) /\ Shown(c) /\ (~left => Told(c) /\ Waits(c))
  BY DEF ClientInv, TypeOK
<1>l. left' = left
  BY DEF Socket, SocketOpen, NetworkDies, ServerRejects, SocketClosed, page
<1>1. CASE SocketOpen
  <2> DEFINE x == [c EXCEPT !.sock = "open", !.conn = "connected", !.attempts = 0, !.missed = 0,
                          !.connTimer = FALSE, !.keepAlive = "running", !.ping = "armed"]
  <2>1. /\ x \in Component /\ TimersFit(x) /\ Shown(x) /\ x.sock = "open"
        /\ x.rejected = c.rejected /\ x.pending = c.pending
    BY <1>c, <1>1, ZeroInRange DEF SocketOpen, Component, TimersFit, Shown, HasNoSocket
  <2>2. CASE c.pending # NoToken
    <3>1. c' = [x EXCEPT !.pending = NoToken, !.error = "none", !.starting = TRUE]
      BY <1>1, <2>2 DEF SocketOpen
    <3> HIDE DEF x
    <3> QED BY <2>1, <2>2, <3>1 DEF Component, TimersFit, Shown, Told, Waits, HasNoSocket, NoToken
  <2>3. CASE c.pending = NoToken
    <3>1. c' = x BY <1>1, <2>3 DEF SocketOpen
    <3> HIDE DEF x
    <3> QED BY <2>1, <3>1 DEF Told, Waits, HasNoSocket
  <2> QED BY <2>2, <2>3
<1>2. CASE NetworkDies
  BY <1>c, <1>l, <1>2 DEF NetworkDies
<1>3. CASE ServerRejects
  BY <1>c, <1>3 DEF ServerRejects, Component, TimersFit, Shown, Told, Waits, HasNoSocket
<1>4. CASE SocketClosed
  <2>1. PICK how \in {"abnormal", code}, failed \in BOOLEAN :
          c' = handleSocketClose(IF failed THEN handleSocketError(c) ELSE c, how)
    BY <1>4 DEF SocketClosed
  <2>2. how \in {"normal", "rejected", "abnormal"} /\ (how = "normal" => left)
    BY <2>1 DEF ClientInv, TypeOK, NormalOnlyIfLeft
  <2> DEFINE x == IF failed THEN handleSocketError(c) ELSE c
  <2>3. x \in Component /\ Shown(x)
    BY <1>c, PendingFailLemma DEF handleSocketError
  <2> HIDE DEF x
  <2> QED BY <1>l, <2>1, <2>2, <2>3, CloseLemma DEF Sound, x
<1> QED BY <1>1, <1>2, <1>3, <1>4 DEF Socket

\* Messages of the server.
LEMMA MessagesKeepComponent ==
    ASSUME ClientInv, Messages
    PROVE  ComponentOK'
<1> USE DEF ComponentOK
<1>c. c \in Component /\ TimersFit(c) /\ Shown(c)
  BY DEF ClientInv, TypeOK
<1>o. c.sock = "open" /\ (c.rejected => unanswered = {})
  BY DEF ClientInv, NothingAfterRejection, Messages, Pong, PtyExited, PtyReady, Unprocessable,
    StartupRejected, Hears
<1>d. /\ Deactivate(c) \in Component /\ TimersFit(Deactivate(c)) /\ Shown(Deactivate(c))
      /\ Deactivate(c).sock = "open" /\ ~Deactivate(c).active
  <2>1. PICK d : d = Deactivate(c) OBVIOUS
  <2>2. /\ d \in Component /\ d.sock = "open" /\ ~d.active
        /\ d.conn = c.conn /\ d.reconnect = c.reconnect /\ d.connTimer = c.connTimer
        /\ d.ping = c.ping /\ d.missed = c.missed
        /\ d.keepAlive = "running" => c.keepAlive = "running"
        /\ d.rejected = c.rejected /\ d.error = c.error /\ d.pending = c.pending
        /\ d.starting = c.starting
    BY <1>c, <1>o, <2>1, DeactivateLemma
  <2>3. TimersFit(d)
    BY <1>c, <1>o, <2>2 DEF TimersFit, HasNoSocket
  <2>4. Shown(d)
    BY <1>c, <2>2 DEF Shown
  <2> QED BY <2>1, <2>2, <2>3, <2>4
<1>1. CASE Pong
  BY <1>c, <1>o, <1>1, ZeroInRange DEF Pong, Component, TimersFit, Shown, Told, Waits, HasNoSocket
<1>2. CASE PtyExited
  <2>1. c' = [Deactivate(c) EXCEPT !.starting = FALSE]
    BY <1>2 DEF PtyExited
  <2> QED BY <1>d, <2>1 DEF Component, TimersFit, Shown, Told, Waits, HasNoSocket
<1>3. ASSUME NEW t \in Tokens, PtyReady(t) PROVE ComponentOK'
  <2>1. ~c.rejected
    BY <1>o, <1>3 DEF PtyReady
  <2>2. c' = [c EXCEPT !.starting = FALSE, !.error = "none", !.startTimer = FALSE, !.active = TRUE]
    BY <1>3 DEF PtyReady
  <2> QED BY <1>c, <1>o, <2>1, <2>2 DEF Component, TimersFit, Shown, Told, Waits, HasNoSocket
<1>4. ASSUME NEW t \in Tokens, Unprocessable(t) PROVE ComponentOK'
  <2>1. c' = [Deactivate(c) EXCEPT !.starting = FALSE, !.startTimer = FALSE]
    BY <1>4 DEF Unprocessable
  <2> QED BY <1>d, <2>1 DEF Component, TimersFit, Shown, Told, Waits, HasNoSocket
<1>5. ASSUME NEW t \in Tokens, StartupRejected(t) PROVE ComponentOK'
  <2> DEFINE x == [Deactivate(c) EXCEPT !.pending = NoToken]
  <2>1. x \in Component /\ TimersFit(x) /\ Shown(x) /\ x.sock = "open" /\ ~x.active /\ x.pending = NoToken
    BY <1>d DEF Component, TimersFit, Shown, HasNoSocket, Tokens, NoToken
  <2>2. \/ c' = Fail(x, "session", TRUE)
        \/ c' = [Fail(x, "rejected", TRUE) EXCEPT !.sock = "closing"]
    BY <1>5 DEF StartupRejected
  <2> HIDE DEF x
  <2>3. ASSUME NEW reason \in {"session", "rejected"}, NEW y, y = Fail(x, reason, TRUE)
        PROVE  y \in Component /\ TimersFit(y) /\ Shown(y) /\ y.sock = "open" /\ ~y.starting
    <3>1. /\ y \in Component /\ SameButError(x, y) /\ ~y.starting
          /\ y.error = reason
      BY <2>1, <2>3, FailOverride
    <3> QED BY <2>1, <3>1 DEF SameButError, TimersFit, Shown, HasNoSocket
  <2>4. CASE c' = Fail(x, "session", TRUE)
    BY <2>3, <2>4 DEF Told, Waits, HasNoSocket
  <2>5. CASE c' = [Fail(x, "rejected", TRUE) EXCEPT !.sock = "closing"]
    <3>1. PICK y : y = Fail(x, "rejected", TRUE) OBVIOUS
    <3>2. y \in Component /\ TimersFit(y) /\ Shown(y) /\ y.sock = "open" /\ ~y.starting
      BY <2>3, <3>1
    <3>3. c' = [y EXCEPT !.sock = "closing"]
      BY <2>5, <3>1
    <3> QED BY <3>2, <3>3 DEF Component, TimersFit, Shown, Told, Waits, HasNoSocket
  <2> QED BY <2>2, <2>4, <2>5
<1> QED BY <1>1, <1>2, <1>3, <1>4, <1>5 DEF Messages

-----------------------------------------------------------------------------
(* Tokens                                                                   *)

\* Only a token that arrives becomes the pending one, and only the close of a socket
\* makes a component a rejected one.
LEMMA PendingStep ==
    ASSUME ClientInv, Next, ~\E t \in Tokens : TokenArrives(t)
    PROVE  /\ c'.pending \in {NoToken, c.pending}
           /\ c'.rejected => c.rejected \/ SocketClosed
<1>c. c \in Component /\ TimersFit(c) /\ Shown(c)
  BY DEF ClientInv, TypeOK
<1>i. ASSUME NEW z \in Component, Shown(z), z.pending = c.pending,
             z.rejected = c.rejected, NEW opens \in BOOLEAN,
             c' = initializeWebSocket(z, opens)
      PROVE  c'.pending = c.pending /\ c'.rejected = c.rejected
  <2>1. CASE HasNoSocket(z) BY <1>i, <2>1, InitializeLemma
  <2>2. CASE ~HasNoSocket(z) BY <1>i, <2>2 DEF initializeWebSocket
  <2> QED BY <2>1, <2>2
<1>f. ASSUME NEW x \in Component, NEW reason \in {"connection", "rejected", "session"},
             NEW override \in BOOLEAN
      PROVE  /\ Fail(x, reason, override).pending = x.pending
             /\ Fail(x, reason, override).rejected = x.rejected
  BY FailLemma DEF SameButError
<1>p. FailIf(isTerminalSessionPending(c), c) \in Component
      /\ Shown(FailIf(isTerminalSessionPending(c), c))
      /\ FailIf(isTerminalSessionPending(c), c).pending = c.pending
      /\ FailIf(isTerminalSessionPending(c), c).rejected = c.rejected
  BY <1>c, PendingFailLemma DEF SameButError
<1>n. [c EXCEPT !.pending = NoToken] \in Component
      /\ [c EXCEPT !.pending = NoToken].pending = NoToken
      /\ [c EXCEPT !.pending = NoToken].rejected = c.rejected
  BY <1>c DEF Component
<1>1. CASE User
  <2>1. CASE UserStart BY <1>c, <2>1, BeginLemma DEF UserStart
  <2>2. ASSUME NEW t \in Tokens, SessionFailed(t)
        PROVE  c'.pending = NoToken /\ c'.rejected = c.rejected
    BY <1>n, <1>f, <2>2 DEF SessionFailed
  <2>3. CASE AutoStartCancelled \/ Hide
    BY <1>c, <2>3 DEF AutoStartCancelled, Hide, Component
  <2>4. CASE Cleanup
    BY <1>c, <2>4 DEF Cleanup, clearAllTimers, Component
  <2>5. CASE Show
    <3> DEFINE z == [[c EXCEPT !.visible = TRUE] EXCEPT !.attempts = 0]
    <3>1. z \in Component /\ Shown(z) /\ z.pending = c.pending /\ z.rejected = c.rejected
      BY <1>c, ZeroInRange DEF Component, Shown
    <3>2. CASE \E opens \in BOOLEAN : c' = initializeWebSocket(z, opens)
      BY <1>i, <3>1, <3>2
    <3>3. CASE c' \in {[[c EXCEPT !.visible = TRUE] EXCEPT !.missed = 0, !.ping = "probe"],
                       [c EXCEPT !.visible = TRUE]}
      BY <1>c, <3>3 DEF Component
    <3> QED BY <2>5, <3>2, <3>3 DEF Show
  <2> QED BY <1>1, <2>1, <2>2, <2>3, <2>4, <2>5 DEF User
<1>2. CASE Timers
  <2>1. CASE InitialConnect
    <3> DEFINE z == [c EXCEPT !.initTimer = FALSE]
    <3>1. z \in Component /\ Shown(z) /\ z.pending = c.pending /\ z.rejected = c.rejected
      BY <1>c DEF Component, Shown
    <3> QED BY <1>i, <2>1, <3>1 DEF InitialConnect
  <2>2. CASE Reconnect
    <3> DEFINE z == [c EXCEPT !.reconnect = FALSE, !.attempts = @ + 1]
    <3>1. c.attempts + 1 \in 0..MaxAttempts
      BY <1>c, <2>2, ClientAssumption DEF Reconnect, TimersFit, Component
    <3>2. z \in Component /\ Shown(z) /\ z.pending = c.pending /\ z.rejected = c.rejected
      BY <1>c, <3>1 DEF Component, Shown
    <3> QED BY <1>i, <2>2, <3>2 DEF Reconnect
  <2>3. CASE ConnectionTimeout
    BY <1>p, <2>3 DEF ConnectionTimeout, Component
  <2>4. CASE StartTimeout
    <3> DEFINE x == [c EXCEPT !.startTimer = FALSE]
    <3>1. /\ x.pending = c.pending /\ [x EXCEPT !.pending = NoToken] \in Component
          /\ [x EXCEPT !.pending = NoToken].pending = NoToken
          /\ x.rejected = c.rejected /\ [x EXCEPT !.pending = NoToken].rejected = c.rejected
      BY <1>c DEF Component
    <3> QED BY <1>f, <2>4, <3>1 DEF StartTimeout
  <2>5. CASE KeepAlive \/ PingTimeout \/ ProbeTimeout
    BY <1>c, <2>5 DEF KeepAlive, PingTimeout, ProbeTimeout, Component
  <2> QED BY <1>2, <2>1, <2>2, <2>3, <2>4, <2>5 DEF Timers
<1>3. CASE Socket
  <2>1. CASE SocketOpen
    BY <1>c, <2>1 DEF SocketOpen, Component
  <2>2. CASE NetworkDies \/ ServerRejects
    BY <1>c, <2>2 DEF NetworkDies, ServerRejects, Component
  <2>3. CASE SocketClosed
    <3>1. PICK how \in {"abnormal", code}, failed \in BOOLEAN :
            c' = handleSocketClose(IF failed THEN handleSocketError(c) ELSE c, how)
      BY <2>3 DEF SocketClosed
    <3>2. how \in {"normal", "rejected", "abnormal"}
      BY <3>1 DEF ClientInv, TypeOK
    <3> DEFINE x == IF failed THEN handleSocketError(c) ELSE c
    <3>3. x \in Component /\ Shown(x) /\ x.pending = c.pending
      BY <1>c, <1>p DEF handleSocketError
    <3> HIDE DEF x
    <3>4. c'.pending \in {NoToken, c.pending}
      BY <3>1, <3>2, <3>3, CloseLemma DEF x
    <3> QED BY <2>3, <3>4
  <2> QED BY <1>3, <2>1, <2>2, <2>3 DEF Socket
<1>4. CASE Messages
  <2>1. Deactivate(c) \in Component /\ Deactivate(c).pending = c.pending
        /\ Deactivate(c).rejected = c.rejected
    BY <1>c, DeactivateLemma
  <2>2. CASE Pong BY <1>c, <2>2 DEF Pong, Component
  <2>3. CASE PtyExited BY <2>1, <2>3 DEF PtyExited, Component
  <2>4. ASSUME NEW t \in Tokens, PtyReady(t)
        PROVE  c'.pending = c.pending /\ c'.rejected = c.rejected
    BY <1>c, <2>4 DEF PtyReady, Component
  <2>5. ASSUME NEW t \in Tokens, Unprocessable(t)
        PROVE  c'.pending = c.pending /\ c'.rejected = c.rejected
    BY <2>1, <2>5 DEF Unprocessable, Component
  <2>6. ASSUME NEW t \in Tokens, StartupRejected(t)
        PROVE  c'.pending = NoToken /\ c'.rejected = c.rejected
    <3> DEFINE x == [Deactivate(c) EXCEPT !.pending = NoToken]
    <3>1. x \in Component /\ x.pending = NoToken /\ x.rejected = c.rejected
      BY <2>1 DEF Component
    <3>2. \/ c' = Fail(x, "session", TRUE)
          \/ c' = [Fail(x, "rejected", TRUE) EXCEPT !.sock = "closing"]
      BY <2>6 DEF StartupRejected
    <3> HIDE DEF x
    <3>3. CASE c' = Fail(x, "session", TRUE)
      BY <1>f, <3>1, <3>3
    <3>4. CASE c' = [Fail(x, "rejected", TRUE) EXCEPT !.sock = "closing"]
      <4>1. PICK y : y = Fail(x, "rejected", TRUE) OBVIOUS
      <4>2. y \in Component /\ y.pending = NoToken /\ y.rejected = c.rejected
        BY <1>f, <3>1, <4>1, FailLemma
      <4>3. c' = [y EXCEPT !.sock = "closing"]
        BY <3>4, <4>1
      <4> QED BY <4>2, <4>3 DEF Component
    <3> QED BY <3>2, <3>3, <3>4
  <2> QED BY <1>4, <2>2, <2>3, <2>4, <2>5, <2>6 DEF Messages
<1> QED BY <1>1, <1>2, <1>3, <1>4 DEF Next

\* A token is sent when it arrives at a ready connection, or as the pending one when
\* a connection opens; every other step leaves the count alone.
LEMMA TokenStep ==
    ASSUME ClientInv, [Next]_vars
    PROVE  /\ sends' \in [Tokens -> Nat]
           /\ requests' \in 0..MaxTokens /\ asked' \subseteq 1..requests'
           /\ TokensUnsent' /\ TokenSentOnce'
<1> USE DEF TokensUnsent, TokenSentOnce
<1>c. /\ sends \in [Tokens -> Nat] /\ requests \in 0..MaxTokens /\ asked \subseteq 1..requests
      /\ c \in Component /\ TimersFit(c)
      /\ TokensUnsent /\ TokenSentOnce
  BY DEF ClientInv, TypeOK
<1>m. MaxTokens \in Nat
  BY ClientAssumption
<1>p. c.pending \in {NoToken} \cup Tokens
  BY <1>c DEF Component
<1> DEFINE Quietly == /\ sends' = sends /\ requests' = requests /\ asked' \subseteq asked
                      /\ c'.pending \in {NoToken, c.pending}
<1>q. CASE Quietly
  BY <1>c, <1>m, <1>p, <1>q DEF NoToken, Tokens
<1>1. ASSUME NEW t \in Tokens, TokenArrives(t)
      PROVE  /\ sends' \in [Tokens -> Nat]
             /\ requests' \in 0..MaxTokens /\ asked' \subseteq 1..requests'
             /\ TokensUnsent' /\ TokenSentOnce'
  <2>1. /\ t \in asked /\ asked' = asked \ {t} /\ requests' = requests
        /\ t # c.pending /\ sends[t] = 0
    BY <1>c, <1>1 DEF TokenArrives
  <2>2. CASE c' = c /\ sends' = sends
    BY <1>q, <2>1, <2>2
  <2>3. CASE ~(c' = c /\ sends' = sends)
    <3>1. PICK opens \in BOOLEAN :
            LET x == beginTerminalSessionStart(c, opens)
            IN  \/ c' = x /\ Send(t)
                \/ c' = [x EXCEPT !.pending = t] /\ sends' = sends
      BY <1>1, <2>3 DEF TokenArrives
    <3> DEFINE x == beginTerminalSessionStart(c, opens)
    <3>2. x \in Component /\ x.pending = c.pending
      BY <1>c, BeginLemma
    <3>3. \/ c' = x /\ Send(t)
          \/ c' = [x EXCEPT !.pending = t] /\ sends' = sends
      BY <3>1
    <3> HIDE DEF x
    <3>4. CASE c' = x /\ Send(t)
      <4>1. c'.pending = c.pending /\ sends' = [sends EXCEPT ![t] = @ + 1]
        BY <3>2, <3>4 DEF Send
      <4> QED BY <1>c, <1>m, <1>p, <2>1, <4>1 DEF Tokens, NoToken
    <3>5. CASE c' = [x EXCEPT !.pending = t] /\ sends' = sends
      <4>1. c'.pending = t
        BY <3>2, <3>5 DEF Component
      <4> QED BY <1>c, <1>m, <1>p, <2>1, <3>5, <4>1 DEF Tokens, NoToken
    <3> QED BY <3>3, <3>4, <3>5
  <2> QED BY <2>2, <2>3
<1>2. CASE Next /\ ~\E t \in Tokens : TokenArrives(t)
  <2>p. c'.pending \in {NoToken, c.pending}
    BY <1>2, PendingStep
  <2>1. CASE UserStart
    <3>1. requests' = requests + 1 /\ requests < MaxTokens /\ asked' = asked \cup {requests'}
          /\ sends' = sends
      BY <2>1 DEF UserStart
    <3> QED BY <1>c, <1>m, <1>p, <2>p, <3>1 DEF Tokens, NoToken
  <2>2. CASE SocketOpen /\ c.pending # NoToken
    <3>1. sends' = [sends EXCEPT ![c.pending] = @ + 1] /\ requests' = requests /\ asked' = asked
      BY <2>2 DEF SocketOpen, Send, page
    <3>2. c'.pending = NoToken
      BY <1>c, <2>2 DEF SocketOpen, Component
    <3> QED BY <1>c, <1>m, <1>p, <2>2, <3>1, <3>2 DEF Tokens, NoToken
  <2>3. CASE User /\ ~UserStart
    BY <1>2, <2>3, <2>p, <1>q DEF User, SessionFailed, AutoStartCancelled, Cleanup, Hide, Show, page
  <2>4. CASE Timers
    BY <2>4, <2>p, <1>q DEF Timers, InitialConnect, Reconnect, ConnectionTimeout, StartTimeout,
      KeepAlive, PingTimeout, ProbeTimeout, page
  <2>5. CASE Socket /\ ~(SocketOpen /\ c.pending # NoToken)
    BY <2>5, <2>p, <1>q DEF Socket, SocketOpen, NetworkDies, ServerRejects, SocketClosed, page
  <2>6. CASE Messages
    BY <2>6, <2>p, <1>q DEF Messages, Pong, PtyExited, PtyReady, Unprocessable, StartupRejected, page
  <2> QED BY <1>2, <2>1, <2>2, <2>3, <2>4, <2>5, <2>6 DEF Next
<1>3. CASE UNCHANGED vars
  BY <1>3, <1>q DEF vars
<1> QED BY <1>1, <1>2, <1>3

-----------------------------------------------------------------------------
(* The connection                                                           *)

\* The server has only tokens of a component that was not rejected since, and a
\* normal close is that of the page that is left.
LEMMA NetStep ==
    ASSUME ClientInv, [Next]_vars
    PROVE  /\ code' \in {"normal", "rejected", "abnormal"}
           /\ {silent', pinged', running', autoStart', left'} \subseteq BOOLEAN
           /\ unanswered' \subseteq Tokens
           /\ NothingAfterRejection' /\ NormalOnlyIfLeft'
<1> USE DEF NothingAfterRejection, NormalOnlyIfLeft
<1>c. /\ code \in {"normal", "rejected", "abnormal"}
      /\ {silent, pinged, running, autoStart, left} \subseteq BOOLEAN
      /\ unanswered \subseteq Tokens
      /\ NothingAfterRejection /\ NormalOnlyIfLeft
      /\ c \in Component /\ TimersFit(c) /\ Shown(c)
  BY DEF ClientInv, TypeOK
<1> DEFINE Goal == /\ code' \in {"normal", "rejected", "abnormal"}
                   /\ {silent', pinged', running', autoStart', left'} \subseteq BOOLEAN
                   /\ unanswered' \subseteq Tokens
                   /\ NothingAfterRejection' /\ NormalOnlyIfLeft'
<1>1. ASSUME NEW t \in Tokens, TokenArrives(t) PROVE Goal
  <2>1. CASE c' = c /\ unanswered' = unanswered
    BY <1>c, <1>1, <2>1 DEF TokenArrives
  <2>2. CASE ~(c' = c /\ unanswered' = unanswered)
    <3>1. PICK opens \in BOOLEAN :
            LET x == beginTerminalSessionStart(c, opens)
            IN  c' = x \/ c' = [x EXCEPT !.pending = t]
      BY <1>1, <2>2 DEF TokenArrives
    <3> DEFINE x == beginTerminalSessionStart(c, opens)
    <3>2. x \in Component /\ ~x.rejected
      BY <1>c, BeginLemma
    <3>3. c' = x \/ c' = [x EXCEPT !.pending = t]
      BY <3>1
    <3> HIDE DEF x
    <3>4. ~c'.rejected
      BY <3>2, <3>3 DEF Component
    <3> QED BY <1>c, <1>1, <3>4 DEF TokenArrives, Send
  <2> QED BY <2>1, <2>2
<1>2. CASE Next /\ ~\E t \in Tokens : TokenArrives(t)
  <2>r. c'.rejected => c.rejected \/ SocketClosed
    BY <1>2, PendingStep
  <2>1. CASE SocketClosed
    BY <1>c, <2>1 DEF SocketClosed, page
  <2>2. CASE SocketOpen
    <3>1. c.pending # NoToken => ~c.rejected
      BY <1>c DEF Shown
    <3>2. c'.rejected = c.rejected
      BY <1>c, <2>2 DEF SocketOpen, Component
    <3>3. c.pending \in {NoToken} \cup Tokens
      BY <1>c DEF Component
    <3> QED BY <1>c, <2>2, <3>1, <3>2, <3>3 DEF SocketOpen, Send, page
  <2>3. CASE User
    BY <1>c, <1>2, <2>r, <2>3 DEF User, UserStart, SessionFailed, AutoStartCancelled, Cleanup, Hide,
      Show, page, net, SocketClosed
  <2>4. CASE Timers
    BY <1>c, <2>r, <2>4 DEF Timers, InitialConnect, Reconnect, ConnectionTimeout, StartTimeout,
      KeepAlive, PingTimeout, ProbeTimeout, page, net, SocketClosed
  <2>5. CASE NetworkDies \/ ServerRejects
    BY <1>c, <2>r, <2>5 DEF NetworkDies, ServerRejects, page, SocketClosed
  <2>6. CASE Messages
    BY <1>c, <2>r, <2>6 DEF Messages, Pong, PtyExited, PtyReady, Unprocessable, StartupRejected,
      page, SocketClosed
  <2> QED BY <1>2, <2>1, <2>2, <2>3, <2>4, <2>5, <2>6 DEF Next, Socket
<1>3. CASE UNCHANGED vars
  BY <1>c, <1>3 DEF vars
<1> QED BY <1>1, <1>2, <1>3

-----------------------------------------------------------------------------
(* The invariant                                                            *)

LEMMA InvInit == Init => ClientInv
<1> SUFFICES ASSUME Init PROVE ClientInv
  OBVIOUS
<1>1. c \in Component /\ c.pending = NoToken
  <2>1. autoStart \in BOOLEAN BY DEF Init
  <2>2. CASE autoStart = TRUE BY <2>2, ZeroInRange DEF Init, Component
  <2>3. CASE autoStart = FALSE BY <2>3, ZeroInRange DEF Init, Component
  <2> QED BY <2>1, <2>2, <2>3
<1>2. TypeOK
  <2>1. requests \in 0..MaxTokens /\ asked \subseteq 1..requests
    BY ClientAssumption DEF Init
  <2>2. sends \in [Tokens -> Nat] /\ unanswered \subseteq Tokens
    BY DEF Init
  <2>3. {silent, pinged, running, autoStart, left} \subseteq BOOLEAN
    BY DEF Init
  <2> QED BY <1>1, <2>1, <2>2, <2>3 DEF Init, TypeOK
<1>3. TimersFit(c) /\ Shown(c) /\ Told(c) /\ Waits(c)
  BY DEF Init, TimersFit, Shown, Told, Waits, HasNoSocket, isTerminalSessionPending
<1>4. TokensUnsent /\ TokenSentOnce
  BY <1>1, ClientAssumption DEF Init, TokensUnsent, TokenSentOnce, NoToken, Tokens
<1> QED BY <1>2, <1>3, <1>4 DEF Init, ClientInv, NothingAfterRejection, NormalOnlyIfLeft

\* Every step keeps the inductive invariant.
LEMMA InvStep == ClientInv /\ [Next]_vars => ClientInv'
<1> SUFFICES ASSUME ClientInv, [Next]_vars PROVE ClientInv'
  OBVIOUS
<1>1. ComponentOK'
  <2>1. CASE UNCHANGED vars
    BY <2>1 DEF vars, ClientInv, TypeOK, ComponentOK, TimersFit, Shown, Told, Waits, HasNoSocket,
      isTerminalSessionPending
  <2> QED BY <2>1, UserKeepsComponent, TimersKeepComponent, SocketKeepsComponent,
            MessagesKeepComponent DEF Next
<1>2. TypeOK'
  BY <1>1, TokenStep, NetStep DEF TypeOK, ComponentOK
<1> QED BY <1>1, <1>2, TokenStep, NetStep DEF ClientInv, ComponentOK

\* ClientInv is an invariant.
LEMMA Invariant == Spec => []ClientInv
BY InvInit, InvStep, PTL DEF Spec

-----------------------------------------------------------------------------
(* Results                                                                  *)

\* The counters of attempts and misses stay within their limits, and every other
\* field within its type, whatever the user, the timers and the server do.
THEOREM TypeCorrect == Spec => []TypeOK
<1>1. ClientInv => TypeOK BY DEF ClientInv
<1> QED BY <1>1, Invariant, PTL

\* A single-use token is put on a socket at most once: TokenArrives sends it or keeps
\* it, and SocketOpen forgets the one it sends.
THEOREM TokensSentOnce == Spec => []TokenSentOnce
<1>1. ClientInv => TokenSentOnce BY DEF ClientInv
<1> QED BY <1>1, Invariant, PTL

\* After a rejection the user sees the reason and nothing is starting or kept.
THEOREM RejectionIsShown == Spec => []RejectionShown
<1>1. ClientInv => RejectionShown BY DEF ClientInv, Shown, RejectionShown
<1> QED BY <1>1, Invariant, PTL

\* No timer outlives the connection it belongs to, and no reconnect runs beside one.
THEOREM TimersAlwaysFit == Spec => []TimersFitSocket
<1>1. ClientInv => TimersFitSocket BY DEF ClientInv, TimersFit, TimersFitSocket
<1> QED BY <1>1, Invariant, PTL

\* A terminal without a connection reconnects or has told its user.
THEOREM GivingUpIsTold == Spec => []GaveUpTold
<1>1. ClientInv => GaveUpTold BY DEF ClientInv, Told, GaveUpTold
<1> QED BY <1>1, Invariant, PTL

\* Without a socket the page waits only for the session-start timeout or a reconnect.
THEOREM UnconnectedWaitsAreTimed == Spec => []UnconnectedWaitIsTimed
<1>1. ClientInv => UnconnectedWaitIsTimed BY DEF ClientInv, Waits, UnconnectedWaitIsTimed
<1> QED BY <1>1, Invariant, PTL

\* A rejected terminal opens no socket by itself, except for the connection that init()
\* has scheduled: a reconnect is never scheduled for it, and a shown tab, a late token
\* or a new start does not keep the rejection and connect.
THEOREM RejectionIsFinal == Spec => StaysRejected
<1>1. ClientInv /\ [Next]_vars =>
        [c.rejected /\ c'.rejected /\ HasNoSocket(c) /\ ~HasNoSocket(c') => c.initTimer]_vars
  <2> SUFFICES ASSUME ClientInv, Next, c.rejected, c'.rejected, HasNoSocket(c), ~HasNoSocket(c')
               PROVE  c.initTimer
    BY DEF HasNoSocket, vars
  <2>c. c \in Component /\ TimersFit(c) /\ Shown(c)
    BY DEF ClientInv, TypeOK
  <2>1. CASE User
    <3>1. CASE UserStart
      BY <2>c, <3>1, BeginLemma DEF UserStart
    <3>2. ASSUME NEW t \in Tokens, TokenArrives(t) PROVE FALSE
      BY <3>2 DEF TokenArrives
    <3>3. ASSUME NEW t \in Tokens, SessionFailed(t) PROVE FALSE
      <4>1. PICK x : x = [c EXCEPT !.pending = NoToken] OBVIOUS
      <4>2. x \in Component /\ x.sock = c.sock
        BY <2>c, <4>1 DEF Component
      <4>3. c' = Fail(x, "session", TRUE)
        BY <3>3, <4>1 DEF SessionFailed
      <4>4. SameButError(x, c')
        BY <4>2, <4>3, FailOverride
      <4>5. c'.sock = x.sock
        BY <4>4 DEF SameButError
      <4> QED BY <4>2, <4>5 DEF HasNoSocket
    <3>4. CASE AutoStartCancelled \/ Hide
      <4>1. CASE AutoStartCancelled
        BY <2>c, <4>1 DEF AutoStartCancelled, HasNoSocket, Component
      <4>2. CASE Hide
        BY <2>c, <4>2 DEF Hide, HasNoSocket, Component
      <4> QED BY <3>4, <4>1, <4>2
    <3>5. CASE Cleanup
      BY <2>c, <3>5 DEF Cleanup, clearAllTimers, HasNoSocket, Component
    <3>6. CASE Show
      BY <2>c, <3>6 DEF Show, HasNoSocket, Component
    <3> QED BY <2>1, <3>1, <3>2, <3>3, <3>4, <3>5, <3>6 DEF User
  <2>2. CASE Timers
    <3>1. CASE InitialConnect BY <3>1 DEF InitialConnect
    <3>2. CASE Reconnect BY <2>c, <3>2 DEF Reconnect, TimersFit
    <3>3. CASE ConnectionTimeout \/ PingTimeout \/ ProbeTimeout
      BY <2>c, <3>3 DEF ConnectionTimeout, PingTimeout, ProbeTimeout, TimersFit, HasNoSocket
    <3>4. CASE StartTimeout
      <4>1. PICK x : x = [c EXCEPT !.startTimer = FALSE] OBVIOUS
      <4>2. PICK z : z = [x EXCEPT !.pending = NoToken] OBVIOUS
      <4>3. z \in Component /\ z.sock = c.sock /\ x.sock = c.sock
        BY <2>c, <4>1, <4>2 DEF Component
      <4>4. Fail(z, "connection", FALSE).sock = z.sock
        BY <4>3, FailLemma DEF SameButError
      <4>5. c' = x \/ c' = Fail(z, "connection", FALSE)
        BY <3>4, <4>1, <4>2 DEF StartTimeout
      <4> QED BY <4>3, <4>4, <4>5 DEF HasNoSocket
    <3>5. CASE KeepAlive BY <3>5 DEF KeepAlive
    <3> QED BY <2>2, <3>1, <3>2, <3>3, <3>4, <3>5 DEF Timers
  <2>3. CASE Socket \/ Messages
    BY <2>3 DEF Socket, SocketOpen, NetworkDies, ServerRejects, SocketClosed, Messages, Pong,
      PtyExited, PtyReady, Unprocessable, StartupRejected, Hears, HasNoSocket
  <2> QED BY <2>1, <2>2, <2>3 DEF Next
<1> QED BY <1>1, Invariant, PTL DEF Spec, StaysRejected

-----------------------------------------------------------------------------
(* The probe of a tab that was shown                                        *)

\* The timeout of the probe runs only while its ping is unanswered.
ProbeInv == c.ping = "probe" => pinged

\* initializeWebSocket() clears the ping timeout or does nothing.
LEMMA InitializePing ==
    ASSUME NEW x \in Component, NEW opens \in BOOLEAN,
           NEW y, y = initializeWebSocket(x, opens)
    PROVE  y.ping \in {x.ping, "none"}
<1>1. CASE ~HasNoSocket(x)
  BY <1>1 DEF initializeWebSocket
<1>2. CASE HasNoSocket(x) /\ opens
  BY <1>2 DEF initializeWebSocket, clearAllTimers, Component
<1>3. CASE HasNoSocket(x) /\ ~opens
  <2>1. PICK z : z = [clearAllTimers(x) EXCEPT !.conn = "disconnected"] OBVIOUS
  <2>2. z \in Component /\ z.ping = "none"
    BY <2>1 DEF clearAllTimers, Component
  <2>3. PICK b \in BOOLEAN :
          b = (isTerminalSessionPending(clearAllTimers(x)) \/ clearAllTimers(x).attempts >= 2)
    OBVIOUS
  <2>4. PICK w : w = FailIf(b, z) OBVIOUS
  <2>5. w \in Component /\ w.ping = "none"
    BY <2>2, <2>4, FailIfLemma DEF SameButError
  <2>6. y = scheduleReconnect(w)
    BY <1>3, <2>1, <2>3, <2>4 DEF initializeWebSocket, handleConnectionError
  <2>7. CASE w.rejected
    BY <2>5, <2>6, <2>7 DEF scheduleReconnect
  <2>8. CASE ~w.rejected /\ w.attempts >= MaxAttempts
    <3>1. y = FailIf(TRUE, w)
      BY <2>6, <2>8 DEF scheduleReconnect, FailIf
    <3>2. SameButError(w, y)
      BY <2>5, <3>1, FailIfLemma
    <3> QED BY <2>5, <3>2 DEF SameButError
  <2>9. CASE ~w.rejected /\ ~(w.attempts >= MaxAttempts)
    <3>1. y = [w EXCEPT !.conn = "reconnecting", !.reconnect = TRUE]
      BY <2>6, <2>9 DEF scheduleReconnect
    <3> QED BY <2>5, <3>1 DEF Component
  <2> QED BY <2>7, <2>8, <2>9
<1> QED BY <1>1, <1>2, <1>3

\* Neither does beginTerminalSessionStart() start one.
LEMMA BeginPing ==
    ASSUME NEW x \in Component, NEW opens \in BOOLEAN,
           NEW y, y = beginTerminalSessionStart(x, opens)
    PROVE  y.ping \in {x.ping, "none"}
<1>1. PICK z : z = [x EXCEPT !.starting = TRUE, !.error = "none", !.rejected = FALSE,
                             !.startTimer = TRUE]
  OBVIOUS
<1>2. z \in Component /\ z.ping = x.ping
  BY <1>1 DEF Component
<1>3. PICK w : w = [z EXCEPT !.reconnect = FALSE, !.attempts = 0] OBVIOUS
<1>4. w \in Component /\ w.ping = x.ping
  BY <1>2, <1>3, ZeroInRange DEF Component
<1>5. y = z \/ y = initializeWebSocket(w, opens)
  BY <1>1, <1>3 DEF beginTerminalSessionStart
<1> QED BY <1>2, <1>4, <1>5, InitializePing

\* A step keeps the ping timeout or clears it, unless it shows the tab, opens the
\* connection or is a pong.
LEMMA PingStep ==
    ASSUME ClientInv, Next, ~Show, ~Pong, ~SocketOpen
    PROVE  c'.ping \in {c.ping, "none"}
<1>c. c \in Component /\ TimersFit(c) /\ Shown(c)
  BY DEF ClientInv, TypeOK
<1>f. ASSUME NEW x \in Component, x.ping = c.ping,
             NEW reason \in {"connection", "rejected", "session"}, NEW override \in BOOLEAN
      PROVE  Fail(x, reason, override) \in Component /\ Fail(x, reason, override).ping = c.ping
  <2>1. PICK y : y = Fail(x, reason, override) OBVIOUS
  <2>2. y \in Component /\ SameButError(x, y)
    BY <2>1, FailLemma, Zenon
  <2>3. y.ping = c.ping
    BY <1>f, <2>2 DEF SameButError
  <2> QED BY <2>1, <2>2, <2>3
<1>1. CASE User
  <2>1. CASE UserStart
    BY <1>c, <2>1, BeginPing DEF UserStart
  <2>2. ASSUME NEW t \in Tokens, TokenArrives(t) PROVE c'.ping \in {c.ping, "none"}
    <3>1. CASE c' = c BY <3>1
    <3>2. CASE c' # c
      <4>1. PICK opens \in BOOLEAN :
              \/ c' = beginTerminalSessionStart(c, opens)
              \/ c' = [beginTerminalSessionStart(c, opens) EXCEPT !.pending = t]
        BY <2>2, <3>2 DEF TokenArrives
      <4>2. PICK x : x = beginTerminalSessionStart(c, opens) OBVIOUS
      <4>3. x \in Component /\ x.ping \in {c.ping, "none"}
        BY <1>c, <4>2, BeginLemma, BeginPing
      <4>4. c' = x \/ c' = [x EXCEPT !.pending = t]
        BY <4>1, <4>2
      <4> QED BY <4>3, <4>4 DEF Component
    <3> QED BY <3>1, <3>2
  <2>3. ASSUME NEW t \in Tokens, SessionFailed(t) PROVE c'.ping \in {c.ping, "none"}
    <3>1. [c EXCEPT !.pending = NoToken] \in Component
          /\ [c EXCEPT !.pending = NoToken].ping = c.ping
      BY <1>c DEF Component
    <3> QED BY <1>f, <2>3, <3>1 DEF SessionFailed
  <2>4. CASE AutoStartCancelled
    BY <1>c, <2>4 DEF AutoStartCancelled, Component
  <2>5. CASE Cleanup
    BY <1>c, <2>5 DEF Cleanup, clearAllTimers, Component
  <2>6. CASE Hide
    BY <1>c, <2>6 DEF Hide, Component
  <2> QED BY <1>1, <2>1, <2>2, <2>3, <2>4, <2>5, <2>6 DEF User
<1>2. CASE Timers
  <2>1. CASE InitialConnect
    <3>1. PICK z : z = [c EXCEPT !.initTimer = FALSE] OBVIOUS
    <3>2. z \in Component /\ z.ping = c.ping
      BY <1>c, <3>1 DEF Component
    <3> QED BY <2>1, <3>1, <3>2, InitializePing DEF InitialConnect
  <2>2. CASE Reconnect
    <3>1. PICK z : z = [c EXCEPT !.reconnect = FALSE, !.attempts = @ + 1] OBVIOUS
    <3>2. c.attempts + 1 \in 0..MaxAttempts
      BY <1>c, <2>2, ClientAssumption DEF Reconnect, TimersFit, Component
    <3>3. z \in Component /\ z.ping = c.ping
      BY <1>c, <3>1, <3>2 DEF Component
    <3> QED BY <2>2, <3>1, <3>3, InitializePing DEF Reconnect
  <2>3. CASE ConnectionTimeout
    <3>1. PICK x : x = FailIf(isTerminalSessionPending(c), c) OBVIOUS
    <3>2. x \in Component /\ x.ping = c.ping
      BY <1>c, <3>1, PendingFailLemma DEF SameButError
    <3>3. c' = [x EXCEPT !.connTimer = FALSE, !.sock = "closing"]
      BY <2>3, <3>1 DEF ConnectionTimeout
    <3> QED BY <3>2, <3>3 DEF Component
  <2>4. CASE StartTimeout
    <3>1. PICK x : x = [c EXCEPT !.startTimer = FALSE] OBVIOUS
    <3>2. PICK z : z = [x EXCEPT !.pending = NoToken] OBVIOUS
    <3>3. z \in Component /\ z.ping = c.ping /\ x.ping = c.ping
      BY <1>c, <3>1, <3>2 DEF Component
    <3>4. c' = x \/ c' = Fail(z, "connection", FALSE)
      BY <2>4, <3>1, <3>2 DEF StartTimeout
    <3> QED BY <1>f, <3>3, <3>4
  <2>5. CASE KeepAlive BY <2>5 DEF KeepAlive
  <2>6. CASE PingTimeout
    BY <1>c, <2>6 DEF PingTimeout, Component
  <2>7. CASE ProbeTimeout
    BY <1>c, <2>7 DEF ProbeTimeout, Component
  <2> QED BY <1>2, <2>1, <2>2, <2>3, <2>4, <2>5, <2>6, <2>7 DEF Timers
<1>3. CASE Socket
  <2>1. CASE SocketClosed
    <3>1. PICK how \in {"abnormal", code}, failed \in BOOLEAN :
            c' = handleSocketClose(IF failed THEN handleSocketError(c) ELSE c, how)
      BY <2>1 DEF SocketClosed
    <3>2. how \in {"normal", "rejected", "abnormal"}
      BY <3>1 DEF ClientInv, TypeOK
    <3>3. PICK x : x = IF failed THEN handleSocketError(c) ELSE c OBVIOUS
    <3>4. x \in Component /\ Shown(x)
      BY <1>c, <3>3, PendingFailLemma DEF handleSocketError
    <3>5. c' \in Component /\ TimersFit(c') /\ c'.sock = "closed"
      BY <3>1, <3>2, <3>3, <3>4, CloseLemma
    <3> QED BY <3>5 DEF TimersFit
  <2>2. CASE NetworkDies BY <2>2 DEF NetworkDies
  <2>3. CASE ServerRejects
    BY <1>c, <2>3 DEF ServerRejects, Component
  <2> QED BY <1>3, <2>1, <2>2, <2>3 DEF Socket
<1>4. CASE Messages
  <2>1. Deactivate(c) \in Component /\ Deactivate(c).ping = c.ping
    BY <1>c, DeactivateLemma
  <2>2. CASE PtyExited
    BY <2>1, <2>2 DEF PtyExited, Component
  <2>3. ASSUME NEW t \in Tokens, PtyReady(t) \/ Unprocessable(t)
        PROVE  c'.ping \in {c.ping, "none"}
    BY <1>c, <2>1, <2>3 DEF PtyReady, Unprocessable, Component
  <2>4. ASSUME NEW t \in Tokens, StartupRejected(t) PROVE c'.ping \in {c.ping, "none"}
    <3>1. PICK x : x = [Deactivate(c) EXCEPT !.pending = NoToken] OBVIOUS
    <3>2. x \in Component /\ x.ping = c.ping
      BY <2>1, <3>1 DEF Component
    <3>3. \/ c' = Fail(x, "session", TRUE)
          \/ c' = [Fail(x, "rejected", TRUE) EXCEPT !.sock = "closing"]
      BY <2>4, <3>1 DEF StartupRejected
    <3>4. CASE c' = Fail(x, "session", TRUE)
      BY <1>f, <3>2, <3>4
    <3>5. CASE c' = [Fail(x, "rejected", TRUE) EXCEPT !.sock = "closing"]
      <4>1. PICK y : y = Fail(x, "rejected", TRUE) OBVIOUS
      <4>2. y \in Component /\ y.ping = c.ping
        BY <1>f, <3>2, <4>1
      <4>3. c' = [y EXCEPT !.sock = "closing"]
        BY <3>5, <4>1
      <4> QED BY <4>2, <4>3 DEF Component
    <3> QED BY <3>3, <3>4, <3>5
  <2> QED BY <1>4, <2>2, <2>3, <2>4 DEF Messages
<1> QED BY <1>1, <1>2, <1>3, <1>4 DEF Next

\* ProbeInv is an invariant: only Show starts the probe, with its ping, and what ends
\* the wait for a pong, the pong or the close of the connection, ends the probe.
LEMMA ProbeInvariant == Spec => []ProbeInv
<1>1. Init => ProbeInv
  BY DEF Init, ProbeInv
<1>2. ClientInv /\ ProbeInv /\ [Next]_vars => ProbeInv'
  <2> SUFFICES ASSUME ClientInv, ProbeInv, [Next]_vars PROVE ProbeInv'
    OBVIOUS
  <2>c. c \in Component
    BY DEF ClientInv, TypeOK
  <2>1. CASE UNCHANGED vars
    BY <2>1 DEF vars, ProbeInv
  <2>2. CASE Show
    <3>1. CASE pinged' = TRUE BY <3>1 DEF ProbeInv
    <3>2. CASE pinged' # TRUE
      <4>1. pinged' = pinged
            /\ (c' = [c EXCEPT !.visible = TRUE]
                \/ \E opens \in BOOLEAN : c' = initializeWebSocket([c EXCEPT !.visible = TRUE, !.attempts = 0], opens))
        BY <2>2, <3>2 DEF Show
      <4>2. PICK x : x = [c EXCEPT !.visible = TRUE, !.attempts = 0] OBVIOUS
      <4>3. x \in Component /\ x.ping = c.ping
        BY <2>c, <4>2, ZeroInRange DEF Component
      <4>4. c' = [c EXCEPT !.visible = TRUE]
            \/ \E opens \in BOOLEAN : c' = initializeWebSocket(x, opens)
        BY <4>1, <4>2
      <4>5. c'.ping \in {c.ping, "none"}
        BY <2>c, <4>3, <4>4, InitializePing DEF Component
      <4> QED BY <4>1, <4>5 DEF ProbeInv
    <3> QED BY <3>1, <3>2
  <2>3. CASE Pong \/ SocketOpen
    <3>1. CASE Pong BY <2>c, <3>1 DEF Pong, ProbeInv, Component
    <3>2. CASE SocketOpen BY <2>c, <3>2 DEF SocketOpen, ProbeInv, Component
    <3> QED BY <2>3, <3>1, <3>2
  <2>4. CASE Next /\ ~Show /\ ~Pong /\ ~SocketOpen
    <3>1. c'.ping \in {c.ping, "none"}
      BY <2>4, PingStep
    <3>2. CASE SocketClosed
      <4>1. ComponentOK'
        BY <2>4, <3>2, SocketKeepsComponent DEF Socket
      <4>2. c'.sock = "closed"
        <5>1. PICK how \in {"abnormal", code}, failed \in BOOLEAN :
                c' = handleSocketClose(IF failed THEN handleSocketError(c) ELSE c, how)
          BY <3>2 DEF SocketClosed
        <5>2. how \in {"normal", "rejected", "abnormal"}
          BY <5>1 DEF ClientInv, TypeOK
        <5>3. PICK x : x = IF failed THEN handleSocketError(c) ELSE c OBVIOUS
        <5>4. x \in Component /\ Shown(x)
          BY <5>3, PendingFailLemma DEF handleSocketError, ClientInv, TypeOK
        <5> QED BY <5>1, <5>2, <5>3, <5>4, CloseLemma
      <4> QED BY <4>1, <4>2 DEF ComponentOK, TimersFit, ProbeInv
    <3>3. CASE ~SocketClosed
      <4>1. pinged => pinged'
        BY <2>4, <3>3 DEF Next, User, UserStart, TokenArrives, SessionFailed, AutoStartCancelled,
          Cleanup, Hide, Timers, InitialConnect, Reconnect, ConnectionTimeout, StartTimeout,
          KeepAlive, PingTimeout, ProbeTimeout, Socket, NetworkDies, ServerRejects, Messages,
          PtyExited, PtyReady, Unprocessable, StartupRejected, net
      <4> QED BY <3>1, <4>1 DEF ProbeInv
    <3> QED BY <3>2, <3>3
  <2> QED BY <2>1, <2>2, <2>3, <2>4
<1> QED BY <1>1, <1>2, Invariant, PTL DEF Spec

\* With a limit above one missed pong, as the code has, a page that is not left closes
\* an open connection only while a ping is unanswered.
THEOREM AnsweredConnectionsStay ==
    ASSUME MaxMisses > 1
    PROVE  Spec => AnsweredStaysOpen
<1>1. ClientInv /\ ProbeInv /\ [Next]_vars =>
        [c.sock = "open" /\ c'.sock = "closing" /\ ~left' /\ code' # "rejected"
           => pinged]_vars
  <2> SUFFICES ASSUME ClientInv, ProbeInv, Next, c.sock = "open", c'.sock = "closing", ~left',
                      code' # "rejected"
               PROVE  pinged
    BY DEF vars
  <2>c. c \in Component /\ TimersFit(c) /\ Shown(c)
    BY DEF ClientInv, TypeOK
  <2>s. ASSUME NEW x \in Component, x.sock = "open", NEW reason \in {"connection", "session"},
               NEW override \in BOOLEAN
        PROVE  Fail(x, reason, override).sock = "open"
    BY <2>s, FailLemma DEF SameButError
  <2>1. CASE User
    <3>0. ASSUME NEW opens \in BOOLEAN
          PROVE  /\ beginTerminalSessionStart(c, opens) \in Component
                 /\ beginTerminalSessionStart(c, opens).sock = "open"
      <4>1. PICK y : y = [c EXCEPT !.starting = TRUE, !.error = "none", !.rejected = FALSE,
                                   !.startTimer = TRUE]
        OBVIOUS
      <4>2. y \in Component /\ y.sock = "open"
        BY <2>c, <4>1 DEF Component
      <4>3. beginTerminalSessionStart(c, opens) = y
        BY <4>1, <4>2 DEF beginTerminalSessionStart, HasNoSocket
      <4> QED BY <4>2, <4>3
    <3>1. CASE UserStart BY <3>0, <3>1 DEF UserStart
    <3>2. ASSUME NEW t \in Tokens, TokenArrives(t) PROVE FALSE
      BY <3>0, <3>2 DEF TokenArrives, Component
    <3>3. ASSUME NEW t \in Tokens, SessionFailed(t) PROVE FALSE
      <4>1. [c EXCEPT !.pending = NoToken] \in Component
            /\ [c EXCEPT !.pending = NoToken].sock = "open"
        BY <2>c DEF Component
      <4> QED BY <2>s, <3>3, <4>1 DEF SessionFailed
    <3>4. CASE AutoStartCancelled \/ Hide
      BY <2>c, <3>4 DEF AutoStartCancelled, Hide, Component
    <3>5. CASE Cleanup BY <3>5 DEF Cleanup
    <3>6. CASE Show
      BY <2>c, <3>6 DEF Show, Component
    <3> QED BY <2>1, <3>1, <3>2, <3>3, <3>4, <3>5, <3>6 DEF User
  <2>2. CASE Timers
    <3>1. CASE InitialConnect
      <4>1. PICK z : z = [c EXCEPT !.initTimer = FALSE] OBVIOUS
      <4>2. z.sock = "open" BY <2>c, <4>1 DEF Component
      <4> QED BY <3>1, <4>1, <4>2 DEF InitialConnect, initializeWebSocket, HasNoSocket
    <3>2. CASE Reconnect \/ ConnectionTimeout
      BY <2>c, <3>2 DEF Reconnect, ConnectionTimeout, TimersFit, HasNoSocket
    <3>3. CASE StartTimeout
      <4>1. PICK x : x = [c EXCEPT !.startTimer = FALSE] OBVIOUS
      <4>2. PICK z : z = [x EXCEPT !.pending = NoToken] OBVIOUS
      <4>3. z \in Component /\ z.sock = "open" /\ x.sock = "open"
        BY <2>c, <4>1, <4>2 DEF Component
      <4>4. c' = x \/ c' = Fail(z, "connection", FALSE)
        BY <3>3, <4>1, <4>2 DEF StartTimeout
      <4> QED BY <2>s, <4>3, <4>4
    <3>4. CASE KeepAlive BY <3>4 DEF KeepAlive
    <3>5. CASE PingTimeout
      <4>1. PICK x : x = [c EXCEPT !.ping = "none", !.missed = @ + 1] OBVIOUS
      <4>2. x.sock = "open" /\ x.missed = 1
        BY <2>c, <3>5, <4>1 DEF PingTimeout, TimersFit, Component
      <4>3. c' = x
        BY <3>5, <4>1, <4>2, ClientAssumption DEF PingTimeout
      <4> QED BY <4>2, <4>3
    <3>6. CASE ProbeTimeout BY <3>6 DEF ProbeTimeout, ProbeInv
    <3> QED BY <2>2, <3>1, <3>2, <3>3, <3>4, <3>5, <3>6 DEF Timers
  <2>3. CASE Socket
    <3>1. CASE SocketClosed
      <4>1. PICK how \in {"abnormal", code}, failed \in BOOLEAN :
              c' = handleSocketClose(IF failed THEN handleSocketError(c) ELSE c, how)
        BY <3>1 DEF SocketClosed
      <4>2. how \in {"normal", "rejected", "abnormal"}
        BY <4>1 DEF ClientInv, TypeOK
      <4>3. PICK x : x = IF failed THEN handleSocketError(c) ELSE c OBVIOUS
      <4>4. x \in Component /\ Shown(x)
        BY <2>c, <4>3, PendingFailLemma DEF handleSocketError
      <4> QED BY <4>1, <4>2, <4>3, <4>4, CloseLemma
    <3> QED BY <2>3, <3>1 DEF Socket, SocketOpen, NetworkDies, ServerRejects
  <2>4. CASE Messages
    <3>1. Deactivate(c) \in Component /\ Deactivate(c).sock = "open"
      BY <2>c, DeactivateLemma
    <3>2. CASE Pong \/ PtyExited
      BY <2>c, <3>1, <3>2 DEF Pong, PtyExited, Component
    <3>3. ASSUME NEW t \in Tokens, PtyReady(t) \/ Unprocessable(t) PROVE FALSE
      BY <2>c, <3>1, <3>3 DEF PtyReady, Unprocessable, Component
    <3>4. ASSUME NEW t \in Tokens, StartupRejected(t) PROVE FALSE
      <4>1. PICK x : x = [Deactivate(c) EXCEPT !.pending = NoToken] OBVIOUS
      <4>2. x \in Component /\ x.sock = "open"
        BY <3>1, <4>1 DEF Component
      <4>3. c' = Fail(x, "session", TRUE)
        BY <3>4, <4>1 DEF StartupRejected
      <4> QED BY <2>s, <4>2, <4>3
    <3> QED BY <2>4, <3>2, <3>3, <3>4 DEF Messages
  <2> QED BY <2>1, <2>2, <2>3, <2>4 DEF Next
<1> QED BY <1>1, Invariant, ProbeInvariant, PTL DEF Spec, AnsweredStaysOpen
=============================================================================
