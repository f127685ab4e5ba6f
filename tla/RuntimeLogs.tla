---------------------------- MODULE RuntimeLogs -----------------------------
(***************************************************************************)
(* The runtime log viewer: resources/js/runtime-logs.js in the browser and  *)
(* Livewire's GetLogs on the server, which runs `docker logs`.  The viewer  *)
(* loads the tail of the log, then polls for the lines since the last       *)
(* timestamp it has and drops those it shows already.  A request is sent,   *)
(* served and delivered in three steps, between which the container writes  *)
(* and the user acts.  Filtering, search and scrolling derive what is drawn *)
(* from the same lines and are left out.                                    *)
(***************************************************************************)
EXTENDS Naturals, Sequences, FiniteSets, SequencesExt

CONSTANTS
    Texts,     \* texts of log lines
    MaxLog,    \* bound on the lines the container writes
    MaxGroup,  \* most lines with one timestamp
    NumberOfLines, \* numberOfLines of the tail
    MaxLines,  \* MAX_CLIENT_LOG_LINES
    Mark       \* the text of a line without a timestamp: docker's own error
               \* message, or "Unauthorized."

ASSUME LogsAssumption ==
    /\ {MaxLog, MaxGroup, NumberOfLines, MaxLines} \subseteq Nat \ {0}
    /\ Mark \notin Texts
    \* Lines with one timestamp (in ns) fit into what is loaded and what is kept.
    /\ MaxGroup <= NumberOfLines /\ MaxGroup <= MaxLines

VARIABLES
    log,       \* what the container has written
    lines,     \* the lines of the viewer
    loading,   \* a request is under way, as the viewer has it
    inFlight,  \* the requests under way, with the answers that are on their way back
    all,       \* numberOfLines = -1
    streamLogs,
    watching,  \* the panel is expanded and the document visible
    logsLoaded, \* the panel was expanded before
    destroyed,
    up,        \* the server is functional, access allowed, requests come through
    clean      \* the lines come from answers without an untimed line (history)

user == <<streamLogs, watching, logsLoaded, destroyed>>
vars == <<log, lines, loading, inFlight, all, streamLogs, watching, logsLoaded, destroyed,
          up, clean>>

Line == [ts : 1..MaxLog, text : Texts]
NoTime == 0
Marker == [ts |-> NoTime, text |-> Mark]
Entry == Line \cup {Marker}
Request == [kind : {"load", "all", "stream"}, since : 0..MaxLog, served : BOOLEAN,
            reply : Seq(Entry)]
Asked(kind, since) == [kind |-> kind, since |-> since, served |-> FALSE, reply |-> <<>>]

\* The type invariant.
TypeOK ==
    /\ log \in Seq(Line) /\ Len(log) <= MaxLog
    /\ lines \in Seq(Entry)
    /\ inFlight \subseteq Request
    /\ {loading, all, streamLogs, watching, logsLoaded, destroyed, up, clean} \subseteq BOOLEAN

\* init(): an expanded panel loads at once.
Init ==
    /\ log = <<>>
    /\ lines = <<>>
    /\ watching \in BOOLEAN
    /\ logsLoaded = watching
    /\ loading = watching
    /\ inFlight = IF watching THEN {Asked("load", NoTime)} ELSE {}
    /\ all = FALSE
    /\ streamLogs = FALSE
    /\ destroyed = FALSE
    /\ up = TRUE
    /\ clean = TRUE

-----------------------------------------------------------------------------
(* Operators                                                                *)

\* The elements of s at the positions K, in their order: filter().
Pick(s, K) ==
    [k \in 1..Cardinality(K) |-> s[CHOOSE i \in K : Cardinality(K \cap 1..i) = k]]

lastTimestamp(s) ==
    LET timed == {i \in DOMAIN s : s[i].ts # NoTime}
    IN  IF timed = {} THEN NoTime ELSE s[Max(timed)].ts

\* The lines at the end of s that share its last timestamp: the loop stops at the
\* first line, from the end, that does not have it.
Boundary(s) == {i \in DOMAIN s : \A k \in i..Len(s) : s[k].ts = lastTimestamp(s)}
\* Mutant of newLinesSince: one copy at the boundary hides all others.
newLinesSinceDistinct(existing, incoming) ==
    LET last == lastTimestamp(existing)
        isNew(i) == \/ incoming[i].ts > last
                    \/ incoming[i].ts = last /\ \A k \in DOMAIN existing : existing[k] # incoming[i]
    IN  IF last = NoTime THEN incoming ELSE Pick(incoming, {i \in DOMAIN incoming : isNew(i)})

\* Lines of a --since request that are not shown yet: as many copies of a text at
\* the boundary are dropped as are there already.
newLinesSince(existing, incoming) ==
    LET last == lastTimestamp(existing)
        seen(text) == Cardinality({i \in Boundary(existing) : existing[i].text = text})
        copy(i) == Cardinality({k \in 1..i : incoming[k] = incoming[i]})
        isNew(i) == \/ incoming[i].ts = NoTime
                    \/ incoming[i].ts > last
                    \/ incoming[i].ts = last /\ copy(i) > seen(incoming[i].text)
    IN  IF last = NoTime THEN incoming ELSE Pick(incoming, {i \in DOMAIN incoming : isNew(i)})

\* The last n elements.
LastOf(s, n) == IF Len(s) <= n THEN s ELSE SubSeq(s, Len(s) - n + 1, Len(s))

appendLines(s, new) == LastOf(s \o new, MaxLines)

\* docker logs as getLogs asks for it, sorted by runLogCommand.  Answers fit into the
\* 5 MB it keeps.
Output(r, every) ==
    IF r.kind = "stream" THEN Pick(log, {i \in DOMAIN log : log[i].ts >= r.since})
    ELSE IF every THEN log
    ELSE LastOf(log, NumberOfLines)

-----------------------------------------------------------------------------
(* The container                                                            *)

\* Two lines may have the same timestamp and the same text.  What is written once
\* the viewer is gone does not matter.
Write(text) ==
    /\ ~destroyed
    /\ Len(log) < MaxLog
    /\ \E t \in 1..MaxLog :
        /\ t \in {lastTimestamp(log), lastTimestamp(log) + 1}
        /\ Cardinality({i \in DOMAIN log : log[i].ts = t}) < MaxGroup
        /\ log' = Append(log, [ts |-> t, text |-> text])
    /\ UNCHANGED <<lines, loading, inFlight, all, user, up, clean>>

-----------------------------------------------------------------------------
(* The viewer                                                               *)

Ask(kind, since) ==
    /\ loading' = TRUE
    /\ inFlight' = inFlight \cup {Asked(kind, since)}
    /\ UNCHANGED <<log, lines, all, user, up, clean>>
\* Mutant of Refresh: a second request beside the first.
RefreshBeside == ~destroyed /\ Ask("load", NoTime)

\* refresh(), by the user.
Refresh ==
    /\ ~loading
    /\ ~destroyed
    /\ Ask("load", NoTime)

ShowAll ==
    /\ ~loading
    /\ ~destroyed
    /\ Ask("all", NoTime)
\* Mutant of StreamTick: asks for later lines only.
StreamTickLater ==
    /\ ~destroyed
    /\ ~loading
    /\ watching
    /\ streamLogs
    /\ lines # <<>>
    /\ Ask("stream", lastTimestamp(lines) + 1)

\* streamTick: without a timestamp to start from it loads the tail again.
StreamTick ==
    /\ ~destroyed
    /\ ~loading
    /\ watching
    /\ streamLogs
    /\ LET since == lastTimestamp(lines)
       IN  Ask(IF since = NoTime THEN "load" ELSE "stream", since)

ToggleStreamLogs ==
    /\ ~destroyed
    /\ streamLogs' = ~streamLogs
    /\ UNCHANGED <<log, lines, loading, inFlight, all, watching, logsLoaded, destroyed, up, clean>>

\* The panel opens or closes, or the tab is shown or hidden.  The first time the
\* panel opens it loads.
ToggleWatching ==
    /\ ~destroyed
    /\ watching' = ~watching
    /\ logsLoaded' = TRUE
    /\ IF logsLoaded \/ loading
       THEN UNCHANGED <<loading, inFlight>>
       ELSE /\ loading' = TRUE
            /\ inFlight' = {Asked("load", NoTime)}
    /\ UNCHANGED <<log, lines, all, streamLogs, destroyed, up, clean>>

\* The page is left.
Destroy ==
    /\ ~destroyed
    /\ destroyed' = TRUE
    /\ UNCHANGED <<log, lines, loading, inFlight, all, streamLogs, watching, logsLoaded, up, clean>>

-----------------------------------------------------------------------------
(* Requests                                                                 *)

Outage ==
    /\ ~destroyed
    /\ up' = ~up
    /\ UNCHANGED <<log, lines, loading, inFlight, all, user, clean>>

\* getLogs and showAllLogs answer with lines; or with nothing, when the server is
\* not functional; or with a message that has no timestamp.
Answer(r, output) ==
    /\ ~r.served
    /\ inFlight' = (inFlight \ {r}) \cup {[r EXCEPT !.served = TRUE, !.reply = output]}
    /\ UNCHANGED <<log, lines, loading, all, user, up, clean>>

Serve(r) == up /\ Answer(r, Output(r, all \/ r.kind = "all"))

ServeNothing(r) == ~up /\ (Answer(r, <<>>) \/ Answer(r, <<Marker>>))

Done(r) ==
    /\ loading' = FALSE
    /\ inFlight' = inFlight \ {r}
    /\ UNCHANGED <<log, user, up>>
\* Mutant of Deliver: loading stays set when streaming was switched off.
DeliverStuck(r) ==
    /\ r.served
    /\ lines' = IF r.kind # "stream" THEN r.reply
                ELSE IF streamLogs THEN appendLines(lines, newLinesSince(lines, r.reply))
                ELSE lines
    /\ loading' = (r.kind = "stream" /\ ~streamLogs)
    /\ inFlight' = inFlight \ {r}
    /\ UNCHANGED <<log, all, user, up, clean>>

\* The answer arrives, with it the state of the Livewire component: replaceLines, or
\* appendLines of what is new unless streaming was switched off meanwhile.
Deliver(r) ==
    /\ r.served
    /\ lines' = IF destroyed THEN lines
                ELSE IF r.kind # "stream" THEN r.reply
                ELSE IF streamLogs THEN appendLines(lines, newLinesSince(lines, r.reply))
                ELSE lines
    /\ all' = (all \/ r.kind = "all")
    /\ clean' = IF lines' = lines THEN clean
                ELSE (clean \/ r.kind # "stream") /\ Marker \notin Range(r.reply)
    /\ Done(r)

\* The request fails, before or after it was served.
RequestFails(r) ==
    /\ ~up
    /\ Done(r)
    /\ UNCHANGED <<lines, all, clean>>

-----------------------------------------------------------------------------
Next ==
    \/ \E text \in Texts : Write(text)
    \/ Refresh \/ ShowAll \/ StreamTick
    \/ ToggleStreamLogs \/ ToggleWatching \/ Destroy
    \/ Outage
    \/ \E r \in inFlight : Serve(r) \/ ServeNothing(r) \/ Deliver(r) \/ RequestFails(r)

Spec == Init /\ [][Next]_vars

\* The interval ticks, the server answers and answers arrive.
Fairness ==
    /\ WF_vars(StreamTick)
    /\ WF_vars(\E r \in inFlight : Serve(r))
    /\ WF_vars(\E r \in inFlight : Deliver(r))

FairSpec == Spec /\ Fairness

-----------------------------------------------------------------------------
(* Properties                                                               *)

\* The viewer shows a piece of the log: no line twice, none left out, none out of
\* order, also when lines share a timestamp and a text, old lines are trimmed, and
\* loads, streaming and failed requests alternate.  Only an answer with a line that
\* has no timestamp ends this, until the next load.
ShowsPieceOfLog ==
    \/ ~clean
    \/ lines = <<>>
    \/ \E i \in DOMAIN log : IsPrefix(lines, SubSeq(log, i, Len(log)))

\* The newest line shown is not replaced by an older one, as only one request is
\* under way and an old answer cannot arrive after a newer one.  An empty answer to a
\* load and a message do replace it.
NeverGoesBack ==
    [][\/ lastTimestamp(lines') >= lastTimestamp(lines)
       \/ lines' = <<>>
       \/ ~clean']_vars

\* A viewer that streams without further outages catches up with the log.
CatchesUp ==
    <>[](streamLogs /\ watching /\ ~destroyed /\ up)
        => <>[](/\ lastTimestamp(lines) = lastTimestamp(log)
                /\ clean => IsSuffix(lines, log))

\* "Remove lines that a --since request returns again": no line of the log is
\* shown more often than it was written.
NoLineTwice ==
    \A l \in Range(log) :
        Cardinality({i \in DOMAIN lines : lines[i] = l}) <= Cardinality({i \in DOMAIN log : log[i] = l})
=============================================================================
