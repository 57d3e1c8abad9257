--------------------------- MODULE GatewaySocket ---------------------------
(***************************************************************************)
(* From a run's Redis stream to the page: one LcaAgentStreamClient in the  *)
(* browser and the sessions LcaAgentGateway serves it, one after the       *)
(* other.  The server's side of a session is _run_session (the resume      *)
(* handshake and the replay) and _live_loop with the XREAD task that feeds *)
(* its frame queue; the client's side is its frame handler, its reconnect  *)
(* timer and its heartbeat.  Authentication changes nothing the properties *)
(* tell apart and is left out; the client always asks for the status.      *)
(*                                                                         *)
(* The stream is the sequence of all entries ever added; `first' is the    *)
(* oldest one Redis still holds.  An entry id is <<ms, seq>>, written      *)
(* "<ms>-<seq>" on the wire; every ms has the same number of digits.       *)
(***************************************************************************)
EXTENDS Integers, FiniteSets, Sequences

CONSTANTS
  MaxEvents,  \* bound: entries added to the stream
  PerMs,      \* bound: entries added in the same millisecond
  MaxPages,   \* bound: client objects the pages make for the run
  MaxDrops,   \* bound: connections that break
  MaxLate,    \* bound: late close events that follow one another
  Radix,      \* base in which ids are written: 10
  Window,     \* entries read_history asks for, and STREAM_MAXLEN
  QueueMax    \* _PUMP_QUEUE_MAX

ASSUME SocketAssumption ==
  /\ MaxEvents \in Nat \ {0} /\ MaxPages \in Nat /\ MaxDrops \in Nat
  /\ MaxLate \in Nat
  /\ Radix \in Nat /\ Radix > 1
  /\ PerMs \in 1..(Radix * Radix)
  /\ Window \in Nat \ {0} /\ QueueMax \in Nat \ {0}

\* "pause" and "end" are agent_runtime_end, "error" a failed model call: each of
\* them ends the session for the client (isOwnTerminal).
Type     == {"event", "error", "pause", "end"}
Terminal == {"pause", "end"}
Ending   == {"error", "pause", "end"}
Id       == Nat \X Nat
Start    == <<>>  \* no id yet: "0" of the client, "" of the server
Hint     == {"none", "running", "waiting_input", "completed"}
Open     == {"asked", "replay", "live"}

VARIABLES
  run,      \* "running", "paused", "ended", or "canceled": no end follows
  stream,   \* every entry added so far
  first,    \* position of the oldest entry in Redis
  expired,  \* the key expired at least once
  conn,     \* "off": no client; "timer": it will reconnect; a session is open:
            \* "asked", "replay", "live"; "over": the client ended it
  pages,    \* client objects made so far
  drops,    \* connections broken so far
  zombie,   \* close events of sockets given up that may still come
  last,     \* lastEventId
  got,      \* positions the page was sent since it last began from nothing
  horizon,  \* entries before this one may be out of the server's reach
  upto,     \* replayed_upto
  hist,     \* positions of the history still to be replayed
  status,   \* _terminal_status_from_history, then what resume_complete said
  cursor,   \* id the next XREAD asks after
  queue     \* frame queue of the live loop: positions

redis  == <<run, stream, first, expired>>
page   == <<pages, drops, zombie>>
seen   == <<last, got>>
server == <<upto, hist, status, cursor, queue>>
vars   == <<redis, conn, page, seen, horizon, server>>

Init ==
  /\ run = "running"
  /\ stream = <<[id |-> <<1, 0>>, type |-> "event"]>>  \* agent_runtime_init
  /\ first = 1 /\ expired = FALSE
  /\ conn = "off" /\ pages = 0 /\ drops = 0 /\ zombie = 0
  /\ last = Start /\ got = <<>> /\ horizon = 1
  /\ upto = Start /\ hist = <<>> /\ status = "none"
  /\ cursor = Start /\ queue = <<>>

-----------------------------------------------------------------------------
(* Entry ids                                                               *)

\* Redis orders ids as pairs of numbers.
After(a, b) == b = Start \/ a[1] > b[1] \/ (a[1] = b[1] /\ a[2] > b[2])

\* What `<=' on strings makes of two numbers of at most two digits.
NumeralLeq(m, n) ==
  LET Lead(x) == IF x < Radix THEN x ELSE x \div Radix
  IN \/ Lead(m) < Lead(n)
     \/ Lead(m) = Lead(n) /\ m < Radix
     \/ Lead(m) = Lead(n) /\ n >= Radix /\ m % Radix <= n % Radix

\* ev_id <= replayed_upto, on strings.
NotAfter(a, b) == a[1] < b[1] \/ (a[1] = b[1] /\ NumeralLeq(a[2], b[2]))

IdOf(n) == stream[n].id
Held == first..Len(stream)

-----------------------------------------------------------------------------
(* The run's side of the stream                                            *)

\* XADD: the id is the present millisecond, or the next number in it; a key past
\* its maximal length may be trimmed.
Add(type) ==
  LET n == Len(stream) IN
  /\ n < MaxEvents
  /\ \E id \in {<<IdOf(n)[1] + 1, 0>>, <<IdOf(n)[1], IdOf(n)[2] + 1>>} :
       /\ id[2] < PerMs
       /\ Held = {} => id[2] = 0
       /\ stream' = Append(stream, [id |-> id, type |-> type])
  /\ first' \in {first} \cup (IF n + 1 - first >= Window THEN {n + 2 - Window} ELSE {})

\* The pump publishes for a run that goes on, pauses or ends, and what it had
\* queued when the run was canceled.
Publish(type) ==
  /\ run \in {"running", "canceled"}
  /\ Add(type)
  /\ run' = CASE type = "end" -> "ended"
              [] type = "pause" /\ run = "running" -> "paused"
              [] OTHER -> run
  /\ UNCHANGED <<expired, conn, page, seen, horizon, server>>

\* What XREAD returns to a live session.
Unread == {n \in Held : After(IdOf(n), cursor)}

\* Nothing was published for STREAM_RETENTION_SECONDS, two hours, in which a
\* replay has come to its end and a live session has read everything.
Expire ==
  /\ Held # {} /\ conn # "replay" /\ (conn = "live" => Unread = {})
  /\ first' = Len(stream) + 1
  /\ expired' = TRUE
  /\ UNCHANGED <<run, stream, conn, page, seen, horizon, server>>

\* The question is answered, or the run canceled, over HTTP.
Elsewhere ==
  /\ \/ run = "paused" /\ run' = "running"
     \/ run \in {"running", "paused"} /\ run' = "canceled"
  /\ UNCHANGED <<stream, first, expired, conn, page, seen, horizon, server>>

-----------------------------------------------------------------------------
(* Opening and losing a session                                            *)

\* Mutant: a reconnecting client asks for everything.
ResumeFromStart(id) == Start
\* The id the resume frame names.
ResumeFrom(id) == id

\* openSocket, the handshake and the resume frame.
OpenSocket(id) ==
  /\ conn' = "asked"
  /\ upto' = ResumeFrom(id)
  /\ hist' = <<>> /\ status' = "none" /\ cursor' = Start /\ queue' = <<>>

\* A new client object: of a new page, which knows nothing, or of the operation
\* that resumes an answered run, which continues from lcaStreamPositions.
NewClient(fresh) ==
  /\ pages < MaxPages
  /\ fresh \/ conn \in {"off", "over"}
  /\ pages' = pages + 1
  /\ zombie' = 0
  /\ last' = IF fresh THEN Start ELSE last
  /\ got' = IF fresh THEN <<>> ELSE got
  /\ horizon' = IF fresh THEN 1 ELSE horizon
  /\ OpenSocket(last')
  /\ UNCHANGED <<redis, drops>>

\* The reconnect timer fires.
Reconnect ==
  /\ conn = "timer"
  /\ OpenSocket(last)
  /\ UNCHANGED <<redis, page, seen, horizon>>

\* The connection breaks: at once, or unnoticed until the heartbeats go missing,
\* when the client gives the socket up before its close event.
Drop(silently) ==
  /\ conn \in Open
  /\ drops < MaxDrops
  /\ drops' = drops + 1
  /\ conn' = "timer"
  /\ zombie' = IF silently THEN MaxLate ELSE zombie
  /\ UNCHANGED <<redis, pages, seen, horizon, server>>

\* The late close event runs the handler of the socket in use: that one is closed
\* in its turn, and its close event is late too.
ZombieCloses ==
  /\ zombie > 0
  /\ zombie' = IF conn \in Open THEN zombie - 1 ELSE 0
  /\ conn' = IF conn \in Open THEN "timer" ELSE conn
  /\ UNCHANGED <<redis, pages, drops, seen, horizon, server>>

\* Mutant: the client leaves the end of the run to session_complete.
EndsSessionOnError(type) == type = "error"
\* isOwnTerminal
EndsSession(type) == type \in Ending

\* An entry reaches the client, which remembers its id; its own terminal event
\* ends the session.
Deliver(n) ==
  /\ got' = Append(got, n)
  /\ last' = IdOf(n)
  /\ conn' = IF EndsSession(stream[n].type) THEN "over" ELSE conn

-----------------------------------------------------------------------------
(* Replay                                                                  *)

\* Mutant: a pause counts as a completion.
TerminalStatusPauseEnds(h) ==
  IF \A i \in 1..Len(h) : stream[h[i]].type \notin Terminal THEN "none" ELSE "completed"

\* _terminal_status_from_history: the newest terminal event decides, whatever
\* follows it.
TerminalStatus(h) ==
  LET ends == {i \in 1..Len(h) : stream[h[i]].type \in Terminal}
  IN IF ends = {} THEN "none"
     ELSE IF stream[h[CHOOSE i \in ends : \A j \in ends : i >= j]].type = "end"
          THEN "completed" ELSE "waiting_input"

\* Mutant: the history is read without a count.
OldestReadAll == first
\* The oldest entry read_history returns.
OldestRead == IF Len(stream) - Window + 1 > first THEN Len(stream) - Window + 1 ELSE first

\* read_history, put in the order of the stream.
ReadHistory ==
  LET h == [i \in 1..(Len(stream) + 1 - OldestRead) |-> OldestRead + i - 1]
  IN /\ conn = "asked"
     /\ conn' = "replay"
     /\ hist' = h
     /\ status' = TerminalStatus(h)
     /\ horizon' = IF OldestRead > horizon THEN OldestRead ELSE horizon
     /\ UNCHANGED <<redis, page, seen, upto, cursor, queue>>

\* The client has the entry already, by the comparison the replay makes.
Skip(n) == upto # Start /\ NotAfter(IdOf(n), upto)

Replay ==
  LET n == Head(hist) IN
  /\ conn = "replay" /\ hist # <<>>
  /\ hist' = Tail(hist)
  /\ IF Skip(n) THEN UNCHANGED <<upto, seen, conn>>
     ELSE Deliver(n) /\ upto' = IdOf(n)
  /\ UNCHANGED <<redis, page, horizon, status, cursor, queue>>

\* Mutant: a run without a terminal event is taken to be over.
ReportUnknownOver == IF status # "none" THEN status ELSE "completed"
\* resume_complete: a run without a terminal event counts as running as long as
\* its key exists.
Report ==
  IF status # "none" THEN status ELSE IF Held # {} THEN "running" ELSE "completed"

\* Mutant: the live loop starts with what is published from now on.
LiveFromNewest == IdOf(Len(stream))
\* Where the live loop starts reading.
LiveFrom == upto

\* The replay is over: report the status, then complete the session or go live.
EndReplay ==
  /\ conn = "replay" /\ hist = <<>>
  /\ status' = Report
  /\ conn' = IF Report = "completed" THEN "over" ELSE "live"
  /\ cursor' = LiveFrom
  /\ UNCHANGED <<redis, page, seen, horizon, upto, hist, queue>>

-----------------------------------------------------------------------------
(* The live loop                                                           *)

\* The XREAD task queues the next entry after the cursor.
Read ==
  LET n == CHOOSE m \in Unread : \A k \in Unread : m <= k IN
  /\ conn = "live" /\ Len(queue) < QueueMax /\ Unread # {}
  /\ queue' = Append(queue, n)
  /\ cursor' = IdOf(n)
  /\ horizon' = IF first > horizon THEN first ELSE horizon
  /\ UNCHANGED <<redis, conn, page, seen, upto, hist, status>>

\* A frame is forwarded; after agent_runtime_end session_complete follows, but
\* the client has ended the session by then.
Forward ==
  /\ conn = "live" /\ queue # <<>>
  /\ queue' = Tail(queue)
  /\ Deliver(Head(queue))
  /\ UNCHANGED <<redis, page, horizon, upto, hist, status, cursor>>

\* Control frames: tool_result answers the question; interrupt cancels the run
\* and closes without session_complete, so that the client reconnects.
ToolResult ==
  /\ conn = "live"
  /\ run = "paused" /\ run' = "running"
  /\ UNCHANGED <<stream, first, expired, conn, page, seen, horizon, server>>

Interrupt ==
  /\ conn = "live"
  /\ run \in {"running", "paused"} /\ run' = "canceled"
  /\ conn' = "timer"
  /\ UNCHANGED <<stream, first, expired, page, seen, horizon, server>>

-----------------------------------------------------------------------------
Server == ReadHistory \/ Replay \/ EndReplay
Client ==
  \/ \E fresh \in BOOLEAN : NewClient(fresh)
  \/ \E silently \in BOOLEAN : Drop(silently)
  \/ Reconnect \/ ZombieCloses \/ ToolResult \/ Interrupt
Run == (\E type \in Type : Publish(type)) \/ Expire \/ Elsewhere

Next == Server \/ Read \/ Forward \/ Client \/ Run

Spec == Init /\ [][Next]_vars

\* The gateway's event loop runs its tasks, Redis answers, and the browser's
\* timers fire.
FairSpec ==
  Spec /\ WF_vars(Server) /\ WF_vars(Read) /\ WF_vars(Forward) /\ WF_vars(Reconnect)

-----------------------------------------------------------------------------
(* Properties                                                              *)

\* At most QueueMax frames wait and the history is no longer than the window
\* (agent_gateway.py: _PUMP_QUEUE_MAX, read_history(count=1000)).
TypeOK ==
  /\ run \in {"running", "paused", "ended", "canceled"}
  /\ stream \in Seq([id : Id, type : Type])
  /\ first \in 1..(Len(stream) + 1)
  /\ expired \in BOOLEAN
  /\ conn \in Open \cup {"off", "timer", "over"}
  /\ pages \in 0..MaxPages /\ drops \in 0..MaxDrops /\ zombie \in 0..MaxLate
  /\ last \in Id \cup {Start} /\ upto \in Id \cup {Start} /\ cursor \in Id \cup {Start}
  /\ got \in Seq(1..Len(stream))
  /\ horizon \in 1..(Len(stream) + 1)
  /\ hist \in Seq(1..Len(stream)) /\ Len(hist) <= Window
  /\ status \in Hint
  /\ queue \in Seq(1..Len(stream)) /\ Len(queue) <= QueueMax

\* What a page is sent, over all sessions, is in the order of the stream and
\* nothing is sent twice (agent_gateway.py:285, LcaAgentStreamClient.ts:25-26).
NoRedelivery == \A i, j \in 1..Len(got) : i < j => got[i] < got[j]

\* Nothing within the server's reach is skipped, across broken connections and
\* the switch from the replay to the live loop (agent_gateway.py:11-14).
NoGap ==
  \A j \in 1..Len(got) : \A m \in horizon..got[j] : \E i \in 1..j : got[i] = m

\* When the client ends a session, the last entry it has is one that ends it,
\* unless the key expired (LcaAgentStreamClient.ts:384-391).
OverMeansTold ==
  conn = "over" /\ ~expired => got # <<>> /\ stream[got[Len(got)]].type \in Ending

\* resume_complete calls a run finished only if it is, or its key expired
\* (agent_gateway.py:253-261).
StatusIsTrue ==
  conn \in {"live", "over"} /\ status = "completed" => run = "ended" \/ expired

\* A client that has not ended its session learns that the run ended
\* (agent_gateway.py:19-20), or its page is closed for another.
EndIsSeen == (conn \in Open \cup {"timer"} /\ run = "ended") ~> conn = "over"
=============================================================================
