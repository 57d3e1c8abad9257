---------------------------- MODULE GatewayPump ----------------------------
(***************************************************************************)
(* From the log of a run's Session to the Redis stream the browsers read:  *)
(* register_gateway_run, the gateway session pump, the runtime coordinator *)
(* with its event translator and LcaStreamEventLog.publish.                *)
(*                                                                         *)
(* One asyncio event loop runs the drivers of the runs, which append to    *)
(* the logs, and one pump task per run.  An action is the code between two *)
(* suspension points: the pump awaits its queue, the tool state writer and *)
(* each attempt of a publish.  An event of the log is named by what the    *)
(* translator makes of it; events it ignores are left out.                 *)
(***************************************************************************)
EXTENDS Integers, FiniteSets, Sequences

CONSTANTS
  Runs,      \* run ids
  Says,      \* bound: kinds of events a driver appends while it runs
  MaxLog,    \* bound: events a driver appends before it concludes
  Capacity,  \* maxsize of the pump's queue
  Attempts,  \* _PUBLISH_ATTEMPTS
  MaxPosts,  \* bound: times the front end posts the request of a run
  Faults,    \* "redis", "db": what may fail while it is used
  MaxFails   \* bound: how often that happens

\* What a log entry is: a streaming and a non-streaming model call begin, a text
\* delta, a tool call being generated, a streaming call ends without or with a
\* failure, the whole answer of a call, a tool begins, its result with a state to
\* write, a result without (the tool was denied, its projected state is empty), and
\* three checkpoints.
Talk == {"start", "quiet", "token", "calls", "end", "error", "header", "began", "tool", "bare"}
Kind == Talk \cup {"pause", "completed", "failed"}
\* The events whose tool state is written.
Stateful == {"began", "tool"}

ASSUME PumpAssumption ==
  /\ Says \subseteq Talk
  /\ MaxLog \in Nat /\ Capacity \in Nat \ {0} /\ Attempts \in Nat \ {0}
  /\ MaxPosts \in Nat /\ MaxFails \in Nat
  /\ Faults \subseteq {"redis", "db"}

\* What the stream and the handler's list of work hold: `seq' is the position of
\* the log entry an envelope stands for, 0 for the coordinator's own envelopes.
EnvelopeType == {"agent_runtime_init", "stream_start", "text", "tools_calling",
                 "stream_end", "visible_output_end", "error", "tool_start", "tool_end",
                 "step_start", "agent_runtime_end"}
Envelope == [seq : Nat, type : EnvelopeType]
Persist == "tool_state"
Work == [seq : Nat, type : EnvelopeType \cup {Persist}]

Terminal == {"completed", "failed", "canceled"}
Outcome  == {"paused", "completed", "failed"}

VARIABLES
  status,    \* RunSession.status
  failure,   \* RunSession.error is set
  driver,    \* "run", what the driver returned while that is settled, "over"
  log,       \* Session._log
  queue,     \* the pump's asyncio.Queue: positions in the log
  dropped,   \* positions the observer dropped on a full queue
  posts,     \* times the request was posted
  starting,  \* register_gateway_run is publishing: its attempt, 0: it is not
  pc,        \* where the pump task is
  pos, end,  \* replay: entries done, length of the copied log
  seen,      \* published_seqs
  todo,      \* what handle_stamped still has to write and publish
  tries,     \* failed attempts of the publish in hand
  fails,     \* attempts that failed so far
  gaveUp,    \* a publish or a write was given up
  natural,   \* _natural_terminal_published
  streamed,  \* EventTranslator._streamed_text
  tools,     \* EventTranslator._turn_requested_tools
  turns,     \* run and position of the events the translator was given (history)
  written,   \* tool events whose write returned (history)
  stream     \* the run's Redis stream

session    == <<status, failure, driver>>
events     == <<log, queue, dropped>>
translator == <<streamed, tools, turns>>
register   == <<posts, starting>>
replay     == <<pos, end>>
handler    == <<todo, tries, gaveUp, written, natural>>
pump       == <<register, fails, pc, replay, seen, handler, translator, stream>>
vars       == <<session, events, pump>>

Init ==
  /\ status = [r \in Runs |-> "running"]
  /\ failure = [r \in Runs |-> FALSE]
  /\ driver = [r \in Runs |-> "run"]
  /\ log = [r \in Runs |-> <<>>]
  /\ queue = [r \in Runs |-> <<>>]
  /\ dropped = [r \in Runs |-> {}]
  /\ posts = [r \in Runs |-> 0]
  /\ starting = [r \in Runs |-> 0]
  /\ pc = [r \in Runs |-> "off"]
  /\ pos = [r \in Runs |-> 0]
  /\ end = [r \in Runs |-> 0]
  /\ seen = [r \in Runs |-> {}]
  /\ todo = [r \in Runs |-> <<>>]
  /\ tries = [r \in Runs |-> 0]
  /\ fails = 0
  /\ gaveUp = [r \in Runs |-> FALSE]
  /\ natural = {}
  /\ streamed = FALSE
  /\ tools = FALSE
  /\ turns = <<>>
  /\ written = [r \in Runs |-> {}]
  /\ stream = [r \in Runs |-> <<>>]

-----------------------------------------------------------------------------
(* The run: what the driver appends and when the status changes            *)

LastKind(r) == IF log[r] = <<>> THEN "none" ELSE log[r][Len(log[r])]
InCall(r) == LastKind(r) \in {"start", "token", "calls"}
\* What a driver may append next: deltas inside a streaming call, the answer
\* right after a call, everything else between calls.
MayFollow(r) ==
  IF InCall(r) THEN {"token", "calls", "end", "error"}
  ELSE {"start", "quiet", "began", "tool", "bare"}
       \cup (IF LastKind(r) \in {"end", "quiet"} THEN {"header"} ELSE {})

\* Mutant: the observer is registered after the replay.
ObservedLate(r) == pc[r] \in {"wait", "drain", "final", "dead"}
\* The observer is registered; a pump that died never takes it back.
Observed(r) == pc[r] \in {"replay", "wait", "drain", "final", "dead"}

\* Mutant: the observer's put is not bounded.
HasRoomAlways(r) == TRUE
HasRoom(r) == Len(queue[r]) < Capacity

\* Session.append: commit, then call the observer, which drops on a full queue.
Commit(r, k) ==
  LET n == Len(log[r]) + 1 IN
  /\ log' = [log EXCEPT ![r] = Append(@, k)]
  /\ IF Observed(r) /\ HasRoom(r)
     THEN queue' = [queue EXCEPT ![r] = Append(@, n)] ELSE UNCHANGED queue
  /\ IF Observed(r) /\ ~HasRoom(r)
     THEN dropped' = [dropped EXCEPT ![r] = @ \cup {n}] ELSE UNCHANGED dropped

\* Model calls and tools of a driver that has not been cancelled.
Talks(r, k) ==
  /\ driver[r] = "run" /\ status[r] = "running"
  /\ k \in MayFollow(r) \cap Says /\ Len(log[r]) < MaxLog
  /\ Commit(r, k)
  /\ UNCHANGED <<session, pump>>

\* The driver returns.  A conclusion is checkpointed; a pause only if its
\* request has an approval_id and a snapshot.
Returns(r, outcome) ==
  /\ driver[r] = "run" /\ status[r] = "running" /\ ~InCall(r)
  /\ driver' = [driver EXCEPT ![r] = outcome]
  /\ \/ outcome # "paused" /\ Commit(r, outcome)
     \/ outcome = "paused" /\ Len(log[r]) < MaxLog /\ Commit(r, "pause")
     \/ outcome = "paused" /\ UNCHANGED events
  /\ UNCHANGED <<status, failure, pump>>

\* The driver raises: the error is recorded and the run is failed.
Raises(r) ==
  /\ driver[r] = "run" /\ status[r] = "running" /\ ~InCall(r)
  /\ driver' = [driver EXCEPT ![r] = "over"]
  /\ failure' = [failure EXCEPT ![r] = TRUE]
  /\ status' = [status EXCEPT ![r] = "failed"]
  /\ UNCHANGED <<events, pump>>

\* The carrier settles what the driver returned; a cancellation outranks it.
Settles(r) ==
  /\ driver[r] \in Outcome
  /\ driver' = [driver EXCEPT ![r] = "over"]
  /\ status' = [status EXCEPT ![r] =
                  IF @ = "canceled" THEN @
                  ELSE IF driver[r] = "paused" THEN "waiting_input" ELSE driver[r]]
  /\ UNCHANGED <<failure, events, pump>>

\* The cancel command: the status changes before the driver notices.
Cancels(r) ==
  /\ status[r] \notin Terminal
  /\ status' = [status EXCEPT ![r] = "canceled"]
  /\ UNCHANGED <<failure, driver, events, pump>>

\* CancelledError unwinds the driver: an open call still logs its end, the
\* runtime loop re-raises without a checkpoint.
Unwinds(r) ==
  /\ driver[r] = "run" /\ status[r] = "canceled"
  /\ driver' = [driver EXCEPT ![r] = "over"]
  /\ IF InCall(r) THEN Commit(r, "end") ELSE UNCHANGED events
  /\ UNCHANGED <<status, failure, pump>>

\* An answer resumes the paused run.
Resumes(r) ==
  /\ status[r] = "waiting_input" /\ driver[r] = "over"
  /\ status' = [status EXCEPT ![r] = "running"]
  /\ driver' = [driver EXCEPT ![r] = "run"]
  /\ UNCHANGED <<failure, events, pump>>

-----------------------------------------------------------------------------
(* Registration                                                            *)

Entry(n, type) == [seq |-> n, type |-> type]
Put(r, e) == stream' = [stream EXCEPT ![r] = Append(@, e)]

\* The request is posted: the run has just been created, or it is in flight and
\* the request coalesced with it.
Post(r) ==
  /\ posts[r] < MaxPosts /\ starting[r] = 0
  /\ posts[r] = 0 \/ status[r] = "running"
  /\ posts' = [posts EXCEPT ![r] = @ + 1]
  /\ starting' = [starting EXCEPT ![r] = 1]
  /\ UNCHANGED <<session, events, fails, pc, replay, seen, handler, translator, stream>>

\* agent_runtime_init is on the stream; the first registration that gets so far
\* schedules the pump.
Registers(r) ==
  /\ starting[r] # 0
  /\ starting' = [starting EXCEPT ![r] = 0]
  /\ Put(r, Entry(0, "agent_runtime_init"))
  /\ pc' = [pc EXCEPT ![r] = IF @ = "off" THEN "ready" ELSE @]
  /\ UNCHANGED <<session, events, fails, posts, replay, seen, handler, translator>>

\* One more use of what may fail does.
Fail(what) == what \in Faults /\ fails < MaxFails /\ fails' = fails + 1

\* An attempt to publish it fails, with the entry added (the EXPIRE after the
\* XADD failed) or without; the last failure answers 503 and schedules nothing.
RegisterFails(r, added) ==
  /\ Fail("redis")
  /\ starting[r] # 0
  /\ starting' = [starting EXCEPT ![r] = IF @ < Attempts THEN @ + 1 ELSE 0]
  /\ IF added THEN Put(r, Entry(0, "agent_runtime_init")) ELSE UNCHANGED stream
  /\ UNCHANGED <<session, events, posts, pc, replay, seen, handler, translator>>

-----------------------------------------------------------------------------
(* Translation                                                             *)

\* The whole answer of a call whose text was streamed is dropped.
RepeatsText(k, text) == k = "header" /\ text

\* EventTranslator.translate: the envelopes of one event, given the two flags.
Translation(k, text, calls) ==
  CASE k = "quiet" \/ RepeatsText(k, text)      -> <<>>
    [] k = "start"                              -> <<"stream_start">>
    [] k \in {"token", "header"} /\ ~RepeatsText(k, text) -> <<"text">>
    [] k = "calls"                              -> <<"tools_calling">>
    [] k = "end" /\ text /\ ~calls              -> <<"stream_end", "visible_output_end">>
    [] k = "end" /\ ~(text /\ ~calls)           -> <<"stream_end">>
    [] k = "error"                              -> <<"error">>
    [] k = "began"                              -> <<"tool_start">>
    [] k \in {"tool", "bare"}                   -> <<"tool_end">>
    [] k = "pause"                              -> <<"step_start", "agent_runtime_end">>
    [] k \in {"completed", "failed"}            -> <<"agent_runtime_end">>

\* Mutant: the result is published before its state is written.
HandlerWorkPublishFirst(n, k) ==
  LET types == Translation(k, streamed, tools)
      work == IF k \in Stateful THEN types \o <<Persist>> ELSE types
  IN [i \in 1..Len(work) |-> Entry(n, work[i])]

\* What handle_stamped does for log entry n: the writes and publishes in order.  The
\* writes come before the translation; the events that have one neither read nor
\* change its flags.
HandlerWork(n, k) ==
  LET types == Translation(k, streamed, tools)
      work == IF k \in Stateful THEN <<Persist>> \o types ELSE types
  IN [i \in 1..Len(work) |-> Entry(n, work[i])]

\* Mutant: a new call does not reset what the last one streamed.
FoldNoReset(k) ==
  /\ streamed' = (streamed \/ k = "token")
  /\ tools' = (tools \/ k = "calls")

\* The flags after the event; they belong to the one translator of all runs.
Fold(k) ==
  /\ streamed' = (k \notin {"start", "quiet"} /\ (streamed \/ k = "token"))
  /\ tools' = (k \notin {"start", "quiet"} /\ (tools \/ k = "calls"))

-----------------------------------------------------------------------------
(* The pump task                                                           *)

Idle(r) == todo[r] = <<>>

\* _publish_log_event up to the first await of handle_stamped.
Handle(r, n) ==
  IF n \in seen[r] THEN UNCHANGED <<seen, todo, translator>>
  ELSE /\ seen' = [seen EXCEPT ![r] = @ \cup {n}]
       /\ todo' = [todo EXCEPT ![r] = HandlerWork(n, log[r][n])]
       /\ turns' = Append(turns, <<r, n>>)
       /\ Fold(log[r][n])

\* The first step of the task registers the observer and copies the log.
Begin(r) ==
  /\ pc[r] = "ready"
  /\ pc' = [pc EXCEPT ![r] = "replay"]
  /\ end' = [end EXCEPT ![r] = Len(log[r])]
  /\ UNCHANGED <<session, events, register, fails, pos, seen, handler, translator, stream>>

ReplayNext(r) ==
  /\ pc[r] = "replay" /\ Idle(r) /\ pos[r] < end[r]
  /\ pos' = [pos EXCEPT ![r] = @ + 1]
  /\ Handle(r, pos[r] + 1)
  /\ UNCHANGED <<session, events, register, fails, pc, end, tries, gaveUp, written, natural,
                 stream>>

ReplayEnds(r) ==
  /\ pc[r] = "replay" /\ Idle(r) /\ pos[r] = end[r]
  /\ pc' = [pc EXCEPT ![r] = "wait"]
  /\ UNCHANGED <<session, events, register, fails, replay, seen, handler, translator, stream>>

\* An event comes out of the queue, in the loop or in one of the two drains.
Take(r) ==
  /\ pc[r] \in {"wait", "drain", "final"} /\ Idle(r) /\ queue[r] # <<>>
  /\ queue' = [queue EXCEPT ![r] = Tail(@)]
  /\ Handle(r, Head(queue[r]))
  /\ UNCHANGED <<session, log, dropped, register, fails, pc, replay, tries, gaveUp, written,
                 natural, stream>>

\* Nothing came for half a second: drain what arrives until the task runs again.
Timeout(r) ==
  /\ pc[r] = "wait" /\ Idle(r) /\ queue[r] = <<>>
  /\ pc' = [pc EXCEPT ![r] = "drain"]
  /\ UNCHANGED <<session, events, register, fails, replay, seen, handler, translator, stream>>

\* Mutant: a canceled run is not over.
RunIsTerminalNotCanceled(r) == status[r] \in {"completed", "failed"}
\* _run_is_terminal
RunIsTerminal(r) == status[r] \in Terminal

\* The drained pump leaves if the run is over; the drain of the finally clause
\* finds nothing, and the observer is removed.
Drained(r) ==
  /\ pc[r] = "drain" /\ Idle(r) /\ queue[r] = <<>>
  /\ pc' = [pc EXCEPT ![r] = IF RunIsTerminal(r) THEN "synth" ELSE "wait"]
  /\ UNCHANGED <<session, events, register, fails, replay, seen, handler, translator, stream>>

\* The drain after a publish was given up is over.
FinallyDrained(r) ==
  /\ pc[r] = "final" /\ Idle(r) /\ queue[r] = <<>>
  /\ pc' = [pc EXCEPT ![r] = "synth"]
  /\ UNCHANGED <<session, events, register, fails, replay, seen, handler, translator, stream>>

\* Mutant: a failure is not a hint.
HintStatusOnly(r) == IF status[r] = "completed" THEN "completed" ELSE "running"

\* resolve_live_terminal_hint
Hint(r) ==
  IF failure[r] THEN "error"
  ELSE IF status[r] \in {"completed", "waiting_input"} THEN status[r] ELSE "running"

\* Mutant: the watchdog does not ask whether the run announced its own end.
PendingAlways(r) == Hint(r) \in {"completed", "error"}

\* The watchdog has an end to make up.
Pending(r) == r \notin natural /\ Hint(r) \in {"completed", "error"}

\* synthesize_terminal_if_pending up to the publish.
Synthesize(r) ==
  /\ pc[r] = "synth" /\ Idle(r)
  /\ IF Pending(r)
     THEN /\ todo' = [todo EXCEPT ![r] = <<Entry(0, "agent_runtime_end")>>]
          /\ UNCHANGED pc
     ELSE /\ pc' = [pc EXCEPT ![r] = "done"]
          /\ UNCHANGED todo
  /\ UNCHANGED <<session, events, register, fails, replay, seen, tries, gaveUp, written, natural,
                 translator, stream>>

\* The tool state writer returned: the row of the tool call, if there is one and a
\* database, has the state.
Writes(r) ==
  /\ ~Idle(r) /\ Head(todo[r]).type = Persist
  /\ written' = [written EXCEPT ![r] = @ \cup {Head(todo[r]).seq}]
  /\ todo' = [todo EXCEPT ![r] = Tail(@)]
  /\ UNCHANGED <<session, events, register, fails, pc, replay, seen, tries, gaveUp, natural,
                 translator, stream>>

\* An envelope is published.  agent_runtime_end is the last of its event: the
\* run is marked; the watchdog's own end is the last step of the task.
Publishes(r) ==
  LET e == Head(todo[r]) IN
  /\ ~Idle(r) /\ e.type # Persist
  /\ Put(r, e)
  /\ todo' = [todo EXCEPT ![r] = Tail(@)]
  /\ tries' = [tries EXCEPT ![r] = 0]
  /\ natural' = IF e.type = "agent_runtime_end" THEN natural \cup {r} ELSE natural
  /\ pc' = [pc EXCEPT ![r] = IF @ = "synth" THEN "done" ELSE @]
  /\ UNCHANGED <<session, events, register, fails, replay, seen, gaveUp, written, translator>>

\* Mutant: the loop swallows the exception and goes on.
GiveUpGoesOn(r) ==
  /\ todo' = [todo EXCEPT ![r] = <<>>]
  /\ tries' = [tries EXCEPT ![r] = 0]
  /\ gaveUp' = [gaveUp EXCEPT ![r] = TRUE]
  /\ UNCHANGED pc

\* An exception leaves handle_stamped.  The replay is outside the try statement
\* and the final drain inside its finally clause: there the task just ends.
GiveUp(r) ==
  /\ todo' = [todo EXCEPT ![r] = <<>>]
  /\ tries' = [tries EXCEPT ![r] = 0]
  /\ gaveUp' = [gaveUp EXCEPT ![r] = TRUE]
  /\ pc' = [pc EXCEPT ![r] = IF @ \in {"wait", "drain"} THEN "final"
                             ELSE IF @ = "synth" THEN "done" ELSE "dead"]

WriteFails(r) ==
  /\ Fail("db")
  /\ ~Idle(r) /\ Head(todo[r]).type = Persist
  /\ GiveUp(r)
  /\ UNCHANGED <<session, events, register, replay, seen, written, natural, translator, stream>>

\* An attempt of a publish fails, with the entry added or without.
PublishFails(r, added) ==
  /\ Fail("redis")
  /\ ~Idle(r) /\ Head(todo[r]).type # Persist
  /\ IF added THEN Put(r, Head(todo[r])) ELSE UNCHANGED stream
  /\ \/ /\ tries[r] + 1 < Attempts
        /\ tries' = [tries EXCEPT ![r] = @ + 1]
        /\ UNCHANGED <<todo, gaveUp, pc>>
     \/ /\ tries[r] + 1 = Attempts
        /\ GiveUp(r)
  /\ UNCHANGED <<session, events, register, replay, seen, written, natural, translator>>

-----------------------------------------------------------------------------
Driver(r) ==
  \/ \E k \in Talk : Talks(r, k)
  \/ \E outcome \in Outcome : Returns(r, outcome)
  \/ Raises(r) \/ Settles(r) \/ Unwinds(r)

Client(r) == Post(r) \/ Cancels(r) \/ Resumes(r)

Registration(r) == Registers(r) \/ \E added \in BOOLEAN : RegisterFails(r, added)

Pump(r) ==
  \/ Begin(r) \/ ReplayNext(r) \/ ReplayEnds(r) \/ Take(r) \/ Timeout(r) \/ Drained(r)
  \/ FinallyDrained(r) \/ Synthesize(r) \/ Writes(r) \/ Publishes(r) \/ WriteFails(r)
  \/ \E added \in BOOLEAN : PublishFails(r, added)

Next == \E r \in Runs : Driver(r) \/ Client(r) \/ Registration(r) \/ Pump(r)

Spec == Init /\ [][Next]_vars

\* The event loop runs ready tasks, and the client of Redis and of the database
\* answers or times out.  Nothing is assumed of the front end.
Fairness ==
  \A r \in Runs : WF_vars(Driver(r)) /\ WF_vars(Registration(r)) /\ WF_vars(Pump(r))

FairSpec == Spec /\ Fairness

-----------------------------------------------------------------------------
(* Properties; those about the sequence told are in GatewayPumpProperties.  *)

\* The pump's queue holds at most Capacity events, its handler one event's work
\* (session_gateway_pump.py: maxsize=512; handle_stamped).
TypeOK ==
  /\ status \in [Runs -> {"running", "waiting_input"} \cup Terminal]
  /\ failure \in [Runs -> BOOLEAN]
  /\ driver \in [Runs -> {"run", "over"} \cup Outcome]
  /\ log \in [Runs -> Seq(Kind)]
  /\ queue \in [Runs -> Seq(Nat)] /\ \A r \in Runs : Len(queue[r]) <= Capacity
  /\ dropped \in [Runs -> SUBSET Nat]
  /\ posts \in [Runs -> 0..MaxPosts]
  /\ starting \in [Runs -> 0..Attempts]
  /\ pc \in [Runs -> {"off", "ready", "replay", "wait", "drain", "final", "synth",
                      "done", "dead"}]
  /\ pos \in [Runs -> Nat] /\ end \in [Runs -> Nat]
  /\ \A r \in Runs : pos[r] <= end[r] /\ end[r] <= Len(log[r])
  /\ seen \in [Runs -> SUBSET Nat]
  /\ todo \in [Runs -> Seq(Work)]
  /\ tries \in [Runs -> 0..(Attempts - 1)]
  /\ fails \in 0..MaxFails
  /\ gaveUp \in [Runs -> BOOLEAN]
  /\ natural \subseteq Runs
  /\ streamed \in BOOLEAN /\ tools \in BOOLEAN
  /\ turns \in Seq(Runs \X Nat)
  /\ written \in [Runs -> SUBSET Nat]
  /\ stream \in [Runs -> Seq(Envelope)]

Queued(r) == {n \in 1..Len(log[r]) : \E i \in 1..Len(queue[r]) : queue[r][i] = n}

\* While the pump runs, every committed event was handled, waits in the queue,
\* is still to be replayed, or was dropped on a full queue: none falls between
\* the copy of the log and the observer (session_gateway_pump.py:206-209).
NoEventLost ==
  \A r \in Runs : pc[r] \in {"replay", "wait", "drain"} =>
    1..Len(log[r]) \subseteq
      seen[r] \cup Queued(r) \cup ((pos[r] + 1)..end[r]) \cup dropped[r]

\* What is published of a tool event that has a state is published after its write
\* returned (runtime_coordinator.py:82-84: "BEFORE publishing").
ToolStateFirst ==
  \A r \in Runs : \A j \in 1..Len(stream[r]) :
    LET n == stream[r][j].seq IN
    n # 0 /\ log[r][n] \in Stateful => n \in written[r]
=============================================================================
