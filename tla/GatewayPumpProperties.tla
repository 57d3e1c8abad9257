----------------------- MODULE GatewayPumpProperties -----------------------
(***************************************************************************)
(* What the browsers may rely on in the stream of a run.                   *)
(***************************************************************************)
EXTENDS GatewayPump

\* The events that reach the pump of a run.
Handed(r) == 1..Len(log[r]) \ dropped[r]

\* The flags as the events set them that the translator was given before event n, of
\* whatever run; before all of them if it was not given n.
TurnKind(i) == log[turns[i][1]][turns[i][2]]
Before(r, n) == {i \in 1..Len(turns) : \A j \in 1..i : turns[j] # <<r, n>>}
SinceCall(r, n, k) ==
  \E i \in Before(r, n) : /\ TurnKind(i) = k
                          /\ \A j \in Before(r, n) :
                               j > i => TurnKind(j) \notin {"start", "quiet"}

\* The envelopes of event n in the fold of all events in the order of their turns.
Folded(r, n) ==
  LET types == Translation(log[r][n], SinceCall(r, n, "token"), SinceCall(r, n, "calls"))
  IN [i \in 1..Len(types) |-> Entry(n, types[i])]

\* An entry is one of those a log entry stands for; it is on the stream.
SaysLog(r, e) ==
  e.seq \in Handed(r) /\ \E i \in 1..Len(Folded(r, e.seq)) : e = Folded(r, e.seq)[i]
IsTold(r, e) == \E j \in 1..Len(stream[r]) : stream[r][j] = e

\* The fold of the log puts one entry before another.
Precedes(r, e, f) ==
  \/ e.seq < f.seq
  \/ /\ e.seq = f.seq
     /\ \E k \in 1..Len(Folded(r, f.seq)) : \E i \in 1..(k - 1) :
          e = Folded(r, f.seq)[i] /\ f = Folded(r, f.seq)[k]

\* The stream of a run is, up to repeated attempts, its part of the fold of the
\* events of all runs: an entry is of that fold, none that it puts behind the entry
\* came before, and until a publish is given up none is skipped (coordinator_factory.py:
\* one EventTranslator; session_gateway_pump.py: the replay, then the queue).
StreamIsFold ==
  \A r \in Runs : \A j \in 1..Len(stream[r]) : stream[r][j].seq # 0 =>
    /\ SaysLog(r, stream[r][j])
    /\ \A i \in 1..(j - 1) :
         stream[r][i].seq # 0 => ~Precedes(r, stream[r][j], stream[r][i])
    /\ ~gaveUp[r] =>
         \A n \in Handed(r) : \A k \in 1..Len(Folded(r, n)) :
           Precedes(r, Folded(r, n)[k], stream[r][j])
             => \E i \in 1..(j - 1) : stream[r][i] = Folded(r, n)[k]

\* In spite of retries and of publishes given up: the stream of a run says nothing
\* but its part of the fold, and a pump that waits with nothing in hand has said all
\* of it (runtime_coordinator.py: handle_stamped, publish).
TellsTheLog ==
  \A r \in Runs :
    /\ \A j \in 1..Len(stream[r]) : stream[r][j].seq # 0 => SaysLog(r, stream[r][j])
    /\ pc[r] = "wait" /\ todo[r] = <<>> /\ queue[r] = <<>> =>
         \A n \in Handed(r) : \A i \in 1..Len(Folded(r, n)) : IsTold(r, Folded(r, n)[i])

\* The flags as the events of this run alone set them before event n.
OwnSince(r, n, k) ==
  \E i \in Handed(r) : /\ i < n /\ log[r][i] = k
                       /\ \A j \in Handed(r) \cap (i + 1)..(n - 1) :
                            log[r][j] \notin {"start", "quiet"}

\* What a translator of its own would make of event n.
OwnFolded(r, n) ==
  LET types == Translation(log[r][n], OwnSince(r, n, "token"), OwnSince(r, n, "calls"))
  IN [i \in 1..Len(types) |-> Entry(n, types[i])]

\* What the translator makes of an event is a function of the run's own log: an entry
\* of the stream is of it, and so is all that was told of the events before it
\* (event_translator.py:93: "Pure fold from a StampedEvent").
PureFold ==
  \A r \in Runs : \A j \in 1..Len(stream[r]) :
    LET n == stream[r][j].seq IN n # 0 =>
      /\ \E i \in 1..Len(OwnFolded(r, n)) : stream[r][j] = OwnFolded(r, n)[i]
      /\ ~gaveUp[r] =>
           \A m \in Handed(r) : m < n =>
             \A i \in 1..Len(OwnFolded(r, m)) : IsTold(r, OwnFolded(r, m)[i])

\* Entries that announce the end of the run, a pause not among them.
Ends(r) ==
  {e \in {stream[r][j] : j \in 1..Len(stream[r])} :
     e.type = "agent_runtime_end" /\ (e.seq # 0 => log[r][e.seq] # "pause")}

\* The end is announced once, by the run or by the watchdog, unless a publish
\* was given up (runtime_coordinator.py:53-54: "does not double-publish").
EndIsToldOnce == \A r \in Runs : ~gaveUp[r] => Cardinality(Ends(r)) <= 1

-----------------------------------------------------------------------------
(* Liveness                                                                *)

Registered(r) == pc[r] # "off"
Concluded(r) == LastKind(r) \in {"completed", "failed"}
NeverPaused(r) == \A n \in 1..Len(log[r]) : log[r][n] # "pause"

\* A registered run that concludes, or raises without ever having paused, has
\* its end announced, unless a publish was given up or the observer dropped it.
EndIsTold ==
  \A r \in Runs :
    (Registered(r) /\ (Concluded(r) \/ (failure[r] /\ NeverPaused(r))))
      ~> (Ends(r) # {} \/ gaveUp[r] \/ Len(log[r]) \in dropped[r])

\* The pump of a run that is over ends.
PumpEnds ==
  \A r \in Runs : status[r] \in Terminal ~> pc[r] \in {"off", "done", "dead"}

\* What the watchdog promises: a run that reached a terminal status does not
\* leave its stream without an end (runtime_coordinator.py:191-195).
CanceledIsTold ==
  \A r \in Runs :
    (Registered(r) /\ status[r] = "canceled")
      ~> (Ends(r) # {} \/ gaveUp[r] \/ dropped[r] # {})
=============================================================================
