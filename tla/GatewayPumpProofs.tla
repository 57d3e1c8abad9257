-------------------------- MODULE GatewayPumpProofs --------------------------
(***************************************************************************)
(* Proofs about GatewayPump for any number of runs, events, posts and      *)
(* failures.                                                               *)
(*                                                                         *)
(* Shape (the types, and the queue names entries of the log) is inductive. *)
(* On top of it Kept is inductive and gives NoEventLost: a pump that has   *)
(* not begun has its whole log to replay. Ended is inductive and gives     *)
(* EndIsToldOnce: the end of a run is announced by its task or by its last *)
(* event, and neither comes twice. Ordered and Tells give ToldInOrder:     *)
(* what is handled, in hand and on the stream of a run follows its log.    *)
(* Paired gives ToolStateFirst: what the handler still has to publish of a *)
(* tool event was written, or its write comes right before. Turned says    *)
(* that the one translator was given the handled events of all runs and    *)
(* that its flags are their fold; with it Renders gives TellsTheLog: what  *)
(* is on the stream or in hand is of that fold, and nothing of a handled   *)
(* event is missing. InOrder and NoGap, which needs Gapless, add the       *)
(* order: StreamIsFold.                                                    *)
(***************************************************************************)
EXTENDS GatewayPumpProperties, SequenceTheorems, FiniteSetTheorems, TLAPS

\* What waits in the queue is in the log.
InLog == \A r \in Runs : \A i \in 1..Len(queue[r]) : queue[r][i] \in 1..Len(log[r])

Shape == TypeOK /\ InLog

-----------------------------------------------------------------------------
(* Sequences kept per run                                                  *)

LEMMA AppendedAt ==
  ASSUME NEW S, NEW f \in [Runs -> Seq(S)], NEW r \in Runs, NEW e \in S,
         NEW g, g = [f EXCEPT ![r] = Append(@, e)]
  PROVE  /\ g \in [Runs -> Seq(S)]
         /\ \A q \in Runs : q # r => g[q] = f[q]
         /\ Len(g[r]) = Len(f[r]) + 1 /\ Len(f[r]) \in Nat
         /\ \A i \in 1..Len(f[r]) : g[r][i] = f[r][i]
         /\ g[r][Len(g[r])] = e
<1>1. f[r] \in Seq(S) /\ g[r] = Append(f[r], e)
  OBVIOUS
<1>2. /\ g[r] \in Seq(S) /\ Len(g[r]) = Len(f[r]) + 1
      /\ \A i \in 1..Len(f[r]) : g[r][i] = f[r][i]
      /\ g[r][Len(f[r]) + 1] = e
  BY <1>1, AppendProperties
<1>3. Len(f[r]) \in Nat
  BY <1>1, LenProperties
<1> QED
  BY <1>2, <1>3

LEMMA TailAt ==
  ASSUME NEW S, NEW f \in [Runs -> Seq(S)], NEW r \in Runs, f[r] # <<>>,
         NEW g, g = [f EXCEPT ![r] = Tail(@)]
  PROVE  /\ g \in [Runs -> Seq(S)]
         /\ \A q \in Runs : q # r => g[q] = f[q]
         /\ Len(g[r]) = Len(f[r]) - 1 /\ Len(f[r]) \in Nat \ {0}
         /\ \A i \in 1..Len(g[r]) : g[r][i] = f[r][i + 1]
         /\ Head(f[r]) \in S /\ Head(f[r]) = f[r][1]
<1>1. f[r] \in Seq(S) /\ g[r] = Tail(f[r])
  OBVIOUS
<1>2. /\ Head(f[r]) \in S /\ g[r] \in Seq(S) /\ Len(g[r]) = Len(f[r]) - 1
      /\ \A i \in 1..Len(g[r]) : g[r][i] = f[r][i + 1]
  BY <1>1, HeadTailProperties
<1>3. Len(f[r]) \in Nat \ {0}
  BY <1>1, EmptySeq
<1> QED
  BY <1>1, <1>2, <1>3

-----------------------------------------------------------------------------
(* The handler's work                                                      *)

LEMMA TranslationTypes ==
  ASSUME NEW k \in Kind, NEW text \in BOOLEAN, NEW calls \in BOOLEAN
  PROVE  /\ Translation(k, text, calls) \in Seq(EnvelopeType)
         /\ k \in Stateful =>
              \E t \in EnvelopeType \ {"agent_runtime_end"} : Translation(k, text, calls) = <<t>>
<1>0. {"stream_start", "text", "tools_calling", "stream_end", "visible_output_end", "error",
       "tool_start", "tool_end", "step_start", "agent_runtime_end"} \subseteq EnvelopeType
  BY DEF EnvelopeType
<1>1. CASE k = "quiet" \/ RepeatsText(k, text)
  BY <1>1, EmptySeq DEF Translation, RepeatsText, Stateful
<1>2. CASE k = "start"
  BY <1>0, <1>2 DEF Translation, RepeatsText, Stateful
<1>3. CASE k \in {"token", "header"} /\ ~RepeatsText(k, text)
  BY <1>0, <1>3 DEF Translation, RepeatsText, Stateful
<1>4. CASE k = "calls"
  BY <1>0, <1>4 DEF Translation, RepeatsText, Stateful
<1>5. CASE k = "end" /\ text /\ ~calls
  BY <1>0, <1>5 DEF Translation, RepeatsText, Stateful
<1>6. CASE k = "end" /\ ~(text /\ ~calls)
  BY <1>0, <1>6 DEF Translation, RepeatsText, Stateful
<1>7. CASE k = "error"
  BY <1>0, <1>7 DEF Translation, RepeatsText, Stateful
<1>8. CASE k = "began"
  <2>1. Translation(k, text, calls) = <<"tool_start">>
    BY <1>8 DEF Translation, RepeatsText
  <2> QED
    BY <1>0, <2>1
<1>9. CASE k \in {"tool", "bare"}
  <2>1. Translation(k, text, calls) = <<"tool_end">>
    BY <1>9 DEF Translation, RepeatsText
  <2> QED
    BY <1>0, <2>1
<1>10. CASE k = "pause"
  BY <1>0, <1>10 DEF Translation, RepeatsText, Stateful
<1>11. CASE k \in {"completed", "failed"}
  <2>1. Translation(k, text, calls) = <<"agent_runtime_end">>
    BY <1>11 DEF Translation, RepeatsText
  <2> QED
    BY <1>0, <1>11, <2>1 DEF Stateful
<1> QED
  BY <1>1, <1>2, <1>3, <1>4, <1>5, <1>6, <1>7, <1>8, <1>9, <1>10, <1>11
  DEF Kind, Talk, RepeatsText

LEMMA EntriesOfWork ==
  ASSUME NEW n \in Nat, NEW w \in Seq(EnvelopeType \cup {Persist}),
         NEW h, h = [i \in 1..Len(w) |-> Entry(n, w[i])]
  PROVE  h \in Seq(Work)
<1>1. Len(w) \in Nat /\ \A i \in 1..Len(w) : w[i] \in EnvelopeType \cup {Persist}
  BY LenProperties
<1>2. \A i \in 1..Len(w) : Entry(n, w[i]) \in Work
  BY <1>1 DEF Entry, Work
<1> QED
  BY <1>1, <1>2

\* The write of a tool's state comes before what is published of the event.
LEMMA WorkShape ==
  ASSUME NEW n \in Nat, NEW k \in Kind, streamed \in BOOLEAN, tools \in BOOLEAN
  PROVE  /\ HandlerWork(n, k) \in Seq(Work)
         /\ k \in Stateful =>
              \E t \in EnvelopeType \ {"agent_runtime_end"} :
                HandlerWork(n, k) = <<Entry(n, Persist), Entry(n, t)>>
<1> DEFINE types == Translation(k, streamed, tools)
           work == IF k \in Stateful THEN <<Persist>> \o types ELSE types
<1>1. /\ types \in Seq(EnvelopeType)
      /\ k \in Stateful => \E t \in EnvelopeType \ {"agent_runtime_end"} : types = <<t>>
  BY TranslationTypes
<1>2. HandlerWork(n, k) = [i \in 1..Len(work) |-> Entry(n, work[i])]
  BY DEF HandlerWork
<1> HIDE DEF types
<1>3. CASE k \in Stateful
  <2>1. PICK t \in EnvelopeType \ {"agent_runtime_end"} : types = <<t>>
    BY <1>1, <1>3
  <2>2. work = <<Persist>> \o <<t>>
    BY <1>3, <2>1
  <2> HIDE DEF work
  <2>3. /\ Len(work) = 2 /\ work[1] = Persist /\ work[2] = t
        /\ work \in Seq(EnvelopeType \cup {Persist})
    BY <2>2
  <2>4. HandlerWork(n, k) = <<Entry(n, Persist), Entry(n, t)>>
    BY <1>2, <2>3
  <2> QED
    BY <1>2, <2>3, <2>4, EntriesOfWork
<1>4. CASE k \notin Stateful
  <2>1. work = types
    BY <1>4
  <2> HIDE DEF work
  <2>2. work \in Seq(EnvelopeType \cup {Persist})
    BY <1>1, <2>1, SeqMonotonic
  <2> QED
    BY <1>2, <1>4, <2>2, EntriesOfWork
<1> QED
  BY <1>3, <1>4

-----------------------------------------------------------------------------
(* Shape is inductive                                                      *)

LEMMA ShapeInit == Init => Shape
<1> SUFFICES ASSUME Init PROVE Shape
  OBVIOUS
<1>1. /\ <<>> \in Seq(Kind) /\ <<>> \in Seq(Nat) /\ <<>> \in Seq(Work)
      /\ <<>> \in Seq(Runs \X Nat)
      /\ <<>> \in Seq(Envelope) /\ Len(<<>>) = 0
  BY EmptySeq
<1>2. /\ Capacity \in Nat /\ 0 \in 0..MaxPosts /\ 0 \in 0..Attempts
      /\ 0 \in 0..(Attempts - 1) /\ 0 \in 0..MaxFails
  BY PumpAssumption DEF PumpAssumption
<1>3. InLog
  BY <1>1 DEF Init, InLog
<1>4. \A r \in Runs : /\ Len(queue[r]) <= Capacity
                      /\ pos[r] <= end[r] /\ end[r] <= Len(log[r])
  BY <1>1, <1>2 DEF Init
<1>5. /\ log \in [Runs -> Seq(Kind)] /\ queue \in [Runs -> Seq(Nat)]
      /\ todo \in [Runs -> Seq(Work)] /\ stream \in [Runs -> Seq(Envelope)]
      /\ turns \in Seq(Runs \X Nat)
  BY <1>1 DEF Init
<1>6. /\ posts \in [Runs -> 0..MaxPosts] /\ starting \in [Runs -> 0..Attempts]
      /\ tries \in [Runs -> 0..(Attempts - 1)] /\ fails \in 0..MaxFails
  BY <1>2 DEF Init
<1> QED
  BY <1>3, <1>4, <1>5, <1>6 DEF Init, Shape, TypeOK

\* A committed event is at the end of the log, and in the queue or dropped.
LEMMA CommitKeeps ==
  ASSUME Shape, NEW r \in Runs, NEW k \in Kind, Commit(r, k)
  PROVE  /\ log' \in [Runs -> Seq(Kind)]
         /\ queue' \in [Runs -> Seq(Nat)]
         /\ \A q \in Runs : Len(queue'[q]) <= Capacity
         /\ dropped' \in [Runs -> SUBSET Nat]
         /\ InLog'
         /\ Len(log'[r]) = Len(log[r]) + 1
         /\ \A q \in Runs : Len(log[q]) \in Nat /\ Len(log[q]) <= Len(log'[q])
<1> DEFINE n == Len(log[r]) + 1
<1>1. /\ log \in [Runs -> Seq(Kind)] /\ queue \in [Runs -> Seq(Nat)]
      /\ dropped \in [Runs -> SUBSET Nat] /\ InLog
      /\ \A q \in Runs : Len(queue[q]) <= Capacity
      /\ \A q \in Runs : Len(log[q]) \in Nat /\ Len(queue[q]) \in Nat
  BY LenProperties DEF Shape, TypeOK
<1>2. log' = [log EXCEPT ![r] = Append(@, k)]
  BY DEF Commit
<1>3. /\ log' \in [Runs -> Seq(Kind)] /\ Len(log'[r]) = n
      /\ \A q \in Runs : q # r => log'[q] = log[q]
  BY <1>1, <1>2, AppendedAt
<1>4. n \in Nat /\ \A q \in Runs : Len(log[q]) <= Len(log'[q])
  <2>1. n \in Nat /\ Len(log[r]) <= n
    BY <1>1
  <2>2. ASSUME NEW q \in Runs
        PROVE  Len(log[q]) <= Len(log'[q])
    <3>1. CASE q = r
      BY <1>3, <2>1, <3>1
    <3>2. CASE q # r
      BY <1>1, <1>3, <3>2
    <3> QED
      BY <3>1, <3>2
  <2> QED
    BY <2>1, <2>2
<1>5. CASE Observed(r) /\ HasRoom(r)
  <2>1. queue' = [queue EXCEPT ![r] = Append(@, n)] /\ dropped' = dropped
    BY <1>5 DEF Commit
  <2>2. /\ queue' \in [Runs -> Seq(Nat)] /\ Len(queue'[r]) = Len(queue[r]) + 1
        /\ \A q \in Runs : q # r => queue'[q] = queue[q]
        /\ \A i \in 1..Len(queue[r]) : queue'[r][i] = queue[r][i]
        /\ queue'[r][Len(queue'[r])] = n
    BY <1>1, <1>4, <2>1, AppendedAt
  <2>3. Len(queue[r]) < Capacity /\ Capacity \in Nat
    BY <1>5, PumpAssumption DEF HasRoom, PumpAssumption
  <2>4. ASSUME NEW q \in Runs
        PROVE  Len(queue'[q]) <= Capacity
    <3>1. Len(queue[q]) \in Nat /\ Len(queue[q]) <= Capacity
      BY <1>1
    <3>2. CASE q = r
      BY <2>2, <2>3, <3>1, <3>2
    <3>3. CASE q # r
      BY <2>2, <3>1, <3>3
    <3> QED
      BY <3>2, <3>3
  <2>5. ASSUME NEW q \in Runs, NEW i \in 1..Len(queue'[q])
        PROVE  queue'[q][i] \in 1..Len(log'[q])
    <3>1. CASE q = r /\ i = Len(queue'[r])
      BY <1>3, <1>4, <2>2, <3>1, <1>1
    <3>2. CASE q = r /\ i # Len(queue'[r])
      <4>1. i \in 1..Len(queue[r])
        BY <1>1, <2>2, <2>5, <3>2
      <4>2. queue[r][i] \in 1..Len(log[r])
        BY <1>1, <4>1 DEF InLog
      <4>3. queue'[q][i] = queue[r][i] /\ Len(log'[q]) = Len(log[r]) + 1
        BY <1>3, <2>2, <3>2, <4>1
      <4>4. Len(log[r]) \in Nat
        BY <1>1
      <4> QED
        BY <4>2, <4>3, <4>4
    <3>3. CASE q # r
      <4>1. queue'[q] = queue[q] /\ log'[q] = log[q]
        BY <1>3, <2>2, <3>3
      <4> QED
        BY <1>1, <2>5, <4>1 DEF InLog
    <3> QED
      BY <3>1, <3>2, <3>3
  <2> QED
    BY <1>1, <1>3, <1>4, <2>1, <2>2, <2>4, <2>5 DEF InLog
<1>6. CASE ~(Observed(r) /\ HasRoom(r))
  <2>1. queue' = queue /\ dropped' \in [Runs -> SUBSET Nat]
    BY <1>1, <1>4, <1>6 DEF Commit
  <2>2. InLog'
    BY <1>1, <1>3, <1>4, <2>1 DEF InLog
  <2> QED
    BY <1>1, <1>3, <1>4, <2>1, <2>2
<1> QED
  BY <1>5, <1>6

\* The handler's work for an entry of the log is of the right types.
LEMMA HandleTypes ==
  ASSUME Shape, NEW r \in Runs, NEW n \in 1..Len(log[r]), Handle(r, n)
  PROVE  /\ seen' \in [Runs -> SUBSET Nat]
         /\ todo' \in [Runs -> Seq(Work)]
         /\ streamed' \in BOOLEAN /\ tools' \in BOOLEAN /\ turns' \in Seq(Runs \X Nat)
<1>1. n \in Nat /\ log[r][n] \in Kind
  BY ElementOfSeq DEF Shape, TypeOK
<1>2. HandlerWork(n, log[r][n]) \in Seq(Work)
  BY <1>1, WorkShape DEF Shape, TypeOK
<1>3. CASE n \in seen[r]
  BY <1>3 DEF Handle, Shape, TypeOK, translator
<1>4. CASE n \notin seen[r]
  <2>1. /\ seen' = [seen EXCEPT ![r] = @ \cup {n}]
        /\ todo' = [todo EXCEPT ![r] = HandlerWork(n, log[r][n])]
        /\ turns' = Append(turns, <<r, n>>)
        /\ Fold(log[r][n])
    BY <1>4 DEF Handle
  <2>2. seen' \in [Runs -> SUBSET Nat] /\ todo' \in [Runs -> Seq(Work)]
    BY <1>1, <1>2, <2>1 DEF Shape, TypeOK
  <2>3. streamed' \in BOOLEAN /\ tools' \in BOOLEAN
    BY <2>1, Zenon DEF Fold
  <2>4. turns' \in Seq(Runs \X Nat)
    <3>1. turns \in Seq(Runs \X Nat) /\ <<r, n>> \in Runs \X Nat
      BY <1>1 DEF Shape, TypeOK
    <3> QED
      BY <2>1, <3>1, AppendProperties
  <2> QED
    BY <2>2, <2>3, <2>4
<1> QED
  BY <1>3, <1>4

\* An event taken from the queue is in the log, and what is left still is.
LEMMA TakenIsInLog ==
  ASSUME Shape, NEW r \in Runs, queue[r] # <<>>, queue' = [queue EXCEPT ![r] = Tail(@)],
         log' = log
  PROVE  /\ Head(queue[r]) \in 1..Len(log[r])
         /\ queue' \in [Runs -> Seq(Nat)] /\ InLog'
         /\ \A q \in Runs : Len(queue'[q]) <= Capacity
<1>1. queue \in [Runs -> Seq(Nat)]
  BY DEF Shape, TypeOK
<1>2. /\ queue' \in [Runs -> Seq(Nat)]
      /\ \A q \in Runs : q # r => queue'[q] = queue[q]
      /\ Len(queue'[r]) = Len(queue[r]) - 1 /\ Len(queue[r]) \in Nat \ {0}
      /\ \A i \in 1..Len(queue'[r]) : queue'[r][i] = queue[r][i + 1]
      /\ Head(queue[r]) = queue[r][1]
  BY <1>1, TailAt
<1>3. 1 \in 1..Len(queue[r]) /\ \A i \in 1..Len(queue'[r]) : i + 1 \in 1..Len(queue[r])
  BY <1>2
<1>4. Head(queue[r]) \in 1..Len(log[r])
  BY <1>2, <1>3 DEF Shape, InLog
<1>5. InLog'
  BY <1>2, <1>3 DEF Shape, InLog
<1>6. \A q \in Runs : Len(queue'[q]) <= Capacity
  BY <1>2, PumpAssumption DEF Shape, TypeOK, PumpAssumption
<1> QED
  BY <1>2, <1>4, <1>5, <1>6

\* Shape by the groups of variables an action changes.
SessionTypes ==
  /\ status \in [Runs -> {"running", "waiting_input"} \cup Terminal]
  /\ failure \in [Runs -> BOOLEAN]
  /\ driver \in [Runs -> {"run", "over"} \cup Outcome]

EventTypes ==
  /\ log \in [Runs -> Seq(Kind)]
  /\ queue \in [Runs -> Seq(Nat)] /\ \A r \in Runs : Len(queue[r]) <= Capacity
  /\ dropped \in [Runs -> SUBSET Nat]
  /\ InLog

ReplayTypes ==
  /\ pos \in [Runs -> Nat] /\ end \in [Runs -> Nat]
  /\ \A r \in Runs : pos[r] <= end[r] /\ end[r] <= Len(log[r])

PumpTypes ==
  /\ posts \in [Runs -> 0..MaxPosts]
  /\ starting \in [Runs -> 0..Attempts]
  /\ pc \in [Runs -> {"off", "ready", "replay", "wait", "drain", "final", "synth",
                      "done", "dead"}]
  /\ seen \in [Runs -> SUBSET Nat]
  /\ todo \in [Runs -> Seq(Work)]
  /\ tries \in [Runs -> 0..(Attempts - 1)]
  /\ fails \in 0..MaxFails
  /\ gaveUp \in [Runs -> BOOLEAN]
  /\ natural \subseteq Runs
  /\ streamed \in BOOLEAN /\ tools \in BOOLEAN
  /\ turns \in Seq(Runs \X Nat)
  /\ written \in [Runs -> SUBSET Nat]
  /\ stream \in [Runs -> Seq(Envelope)]

LEMMA Parts ==
  /\ Shape => SessionTypes /\ EventTypes /\ ReplayTypes /\ PumpTypes
  /\ SessionTypes' /\ EventTypes' /\ ReplayTypes' /\ PumpTypes' => Shape'
BY DEF Shape, TypeOK, SessionTypes, EventTypes, ReplayTypes, PumpTypes

LEMMA Unmoved ==
  ASSUME Shape
  PROVE  /\ UNCHANGED session => SessionTypes'
         /\ UNCHANGED events => EventTypes'
         /\ UNCHANGED log /\ UNCHANGED replay => ReplayTypes'
         /\ UNCHANGED pump => PumpTypes' /\ UNCHANGED replay
<1>1. UNCHANGED session => SessionTypes'
  BY Parts DEF SessionTypes, session
<1>2. UNCHANGED events => EventTypes'
  BY Parts DEF EventTypes, InLog, events
<1>3. UNCHANGED log /\ UNCHANGED replay => ReplayTypes'
  BY Parts DEF ReplayTypes, replay
<1>4. UNCHANGED pump => PumpTypes' /\ UNCHANGED replay
  BY Parts DEF PumpTypes, pump, register, handler, translator, replay
<1> QED
  BY <1>1, <1>2, <1>3, <1>4

LEMMA CommitTypes ==
  ASSUME Shape, NEW r \in Runs, NEW k \in Kind, Commit(r, k), UNCHANGED pump
  PROVE  EventTypes' /\ ReplayTypes' /\ PumpTypes'
<1>1. /\ EventTypes'
      /\ \A q \in Runs : Len(log[q]) \in Nat /\ Len(log[q]) <= Len(log'[q])
      /\ \A q \in Runs : Len(log'[q]) \in Nat
  BY CommitKeeps, LenProperties DEF EventTypes
<1>2. PumpTypes' /\ pos' = pos /\ end' = end
  BY Unmoved DEF replay
<1>3. ReplayTypes'
  <2>1. ASSUME NEW q \in Runs
        PROVE  pos[q] <= end[q] /\ end[q] <= Len(log'[q])
    <3>1. pos[q] <= end[q] /\ end[q] <= Len(log[q]) /\ end[q] \in Nat
      BY Parts DEF ReplayTypes
    <3> QED
      BY <1>1, <3>1
  <2> QED
    BY <1>2, <2>1, Parts DEF ReplayTypes
<1> QED
  BY <1>1, <1>2, <1>3

LEMMA PutTypes ==
  ASSUME Shape, NEW r \in Runs, NEW e \in Envelope, Put(r, e)
  PROVE  stream' \in [Runs -> Seq(Envelope)]
BY AppendedAt, Parts DEF Put, PumpTypes

\* What is published next is an envelope.
LEMMA HeadIsEnvelope ==
  ASSUME Shape, NEW r \in Runs, ~Idle(r)
  PROVE  /\ Head(todo[r]) = todo[r][1] /\ 1 \in 1..Len(todo[r])
         /\ Head(todo[r]).seq \in Nat
         /\ Head(todo[r]).type # Persist => Head(todo[r]) \in Envelope
         /\ Tail(todo[r]) \in Seq(Work) /\ Len(Tail(todo[r])) = Len(todo[r]) - 1
         /\ \A i \in 1..Len(Tail(todo[r])) : Tail(todo[r])[i] = todo[r][i + 1]
<1>1. todo[r] \in Seq(Work) /\ todo[r] # <<>>
  BY Parts DEF PumpTypes, Idle
<1>2. Len(todo[r]) \in Nat \ {0}
  BY <1>1, EmptySeq
<1>3. /\ Head(todo[r]) \in Work /\ Head(todo[r]) = todo[r][1]
      /\ Tail(todo[r]) \in Seq(Work) /\ Len(Tail(todo[r])) = Len(todo[r]) - 1
      /\ \A i \in 1..Len(Tail(todo[r])) : Tail(todo[r])[i] = todo[r][i + 1]
  BY <1>1, HeadTailProperties
<1> QED
  BY <1>2, <1>3 DEF Work, Envelope

LEMMA EntryIsEnvelope ==
  /\ Entry(0, "agent_runtime_init") \in Envelope
  /\ Entry(0, "agent_runtime_end") \in Envelope
  /\ Entry(0, "agent_runtime_end") \in Work
BY DEF Entry, Envelope, Work, EnvelopeType

\* Every step keeps the types, and the queue names entries of the log.
LEMMA ShapeStep ==
  ASSUME Shape, [Next]_vars
  PROVE  Shape'
<1>0. /\ SessionTypes /\ EventTypes /\ ReplayTypes /\ PumpTypes
      /\ Attempts \in Nat \ {0} /\ MaxPosts \in Nat /\ MaxFails \in Nat
  BY Parts, PumpAssumption DEF PumpAssumption
<1>1. ASSUME NEW r \in Runs, NEW k \in Talk, Talks(r, k)
     PROVE  Shape'
  <2>1. k \in Kind /\ Commit(r, k) /\ UNCHANGED pump /\ UNCHANGED session
    BY <1>1 DEF Talks, Kind
  <2> QED
    BY <2>1, CommitTypes, Unmoved, Parts
<1>2. ASSUME NEW r \in Runs, NEW outcome \in Outcome, Returns(r, outcome)
     PROVE  Shape'
  <2>1. SessionTypes'
    BY <1>0, <1>2 DEF Returns, SessionTypes
  <2>2. UNCHANGED pump
    BY <1>2 DEF Returns
  <2>3. CASE UNCHANGED events
    BY <2>1, <2>2, <2>3, Unmoved, Parts DEF events
  <2>4. CASE \E k \in {outcome, "pause"} : k \in Kind /\ Commit(r, k)
    BY <2>1, <2>2, <2>4, CommitTypes, Parts
  <2> QED
    BY <1>2, <2>3, <2>4 DEF Returns, Outcome, Kind
<1>3. ASSUME NEW r \in Runs, Raises(r)
     PROVE  Shape'
  <2>1. SessionTypes'
    BY <1>0, <1>3 DEF Raises, SessionTypes, Terminal
  <2> QED
    BY <1>3, <2>1, Unmoved, Parts DEF Raises, events
<1>4. ASSUME NEW r \in Runs, Settles(r)
     PROVE  Shape'
  <2>1. SessionTypes'
    BY <1>0, <1>4 DEF Settles, SessionTypes, Terminal, Outcome
  <2> QED
    BY <1>4, <2>1, Unmoved, Parts DEF Settles, events
<1>5. ASSUME NEW r \in Runs, Unwinds(r)
     PROVE  Shape'
  <2>1. SessionTypes' /\ UNCHANGED pump
    BY <1>0, <1>5 DEF Unwinds, SessionTypes
  <2>2. CASE UNCHANGED events
    BY <2>1, <2>2, Unmoved, Parts DEF events
  <2>3. CASE Commit(r, "end")
    BY <2>1, <2>3, CommitTypes, Parts DEF Kind, Talk
  <2> QED
    BY <1>5, <2>2, <2>3 DEF Unwinds
<1>6. ASSUME NEW r \in Runs, Post(r)
     PROVE  Shape'
  <2>1. PumpTypes'
    BY <1>0, <1>6 DEF Post, PumpTypes, handler, translator
  <2> QED
    BY <1>6, <2>1, Unmoved, Parts DEF Post, events
<1>7. ASSUME NEW r \in Runs, Cancels(r)
     PROVE  Shape'
  <2>1. SessionTypes'
    BY <1>0, <1>7 DEF Cancels, SessionTypes, Terminal
  <2> QED
    BY <1>7, <2>1, Unmoved, Parts DEF Cancels, events
<1>8. ASSUME NEW r \in Runs, Resumes(r)
     PROVE  Shape'
  <2>1. SessionTypes'
    BY <1>0, <1>8 DEF Resumes, SessionTypes
  <2> QED
    BY <1>8, <2>1, Unmoved, Parts DEF Resumes, events
<1>9. ASSUME NEW r \in Runs, Registers(r)
     PROVE  Shape'
  <2>1. stream' \in [Runs -> Seq(Envelope)]
    BY <1>9, PutTypes, EntryIsEnvelope DEF Registers
  <2>2. starting' \in [Runs -> 0..Attempts]
    BY <1>0, <1>9 DEF Registers, PumpTypes
  <2>3. pc' \in [Runs -> {"off", "ready", "replay", "wait", "drain", "final", "synth",
                         "done", "dead"}]
    BY <1>0, <1>9 DEF Registers, PumpTypes
  <2>4. PumpTypes'
    BY <1>0, <1>9, <2>1, <2>2, <2>3 DEF Registers, PumpTypes, handler, translator
  <2> QED
    BY <1>9, <2>4, Unmoved, Parts DEF Registers, events
<1>10. ASSUME NEW r \in Runs, NEW added \in BOOLEAN, RegisterFails(r, added)
     PROVE  Shape'
  <2>1. stream' \in [Runs -> Seq(Envelope)]
    BY <1>0, <1>10, PutTypes, EntryIsEnvelope DEF RegisterFails, PumpTypes
  <2>2. starting' \in [Runs -> 0..Attempts] /\ fails' \in 0..MaxFails
    BY <1>0, <1>10 DEF RegisterFails, Fail, PumpTypes
  <2>3. PumpTypes'
    BY <1>0, <1>10, <2>1, <2>2 DEF RegisterFails, PumpTypes, handler, translator
  <2> QED
    BY <1>10, <2>3, Unmoved, Parts DEF RegisterFails, events
<1>11. ASSUME NEW r \in Runs, Begin(r)
     PROVE  Shape'
  <2>1. PumpTypes'
    BY <1>0, <1>11 DEF Begin, PumpTypes, register, handler, translator
  <2>2. \A q \in Runs : Len(log[q]) \in Nat
    BY <1>0, LenProperties DEF EventTypes
  <2>3. ReplayTypes'
    BY <1>0, <1>11, <2>2 DEF Begin, ReplayTypes, events
  <2> QED
    BY <1>11, <2>1, <2>3, Unmoved, Parts DEF Begin
<1>12. ASSUME NEW r \in Runs, ReplayNext(r)
     PROVE  Shape'
  <2>1. /\ pos[r] \in Nat /\ end[r] \in Nat /\ pos[r] < end[r] /\ end[r] <= Len(log[r])
        /\ Len(log[r]) \in Nat
    BY <1>0, <1>12, LenProperties DEF ReplayNext, ReplayTypes, EventTypes
  <2>2. pos[r] + 1 \in 1..Len(log[r])
    BY <2>1
  <2>3. /\ seen' \in [Runs -> SUBSET Nat] /\ todo' \in [Runs -> Seq(Work)]
        /\ streamed' \in BOOLEAN /\ tools' \in BOOLEAN /\ turns' \in Seq(Runs \X Nat)
    BY <1>12, <2>2, HandleTypes DEF ReplayNext
  <2>4. PumpTypes'
    BY <1>0, <1>12, <2>3 DEF ReplayNext, PumpTypes, register
  <2>5. ReplayTypes'
    BY <1>0, <1>12, <2>1 DEF ReplayNext, ReplayTypes, events
  <2> QED
    BY <1>12, <2>4, <2>5, Unmoved, Parts DEF ReplayNext
<1>13. ASSUME NEW r \in Runs, ReplayEnds(r)
     PROVE  Shape'
  <2>1. PumpTypes'
    BY <1>0, <1>13 DEF ReplayEnds, PumpTypes, register, handler, translator
  <2> QED
    BY <1>13, <2>1, Unmoved, Parts DEF ReplayEnds, events
<1>14. ASSUME NEW r \in Runs, Take(r)
     PROVE  Shape'
  <2>1. /\ Head(queue[r]) \in 1..Len(log[r])
        /\ queue' \in [Runs -> Seq(Nat)] /\ InLog'
        /\ \A q \in Runs : Len(queue'[q]) <= Capacity
    BY <1>14, TakenIsInLog DEF Take
  <2>2. EventTypes'
    BY <1>0, <1>14, <2>1 DEF Take, EventTypes
  <2>3. /\ seen' \in [Runs -> SUBSET Nat] /\ todo' \in [Runs -> Seq(Work)]
        /\ streamed' \in BOOLEAN /\ tools' \in BOOLEAN /\ turns' \in Seq(Runs \X Nat)
    BY <1>14, <2>1, HandleTypes DEF Take
  <2>4. PumpTypes'
    BY <1>0, <1>14, <2>3 DEF Take, PumpTypes, register
  <2> QED
    BY <1>14, <2>2, <2>4, Unmoved, Parts DEF Take
<1>15. ASSUME NEW r \in Runs, Timeout(r)
     PROVE  Shape'
  <2>1. PumpTypes'
    BY <1>0, <1>15 DEF Timeout, PumpTypes, register, handler, translator
  <2> QED
    BY <1>15, <2>1, Unmoved, Parts DEF Timeout, events
<1>16. ASSUME NEW r \in Runs, Drained(r)
     PROVE  Shape'
  <2>1. PumpTypes'
    BY <1>0, <1>16 DEF Drained, PumpTypes, register, handler, translator
  <2> QED
    BY <1>16, <2>1, Unmoved, Parts DEF Drained, events
<1>17. ASSUME NEW r \in Runs, FinallyDrained(r)
     PROVE  Shape'
  <2>1. PumpTypes'
    BY <1>0, <1>17 DEF FinallyDrained, PumpTypes, register, handler, translator
  <2> QED
    BY <1>17, <2>1, Unmoved, Parts DEF FinallyDrained, events
<1>18. ASSUME NEW r \in Runs, Synthesize(r)
     PROVE  Shape'
  <2>1. <<Entry(0, "agent_runtime_end")>> \in Seq(Work)
    BY EntryIsEnvelope
  <2>2. todo' \in [Runs -> Seq(Work)]
    BY <1>0, <1>18, <2>1 DEF Synthesize, PumpTypes
  <2>3. PumpTypes'
    BY <1>0, <1>18, <2>2 DEF Synthesize, PumpTypes, register, translator
  <2> QED
    BY <1>18, <2>3, Unmoved, Parts DEF Synthesize, events
<1>19. ASSUME NEW r \in Runs, Writes(r)
     PROVE  Shape'
  <2>1. written' \in [Runs -> SUBSET Nat] /\ todo' \in [Runs -> Seq(Work)]
    BY <1>0, <1>19, HeadIsEnvelope DEF Writes, PumpTypes
  <2>2. PumpTypes'
    BY <1>0, <1>19, <2>1 DEF Writes, PumpTypes, register, translator
  <2> QED
    BY <1>19, <2>2, Unmoved, Parts DEF Writes, events
<1>20. ASSUME NEW r \in Runs, Publishes(r)
     PROVE  Shape'
  <2>1. stream' \in [Runs -> Seq(Envelope)] /\ todo' \in [Runs -> Seq(Work)]
    BY <1>0, <1>20, HeadIsEnvelope, PutTypes DEF Publishes, PumpTypes
  <2>2. PumpTypes'
    BY <1>0, <1>20, <2>1 DEF Publishes, PumpTypes, register, translator
  <2> QED
    BY <1>20, <2>2, Unmoved, Parts DEF Publishes, events
<1>21. ASSUME NEW r \in Runs, WriteFails(r)
     PROVE  Shape'
  <2>1. fails' \in 0..MaxFails
    BY <1>0, <1>21 DEF WriteFails, Fail, PumpTypes
  <2>2. todo' \in [Runs -> Seq(Work)]
    BY <1>0, <1>21, EmptySeq DEF WriteFails, GiveUp, PumpTypes
  <2>3. PumpTypes'
    BY <1>0, <1>21, <2>1, <2>2 DEF WriteFails, GiveUp, PumpTypes, register, translator
  <2> QED
    BY <1>21, <2>3, Unmoved, Parts DEF WriteFails, events
<1>22. ASSUME NEW r \in Runs, NEW added \in BOOLEAN, PublishFails(r, added)
     PROVE  Shape'
  <2>1. fails' \in 0..MaxFails
    BY <1>0, <1>22 DEF PublishFails, Fail, PumpTypes
  <2>2. stream' \in [Runs -> Seq(Envelope)]
    BY <1>0, <1>22, HeadIsEnvelope, PutTypes DEF PublishFails, PumpTypes
  <2>3. todo' \in [Runs -> Seq(Work)] /\ tries' \in [Runs -> 0..(Attempts - 1)]
    <3>1. /\ <<>> \in Seq(Work) /\ 0 \in 0..(Attempts - 1) /\ tries[r] \in Nat
          /\ todo \in [Runs -> Seq(Work)] /\ tries \in [Runs -> 0..(Attempts - 1)]
      BY <1>0, EmptySeq DEF PumpTypes
    <3>2. CASE tries[r] + 1 < Attempts /\ tries' = [tries EXCEPT ![r] = @ + 1] /\ UNCHANGED todo
      <4>1. tries[r] + 1 \in 0..(Attempts - 1)
        BY <1>0, <3>1, <3>2
      <4> QED
        BY <3>1, <3>2, <4>1
    <3>3. CASE GiveUp(r)
      BY <3>1, <3>3 DEF GiveUp
    <3> QED
      BY <1>22, <3>2, <3>3 DEF PublishFails
  <2>4. PumpTypes'
    BY <1>0, <1>22, <2>1, <2>2, <2>3 DEF PublishFails, GiveUp, PumpTypes, register, translator
  <2> QED
    BY <1>22, <2>4, Unmoved, Parts DEF PublishFails, events
<1>23. CASE UNCHANGED vars
  BY <1>23, Unmoved, Parts DEF vars, events
<1> QED
  BY <1>1, <1>2, <1>3, <1>4, <1>5, <1>6, <1>7, <1>8, <1>9, <1>10, <1>11, <1>12, <1>13,
     <1>14, <1>15, <1>16, <1>17, <1>18, <1>19, <1>20, <1>21, <1>22, <1>23
  DEF Next, Driver, Client, Registration, Pump

\* Every variable keeps its type; the queue never holds more than Capacity events.
THEOREM TypeCorrect == Spec => []TypeOK
<1>1. Shape /\ [Next]_vars => Shape'
  BY ShapeStep
<1>2. Shape => TypeOK
  BY DEF Shape
<1> QED
  BY ShapeInit, <1>1, <1>2, PTL DEF Spec

-----------------------------------------------------------------------------
(* Every event of the log is accounted for                              *)

Running == {"replay", "wait", "drain", "final"}

\* A pump that has not begun has its whole log to replay; one that runs has
\* handled, queued, still to replay or dropped each event.
KeptAt(r) ==
  /\ pc[r] \in {"off", "ready"} => pos[r] = 0
  /\ pc[r] \in Running =>
       1..Len(log[r]) \subseteq
         seen[r] \cup Queued(r) \cup ((pos[r] + 1)..end[r]) \cup dropped[r]

Kept == \A r \in Runs : KeptAt(r)

LEMMA KeptIsNoEventLost == Kept => NoEventLost
BY DEF Kept, KeptAt, NoEventLost, Running

\* A run is not affected by what leaves its events and its replay alone.
LEMMA KeptAtSame ==
  ASSUME Kept, NEW q \in Runs,
         log'[q] = log[q], queue'[q] = queue[q], dropped'[q] = dropped[q],
         seen'[q] = seen[q], pos'[q] = pos[q], end'[q] = end[q],
         pc'[q] \in {"off", "ready"} => pc[q] \in {"off", "ready"},
         pc'[q] \in Running => pc[q] \in Running
  PROVE  KeptAt(q)'
<1>1. Queued(q)' = Queued(q)
  BY DEF Queued
<1> QED
  BY <1>1 DEF Kept, KeptAt

\* The observer queues the new event or drops it.
LEMMA CommitKept ==
  ASSUME Shape, Kept, NEW r \in Runs, NEW k \in Kind, Commit(r, k), UNCHANGED pump
  PROVE  Kept'
<1> DEFINE n == Len(log[r]) + 1
<1>1. UNCHANGED <<pc, pos, end, seen>>
  BY DEF pump, replay
<1>2. /\ log \in [Runs -> Seq(Kind)] /\ queue \in [Runs -> Seq(Nat)]
      /\ dropped \in [Runs -> SUBSET Nat] /\ Len(log[r]) \in Nat
  BY LenProperties DEF Shape, TypeOK
<1>3. ASSUME NEW q \in Runs, q # r
      PROVE  KeptAt(q)'
  <2>1. log'[q] = log[q] /\ queue'[q] = queue[q] /\ dropped'[q] = dropped[q]
    BY <1>2, <1>3 DEF Commit
  <2> QED
    BY <1>1, <2>1, KeptAtSame
<1>4. KeptAt(r)'
  <2>1. CASE pc[r] \in Running
    <3>1. Observed(r) /\ Len(log'[r]) = n
      BY <2>1, CommitKeeps DEF Observed, Running
    <3>2. 1..n = (1..Len(log[r])) \cup {n}
      BY <1>2
    <3>3. Queued(r) \subseteq Queued(r)' /\ dropped[r] \subseteq dropped'[r]
      <4>1. CASE HasRoom(r)
        <5>1. /\ queue' = [queue EXCEPT ![r] = Append(@, n)] /\ dropped' = dropped
              /\ n \in Nat
          BY <1>2, <3>1, <4>1 DEF Commit
        <5>2. /\ \A i \in 1..Len(queue[r]) : queue'[r][i] = queue[r][i]
              /\ Len(queue'[r]) = Len(queue[r]) + 1 /\ Len(queue[r]) \in Nat
          BY <1>2, <5>1, AppendedAt
        <5>3. \A i \in 1..Len(queue[r]) : i \in 1..Len(queue'[r])
          BY <5>2
        <5>4. \A m \in 1..Len(log[r]) : m \in 1..n
          BY <1>2
        <5> QED
          BY <3>1, <5>1, <5>2, <5>3, <5>4 DEF Queued
      <4>2. CASE ~HasRoom(r)
        <5>1. queue' = queue /\ dropped' = [dropped EXCEPT ![r] = @ \cup {n}]
          BY <3>1, <4>2 DEF Commit
        <5>2. \A m \in 1..Len(log[r]) : m \in 1..n
          BY <1>2
        <5> QED
          BY <1>2, <3>1, <5>1, <5>2 DEF Queued
      <4> QED
        BY <4>1, <4>2
    <3>4. n \in Queued(r)' \cup dropped'[r]
      <4>1. CASE HasRoom(r)
        <5>1. queue' = [queue EXCEPT ![r] = Append(@, n)] /\ n \in Nat
          BY <1>2, <3>1, <4>1 DEF Commit
        <5>2. /\ queue'[r][Len(queue'[r])] = n
              /\ Len(queue'[r]) = Len(queue[r]) + 1 /\ Len(queue[r]) \in Nat
          BY <1>2, <5>1, AppendedAt
        <5>3. Len(queue'[r]) \in 1..Len(queue'[r]) /\ n \in 1..n
          BY <1>2, <5>2
        <5> QED
          BY <3>1, <5>2, <5>3 DEF Queued
      <4>2. CASE ~HasRoom(r)
        BY <1>2, <3>1, <4>2 DEF Commit
      <4> QED
        BY <4>1, <4>2
    <3>5. 1..Len(log[r]) \subseteq
            seen[r] \cup Queued(r) \cup ((pos[r] + 1)..end[r]) \cup dropped[r]
      BY <2>1 DEF Kept, KeptAt
    <3> HIDE DEF n
    <3>6. 1..Len(log'[r]) \subseteq
            seen[r] \cup Queued(r)' \cup ((pos[r] + 1)..end[r]) \cup dropped'[r]
      BY <3>1, <3>2, <3>3, <3>4, <3>5
    <3> QED
      BY <1>1, <2>1, <3>6 DEF KeptAt, Running
  <2>2. CASE pc[r] \notin Running
    BY <1>1, <2>2 DEF Kept, KeptAt
  <2> QED
    BY <2>1, <2>2
<1> QED
  BY <1>3, <1>4 DEF Kept

\* A handled event is among the seen ones, and none is forgotten.
LEMMA HandleSees ==
  ASSUME Shape, NEW r \in Runs, NEW n \in Nat, Handle(r, n)
  PROVE  /\ n \in seen'[r] /\ seen[r] \subseteq seen'[r]
         /\ \A q \in Runs : q # r => seen'[q] = seen[q] /\ todo'[q] = todo[q]
BY DEF Handle, Shape, TypeOK

LEMMA KeptInit == Init => Kept
BY DEF Init, Kept, KeptAt, Running

LEMMA KeptStep ==
  ASSUME Shape, Kept, [Next]_vars
  PROVE  Kept'
<1>0. /\ pc \in [Runs -> {"off", "ready", "replay", "wait", "drain", "final", "synth",
                          "done", "dead"}]
      /\ pos \in [Runs -> Nat] /\ end \in [Runs -> Nat]
      /\ log \in [Runs -> Seq(Kind)] /\ queue \in [Runs -> Seq(Nat)]
  BY DEF Shape, TypeOK
<1>1. ASSUME UNCHANGED <<log, queue, dropped, seen, pos, end>>,
             \A q \in Runs : /\ pc'[q] \in {"off", "ready"} => pc[q] \in {"off", "ready"}
                             /\ pc'[q] \in Running => pc[q] \in Running
      PROVE  Kept'
  BY <1>1, KeptAtSame DEF Kept
<1>2. ASSUME NEW r \in Runs, NEW k \in Talk, Talks(r, k)
      PROVE  Kept'
  BY <1>2, CommitKept DEF Talks, Kind
<1>3. ASSUME NEW r \in Runs, NEW outcome \in Outcome, Returns(r, outcome)
      PROVE  Kept'
  <2>1. UNCHANGED pump
    BY <1>3 DEF Returns
  <2>2. CASE UNCHANGED events
    BY <1>1, <2>1, <2>2 DEF events, pump, replay
  <2>3. CASE \E k \in {outcome, "pause"} : k \in Kind /\ Commit(r, k)
    BY <2>1, <2>3, CommitKept
  <2> QED
    BY <1>3, <2>2, <2>3 DEF Returns, Outcome, Kind
<1>4. ASSUME NEW r \in Runs, Unwinds(r)
      PROVE  Kept'
  <2>1. UNCHANGED pump
    BY <1>4 DEF Unwinds
  <2>2. CASE UNCHANGED events
    BY <1>1, <2>1, <2>2 DEF events, pump, replay
  <2>3. CASE Commit(r, "end")
    BY <2>1, <2>3, CommitKept DEF Kind, Talk
  <2> QED
    BY <1>4, <2>2, <2>3 DEF Unwinds
<1>5. ASSUME NEW r \in Runs, Raises(r) \/ Settles(r) \/ Cancels(r) \/ Resumes(r)
      PROVE  Kept'
  BY <1>1, <1>5 DEF Raises, Settles, Cancels, Resumes, events, pump, replay
<1>6. ASSUME NEW r \in Runs, Post(r)
      PROVE  Kept'
  BY <1>1, <1>6 DEF Post, events, replay
<1>7. ASSUME NEW r \in Runs, Registers(r)
      PROVE  Kept'
  BY <1>0, <1>1, <1>7 DEF Registers, events, replay, Running
<1>8. ASSUME NEW r \in Runs, NEW added \in BOOLEAN, RegisterFails(r, added)
      PROVE  Kept'
  BY <1>1, <1>8 DEF RegisterFails, events, replay
<1>9. ASSUME NEW r \in Runs, Begin(r)
      PROVE  Kept'
  <2>1. ASSUME NEW q \in Runs, q # r
        PROVE  KeptAt(q)'
    BY <1>0, <1>9, <2>1, KeptAtSame DEF Begin, events
  <2>2. pos[r] = 0
    BY <1>9 DEF Begin, Kept, KeptAt
  <2>3. /\ pos'[r] = 0 /\ end'[r] = Len(log[r]) /\ log' = log /\ pc'[r] = "replay"
    BY <1>0, <1>9, <2>2 DEF Begin, events
  <2>4. 1..Len(log'[r]) \subseteq (pos'[r] + 1)..end'[r]
    BY <2>3
  <2>5. KeptAt(r)'
    BY <2>3, <2>4 DEF KeptAt
  <2> QED
    BY <2>1, <2>5 DEF Kept
<1>10. ASSUME NEW r \in Runs, ReplayNext(r)
      PROVE  Kept'
  <2>1. pos[r] + 1 \in Nat /\ pos[r] \in Nat /\ end[r] \in Nat
    BY <1>0
  <2>2. /\ pos[r] + 1 \in seen'[r] /\ seen[r] \subseteq seen'[r]
        /\ \A q \in Runs : q # r => seen'[q] = seen[q]
    BY <1>10, <2>1, HandleSees DEF ReplayNext
  <2>3. ASSUME NEW q \in Runs, q # r
        PROVE  KeptAt(q)'
    BY <1>0, <1>10, <2>2, <2>3, KeptAtSame DEF ReplayNext, events
  <2>4. /\ pos'[r] = pos[r] + 1 /\ UNCHANGED <<log, queue, dropped, pc, end>>
        /\ pc[r] = "replay"
    BY <1>0, <1>10 DEF ReplayNext, events
  <2>5. Queued(r)' = Queued(r)
    BY <2>4 DEF Queued
  <2>6. (pos[r] + 1)..end[r] \subseteq {pos[r] + 1} \cup ((pos'[r] + 1)..end'[r])
    BY <2>1, <2>4
  <2>7. 1..Len(log[r]) \subseteq
          seen[r] \cup Queued(r) \cup ((pos[r] + 1)..end[r]) \cup dropped[r]
    BY <2>4 DEF Kept, KeptAt, Running
  <2>8. 1..Len(log'[r]) \subseteq
          seen'[r] \cup Queued(r)' \cup ((pos'[r] + 1)..end'[r]) \cup dropped'[r]
    BY <2>2, <2>4, <2>5, <2>6, <2>7
  <2>9. KeptAt(r)'
    BY <2>4, <2>8 DEF KeptAt
  <2> QED
    BY <2>3, <2>9 DEF Kept
<1>11. ASSUME NEW r \in Runs, ReplayEnds(r)
      PROVE  Kept'
  BY <1>0, <1>1, <1>11 DEF ReplayEnds, events, replay, Running
<1>12. ASSUME NEW r \in Runs, Take(r)
      PROVE  Kept'
  <2>1. /\ queue' = [queue EXCEPT ![r] = Tail(@)] /\ queue[r] # <<>>
        /\ UNCHANGED <<log, dropped, pc, pos, end>>
    BY <1>12 DEF Take, replay
  <2>2. Head(queue[r]) \in Nat
    <3>1. log' = log
      BY <2>1
    <3>2. Head(queue[r]) \in 1..Len(log[r])
      BY <2>1, <3>1, TakenIsInLog
    <3> QED
      BY <3>2
  <2>3. /\ Head(queue[r]) \in seen'[r] /\ seen[r] \subseteq seen'[r]
        /\ \A q \in Runs : q # r => seen'[q] = seen[q]
    BY <1>12, <2>2, HandleSees DEF Take
  <2>4. ASSUME NEW q \in Runs, q # r
        PROVE  KeptAt(q)'
    BY <1>0, <2>1, <2>3, <2>4, KeptAtSame
  <2>5. /\ Len(queue'[r]) = Len(queue[r]) - 1 /\ Len(queue[r]) \in Nat \ {0}
        /\ \A i \in 1..Len(queue'[r]) : queue'[r][i] = queue[r][i + 1]
        /\ Head(queue[r]) = queue[r][1]
    BY <1>0, <2>1, TailAt
  <2>6. Queued(r) \subseteq {Head(queue[r])} \cup Queued(r)'
    <3>1. ASSUME NEW n \in Queued(r), n # Head(queue[r])
          PROVE  n \in Queued(r)'
      <4>1. PICK i \in 1..Len(queue[r]) : queue[r][i] = n
        BY DEF Queued
      <4>2. i # 1
        BY <2>5, <3>1, <4>1
      <4>3. i - 1 \in 1..Len(queue'[r]) /\ (i - 1) + 1 = i
        BY <2>5, <4>2
      <4>4. queue'[r][i - 1] = n
        BY <2>5, <4>1, <4>3
      <4> QED
        BY <2>1, <4>3, <4>4 DEF Queued
    <3> QED
      BY <3>1
  <2>7. pc[r] \in Running => 1..Len(log[r]) \subseteq
          seen[r] \cup Queued(r) \cup ((pos[r] + 1)..end[r]) \cup dropped[r]
    BY DEF Kept, KeptAt
  <2>8. pc'[r] \in Running => 1..Len(log'[r]) \subseteq
          seen'[r] \cup Queued(r)' \cup ((pos'[r] + 1)..end'[r]) \cup dropped'[r]
    BY <2>1, <2>3, <2>6, <2>7
  <2>9. KeptAt(r)'
    BY <2>1, <2>8 DEF Kept, KeptAt
  <2> QED
    BY <2>4, <2>9 DEF Kept
<1>13. ASSUME NEW r \in Runs, Timeout(r) \/ Drained(r) \/ FinallyDrained(r) \/ Synthesize(r)
      PROVE  Kept'
  BY <1>0, <1>1, <1>13
  DEF Timeout, Drained, FinallyDrained, Synthesize, events, replay, Running
<1>14. ASSUME NEW r \in Runs, Writes(r)
      PROVE  Kept'
  BY <1>1, <1>14 DEF Writes, events, replay
<1>15. ASSUME NEW r \in Runs, Publishes(r)
      PROVE  Kept'
  BY <1>0, <1>1, <1>15 DEF Publishes, events, replay, Running
<1>16. ASSUME NEW r \in Runs, WriteFails(r)
      PROVE  Kept'
  BY <1>0, <1>1, <1>16 DEF WriteFails, GiveUp, events, replay, Running
<1>17. ASSUME NEW r \in Runs, NEW added \in BOOLEAN, PublishFails(r, added)
      PROVE  Kept'
  BY <1>0, <1>1, <1>17 DEF PublishFails, GiveUp, events, replay, Running
<1>18. CASE UNCHANGED vars
  BY <1>1, <1>18 DEF vars, pump, events, replay
<1> QED
  BY <1>2, <1>3, <1>4, <1>5, <1>6, <1>7, <1>8, <1>9, <1>10, <1>11, <1>12, <1>13, <1>14,
     <1>15, <1>16, <1>17, <1>18
  DEF Next, Driver, Client, Registration, Pump

\* No event of a run falls between the copy of its log and the observer of its
\* pump, however the driver and the pump interleave.
THEOREM NothingFallsBetween == Spec => []NoEventLost
<1>1. Shape /\ Kept /\ [Next]_vars => Shape' /\ Kept'
  BY ShapeStep, KeptStep
<1> QED
  BY ShapeInit, KeptInit, <1>1, KeptIsNoEventLost, PTL DEF Spec

-----------------------------------------------------------------------------
(* The end is announced once                                               *)

Concluding == {"completed", "failed"}
IsEnd(e) == e.type = "agent_runtime_end"

\* A conclusion is the last event of a log, and its driver never runs again.
LastWord(r) ==
  \A n \in 1..Len(log[r]) : log[r][n] \in Concluding =>
    /\ n = Len(log[r])
    /\ driver[r] \in Concluding \/ (driver[r] = "over" /\ status[r] \in Terminal)

\* An end the run announces stands for a conclusion or a pause.
NamesEnd(r, e) ==
  e.seq # 0 /\ IsEnd(e) => e.seq \in 1..Len(log[r]) /\ log[r][e.seq] \in Concluding \cup {"pause"}
Named(r) ==
  /\ \A j \in 1..Len(stream[r]) : NamesEnd(r, stream[r][j])
  /\ \A i \in 1..Len(todo[r]) : NamesEnd(r, todo[r][i])

\* Once the run announced its own conclusion, it is marked, or about to be.
Concludes(r, e) == IsEnd(e) /\ e.seq # 0 /\ log[r][e.seq] # "pause"
Marked(r) ==
  \A j \in 1..Len(stream[r]) : Concludes(r, stream[r][j]) =>
    r \in natural \/ (~Idle(r) /\ todo[r][1] = stream[r][j])

\* The watchdog announces an end only if the run has not announced its own, and
\* the task handles no event after that.
MadeUp(r) ==
  \/ \E j \in 1..Len(stream[r]) : IsEnd(stream[r][j]) /\ stream[r][j].seq = 0
  \/ \E i \in 1..Len(todo[r]) : todo[r][i].seq = 0
Watchdog(r) ==
  /\ pc[r] \in {"synth", "done"} => \A i \in 1..Len(todo[r]) : todo[r][i].seq = 0
  /\ MadeUp(r) => /\ pc[r] \in {"synth", "done"}
                  /\ \A j \in 1..Len(stream[r]) : ~Concludes(r, stream[r][j])

EndAt(r) == Named(r) /\ (~gaveUp[r] => Marked(r) /\ Watchdog(r))

Ended == \A r \in Runs : LastWord(r) /\ EndAt(r)

LEMMA AtMostOne ==
  ASSUME NEW S, \A e, f \in S : e = f
  PROVE  Cardinality(S) <= 1
<1>1. CASE S = {}
  BY <1>1, FS_EmptySet
<1>2. CASE S # {}
  <2>1. PICK e : S = {e}
    BY <1>2
  <2> QED
    BY <2>1, FS_Singleton
<1> QED
  BY <1>1, <1>2

LEMMA EndedIsEndIsToldOnce ==
  ASSUME Shape, Ended
  PROVE  EndIsToldOnce
<1> SUFFICES ASSUME NEW r \in Runs, ~gaveUp[r]
             PROVE  Cardinality(Ends(r)) <= 1
  BY DEF EndIsToldOnce
<1>1. \A j \in 1..Len(stream[r]) : stream[r][j] \in Envelope
  BY ElementOfSeq DEF Shape, TypeOK
<1>2. ASSUME NEW e \in Ends(r), NEW f \in Ends(r)
      PROVE  e.seq = 0 => f.seq = 0
  <2>1. PICK i \in 1..Len(stream[r]) : e = stream[r][i] /\ IsEnd(e)
    BY DEF Ends, IsEnd
  <2>2. PICK j \in 1..Len(stream[r]) : f = stream[r][j] /\ IsEnd(f) /\ (f.seq # 0 => Concludes(r, f))
    BY DEF Ends, IsEnd, Concludes
  <2> QED
    BY <2>1, <2>2 DEF Ended, EndAt, Watchdog, MadeUp
<1>3. ASSUME NEW e \in Ends(r), e.seq # 0
      PROVE  e.seq = Len(log[r])
  <2>1. PICK i \in 1..Len(stream[r]) : e = stream[r][i]
    BY DEF Ends
  <2>2. e.seq \in 1..Len(log[r]) /\ log[r][e.seq] \in Concluding
    BY <1>3, <2>1 DEF Ends, IsEnd, Ended, EndAt, Named, NamesEnd
  <2> QED
    BY <2>2 DEF Ended, LastWord
<1>4. ASSUME NEW e \in Ends(r), NEW f \in Ends(r)
      PROVE  e = f
  <2>1. e \in Envelope /\ f \in Envelope /\ e.type = f.type
    BY <1>1 DEF Ends
  <2>2. e.seq = f.seq
    BY <1>2, <1>3
  <2> QED
    BY <2>1, <2>2 DEF Envelope
<1> QED
  BY <1>4, AtMostOne

LEMMA EndedInit == Init => Ended
<1>1. Len(<<>>) = 0
  BY EmptySeq
<1> QED
  BY <1>1 DEF Init, Ended, LastWord, EndAt, Named, Marked, Watchdog, MadeUp

\* An event is committed by a driver that runs, at the end of the log.
LEMMA LogGrows ==
  ASSUME Shape, NEW r \in Runs, NEW k \in Kind, Commit(r, k)
  PROVE  /\ Len(log[r]) \in Nat /\ Len(log'[r]) = Len(log[r]) + 1
         /\ log'[r][Len(log[r]) + 1] = k
         /\ \A q \in Runs : /\ q # r => log'[q] = log[q]
                            /\ \A n \in 1..Len(log[q]) :
                                 n \in 1..Len(log'[q]) /\ log'[q][n] = log[q][n]
<1>1. log \in [Runs -> Seq(Kind)] /\ log' = [log EXCEPT ![r] = Append(@, k)]
  BY DEF Commit, Shape, TypeOK
<1>2. /\ \A q \in Runs : q # r => log'[q] = log[q]
      /\ Len(log'[r]) = Len(log[r]) + 1 /\ Len(log[r]) \in Nat
      /\ \A i \in 1..Len(log[r]) : log'[r][i] = log[r][i]
      /\ log'[r][Len(log'[r])] = k
  BY <1>1, AppendedAt
<1>3. \A i \in 1..Len(log[r]) : i \in 1..Len(log'[r])
  BY <1>2
<1> QED
  BY <1>2, <1>3

\* Only a driver that runs appends, and a conclusion is its last event.
LEMMA LastWordCommit ==
  ASSUME Shape, Ended, NEW r \in Runs, NEW k \in Kind, Commit(r, k), driver[r] = "run",
         k \in Concluding => driver'[r] \in Concluding,
         \A q \in Runs : q # r => driver'[q] = driver[q], status' = status
  PROVE  \A q \in Runs : LastWord(q)'
<1>1. ASSUME NEW q \in Runs, q # r
      PROVE  LastWord(q)'
  BY <1>1, LogGrows DEF Ended, LastWord
<1>2. \A n \in 1..Len(log[r]) : log[r][n] \notin Concluding
  BY DEF Ended, LastWord, Concluding
<1>3. LastWord(r)'
  <2>1. ASSUME NEW n \in 1..Len(log'[r]), log'[r][n] \in Concluding
        PROVE  n = Len(log'[r]) /\ k \in Concluding
    <3>1. CASE n \in 1..Len(log[r])
      BY <1>2, <2>1, <3>1, LogGrows
    <3>2. CASE n = Len(log[r]) + 1
      BY <2>1, <3>2, LogGrows
    <3> QED
      BY <3>1, <3>2, LogGrows
  <2> QED
    BY <2>1 DEF LastWord
<1> QED
  BY <1>1, <1>3

LEMMA LastWordStep ==
  ASSUME Shape, Ended, [Next]_vars
  PROVE  \A q \in Runs : LastWord(q)'
<1>0. /\ driver \in [Runs -> {"run", "over"} \cup Outcome]
      /\ status \in [Runs -> {"running", "waiting_input"} \cup Terminal]
  BY DEF Shape, TypeOK
<1>1. ASSUME UNCHANGED <<session, log>> PROVE \A q \in Runs : LastWord(q)'
  BY <1>1 DEF Ended, LastWord, session
<1>2. ASSUME NEW r \in Runs, NEW k \in Talk, Talks(r, k)
      PROVE  \A q \in Runs : LastWord(q)'
  <2>1. /\ Commit(r, k) /\ driver[r] = "run" /\ driver' = driver /\ status' = status
        /\ k \in Kind /\ k \notin Concluding
    BY <1>2 DEF Talks, session, Talk, Kind, Concluding
  <2> QED
    BY <2>1, LastWordCommit
<1>3. ASSUME NEW r \in Runs, NEW outcome \in Outcome, Returns(r, outcome)
      PROVE  \A q \in Runs : LastWord(q)'
  <2>1. /\ driver[r] = "run" /\ driver'[r] = outcome /\ status' = status
        /\ \A q \in Runs : q # r => driver'[q] = driver[q]
    BY <1>0, <1>3 DEF Returns
  <2>2. CASE outcome # "paused" /\ Commit(r, outcome)
    BY <2>1, <2>2, LastWordCommit DEF Outcome, Kind, Concluding
  <2>3. CASE outcome = "paused" /\ Commit(r, "pause")
    BY <2>1, <2>3, LastWordCommit DEF Kind, Concluding
  <2>4. CASE UNCHANGED events
    <3>1. log' = log
      BY <2>4 DEF events
    <3>2. \A n \in 1..Len(log[r]) : log[r][n] \notin Concluding
      BY <2>1 DEF Ended, LastWord, Concluding
    <3> QED
      BY <2>1, <3>1, <3>2 DEF Ended, LastWord
  <2> QED
    BY <1>3, <2>2, <2>3, <2>4 DEF Returns
<1>4. ASSUME NEW r \in Runs, Raises(r) \/ Settles(r) \/ Cancels(r) \/ Resumes(r)
      PROVE  \A q \in Runs : LastWord(q)'
  <2>1. log' = log
    BY <1>4 DEF Raises, Settles, Cancels, Resumes, events
  <2>2. \A q \in Runs : q # r => driver'[q] = driver[q] /\ status'[q] = status[q]
    BY <1>0, <1>4 DEF Raises, Settles, Cancels, Resumes
  <2>3. driver[r] \in Concluding \/ (driver[r] = "over" /\ status[r] \in Terminal)
          => driver'[r] \in Concluding \/ (driver'[r] = "over" /\ status'[r] \in Terminal)
    BY <1>0, <1>4 DEF Raises, Settles, Cancels, Resumes, Concluding, Terminal, Outcome
  <2> QED
    BY <2>1, <2>2, <2>3 DEF Ended, LastWord
<1>5. ASSUME NEW r \in Runs, Unwinds(r)
      PROVE  \A q \in Runs : LastWord(q)'
  <2>1. /\ driver[r] = "run" /\ status' = status
        /\ \A q \in Runs : q # r => driver'[q] = driver[q]
    BY <1>0, <1>5 DEF Unwinds
  <2>2. CASE Commit(r, "end")
    BY <2>1, <2>2, LastWordCommit DEF Kind, Talk, Concluding
  <2>3. CASE UNCHANGED events
    <3>1. log' = log
      BY <2>3 DEF events
    <3>2. \A n \in 1..Len(log[r]) : log[r][n] \notin Concluding
      BY <2>1 DEF Ended, LastWord, Concluding
    <3> QED
      BY <2>1, <3>1, <3>2 DEF Ended, LastWord
  <2> QED
    BY <1>5, <2>2, <2>3 DEF Unwinds
<1>6. ASSUME NEW r \in Runs, Post(r) \/ Registration(r)
      PROVE  UNCHANGED <<session, log>>
  BY <1>6 DEF Post, Registration, Registers, RegisterFails, events
<1>7. ASSUME NEW r \in Runs, Pump(r)
      PROVE  UNCHANGED <<session, log>>
  BY <1>7 DEF Pump, Begin, ReplayNext, ReplayEnds, Take, Timeout, Drained, FinallyDrained,
              Synthesize, Writes, Publishes, WriteFails, PublishFails, events
<1>8. CASE UNCHANGED vars
  BY <1>1, <1>8 DEF vars, events
<1> QED
  BY <1>1, <1>2, <1>3, <1>4, <1>5, <1>6, <1>7, <1>8 DEF Next, Driver, Client

\* What the work for an event consists of, told by its kind.
LEMMA TranslationKinds ==
  ASSUME NEW k \in Kind, NEW text \in BOOLEAN, NEW calls \in BOOLEAN,
         NEW i \in 1..Len(Translation(k, text, calls)),
         Translation(k, text, calls)[i] = "agent_runtime_end"
  PROVE  k \in Concluding \cup {"pause"}
<1>1. CASE k = "quiet" \/ RepeatsText(k, text)
  BY <1>1, EmptySeq DEF Translation, RepeatsText
<1>2. CASE k = "start"
  BY <1>2 DEF Translation, RepeatsText
<1>3. CASE k \in {"token", "header"} /\ ~RepeatsText(k, text)
  BY <1>3 DEF Translation, RepeatsText
<1>4. CASE k = "calls"
  BY <1>4 DEF Translation, RepeatsText
<1>5. CASE k = "end" /\ text /\ ~calls
  BY <1>5 DEF Translation, RepeatsText
<1>6. CASE k = "end" /\ ~(text /\ ~calls)
  BY <1>6 DEF Translation, RepeatsText
<1>7. CASE k = "error"
  BY <1>7 DEF Translation, RepeatsText
<1>8. CASE k \in {"began", "tool", "bare"}
  BY <1>8 DEF Translation, RepeatsText
<1>9. CASE k \in {"pause", "completed", "failed"}
  BY <1>9 DEF Concluding
<1> QED
  BY <1>1, <1>2, <1>3, <1>4, <1>5, <1>6, <1>7, <1>8, <1>9 DEF Kind, Talk, RepeatsText

LEMMA WorkKinds ==
  ASSUME NEW n \in Nat, NEW k \in Kind, streamed \in BOOLEAN, tools \in BOOLEAN,
         NEW i \in 1..Len(HandlerWork(n, k))
  PROVE  LET e == HandlerWork(n, k)[i] IN
         /\ e.seq = n
         /\ e.type = "agent_runtime_end" => k \in Concluding \cup {"pause"}
<1>1. CASE k \in Stateful
  <2>1. PICK t \in EnvelopeType \ {"agent_runtime_end"} :
          HandlerWork(n, k) = <<Entry(n, Persist), Entry(n, t)>>
    BY <1>1, WorkShape
  <2>2. \/ HandlerWork(n, k)[i] = [seq |-> n, type |-> Persist]
        \/ HandlerWork(n, k)[i] = [seq |-> n, type |-> t]
    BY <2>1 DEF Entry
  <2> QED
    BY <2>2 DEF Persist
<1>2. CASE k \notin Stateful
  <2> DEFINE types == Translation(k, streamed, tools)
  <2>1. HandlerWork(n, k) = [j \in 1..Len(types) |-> Entry(n, types[j])]
    BY <1>2 DEF HandlerWork
  <2>2. Len(types) \in Nat
    BY TranslationTypes, LenProperties
  <2>3. \A j \in 1..Len(types) : types[j] = "agent_runtime_end" => k \in Concluding \cup {"pause"}
    BY TranslationKinds
  <2> HIDE DEF types
  <2>4. i \in 1..Len(types) /\ HandlerWork(n, k)[i] = [seq |-> n, type |-> types[i]]
    BY <2>1, <2>2 DEF Entry
  <2> QED
    BY <2>3, <2>4
<1> QED
  BY <1>1, <1>2

\* What is said of the stream and the work holds while the log only grows.
LEMMA EndAtSame ==
  ASSUME Ended, NEW q \in Runs,
         \A n \in 1..Len(log[q]) : n \in 1..Len(log'[q]) /\ log'[q][n] = log[q][n],
         stream'[q] = stream[q], todo'[q] = todo[q], gaveUp'[q] = gaveUp[q],
         q \in natural => q \in natural',
         pc'[q] = pc[q] \/ ({pc[q], pc'[q]} \cap {"synth", "done"} = {})
  PROVE  EndAt(q)'
<1>1. ASSUME NEW e, NamesEnd(q, e)
      PROVE  NamesEnd(q, e)' /\ (Concludes(q, e)' <=> Concludes(q, e))
  BY <1>1 DEF NamesEnd, Concludes
<1>2. \A j \in 1..Len(stream[q]) : NamesEnd(q, stream[q][j])
  BY DEF Ended, EndAt, Named
<1>3. \A j \in 1..Len(stream[q]) :
        Concludes(q, stream[q][j]) <=> IsEnd(stream[q][j]) /\ stream[q][j].seq # 0
                                       /\ log'[q][stream[q][j].seq] # "pause"
  BY <1>2 DEF NamesEnd, Concludes
<1>4. Named(q)'
  BY DEF Ended, EndAt, Named, NamesEnd
<1>5. ~gaveUp[q] => Marked(q)'
  BY <1>3 DEF Ended, EndAt, Marked, Concludes, Idle
<1>6. ASSUME ~gaveUp[q] PROVE Watchdog(q)'
  <2>1. MadeUp(q)' <=> MadeUp(q)
    BY DEF MadeUp
  <2>2. Watchdog(q)
    BY <1>6 DEF Ended, EndAt
  <2>3. pc'[q] \in {"synth", "done"} => pc[q] \in {"synth", "done"}
    OBVIOUS
  <2>4. MadeUp(q) => pc'[q] \in {"synth", "done"}
    BY <2>2 DEF Watchdog
  <2>5. MadeUp(q) => \A j \in 1..Len(stream'[q]) : ~Concludes(q, stream[q][j])'
    BY <1>3, <2>2 DEF Watchdog, Concludes
  <2> QED
    BY <2>1, <2>2, <2>3, <2>4, <2>5 DEF Watchdog
<1> QED
  BY <1>4, <1>5, <1>6 DEF EndAt

LEMMA EndAtUnmoved ==
  ASSUME Ended, UNCHANGED <<log, stream, todo, gaveUp>>, natural \subseteq natural',
         \A q \in Runs : pc'[q] = pc[q] \/ ({pc[q], pc'[q]} \cap {"synth", "done"} = {})
  PROVE  \A q \in Runs : EndAt(q)'
BY EndAtSame

LEMMA EndAtCommit ==
  ASSUME Shape, Ended, NEW r \in Runs, NEW k \in Kind, Commit(r, k), UNCHANGED pump
  PROVE  \A q \in Runs : EndAt(q)'
BY LogGrows, EndAtSame DEF pump, handler

\* What is put on the stream of r; nothing else changes for the other runs.
LEMMA PutAt ==
  ASSUME Shape, NEW r \in Runs, NEW e \in Envelope, Put(r, e)
  PROVE  /\ \A q \in Runs : q # r => stream'[q] = stream[q]
         /\ Len(stream'[r]) = Len(stream[r]) + 1 /\ Len(stream[r]) \in Nat
         /\ \A j \in 1..Len(stream[r]) :
              j \in 1..Len(stream'[r]) /\ stream'[r][j] = stream[r][j]
         /\ \A j \in 1..Len(stream'[r]) :
              j \in 1..Len(stream[r]) \/ (j = Len(stream[r]) + 1 /\ stream'[r][j] = e)
<1>1. stream \in [Runs -> Seq(Envelope)]
  BY DEF Shape, TypeOK
<1>2. /\ \A q \in Runs : q # r => stream'[q] = stream[q]
      /\ Len(stream'[r]) = Len(stream[r]) + 1 /\ Len(stream[r]) \in Nat
      /\ \A j \in 1..Len(stream[r]) : stream'[r][j] = stream[r][j]
      /\ stream'[r][Len(stream'[r])] = e
  BY <1>1, AppendedAt DEF Put
<1>3. \A j \in 1..Len(stream[r]) : j \in 1..Len(stream'[r])
  BY <1>2
<1>4. \A j \in 1..Len(stream'[r]) :
        j \in 1..Len(stream[r]) \/ (j = Len(stream[r]) + 1 /\ stream'[r][j] = e)
  BY <1>2
<1> QED
  BY <1>2, <1>3, <1>4

\* An envelope that is no end may be put at any time.
LEMMA EndAtOther ==
  ASSUME Shape, Ended, NEW r \in Runs, NEW e \in Envelope, Put(r, e), ~IsEnd(e),
         UNCHANGED <<log, todo, gaveUp, natural>>,
         \A q \in Runs : pc'[q] = pc[q] \/ ({pc[q], pc'[q]} \cap {"synth", "done"} = {})
  PROVE  \A q \in Runs : EndAt(q)'
<1>1. ASSUME NEW q \in Runs, q # r PROVE EndAt(q)'
  BY <1>1, PutAt, EndAtSame
<1>2. Named(r)'
  <2>1. \A j \in 1..Len(stream'[r]) : NamesEnd(r, stream'[r][j])
    BY PutAt DEF Ended, EndAt, Named, NamesEnd
  <2> QED
    BY <2>1 DEF Ended, EndAt, Named, NamesEnd
<1>3. \A j \in 1..Len(stream'[r]) : IsEnd(stream'[r][j]) =>
        j \in 1..Len(stream[r]) /\ stream'[r][j] = stream[r][j]
  BY PutAt
<1>4. ASSUME ~gaveUp[r] PROVE Marked(r)'
  BY <1>3, <1>4 DEF Ended, EndAt, Marked, Concludes, Idle
<1>5. ASSUME ~gaveUp[r] PROVE Watchdog(r)'
  <2>1. MadeUp(r)' => MadeUp(r)
    BY <1>3 DEF MadeUp
  <2>2. Watchdog(r) /\ (pc'[r] \in {"synth", "done"} <=> pc[r] \in {"synth", "done"})
    BY <1>5 DEF Ended, EndAt
  <2>3. MadeUp(r) => \A j \in 1..Len(stream'[r]) : ~Concludes(r, stream[r][j])'
    BY <1>3, <2>2 DEF Watchdog, Concludes
  <2> QED
    BY <2>1, <2>2, <2>3 DEF Watchdog
<1> QED
  BY <1>1, <1>2, <1>4, <1>5 DEF EndAt

\* The work of an event is taken up by a task whose watchdog has not acted.
LEMMA EndAtHandle ==
  ASSUME Shape, Ended, NEW r \in Runs, NEW n \in 1..Len(log[r]), Handle(r, n), Idle(r),
         pc[r] \notin {"synth", "done"}, UNCHANGED <<log, stream, gaveUp, natural, pc>>
  PROVE  \A q \in Runs : EndAt(q)'
<1>0. todo \in [Runs -> Seq(Work)] /\ n \in Nat /\ n # 0 /\ log[r][n] \in Kind
      /\ streamed \in BOOLEAN /\ tools \in BOOLEAN
  BY ElementOfSeq DEF Shape, TypeOK
<1>1. CASE n \in seen[r]
  BY <1>1, EndAtUnmoved DEF Handle
<1>2. CASE n \notin seen[r]
  <2> DEFINE w == HandlerWork(n, log[r][n])
  <2>1. todo'[r] = w /\ \A q \in Runs : q # r => todo'[q] = todo[q]
    BY <1>0, <1>2 DEF Handle
  <2>2. \A i \in 1..Len(w) : w[i].seq = n /\ (IsEnd(w[i]) => log[r][n] \in Concluding \cup {"pause"})
    BY <1>0, WorkKinds DEF IsEnd
  <2> HIDE DEF w
  <2>3. ASSUME NEW q \in Runs, q # r PROVE EndAt(q)'
    BY <2>1, <2>3, EndAtSame
  <2>4. Named(r)'
    <3>1. \A i \in 1..Len(todo'[r]) : NamesEnd(r, todo'[r][i])
      BY <2>1, <2>2 DEF NamesEnd
    <3> QED
      BY <3>1 DEF Ended, EndAt, Named, NamesEnd
  <2>5. ASSUME ~gaveUp[r] PROVE Marked(r)'
    BY <2>5 DEF Ended, EndAt, Marked, Concludes
  <2>6. ASSUME ~gaveUp[r] PROVE Watchdog(r)'
    <3>1. ~ \E j \in 1..Len(stream[r]) : IsEnd(stream[r][j]) /\ stream[r][j].seq = 0
      BY <2>6 DEF Ended, EndAt, Watchdog, MadeUp
    <3>2. ~MadeUp(r)'
      BY <1>0, <2>1, <2>2, <3>1 DEF MadeUp
    <3> QED
      BY <3>2 DEF Watchdog
  <2> QED
    BY <2>3, <2>4, <2>5, <2>6 DEF EndAt
<1> QED
  BY <1>1, <1>2

\* The watchdog acts with nothing in hand and the run not marked.
LEMMA EndAtSynthesize ==
  ASSUME Shape, Ended, NEW r \in Runs, Synthesize(r)
  PROVE  \A q \in Runs : EndAt(q)'
<1>0. /\ todo \in [Runs -> Seq(Work)] /\ Len(<<>>) = 0
      /\ pc \in [Runs -> {"off", "ready", "replay", "wait", "drain", "final", "synth",
                          "done", "dead"}]
  BY EmptySeq DEF Shape, TypeOK
<1>1. /\ pc[r] = "synth" /\ todo[r] = <<>>
      /\ UNCHANGED <<log, stream, gaveUp, natural>>
  BY DEF Synthesize, events, Idle
<1>2. ASSUME NEW q \in Runs, q # r PROVE EndAt(q)'
  BY <1>0, <1>1, <1>2, EndAtSame DEF Synthesize
<1>3. CASE Pending(r)
  <2>1. /\ todo'[r] = <<Entry(0, "agent_runtime_end")>> /\ pc'[r] = "synth"
        /\ r \notin natural
    BY <1>0, <1>1, <1>3 DEF Synthesize, Pending
  <2>2. \A i \in 1..Len(todo'[r]) : todo'[r][i].seq = 0
    BY <2>1 DEF Entry
  <2>3. Named(r)'
    BY <1>1, <2>2 DEF Ended, EndAt, Named, NamesEnd
  <2>4. ASSUME ~gaveUp[r] PROVE \A j \in 1..Len(stream[r]) : ~Concludes(r, stream[r][j])
    BY <1>1, <2>1, <2>4 DEF Ended, EndAt, Marked, Idle
  <2>5. ASSUME ~gaveUp[r] PROVE Marked(r)' /\ Watchdog(r)'
    BY <1>1, <2>1, <2>2, <2>4, <2>5 DEF Marked, Watchdog, Concludes
  <2> QED
    BY <1>1, <1>2, <2>3, <2>5 DEF EndAt
<1>4. CASE ~Pending(r)
  <2>1. todo' = todo /\ pc'[r] = "done"
    BY <1>0, <1>4 DEF Synthesize
  <2>2. Named(r)'
    BY <1>1, <2>1 DEF Ended, EndAt, Named, NamesEnd
  <2>3. ASSUME ~gaveUp[r] PROVE Marked(r)' /\ Watchdog(r)'
    BY <1>0, <1>1, <2>1, <2>3 DEF Ended, EndAt, Marked, Watchdog, MadeUp, Concludes, Idle
  <2> QED
    BY <1>1, <1>2, <2>2, <2>3 DEF EndAt
<1> QED
  BY <1>3, <1>4

\* The first item of the work is done; an end among them marks the run.
LEMMA EndAtWrites ==
  ASSUME Shape, Ended, NEW r \in Runs, Writes(r)
  PROVE  \A q \in Runs : EndAt(q)'
<1>1. /\ ~Idle(r) /\ todo[r][1].type = Persist /\ UNCHANGED <<log, stream, gaveUp, natural, pc>>
      /\ todo' = [todo EXCEPT ![r] = Tail(@)] /\ todo \in [Runs -> Seq(Work)]
  BY HeadIsEnvelope DEF Writes, events, Shape, TypeOK
<1>2. /\ todo'[r] = Tail(todo[r]) /\ 1 \in 1..Len(todo[r])
      /\ \A i \in 1..Len(todo'[r]) : i + 1 \in 1..Len(todo[r]) /\ todo'[r][i] = todo[r][i + 1]
  <2>1. /\ todo'[r] = Tail(todo[r]) /\ 1 \in 1..Len(todo[r]) /\ Len(todo[r]) \in Nat
        /\ Len(Tail(todo[r])) = Len(todo[r]) - 1
        /\ \A i \in 1..Len(Tail(todo[r])) : Tail(todo[r])[i] = todo[r][i + 1]
    BY <1>1, HeadIsEnvelope, LenProperties
  <2> QED
    BY <2>1
<1>3. ASSUME NEW q \in Runs, q # r PROVE EndAt(q)'
  BY <1>1, <1>3, EndAtSame
<1>4. Named(r)'
  BY <1>1, <1>2 DEF Ended, EndAt, Named, NamesEnd
<1>5. ASSUME ~gaveUp[r] PROVE Marked(r)'
  BY <1>1, <1>5 DEF Ended, EndAt, Marked, Concludes, IsEnd, Persist
<1>6. ASSUME ~gaveUp[r] PROVE Watchdog(r)'
  <2>1. MadeUp(r)' => MadeUp(r)
    BY <1>1, <1>2 DEF MadeUp
  <2> QED
    BY <1>1, <1>2, <1>6, <2>1 DEF Ended, EndAt, Watchdog, Concludes
<1> QED
  BY <1>1, <1>3, <1>4, <1>5, <1>6 DEF EndAt

LEMMA EndAtPublishes ==
  ASSUME Shape, Ended, NEW r \in Runs, Publishes(r)
  PROVE  \A q \in Runs : EndAt(q)'
<1> DEFINE e == todo[r][1]
<1>0. pc \in [Runs -> {"off", "ready", "replay", "wait", "drain", "final", "synth",
                       "done", "dead"}]
  BY DEF Shape, TypeOK
<1>1. /\ ~Idle(r) /\ e \in Envelope /\ Put(r, e) /\ UNCHANGED <<log, gaveUp>>
      /\ todo' = [todo EXCEPT ![r] = Tail(@)] /\ todo \in [Runs -> Seq(Work)]
      /\ natural' = IF IsEnd(e) THEN natural \cup {r} ELSE natural
      /\ pc' = [pc EXCEPT ![r] = IF @ = "synth" THEN "done" ELSE @]
  BY HeadIsEnvelope DEF Publishes, events, Shape, TypeOK, IsEnd
<1>2. /\ 1 \in 1..Len(todo[r])
      /\ \A i \in 1..Len(todo'[r]) : i + 1 \in 1..Len(todo[r]) /\ todo'[r][i] = todo[r][i + 1]
  <2>1. /\ todo'[r] = Tail(todo[r]) /\ 1 \in 1..Len(todo[r]) /\ Len(todo[r]) \in Nat
        /\ Len(Tail(todo[r])) = Len(todo[r]) - 1
        /\ \A i \in 1..Len(Tail(todo[r])) : Tail(todo[r])[i] = todo[r][i + 1]
    BY <1>1, HeadIsEnvelope, LenProperties
  <2> QED
    BY <2>1
<1> HIDE DEF e
<1>3. /\ \A q \in Runs : q # r => stream'[q] = stream[q]
      /\ \A j \in 1..Len(stream'[r]) :
           \/ j \in 1..Len(stream[r]) /\ stream'[r][j] = stream[r][j]
           \/ stream'[r][j] = e
  BY <1>1, PutAt
<1>4. ASSUME NEW q \in Runs, q # r PROVE EndAt(q)'
  BY <1>0, <1>1, <1>3, <1>4, EndAtSame
<1>5. Named(r)'
  <2>1. NamesEnd(r, e)
    BY <1>2 DEF Ended, EndAt, Named, e
  <2>2. \A j \in 1..Len(stream'[r]) : NamesEnd(r, stream'[r][j])
    BY <1>3, <2>1 DEF Ended, EndAt, Named
  <2>3. \A i \in 1..Len(todo'[r]) : NamesEnd(r, todo'[r][i])
    BY <1>2 DEF Ended, EndAt, Named
  <2> QED
    BY <1>1, <2>2, <2>3 DEF Named, NamesEnd
<1>6. ASSUME ~gaveUp[r] PROVE Marked(r)'
  <2>1. ASSUME NEW j \in 1..Len(stream'[r]), Concludes(r, stream'[r][j])
        PROVE  r \in natural'
    <3>1. CASE stream'[r][j] = e
      BY <1>1, <2>1, <3>1 DEF Concludes
    <3>2. CASE j \in 1..Len(stream[r]) /\ stream'[r][j] = stream[r][j]
      <4>1. r \in natural \/ e = stream[r][j]
        BY <1>6, <2>1, <3>2 DEF Ended, EndAt, Marked, e
      <4> QED
        BY <1>1, <2>1, <3>2, <4>1 DEF Concludes
    <3> QED
      BY <1>3, <3>1, <3>2
  <2> QED
    BY <1>1, <2>1 DEF Marked, Concludes
<1>7. ASSUME ~gaveUp[r] PROVE Watchdog(r)'
  <2>1. Watchdog(r)
    BY <1>7 DEF Ended, EndAt
  <2>2. MadeUp(r)' => MadeUp(r)
    BY <1>2, <1>3 DEF MadeUp, e
  <2>3. pc[r] \in {"synth", "done"} => e.seq = 0
    BY <1>2, <2>1 DEF Watchdog, e
  <2>4. MadeUp(r) => \A j \in 1..Len(stream'[r]) : ~Concludes(r, stream'[r][j])
    BY <1>3, <2>1, <2>3 DEF Watchdog, Concludes
  <2>5. pc'[r] \in {"synth", "done"} <=> pc[r] \in {"synth", "done"}
    BY <1>0, <1>1
  <2>6. pc'[r] \in {"synth", "done"} => \A i \in 1..Len(todo'[r]) : todo'[r][i].seq = 0
    BY <1>2, <2>1, <2>5 DEF Watchdog
  <2> QED
    BY <1>1, <2>1, <2>2, <2>4, <2>5, <2>6 DEF Watchdog, Concludes
<1> QED
  BY <1>1, <1>4, <1>5, <1>6, <1>7 DEF EndAt

\* A failed attempt may have added the item in hand; what is given up is dropped.
LEMMA EndAtFails ==
  ASSUME Shape, Ended, NEW r \in Runs, UNCHANGED <<log, natural>>,
         \/ UNCHANGED stream
         \/ ~Idle(r) /\ Head(todo[r]).type # Persist /\ Put(r, Head(todo[r])),
         UNCHANGED <<todo, gaveUp, pc>> \/ GiveUp(r)
  PROVE  \A q \in Runs : EndAt(q)'
<1>0. /\ pc \in [Runs -> {"off", "ready", "replay", "wait", "drain", "final", "synth",
                          "done", "dead"}]
      /\ todo \in [Runs -> Seq(Work)] /\ gaveUp \in [Runs -> BOOLEAN] /\ Len(<<>>) = 0
  BY EmptySeq DEF Shape, TypeOK
<1>1. /\ \A q \in Runs : q # r => stream'[q] = stream[q]
      /\ \A j \in 1..Len(stream'[r]) :
           \/ j \in 1..Len(stream[r]) /\ stream'[r][j] = stream[r][j]
           \/ ~Idle(r) /\ stream'[r][j] = todo[r][1] /\ 1 \in 1..Len(todo[r])
  <2>1. CASE UNCHANGED stream
    BY <2>1
  <2>2. CASE ~Idle(r) /\ Head(todo[r]).type # Persist /\ Put(r, Head(todo[r]))
    BY <2>2, HeadIsEnvelope, PutAt
  <2> QED
    BY <2>1, <2>2
<1>2. /\ \A q \in Runs : q # r => todo'[q] = todo[q] /\ gaveUp'[q] = gaveUp[q] /\ pc'[q] = pc[q]
      /\ \/ todo' = todo /\ gaveUp' = gaveUp /\ pc' = pc
         \/ todo'[r] = <<>> /\ gaveUp'[r]
  BY <1>0 DEF GiveUp
<1>3. ASSUME NEW q \in Runs, q # r PROVE EndAt(q)'
  BY <1>1, <1>2, <1>3, EndAtSame
<1>4. Named(r)'
  <2>1. \A j \in 1..Len(stream'[r]) : NamesEnd(r, stream'[r][j])
    BY <1>1 DEF Ended, EndAt, Named
  <2>2. \A i \in 1..Len(todo'[r]) : NamesEnd(r, todo'[r][i])
    BY <1>0, <1>2 DEF Ended, EndAt, Named
  <2> QED
    BY <2>1, <2>2 DEF Named, NamesEnd
<1>5. ASSUME ~gaveUp'[r] PROVE Marked(r)' /\ Watchdog(r)'
  <2>1. todo' = todo /\ pc' = pc /\ ~gaveUp[r]
    BY <1>2, <1>5
  <2>2. Marked(r) /\ Watchdog(r)
    BY <2>1 DEF Ended, EndAt
  <2>3. Marked(r)'
    BY <1>1, <2>1, <2>2 DEF Marked, Concludes, Idle
  <2>4. MadeUp(r)' => MadeUp(r)
    BY <1>1, <2>1 DEF MadeUp
  <2>5. MadeUp(r) => \A j \in 1..Len(stream'[r]) : ~Concludes(r, stream'[r][j])
    BY <1>1, <2>2 DEF Watchdog, Concludes
  <2>6. Watchdog(r)'
    BY <2>1, <2>2, <2>4, <2>5 DEF Watchdog, Concludes
  <2> QED
    BY <2>3, <2>6
<1> QED
  BY <1>3, <1>4, <1>5 DEF EndAt

LEMMA EndedStep ==
  ASSUME Shape, Ended, [Next]_vars
  PROVE  Ended'
<1>0. /\ pc \in [Runs -> {"off", "ready", "replay", "wait", "drain", "final", "synth",
                          "done", "dead"}]
      /\ Entry(0, "agent_runtime_init") \in Envelope
      /\ ~IsEnd(Entry(0, "agent_runtime_init"))
  BY EntryIsEnvelope DEF Shape, TypeOK, Entry, IsEnd
<1> SUFFICES \A q \in Runs : EndAt(q)'
  BY LastWordStep DEF Ended
<1>1. ASSUME UNCHANGED <<log, pump>> PROVE \A q \in Runs : EndAt(q)'
  BY <1>1, EndAtUnmoved DEF pump, handler
<1>2. ASSUME NEW r \in Runs, Driver(r) PROVE \A q \in Runs : EndAt(q)'
  <2>1. /\ UNCHANGED pump
        /\ UNCHANGED events \/ \E k \in Kind : Commit(r, k)
    BY <1>2 DEF Driver, Talks, Returns, Raises, Settles, Unwinds, Kind, Talk, Outcome
  <2> QED
    BY <1>1, <2>1, EndAtCommit DEF events
<1>3. ASSUME NEW r \in Runs, Cancels(r) \/ Resumes(r) PROVE \A q \in Runs : EndAt(q)'
  BY <1>1, <1>3 DEF Cancels, Resumes, events
<1>4. ASSUME NEW r \in Runs, Post(r) PROVE \A q \in Runs : EndAt(q)'
  BY <1>4, EndAtUnmoved DEF Post, handler, events
<1>5. ASSUME NEW r \in Runs, Registration(r) PROVE \A q \in Runs : EndAt(q)'
  <2>1. /\ UNCHANGED <<log, todo, gaveUp, natural>>
        /\ UNCHANGED stream \/ Put(r, Entry(0, "agent_runtime_init"))
    BY <1>5 DEF Registration, Registers, RegisterFails, handler, events
  <2>2. \A q \in Runs : pc'[q] = pc[q] \/ ({pc[q], pc'[q]} \cap {"synth", "done"} = {})
    BY <1>0, <1>5 DEF Registration, Registers, RegisterFails
  <2> QED
    BY <1>0, <2>1, <2>2, EndAtOther, EndAtUnmoved
<1>6. ASSUME NEW r \in Runs, Begin(r) \/ ReplayEnds(r) \/ Timeout(r)
      PROVE  \A q \in Runs : EndAt(q)'
  <2>1. UNCHANGED <<log, stream, todo, gaveUp, natural>>
    BY <1>6 DEF Begin, ReplayEnds, Timeout, handler, events
  <2>2. \A q \in Runs : pc'[q] = pc[q] \/ ({pc[q], pc'[q]} \cap {"synth", "done"} = {})
    BY <1>0, <1>6 DEF Begin, ReplayEnds, Timeout
  <2> QED
    BY <2>1, <2>2, EndAtUnmoved
<1>7. ASSUME NEW r \in Runs, Drained(r) \/ FinallyDrained(r)
      PROVE  \A q \in Runs : EndAt(q)'
  <2>1. /\ UNCHANGED <<log, stream, todo, gaveUp, natural>> /\ todo[r] = <<>>
        /\ pc[r] \notin {"synth", "done"} /\ \A q \in Runs : q # r => pc'[q] = pc[q]
    BY <1>0, <1>7 DEF Drained, FinallyDrained, handler, events, Idle
  <2>2. ASSUME NEW q \in Runs, q # r PROVE EndAt(q)'
    BY <2>1, <2>2, EndAtSame
  <2>3. Named(r)'
    BY <2>1 DEF Ended, EndAt, Named, NamesEnd
  <2>4. Len(<<>>) = 0
    BY EmptySeq
  <2>5. ASSUME ~gaveUp[r] PROVE Marked(r)' /\ Watchdog(r)'
    BY <2>1, <2>4, <2>5 DEF Ended, EndAt, Marked, Watchdog, MadeUp, Concludes, Idle
  <2> QED
    BY <2>1, <2>2, <2>3, <2>5 DEF EndAt
<1>8. ASSUME NEW r \in Runs, ReplayNext(r) PROVE \A q \in Runs : EndAt(q)'
  <2>1. /\ pos[r] \in Nat /\ end[r] \in Nat /\ pos[r] < end[r] /\ end[r] <= Len(log[r])
        /\ Len(log[r]) \in Nat
    BY <1>8, LenProperties DEF ReplayNext, Shape, TypeOK
  <2>2. pos[r] + 1 \in 1..Len(log[r])
    BY <2>1
  <2>3. /\ Handle(r, pos[r] + 1) /\ Idle(r) /\ pc[r] = "replay"
        /\ UNCHANGED <<log, stream, gaveUp, natural, pc>>
    BY <1>8 DEF ReplayNext, events
  <2> QED
    BY <2>2, <2>3, EndAtHandle
<1>9. ASSUME NEW r \in Runs, Take(r) PROVE \A q \in Runs : EndAt(q)'
  <2>1. Head(queue[r]) \in 1..Len(log[r])
    BY <1>9, TakenIsInLog DEF Take
  <2>2. /\ Handle(r, Head(queue[r])) /\ Idle(r) /\ pc[r] \in {"wait", "drain", "final"}
        /\ UNCHANGED <<log, stream, gaveUp, natural, pc>>
    BY <1>9 DEF Take
  <2> QED
    BY <2>1, <2>2, EndAtHandle
<1>10. ASSUME NEW r \in Runs, WriteFails(r) PROVE \A q \in Runs : EndAt(q)'
  BY <1>10, EndAtFails DEF WriteFails, events
<1>11. ASSUME NEW r \in Runs, NEW added \in BOOLEAN, PublishFails(r, added)
       PROVE  \A q \in Runs : EndAt(q)'
  BY <1>11, EndAtFails DEF PublishFails, events
<1>12. CASE UNCHANGED vars
  BY <1>1, <1>12 DEF vars, events
<1> QED
  BY <1>2, <1>3, <1>4, <1>5, <1>6, <1>7, <1>8, <1>9, <1>10, <1>11, <1>12, EndAtSynthesize,
     EndAtWrites, EndAtPublishes
  DEF Next, Client, Pump

\* The end of a run is announced once, by the run or by the watchdog, however the
\* watchdog, retried publishes and the driver interleave, until a publish is given
\* up (runtime_coordinator.py:53-54: "does not double-publish").
THEOREM OneEndAnnounced == Spec => []EndIsToldOnce
<1>1. Shape /\ Ended /\ [Next]_vars => Shape' /\ Ended'
  BY ShapeStep, EndedStep
<1> QED
  BY ShapeInit, EndedInit, <1>1, EndedIsEndIsToldOnce, PTL DEF Spec

-----------------------------------------------------------------------------
(* Events are handled in the order of the log                              *)

Handling == {"wait", "drain", "final"}

\* The queue is in order and behind what was handled; what is dropped was never
\* handled; while the log is replayed, queue and drops are behind its copy.
OrderAt(r) ==
  /\ \A i, j \in 1..Len(queue[r]) : i < j => queue[r][i] < queue[r][j]
  /\ \A i \in 1..Len(queue[r]) : queue[r][i] \notin dropped[r]
  /\ \A m \in seen[r] : /\ m \in 1..Len(log[r]) /\ m \notin dropped[r]
                        /\ \A i \in 1..Len(queue[r]) : m < queue[r][i]
  /\ \A d \in dropped[r] : d \in 1..Len(log[r])
  /\ pc[r] \in {"off", "ready"} => queue[r] = <<>> /\ dropped[r] = {} /\ seen[r] = {}
  /\ pc[r] = "replay" => /\ \A m \in seen[r] : m <= pos[r]
                         /\ \A i \in 1..Len(queue[r]) : queue[r][i] > end[r]
                         /\ \A d \in dropped[r] : d > end[r]
  /\ pc[r] \in Handling => pos[r] = end[r]

Ordered == \A r \in Runs : OrderAt(r)

LEMMA OrderedInit == Init => Ordered
<1>1. Len(<<>>) = 0
  BY EmptySeq
<1> QED
  BY <1>1 DEF Init, Ordered, OrderAt, Handling

LEMMA OrderAtSame ==
  ASSUME Ordered, NEW q \in Runs,
         log'[q] = log[q], queue'[q] = queue[q], dropped'[q] = dropped[q],
         seen'[q] = seen[q], pos'[q] = pos[q], end'[q] = end[q],
         pc'[q] \in {"off", "ready"} => pc[q] \in {"off", "ready"},
         pc'[q] = "replay" => pc[q] = "replay",
         pc'[q] \in Handling => pc[q] \in Handling \/ pos[q] = end[q]
  PROVE  OrderAt(q)'
BY DEF Ordered, OrderAt

\* A new event comes behind everything.
LEMMA OrderedCommit ==
  ASSUME Shape, Ordered, NEW r \in Runs, NEW k \in Kind, Commit(r, k), UNCHANGED pump
  PROVE  Ordered'
<1> DEFINE n == Len(log[r]) + 1
<1>1. UNCHANGED <<pc, pos, end, seen>>
  BY DEF pump, replay
<1>2. /\ log \in [Runs -> Seq(Kind)] /\ queue \in [Runs -> Seq(Nat)]
      /\ dropped \in [Runs -> SUBSET Nat] /\ Len(log[r]) \in Nat /\ Len(queue[r]) \in Nat
      /\ end[r] \in Nat /\ end[r] <= Len(log[r])
      /\ \A i \in 1..Len(queue[r]) : queue[r][i] \in 1..Len(log[r])
  BY LenProperties DEF Shape, TypeOK, InLog
<1>3. ASSUME NEW q \in Runs, q # r
      PROVE  OrderAt(q)'
  <2>1. log'[q] = log[q] /\ queue'[q] = queue[q] /\ dropped'[q] = dropped[q]
    BY <1>2, <1>3 DEF Commit
  <2> QED
    BY <1>1, <2>1, OrderAtSame
<1>4. /\ Len(log'[r]) = n /\ \A m \in 1..Len(log[r]) : m \in 1..n /\ m < n
      /\ n \in 1..n /\ n > end[r] /\ n \notin seen[r] /\ n \notin dropped[r]
  BY <1>2, LogGrows DEF Ordered, OrderAt
<1> HIDE DEF n
<1>5. CASE Observed(r) /\ HasRoom(r)
  <2>1. queue' = [queue EXCEPT ![r] = Append(@, n)] /\ dropped' = dropped /\ n \in Nat
    BY <1>2, <1>5 DEF Commit, n
  <2>2. /\ Len(queue'[r]) = Len(queue[r]) + 1
        /\ \A i \in 1..Len(queue'[r]) :
             \/ i \in 1..Len(queue[r]) /\ queue'[r][i] = queue[r][i]
             \/ i = Len(queue[r]) + 1 /\ queue'[r][i] = n
    BY <1>2, <2>1, AppendedAt
  <2>3. ASSUME NEW i \in 1..Len(queue'[r]), NEW j \in 1..Len(queue'[r]), i < j
        PROVE  queue'[r][i] < queue'[r][j]
    <3>1. i \in 1..Len(queue[r]) /\ queue'[r][i] = queue[r][i]
      BY <1>2, <2>2, <2>3
    <3> QED
      BY <1>2, <1>4, <2>2, <2>3, <3>1 DEF Ordered, OrderAt
  <2>4. \A i \in 1..Len(queue'[r]) : queue'[r][i] \notin dropped'[r]
    BY <1>4, <2>1, <2>2 DEF Ordered, OrderAt
  <2>5. \A m \in seen[r] : \A i \in 1..Len(queue'[r]) : m < queue'[r][i]
    BY <1>4, <2>2 DEF Ordered, OrderAt
  <2>6. \A i \in 1..Len(queue'[r]) : pc[r] = "replay" => queue'[r][i] > end[r]
    BY <1>4, <2>2 DEF Ordered, OrderAt
  <2>7. pc[r] \notin {"off", "ready"}
    BY <1>5 DEF Observed
  <2>8. OrderAt(r)'
    BY <1>1, <1>4, <2>1, <2>3, <2>4, <2>5, <2>6, <2>7 DEF Ordered, OrderAt
  <2> QED
    BY <1>3, <2>8 DEF Ordered
<1>6. CASE Observed(r) /\ ~HasRoom(r)
  <2>1. /\ queue' = queue /\ dropped'[r] = dropped[r] \cup {n}
        /\ pc[r] \notin {"off", "ready"}
    BY <1>2, <1>6 DEF Commit, Observed, n
  <2>2. \A i \in 1..Len(queue[r]) : queue[r][i] # n
    BY <1>2, <1>4
  <2>3. OrderAt(r)'
    BY <1>1, <1>4, <2>1, <2>2 DEF Ordered, OrderAt
  <2> QED
    BY <1>3, <2>3 DEF Ordered
<1>7. CASE ~Observed(r)
  <2>1. queue' = queue /\ dropped' = dropped
    BY <1>7 DEF Commit
  <2>2. OrderAt(r)'
    BY <1>1, <1>4, <2>1 DEF Ordered, OrderAt
  <2> QED
    BY <1>3, <2>2 DEF Ordered
<1> QED
  BY <1>5, <1>6, <1>7

\* The event that is handled next: all that precede it were, but for the dropped.
LEMMA NextInOrder ==
  ASSUME Shape, Kept, Ordered, NEW r \in Runs,
         NEW n, \/ ReplayNext(r) /\ n = pos[r] + 1
                \/ Take(r) /\ n = Head(queue[r])
  PROVE  /\ n \in 1..Len(log[r]) /\ n \notin dropped[r] /\ n \notin seen[r]
         /\ \A m \in 1..Len(log[r]) : m \in seen[r] <=> m < n /\ m \notin dropped[r]
         /\ Handle(r, n) /\ Idle(r) /\ pc[r] \in Running
         /\ UNCHANGED <<log, dropped, stream, gaveUp, natural, pc>>
<1>0. /\ queue \in [Runs -> Seq(Nat)] /\ Len(queue[r]) \in Nat /\ Len(log[r]) \in Nat
      /\ pos[r] \in Nat /\ end[r] \in Nat /\ pos[r] <= end[r] /\ end[r] <= Len(log[r])
      /\ \A i \in 1..Len(queue[r]) : queue[r][i] \in 1..Len(log[r])
  BY LenProperties DEF Shape, TypeOK, InLog
<1>1. CASE ReplayNext(r) /\ n = pos[r] + 1
  <2>1. pc[r] = "replay" /\ pos[r] < end[r]
    BY <1>1 DEF ReplayNext
  <2>2. n \in 1..Len(log[r]) /\ n <= end[r]
    BY <1>0, <1>1, <2>1
  <2>3. n \notin dropped[r] /\ \A m \in seen[r] : m \in 1..Len(log[r]) /\ m < n /\ m \notin dropped[r]
    BY <1>0, <1>1, <2>1, <2>2 DEF Ordered, OrderAt
  <2>4. ASSUME NEW m \in 1..Len(log[r]), m < n, m \notin dropped[r] PROVE m \in seen[r]
    <3>1. m \in seen[r] \cup Queued(r) \cup ((pos[r] + 1)..end[r]) \cup dropped[r]
      BY <2>1 DEF Kept, KeptAt, Running
    <3>2. m \notin Queued(r)
      BY <1>0, <2>1, <2>2, <2>4 DEF Queued, Ordered, OrderAt
    <3> QED
      BY <1>0, <1>1, <2>4, <3>1, <3>2
  <2> QED
    BY <1>1, <2>1, <2>2, <2>3, <2>4 DEF ReplayNext, Running, events
<1>2. CASE Take(r) /\ n = Head(queue[r])
  <2>1. /\ pc[r] \in Handling /\ queue[r] # <<>> /\ pos[r] = end[r]
        /\ n = queue[r][1] /\ 1 \in 1..Len(queue[r])
    <3>1. pc[r] \in Handling /\ queue[r] # <<>>
      BY <1>2 DEF Take, Handling
    <3>2. queue[r] \in Seq(Nat) /\ Len(queue[r]) # 0
      BY <1>0, <3>1, EmptySeq
    <3> QED
      BY <1>0, <1>2, <3>1, <3>2, HeadTailProperties DEF Ordered, OrderAt
  <2>2. n \in 1..Len(log[r]) /\ n \notin dropped[r]
    BY <1>0, <2>1 DEF Ordered, OrderAt
  <2>3. \A m \in seen[r] : m \in 1..Len(log[r]) /\ m < n /\ m \notin dropped[r]
    BY <2>1 DEF Ordered, OrderAt
  <2>4. ASSUME NEW m \in 1..Len(log[r]), m < n, m \notin dropped[r] PROVE m \in seen[r]
    <3>1. m \in seen[r] \cup Queued(r) \cup ((pos[r] + 1)..end[r]) \cup dropped[r]
      BY <2>1 DEF Kept, KeptAt, Running, Handling
    <3>2. ASSUME m \in Queued(r) PROVE FALSE
      <4>1. PICK i \in 1..Len(queue[r]) : queue[r][i] = m
        BY <3>2 DEF Queued
      <4>2. i = 1 \/ queue[r][1] < queue[r][i]
        BY <1>0, <2>1, <4>1 DEF Ordered, OrderAt
      <4> QED
        BY <2>1, <2>2, <2>4, <4>1, <4>2
    <3>3. m \notin (pos[r] + 1)..end[r]
      BY <1>0, <2>1
    <3> QED
      BY <2>4, <3>1, <3>2, <3>3
  <2> QED
    BY <1>2, <2>1, <2>2, <2>3, <2>4 DEF Take, Running, Handling
<1> QED
  BY <1>1, <1>2

LEMMA OrderedStep ==
  ASSUME Shape, Kept, Ordered, [Next]_vars
  PROVE  Ordered'
<1>0. /\ pc \in [Runs -> {"off", "ready", "replay", "wait", "drain", "final", "synth",
                          "done", "dead"}]
      /\ pos \in [Runs -> Nat] /\ end \in [Runs -> Nat] /\ seen \in [Runs -> SUBSET Nat]
      /\ log \in [Runs -> Seq(Kind)] /\ queue \in [Runs -> Seq(Nat)]
  BY DEF Shape, TypeOK
<1>1. ASSUME UNCHANGED <<log, queue, dropped, seen, pos, end>>,
             \A q \in Runs : /\ pc'[q] \in {"off", "ready"} => pc[q] \in {"off", "ready"}
                             /\ pc'[q] = "replay" => pc[q] = "replay"
                             /\ pc'[q] \in Handling => pc[q] \in Handling \/ pos[q] = end[q]
      PROVE  Ordered'
  BY <1>1, OrderAtSame DEF Ordered
<1>2. ASSUME NEW r \in Runs, Driver(r) PROVE Ordered'
  <2>1. /\ UNCHANGED pump
        /\ UNCHANGED events \/ \E k \in Kind : Commit(r, k)
    BY <1>2 DEF Driver, Talks, Returns, Raises, Settles, Unwinds, Kind, Talk, Outcome
  <2> QED
    BY <1>1, <2>1, OrderedCommit DEF events, pump, replay
<1>3. ASSUME NEW r \in Runs, Client(r) PROVE Ordered'
  BY <1>1, <1>3 DEF Client, Post, Cancels, Resumes, events, pump, replay
<1>4. ASSUME NEW r \in Runs, Registration(r) PROVE Ordered'
  BY <1>0, <1>1, <1>4 DEF Registration, Registers, RegisterFails, events, replay, Handling
<1>5. ASSUME NEW r \in Runs, Begin(r) PROVE Ordered'
  <2>1. ASSUME NEW q \in Runs, q # r PROVE OrderAt(q)'
    BY <1>0, <1>5, <2>1, OrderAtSame DEF Begin, events
  <2>2. /\ queue'[r] = <<>> /\ dropped'[r] = {} /\ seen'[r] = {} /\ pc'[r] = "replay"
    BY <1>0, <1>5 DEF Begin, events, Ordered, OrderAt
  <2>3. OrderAt(r)'
    <3>1. Len(queue'[r]) = 0
      BY <2>2, EmptySeq
    <3> QED
      BY <2>2, <3>1 DEF OrderAt, Handling
  <2> QED
    BY <2>1, <2>3 DEF Ordered
<1>6. ASSUME NEW r \in Runs, ReplayNext(r) PROVE Ordered'
  <2>1. /\ pos[r] + 1 \in 1..Len(log[r]) /\ pos[r] + 1 \notin dropped[r]
        /\ Handle(r, pos[r] + 1)
    BY <1>6, NextInOrder
  <2>2. /\ seen'[r] = seen[r] \cup {pos[r] + 1}
        /\ \A q \in Runs : q # r => seen'[q] = seen[q]
    BY <1>0, <2>1 DEF Handle
  <2>3. /\ pc[r] = "replay" /\ UNCHANGED <<log, queue, dropped, pc, end>>
        /\ pos'[r] = pos[r] + 1 /\ pos[r] + 1 <= end[r]
        /\ \A q \in Runs : q # r => pos'[q] = pos[q]
    BY <1>0, <1>6 DEF ReplayNext, events
  <2>4. ASSUME NEW q \in Runs, q # r PROVE OrderAt(q)'
    BY <2>2, <2>3, <2>4, OrderAtSame
  <2>5. ASSUME NEW m \in seen'[r]
        PROVE  /\ m \in 1..Len(log[r]) /\ m \notin dropped[r] /\ m <= pos'[r]
               /\ \A i \in 1..Len(queue[r]) : m < queue[r][i]
    <3>1. CASE m = pos[r] + 1
      <4>1. /\ \A i \in 1..Len(queue[r]) : queue[r][i] > end[r] /\ queue[r][i] \in Nat
            /\ end[r] \in Nat
        BY <1>0, <2>3, ElementOfSeq DEF Ordered, OrderAt
      <4> QED
        BY <2>1, <2>3, <3>1, <4>1
    <3>2. CASE m \in seen[r]
      <4>1. m <= pos[r] /\ m \in Nat
        BY <1>0, <2>3, <3>2 DEF Ordered, OrderAt
      <4>2. m <= pos'[r]
        BY <1>0, <2>3, <4>1
      <4> QED
        BY <3>2, <4>2 DEF Ordered, OrderAt
    <3> QED
      BY <2>2, <3>1, <3>2
  <2>6. OrderAt(r)'
    BY <2>3, <2>5 DEF Ordered, OrderAt, Handling
  <2> QED
    BY <2>4, <2>6 DEF Ordered
<1>7. ASSUME NEW r \in Runs, ReplayEnds(r) PROVE Ordered'
  BY <1>0, <1>1, <1>7 DEF ReplayEnds, events, replay, Handling
<1>8. ASSUME NEW r \in Runs, Take(r) PROVE Ordered'
  <2> DEFINE n == Head(queue[r])
  <2>1. n \in 1..Len(log[r]) /\ n \notin dropped[r] /\ Handle(r, n)
    BY <1>8, NextInOrder
  <2>2. seen'[r] = seen[r] \cup {n} /\ \A q \in Runs : q # r => seen'[q] = seen[q]
    BY <1>0, <2>1 DEF Handle
  <2>3. /\ pc[r] \in Handling /\ UNCHANGED <<log, dropped, pc, pos, end>>
        /\ queue' = [queue EXCEPT ![r] = Tail(@)] /\ queue[r] # <<>>
    BY <1>8 DEF Take, Handling, replay
  <2>4. /\ \A q \in Runs : q # r => queue'[q] = queue[q]
        /\ Len(queue'[r]) = Len(queue[r]) - 1 /\ Len(queue[r]) \in Nat \ {0}
        /\ \A i \in 1..Len(queue'[r]) : queue'[r][i] = queue[r][i + 1]
        /\ n = queue[r][1]
    BY <1>0, <2>3, TailAt
  <2> HIDE DEF n
  <2>5. ASSUME NEW q \in Runs, q # r PROVE OrderAt(q)'
    BY <2>2, <2>3, <2>4, <2>5, OrderAtSame
  <2>6. \A i \in 1..Len(queue'[r]) :
          i + 1 \in 1..Len(queue[r]) /\ 1 \in 1..Len(queue[r]) /\ 1 < i + 1
    BY <2>4
  <2>7. \A i, j \in 1..Len(queue'[r]) : i < j => queue'[r][i] < queue'[r][j]
    <3>1. ASSUME NEW i \in 1..Len(queue'[r]), NEW j \in 1..Len(queue'[r]), i < j
          PROVE  queue'[r][i] < queue'[r][j]
      <4>1. i + 1 < j + 1
        BY <3>1
      <4> QED
        BY <2>4, <2>6, <4>1 DEF Ordered, OrderAt
    <3> QED
      BY <3>1
  <2>8. \A i \in 1..Len(queue'[r]) : queue'[r][i] \notin dropped[r] /\ n < queue'[r][i]
    BY <2>4, <2>6 DEF Ordered, OrderAt
  <2>9. \A m \in seen'[r] : /\ m \in 1..Len(log[r]) /\ m \notin dropped[r]
                            /\ \A i \in 1..Len(queue'[r]) : m < queue'[r][i]
    BY <2>1, <2>2, <2>4, <2>6, <2>8 DEF Ordered, OrderAt
  <2>10. OrderAt(r)'
    BY <2>3, <2>7, <2>8, <2>9 DEF Ordered, OrderAt, Handling
  <2> QED
    BY <2>5, <2>10 DEF Ordered
<1>9. ASSUME NEW r \in Runs,
             Timeout(r) \/ Drained(r) \/ FinallyDrained(r) \/ Synthesize(r) \/ Writes(r)
      PROVE  Ordered'
  BY <1>0, <1>1, <1>9
  DEF Timeout, Drained, FinallyDrained, Synthesize, Writes, events, replay, Handling
<1>10. ASSUME NEW r \in Runs, Publishes(r) PROVE Ordered'
  BY <1>0, <1>1, <1>10 DEF Publishes, events, replay, Handling
<1>11. ASSUME NEW r \in Runs, WriteFails(r) \/ \E added \in BOOLEAN : PublishFails(r, added)
       PROVE  Ordered'
  BY <1>0, <1>1, <1>11 DEF WriteFails, PublishFails, GiveUp, events, replay, Handling
<1>12. CASE UNCHANGED vars
  BY <1>1, <1>12 DEF vars, events, pump, replay
<1> QED
  BY <1>2, <1>3, <1>4, <1>5, <1>6, <1>7, <1>8, <1>9, <1>10, <1>11, <1>12 DEF Next, Pump

-----------------------------------------------------------------------------
(* What is told, and in which order                                        *)

\* Events of the log stay, and what was dropped of them.
LogKept(q) ==
  \A n \in 1..Len(log[q]) : /\ n \in 1..Len(log'[q]) /\ log'[q][n] = log[q][n]
                            /\ n \in dropped'[q] <=> n \in dropped[q]

\* The stream takes the first item of the work, or an envelope of the coordinator.
Published(q) ==
  \A j \in 1..Len(stream'[q]) :
    \/ j \in 1..Len(stream[q]) /\ stream'[q][j] = stream[q][j]
    \/ /\ j = Len(stream[q]) + 1
       /\ stream'[q][j].seq = 0 \/ (1 \in 1..Len(todo[q]) /\ stream'[q][j] = todo[q][1])

\* No event is taken up: what is left of the work was there, or is the watchdog's.
WorkedOff(q) ==
  \A i \in 1..Len(todo'[q]) :
    todo'[q][i].seq = 0 \/ \E k \in 1..Len(todo[q]) : todo'[q][i] = todo[q][k]

\* Nothing is taken off the stream.
StreamKept(q) ==
  \A j \in 1..Len(stream[q]) : j \in 1..Len(stream'[q]) /\ stream'[q][j] = stream[q][j]

\* What leaves the work is on the stream, unless it is given up.
Settled(q) ==
  ~gaveUp'[q] =>
    /\ ~gaveUp[q]
    /\ \A i \in 1..Len(todo[q]) :
         \/ todo[q][i].type = Persist
         \/ \E k \in 1..Len(todo'[q]) : todo'[q][k] = todo[q][i]
         \/ \E j \in 1..Len(stream'[q]) : stream'[q][j] = todo[q][i]

Unhandled ==
  /\ seen' = seen /\ streamed' = streamed /\ tools' = tools /\ turns' = turns
  /\ \A q \in Runs : /\ LogKept(q) /\ Published(q) /\ WorkedOff(q)
                       /\ StreamKept(q) /\ Settled(q)

Handles(r, n) ==
  \/ ReplayNext(r) /\ n = pos[r] + 1
  \/ Take(r) /\ n = Head(queue[r])

LEMMA StreamSame ==
  ASSUME NEW q \in Runs
  PROVE  /\ stream'[q] = stream[q] => Published(q)
         /\ todo'[q] = todo[q] => WorkedOff(q)
         /\ log'[q] = log[q] /\ dropped'[q] = dropped[q] => LogKept(q)
         /\ stream'[q] = stream[q] /\ todo'[q] = todo[q] /\ gaveUp'[q] = gaveUp[q]
              => StreamKept(q) /\ Settled(q)
BY DEF Published, WorkedOff, LogKept, StreamKept, Settled

LEMMA CommitKeepsLog ==
  ASSUME Shape, NEW r \in Runs, NEW k \in Kind, Commit(r, k)
  PROVE  \A q \in Runs : LogKept(q)
<1>1. dropped \in [Runs -> SUBSET Nat]
  BY DEF Shape, TypeOK
<1>2. \/ dropped' = dropped
      \/ dropped' = [dropped EXCEPT ![r] = @ \cup {Len(log[r]) + 1}]
  BY DEF Commit
<1>3. ASSUME NEW q \in Runs, NEW n \in 1..Len(log[q])
      PROVE  n \in dropped'[q] <=> n \in dropped[q]
  <2>1. Len(log[r]) \in Nat
    BY LogGrows
  <2> QED
    BY <1>1, <1>2, <2>1
<1> QED
  BY <1>3, LogGrows DEF LogKept

LEMMA HeadPublished ==
  ASSUME Shape, NEW r \in Runs, ~Idle(r), Head(todo[r]).type # Persist, Put(r, Head(todo[r]))
  PROVE  /\ \A q \in Runs : Published(q) /\ StreamKept(q)
         /\ \E j \in 1..Len(stream'[r]) : stream'[r][j] = todo[r][1]
<1>1. Head(todo[r]) \in Envelope /\ Head(todo[r]) = todo[r][1] /\ 1 \in 1..Len(todo[r])
  BY HeadIsEnvelope
<1>2. Len(stream[r]) + 1 \in 1..Len(stream'[r])
  BY <1>1, PutAt
<1> QED
  BY <1>1, <1>2, PutAt DEF Published, StreamKept

LEMMA HeadDone ==
  ASSUME Shape, NEW r \in Runs, ~Idle(r), todo' = [todo EXCEPT ![r] = Tail(@)]
  PROVE  /\ \A q \in Runs : WorkedOff(q)
         /\ \A q \in Runs : q # r => todo'[q] = todo[q]
         /\ \A i \in 1..Len(todo[r]) :
              i = 1 \/ \E k \in 1..Len(todo'[r]) : todo'[r][k] = todo[r][i]
<1>1. todo \in [Runs -> Seq(Work)] /\ Len(todo[r]) \in Nat
  BY LenProperties DEF Shape, TypeOK
<1>2. \A i \in 1..Len(todo'[r]) : i + 1 \in 1..Len(todo[r]) /\ todo'[r][i] = todo[r][i + 1]
  BY <1>1, HeadIsEnvelope
<1>3. \A q \in Runs : q # r => todo'[q] = todo[q]
  BY <1>1
<1>4. ASSUME NEW i \in 1..Len(todo[r]), i # 1
      PROVE  \E k \in 1..Len(todo'[r]) : todo'[r][k] = todo[r][i]
  <2>1. todo'[r] = Tail(todo[r])
    BY <1>1
  <2>2. i - 1 \in 1..Len(todo'[r]) /\ todo'[r][i - 1] = todo[r][i]
    BY <1>1, <1>2, <1>4, <2>1, HeadIsEnvelope
  <2> QED
    BY <2>2
<1>5. \A q \in Runs : WorkedOff(q)
  BY <1>2, <1>3, StreamSame DEF WorkedOff
<1> QED
  BY <1>3, <1>4, <1>5

\* An event is handled, or nothing of the handler's order changes.
LEMMA Steps ==
  ASSUME Shape, [Next]_vars
  PROVE  (\E r \in Runs : \E n \in Nat : Handles(r, n)) \/ Unhandled
<1>0. /\ todo \in [Runs -> Seq(Work)] /\ Len(<<>>) = 0
      /\ gaveUp \in [Runs -> BOOLEAN]
      /\ Entry(0, "agent_runtime_init") \in Envelope
      /\ Entry(0, "agent_runtime_init").seq = 0 /\ Entry(0, "agent_runtime_end").seq = 0
      /\ pos \in [Runs -> Nat] /\ queue \in [Runs -> Seq(Nat)]
  BY EntryIsEnvelope, EmptySeq DEF Shape, TypeOK, Entry
<1>1. ASSUME NEW r \in Runs, Driver(r) PROVE Unhandled
  <2>1. /\ UNCHANGED pump
        /\ UNCHANGED events \/ \E k \in Kind : Commit(r, k)
    BY <1>1 DEF Driver, Talks, Returns, Raises, Settles, Unwinds, Kind, Talk, Outcome
  <2> QED
    BY <2>1, CommitKeepsLog, StreamSame DEF Unhandled, pump, handler, translator, events
<1>2. ASSUME NEW r \in Runs, Client(r) PROVE Unhandled
  BY <1>2, StreamSame
  DEF Client, Post, Cancels, Resumes, Unhandled, pump, handler, translator, events
<1>3. ASSUME NEW r \in Runs, Registration(r) PROVE Unhandled
  <2>1. /\ UNCHANGED <<log, dropped, todo, seen, streamed, tools, turns, gaveUp>>
        /\ UNCHANGED stream \/ Put(r, Entry(0, "agent_runtime_init"))
    BY <1>3 DEF Registration, Registers, RegisterFails, handler, translator, events
  <2>2. \A q \in Runs : Published(q) /\ StreamKept(q)
    <3>1. CASE UNCHANGED stream
      BY <3>1, StreamSame DEF StreamKept
    <3>2. CASE Put(r, Entry(0, "agent_runtime_init"))
      <4>1. ASSUME NEW q \in Runs, q # r PROVE Published(q) /\ StreamKept(q)
        BY <1>0, <3>2, <4>1, PutAt DEF Published, StreamKept
      <4>2. Published(r) /\ StreamKept(r)
        BY <1>0, <3>2, PutAt DEF Published, StreamKept
      <4> QED
        BY <4>1, <4>2
    <3> QED
      BY <2>1, <3>1, <3>2
  <2>3. \A q \in Runs : Settled(q)
    BY <2>1 DEF Settled
  <2> QED
    BY <2>1, <2>2, <2>3, StreamSame DEF Unhandled
<1>4. ASSUME NEW r \in Runs,
             Begin(r) \/ ReplayEnds(r) \/ Timeout(r) \/ Drained(r) \/ FinallyDrained(r)
      PROVE  Unhandled
  BY <1>4, StreamSame
  DEF Begin, ReplayEnds, Timeout, Drained, FinallyDrained, Unhandled, handler, translator, events
<1>5. ASSUME NEW r \in Runs, Synthesize(r) PROVE Unhandled
  <2>1. UNCHANGED <<log, dropped, stream, seen, streamed, tools, turns, gaveUp>> /\ todo[r] = <<>>
    BY <1>5 DEF Synthesize, translator, events, Idle
  <2>2. /\ \A q \in Runs : todo'[q] = todo[q] \/ todo'[q] = <<Entry(0, "agent_runtime_end")>>
        /\ \A q \in Runs : q # r => todo'[q] = todo[q]
    BY <1>0, <1>5 DEF Synthesize
  <2>3. ASSUME NEW q \in Runs, todo'[q] = <<Entry(0, "agent_runtime_end")>>
        PROVE  WorkedOff(q)
    <3>1. \A i \in 1..Len(todo'[q]) : todo'[q][i] = Entry(0, "agent_runtime_end")
      BY <2>3
    <3> QED
      BY <1>0, <3>1 DEF WorkedOff
  <2>4. \A q \in Runs : WorkedOff(q)
    BY <2>2, <2>3, StreamSame
  <2>5. ASSUME NEW q \in Runs PROVE StreamKept(q) /\ Settled(q)
    <3>1. CASE q # r
      BY <2>1, <2>2, <3>1, StreamSame
    <3>2. CASE q = r
      <4>1. stream'[r] = stream[r] /\ gaveUp'[r] = gaveUp[r] /\ Len(todo[r]) = 0
        BY <1>0, <2>1
      <4>2. 1..Len(todo[r]) = {}
        BY <4>1
      <4> QED
        BY <3>2, <4>1, <4>2 DEF StreamKept, Settled
    <3> QED
      BY <3>1, <3>2
  <2> QED
    BY <2>1, <2>4, <2>5, StreamSame DEF Unhandled
<1>6. ASSUME NEW r \in Runs, Writes(r) PROVE Unhandled
  <2>1. /\ UNCHANGED <<log, dropped, stream, seen, streamed, tools, turns, gaveUp>> /\ ~Idle(r)
        /\ todo' = [todo EXCEPT ![r] = Tail(@)] /\ Head(todo[r]).type = Persist
    BY <1>6 DEF Writes, translator, events
  <2>2. todo[r][1].type = Persist
    BY <2>1, HeadIsEnvelope
  <2>3. \A q \in Runs : StreamKept(q) /\ Settled(q)
    BY <2>1, <2>2, HeadDone DEF StreamKept, Settled
  <2> QED
    BY <2>1, <2>3, HeadDone, StreamSame DEF Unhandled
<1>7. ASSUME NEW r \in Runs, Publishes(r) PROVE Unhandled
  <2>1. /\ UNCHANGED <<log, dropped, seen, streamed, tools, turns, gaveUp>> /\ ~Idle(r)
        /\ Head(todo[r]).type # Persist /\ Put(r, Head(todo[r]))
        /\ todo' = [todo EXCEPT ![r] = Tail(@)]
    BY <1>7 DEF Publishes, translator, events
  <2>2. ASSUME NEW q \in Runs PROVE Settled(q)
    <3>1. CASE q # r
      BY <2>1, <3>1, HeadDone DEF Settled
    <3>2. CASE q = r
      <4>1. \E j \in 1..Len(stream'[r]) : stream'[r][j] = todo[r][1]
        BY <2>1, HeadPublished
      <4>2. \A i \in 1..Len(todo[r]) :
              i = 1 \/ \E k \in 1..Len(todo'[r]) : todo'[r][k] = todo[r][i]
        BY <2>1, HeadDone
      <4>3. gaveUp' = gaveUp
        BY <2>1
      <4> QED
        BY <3>2, <4>1, <4>2, <4>3 DEF Settled
    <3> QED
      BY <3>1, <3>2
  <2> QED
    BY <2>1, <2>2, HeadDone, HeadPublished, StreamSame DEF Unhandled
<1>8. ASSUME NEW r \in Runs, WriteFails(r) \/ \E added \in BOOLEAN : PublishFails(r, added)
      PROVE  Unhandled
  <2>1. /\ UNCHANGED <<log, dropped, seen, streamed, tools, turns>> /\ ~Idle(r)
        /\ \/ UNCHANGED stream
           \/ Head(todo[r]).type # Persist /\ Put(r, Head(todo[r]))
        /\ \/ UNCHANGED <<todo, gaveUp>>
           \/ todo' = [todo EXCEPT ![r] = <<>>] /\ gaveUp' = [gaveUp EXCEPT ![r] = TRUE]
    BY <1>8 DEF WriteFails, PublishFails, GiveUp, translator, events
  <2>2. \A q \in Runs : Published(q) /\ StreamKept(q)
    BY <2>1, HeadPublished, StreamSame DEF StreamKept
  <2>3. \A q \in Runs : \/ todo'[q] = todo[q] /\ gaveUp'[q] = gaveUp[q]
                        \/ todo'[q] = <<>> /\ gaveUp'[q]
    BY <1>0, <2>1
  <2>4. \A q \in Runs : WorkedOff(q) /\ Settled(q)
    BY <1>0, <2>3, StreamSame DEF WorkedOff, Settled
  <2> QED
    BY <2>1, <2>2, <2>4, StreamSame DEF Unhandled
<1>9. ASSUME NEW r \in Runs, ReplayNext(r) PROVE \E n \in Nat : Handles(r, n)
  BY <1>0, <1>9 DEF Handles
<1>10. ASSUME NEW r \in Runs, Take(r) PROVE \E n \in Nat : Handles(r, n)
  <2>1. Head(queue[r]) \in Nat
    BY <1>0, <1>10, HeadTailProperties DEF Take
  <2> QED
    BY <1>10, <2>1 DEF Handles
<1>11. CASE UNCHANGED vars
  BY <1>11, StreamSame DEF vars, Unhandled, pump, handler, translator, events
<1> QED
  BY <1>1, <1>2, <1>3, <1>4, <1>5, <1>6, <1>7, <1>8, <1>9, <1>10, <1>11 DEF Next, Pump

\* How the work of a run shrinks: its first item is done, it is given up, or the
\* watchdog's end, which stands for no entry, is all there is.
Shrinks(q) ==
  \/ todo'[q] = todo[q]
  \/ /\ ~Idle(q) /\ todo'[q] = Tail(todo[q])
     /\ IF Head(todo[q]).type = Persist THEN Head(todo[q]).seq \in written'[q]
        ELSE \E j \in 1..Len(stream'[q]) : stream'[q][j] = todo[q][1]
  \/ todo'[q] = <<>> /\ gaveUp'[q]
  \/ \A i \in 1..Len(todo'[q]) : todo'[q][i].seq = 0

LEMMA WorkShrinks ==
  ASSUME Shape, [Next]_vars
  PROVE  (\E r \in Runs : \E n \in Nat : Handles(r, n)) \/ \A q \in Runs : Shrinks(q)
<1>0. /\ todo \in [Runs -> Seq(Work)] /\ gaveUp \in [Runs -> BOOLEAN]
      /\ pos \in [Runs -> Nat] /\ queue \in [Runs -> Seq(Nat)]
      /\ written \in [Runs -> SUBSET Nat]
  BY DEF Shape, TypeOK
<1>1. ASSUME NEW r \in Runs,
             \/ Driver(r) \/ Client(r) \/ Registration(r) \/ Begin(r) \/ ReplayEnds(r)
             \/ Timeout(r) \/ Drained(r) \/ FinallyDrained(r)
      PROVE  UNCHANGED todo
  BY <1>1 DEF Driver, Talks, Returns, Raises, Settles, Unwinds, Client, Post, Cancels, Resumes,
              Registration, Registers, RegisterFails, Begin, ReplayEnds, Timeout, Drained,
              FinallyDrained, pump, handler
<1>2. ASSUME NEW r \in Runs, ReplayNext(r) PROVE \E n \in Nat : Handles(r, n)
  BY <1>0, <1>2 DEF Handles
<1>3. ASSUME NEW r \in Runs, Take(r) PROVE \E n \in Nat : Handles(r, n)
  <2>1. Head(queue[r]) \in Nat
    BY <1>0, <1>3, HeadTailProperties DEF Take
  <2> QED
    BY <1>3, <2>1 DEF Handles
<1>4. ASSUME NEW r \in Runs, Synthesize(r) PROVE \A q \in Runs : Shrinks(q)
  <2>1. todo' = todo \/ todo' = [todo EXCEPT ![r] = <<Entry(0, "agent_runtime_end")>>]
    BY <1>4 DEF Synthesize
  <2>2. \A i \in 1..Len(<<Entry(0, "agent_runtime_end")>>) :
          <<Entry(0, "agent_runtime_end")>>[i].seq = 0
    BY DEF Entry
  <2> QED
    BY <1>0, <2>1, <2>2 DEF Shrinks
<1>5. ASSUME NEW r \in Runs, Writes(r) PROVE \A q \in Runs : Shrinks(q)
  <2>1. /\ ~Idle(r) /\ todo' = [todo EXCEPT ![r] = Tail(@)] /\ Head(todo[r]).type = Persist
        /\ written' = [written EXCEPT ![r] = @ \cup {Head(todo[r]).seq}]
    BY <1>5 DEF Writes
  <2>2. Head(todo[r]).seq \in written'[r]
    BY <1>0, <2>1
  <2> QED
    BY <1>0, <2>1, <2>2 DEF Shrinks
<1>6. ASSUME NEW r \in Runs, Publishes(r) PROVE \A q \in Runs : Shrinks(q)
  <2>1. /\ ~Idle(r) /\ Head(todo[r]).type # Persist /\ Put(r, Head(todo[r]))
        /\ todo' = [todo EXCEPT ![r] = Tail(@)]
    BY <1>6 DEF Publishes
  <2>2. \E j \in 1..Len(stream'[r]) : stream'[r][j] = todo[r][1]
    BY <2>1, HeadPublished
  <2> QED
    BY <1>0, <2>1, <2>2 DEF Shrinks
<1>7. ASSUME NEW r \in Runs, WriteFails(r) \/ \E added \in BOOLEAN : PublishFails(r, added)
      PROVE  \A q \in Runs : Shrinks(q)
  <2>1. \/ UNCHANGED todo
        \/ todo' = [todo EXCEPT ![r] = <<>>] /\ gaveUp' = [gaveUp EXCEPT ![r] = TRUE]
    BY <1>7 DEF WriteFails, PublishFails, GiveUp
  <2> QED
    BY <1>0, <2>1 DEF Shrinks
<1>8. CASE UNCHANGED vars
  BY <1>8 DEF vars, pump, handler, Shrinks
<1> QED
  BY <1>1, <1>2, <1>3, <1>4, <1>5, <1>6, <1>7, <1>8 DEF Next, Pump, Shrinks

\* What is left of the work is what was left of it before, one further.
LEMMA ShrinksBy ==
  ASSUME Shape, NEW q \in Runs, Shrinks(q)
  PROVE  \/ todo'[q] = todo[q]
         \/ /\ 1 \in 1..Len(todo[q])
            /\ todo[q][1].type = Persist => todo[q][1].seq \in written'[q]
            /\ todo[q][1].type # Persist
                 => \E j \in 1..Len(stream'[q]) : stream'[q][j] = todo[q][1]
            /\ \A k \in 1..Len(todo[q]) : k # 1 => k - 1 \in 1..Len(todo'[q])
            /\ \A k \in 1..Len(todo'[q]) :
                 k + 1 \in 1..Len(todo[q]) /\ todo'[q][k] = todo[q][k + 1]
         \/ \A k \in 1..Len(todo'[q]) : todo'[q][k].seq = 0
<1>1. todo \in [Runs -> Seq(Work)] /\ Len(todo[q]) \in Nat /\ Len(<<>>) = 0
  BY LenProperties, EmptySeq DEF Shape, TypeOK
<1>2. CASE ~Idle(q) /\ todo'[q] = Tail(todo[q])
  <2>1. /\ 1 \in 1..Len(todo[q]) /\ Head(todo[q]) = todo[q][1]
        /\ Len(todo'[q]) = Len(todo[q]) - 1
        /\ \A k \in 1..Len(todo'[q]) : todo'[q][k] = todo[q][k + 1]
    BY <1>2, HeadIsEnvelope
  <2>2. /\ \A k \in 1..Len(todo[q]) : k # 1 => k - 1 \in 1..Len(todo'[q])
        /\ \A k \in 1..Len(todo'[q]) : k + 1 \in 1..Len(todo[q])
    BY <1>1, <2>1
  <2>3. CASE IF Head(todo[q]).type = Persist THEN Head(todo[q]).seq \in written'[q]
             ELSE \E j \in 1..Len(stream'[q]) : stream'[q][j] = todo[q][1]
    BY <2>1, <2>2, <2>3
  <2>4. CASE todo'[q] = todo[q]
    BY <2>4
  <2>5. CASE todo'[q] = <<>>
    BY <1>1, <2>5
  <2>6. CASE \A k \in 1..Len(todo'[q]) : todo'[q][k].seq = 0
    BY <2>6
  <2> QED
    BY <2>3, <2>4, <2>5, <2>6 DEF Shrinks
<1>3. CASE todo'[q] = <<>>
  BY <1>1, <1>3
<1> QED
  BY <1>2, <1>3 DEF Shrinks

\* The event in hand is the newest that was handled; the stream is in order.
TellsAt(r) ==
  /\ \A j \in 1..Len(stream[r]) : stream[r][j].seq # 0 => stream[r][j].seq \in seen[r]
  /\ \A i \in 1..Len(todo[r]) : todo[r][i].seq # 0 =>
       todo[r][i].seq \in seen[r] /\ \A m \in seen[r] : m <= todo[r][i].seq
  /\ \A i, j \in 1..Len(stream[r]) :
       i < j /\ stream[r][i].seq # 0 /\ stream[r][j].seq # 0
         => stream[r][i].seq <= stream[r][j].seq

Tells == \A r \in Runs : TellsAt(r)

LEMMA TellsStep ==
  ASSUME Shape, Kept, Ordered, Tells, [Next]_vars
  PROVE  Tells'
<1>1. ASSUME Unhandled, NEW r \in Runs PROVE TellsAt(r)'
  <2>1. seen' = seen /\ Published(r) /\ WorkedOff(r)
    BY <1>1 DEF Unhandled
  <2>2. Len(stream[r]) \in Nat
    BY LenProperties DEF Shape, TypeOK
  <2>3. \A j \in 1..Len(stream'[r]) : stream'[r][j].seq # 0 => stream'[r][j].seq \in seen[r]
    BY <2>1 DEF Tells, TellsAt, Published
  <2>4. \A i \in 1..Len(todo'[r]) : todo'[r][i].seq # 0 =>
          todo'[r][i].seq \in seen[r] /\ \A m \in seen[r] : m <= todo'[r][i].seq
    BY <2>1 DEF Tells, TellsAt, WorkedOff
  <2>5. ASSUME NEW i \in 1..Len(stream'[r]), NEW j \in 1..Len(stream'[r]), i < j,
               stream'[r][i].seq # 0, stream'[r][j].seq # 0
        PROVE  stream'[r][i].seq <= stream'[r][j].seq
    <3>1. i \in 1..Len(stream[r]) /\ stream'[r][i] = stream[r][i]
      BY <2>1, <2>2, <2>5 DEF Published
    <3>2. CASE j \in 1..Len(stream[r]) /\ stream'[r][j] = stream[r][j]
      BY <2>5, <3>1, <3>2 DEF Tells, TellsAt
    <3>3. CASE 1 \in 1..Len(todo[r]) /\ stream'[r][j] = todo[r][1]
      BY <2>5, <3>1, <3>3 DEF Tells, TellsAt
    <3> QED
      BY <2>1, <2>5, <3>2, <3>3 DEF Published
  <2> QED
    BY <2>1, <2>3, <2>4, <2>5 DEF TellsAt
<1>2. ASSUME NEW r \in Runs, NEW n \in Nat, Handles(r, n), NEW q \in Runs PROVE TellsAt(q)'
  <2>0. /\ todo \in [Runs -> Seq(Work)] /\ seen \in [Runs -> SUBSET Nat]
        /\ streamed \in BOOLEAN /\ tools \in BOOLEAN /\ Len(log[r]) \in Nat
        /\ \A m \in 1..Len(log[r]) : log[r][m] \in Kind
    BY LenProperties, ElementOfSeq DEF Shape, TypeOK
  <2>1. /\ n \in 1..Len(log[r]) /\ n \notin seen[r] /\ Handle(r, n) /\ stream' = stream
        /\ \A m \in 1..Len(log[r]) : m \in seen[r] => m < n
    BY <1>2, NextInOrder DEF Handles
  <2>2. /\ seen' = [seen EXCEPT ![r] = @ \cup {n}]
        /\ todo' = [todo EXCEPT ![r] = HandlerWork(n, log[r][n])]
    BY <2>1 DEF Handle
  <2>3. CASE q # r
    <3>1. seen'[q] = seen[q] /\ todo'[q] = todo[q]
      BY <2>0, <2>2, <2>3
    <3> QED
      BY <2>1, <3>1 DEF Tells, TellsAt
  <2>4. CASE q = r
    <3>1. seen'[r] = seen[r] \cup {n} /\ todo'[r] = HandlerWork(n, log[r][n])
      BY <2>0, <2>2
    <3>2. \A i \in 1..Len(todo'[r]) : todo'[r][i].seq = n
      <4>1. log[r][n] \in Kind
        BY <2>0, <2>1
      <4>2. \A i \in 1..Len(HandlerWork(n, log[r][n])) : HandlerWork(n, log[r][n])[i].seq = n
        BY <2>0, <4>1, WorkKinds
      <4> QED
        BY <3>1, <4>2
    <3>3. \A m \in seen'[r] : m <= n
      BY <2>0, <2>1, <3>1 DEF Ordered, OrderAt
    <3> QED
      BY <2>1, <2>4, <3>1, <3>2, <3>3 DEF Tells, TellsAt
  <2> QED
    BY <2>3, <2>4
<1> QED
  BY <1>1, <1>2, Steps DEF Tells

\* What a run's stream says of its events is in the order of its log, whatever is
\* retried, given up or dropped, and however many runs share the translator
\* (session_gateway_pump.py: the replay, then the queue).
ToldInOrder ==
  \A r \in Runs : \A i, j \in 1..Len(stream[r]) :
    i < j /\ stream[r][i].seq # 0 /\ stream[r][j].seq # 0
      => stream[r][i].seq <= stream[r][j].seq

\* The stream of a run follows its log.
THEOREM StreamFollowsLog == Spec => []ToldInOrder
<1>1. Init => Tells
  <2>1. Len(<<>>) = 0
    BY EmptySeq
  <2> QED
    BY <2>1 DEF Init, Tells, TellsAt
<1>2. Shape /\ Kept /\ Ordered /\ Tells /\ [Next]_vars => Shape' /\ Kept' /\ Ordered' /\ Tells'
  BY ShapeStep, KeptStep, OrderedStep, TellsStep
<1>3. Tells => ToldInOrder
  BY DEF Tells, TellsAt, ToldInOrder
<1> QED
  BY <1>1, <1>2, <1>3, ShapeInit, KeptInit, OrderedInit, PTL DEF Spec

-----------------------------------------------------------------------------
(* A tool's state is written before anything is published of it            *)

\* No step takes up an event of this run: its work and its stream go on as they were.
Untouched(q) ==
  /\ seen'[q] = seen[q]
  /\ LogKept(q) /\ Published(q) /\ WorkedOff(q) /\ StreamKept(q) /\ Settled(q) /\ Shrinks(q)

LEMMA Touches ==
  ASSUME Shape, Kept, Ordered, [Next]_vars, NEW q \in Runs
  PROVE  Untouched(q) \/ \E n \in Nat : Handles(q, n)
<1>1. ASSUME NEW r \in Runs, NEW n \in Nat, Handles(r, n), q # r PROVE Untouched(q)
  <2>1. Handle(r, n) /\ n \notin seen[r] /\ UNCHANGED <<log, dropped, stream, gaveUp>>
    BY <1>1, NextInOrder DEF Handles
  <2>2. todo \in [Runs -> Seq(Work)] /\ seen \in [Runs -> SUBSET Nat]
    BY DEF Shape, TypeOK
  <2>3. seen'[q] = seen[q] /\ todo'[q] = todo[q]
    BY <1>1, <2>1, <2>2 DEF Handle
  <2> QED
    BY <2>1, <2>3, StreamSame DEF Untouched, Shrinks
<1>2. ASSUME Unhandled, \A p \in Runs : Shrinks(p) PROVE Untouched(q)
  BY <1>2 DEF Unhandled, Untouched
<1> QED
  BY <1>1, <1>2, Steps, WorkShrinks

LEMMA WrittenGrows ==
  ASSUME Shape, [Next]_vars, NEW q \in Runs
  PROVE  written[q] \subseteq written'[q]
<1>0. written \in [Runs -> SUBSET Nat]
  BY DEF Shape, TypeOK
<1>1. ASSUME NEW r \in Runs, Writes(r) PROVE written[q] \subseteq written'[q]
  BY <1>0, <1>1 DEF Writes
<1>2. ASSUME NEW r \in Runs, Driver(r) \/ Client(r) \/ Registration(r) PROVE UNCHANGED written
  BY <1>2 DEF Driver, Talks, Returns, Raises, Settles, Unwinds, Client, Post, Cancels, Resumes,
              Registration, Registers, RegisterFails, pump, handler
<1>3. ASSUME NEW r \in Runs, Pump(r), ~Writes(r) PROVE UNCHANGED written
  BY <1>3 DEF Pump, Begin, ReplayNext, ReplayEnds, Take, Timeout, Drained, FinallyDrained,
              Synthesize, Publishes, WriteFails, PublishFails, handler
<1>4. CASE UNCHANGED vars
  BY <1>4 DEF vars, pump, handler
<1> QED
  BY <1>1, <1>2, <1>3, <1>4 DEF Next

\* The events whose state is written.
Due(r) == {n \in 1..Len(log[r]) : log[r][n] \in Stateful}

\* What is published of such an event was written, or its write is next.
AnnouncedAt(r) ==
  \A j \in 1..Len(stream[r]) : stream[r][j].seq \in Due(r) => stream[r][j].seq \in written[r]
PairedAt(r) ==
  \A i \in 1..Len(todo[r]) : todo[r][i].seq \in Due(r) =>
    \/ todo[r][i].type = Persist
    \/ todo[r][i].seq \in written[r]
    \/ i = 2 /\ todo[r][1] = Entry(todo[r][2].seq, Persist)

Paired == \A r \in Runs : AnnouncedAt(r) /\ PairedAt(r)

LEMMA PairedWorkedOff ==
  ASSUME Shape, Shape', Ordered, Tells, Tells', Paired, [Next]_vars,
         NEW r \in Runs, Untouched(r)
  PROVE  AnnouncedAt(r)' /\ PairedAt(r)'
<1>1. /\ seen'[r] = seen[r] /\ LogKept(r) /\ Published(r) /\ Shrinks(r)
      /\ written[r] \subseteq written'[r] /\ AnnouncedAt(r) /\ PairedAt(r)
  BY WrittenGrows DEF Untouched, Paired
<1>2. \A m \in seen[r] : m \in 1..Len(log[r]) /\ log'[r][m] = log[r][m]
  BY <1>1 DEF Ordered, OrderAt, LogKept
<1>3. ASSUME NEW m, m = 0 \/ m \in seen[r], m \in Due(r)' PROVE m \in Due(r)
  BY <1>2, <1>3 DEF Due
<1>4. ASSUME NEW j \in 1..Len(stream'[r]), stream'[r][j].seq \in Due(r)'
      PROVE  stream'[r][j].seq \in written'[r]
  <2>1. stream'[r][j].seq # 0 /\ stream'[r][j].seq \in Due(r)
    <3>1. stream'[r][j].seq # 0
      BY <1>4 DEF Due
    <3>2. stream'[r][j].seq \in seen[r]
      BY <1>1, <3>1 DEF Tells, TellsAt
    <3> QED
      BY <1>3, <1>4, <3>1, <3>2
  <2>2. CASE j \in 1..Len(stream[r]) /\ stream'[r][j] = stream[r][j]
    BY <1>1, <2>1, <2>2 DEF AnnouncedAt
  <2>3. CASE 1 \in 1..Len(todo[r]) /\ stream'[r][j] = todo[r][1]
    <3>1. todo[r][1].type # Persist
      <4>1. stream'[r] \in Seq(Envelope) /\ Persist \notin EnvelopeType
        BY DEF Shape, TypeOK, Persist, EnvelopeType
      <4>2. stream'[r][j] \in Envelope
        BY <4>1, ElementOfSeq
      <4> QED
        BY <2>3, <4>1, <4>2 DEF Envelope
    <3> QED
      BY <1>1, <2>1, <2>3, <3>1 DEF PairedAt
  <2> QED
    BY <1>1, <2>1, <2>2, <2>3 DEF Published
<1>5. ASSUME NEW k \in 1..Len(todo'[r]), todo'[r][k].seq \in Due(r)', todo'[r][k].type # Persist
      PROVE  \/ todo'[r][k].seq \in written'[r]
             \/ k = 2 /\ todo'[r][1] = Entry(todo'[r][2].seq, Persist)
  <2>1. todo'[r][k].seq # 0 /\ todo'[r][k].seq \in Due(r)
    <3>1. todo'[r][k].seq # 0
      BY <1>5 DEF Due
    <3>2. todo'[r][k].seq \in seen[r]
      BY <1>1, <3>1 DEF Tells, TellsAt
    <3> QED
      BY <1>3, <1>5, <3>1, <3>2
  <2>2. CASE todo'[r] = todo[r]
    BY <1>1, <1>5, <2>1, <2>2 DEF PairedAt
  <2>3. CASE /\ todo[r][1].type = Persist => todo[r][1].seq \in written'[r]
             /\ k + 1 \in 1..Len(todo[r]) /\ todo'[r][k] = todo[r][k + 1]
    <3>1. \/ todo[r][k + 1].seq \in written[r]
          \/ k + 1 = 2 /\ todo[r][1] = Entry(todo[r][2].seq, Persist)
      BY <1>1, <1>5, <2>1, <2>3 DEF PairedAt
    <3>2. CASE k + 1 = 2 /\ todo[r][1] = Entry(todo[r][2].seq, Persist)
      <4>1. todo[r][1].type = Persist /\ todo[r][1].seq = todo[r][2].seq
        BY <3>2 DEF Entry
      <4> QED
        BY <2>3, <3>2, <4>1
    <3> QED
      BY <1>1, <2>3, <3>1, <3>2
  <2> QED
    BY <1>1, <1>5, <2>1, <2>2, <2>3, ShrinksBy
<1> QED
  BY <1>4, <1>5 DEF AnnouncedAt, PairedAt

LEMMA PairedHandled ==
  ASSUME Shape, Kept, Ordered, Paired, [Next]_vars, NEW r \in Runs, NEW n \in Nat, Handles(r, n)
  PROVE  AnnouncedAt(r)' /\ PairedAt(r)'
<1>0. /\ todo \in [Runs -> Seq(Work)] /\ streamed \in BOOLEAN /\ tools \in BOOLEAN
      /\ \A m \in 1..Len(log[r]) : log[r][m] \in Kind
  BY ElementOfSeq DEF Shape, TypeOK
<1>1. /\ n \in 1..Len(log[r]) /\ n \notin seen[r] /\ Handle(r, n) /\ UNCHANGED <<log, stream>>
  BY NextInOrder DEF Handles
<1>2. todo'[r] = HandlerWork(n, log[r][n]) /\ log[r][n] \in Kind
  BY <1>0, <1>1 DEF Handle
<1>3. AnnouncedAt(r)'
  BY <1>1, WrittenGrows DEF Paired, AnnouncedAt, Due
<1>4. CASE log[r][n] \in Stateful
  <2>1. PICK t \in EnvelopeType : todo'[r] = <<Entry(n, Persist), Entry(n, t)>>
    BY <1>0, <1>2, <1>4, WorkShape
  <2>2. /\ \A i \in 1..Len(todo'[r]) : i = 1 \/ i = 2
        /\ todo'[r][1] = Entry(n, Persist) /\ todo'[r][2] = Entry(n, t)
    BY <2>1
  <2>3. todo'[r][1].type = Persist /\ todo'[r][2].seq = n
    BY <2>2 DEF Entry
  <2> QED
    BY <1>3, <2>2, <2>3 DEF PairedAt
<1>5. CASE log[r][n] \notin Stateful
  <2>1. \A i \in 1..Len(HandlerWork(n, log[r][n])) : HandlerWork(n, log[r][n])[i].seq = n
    BY <1>0, <1>2, WorkKinds
  <2>2. n \notin Due(r)'
    BY <1>1, <1>5 DEF Due
  <2> QED
    BY <1>2, <1>3, <2>1, <2>2 DEF PairedAt
<1> QED
  BY <1>4, <1>5

\* In spite of retries and of writes given up, nothing is published of a tool event
\* that has a state before the write of it returned (runtime_coordinator.py:82-84).
THEOREM StateBeforeAnnouncement == Spec => []ToolStateFirst
<1>1. Init => Tells /\ Paired
  <2>1. Len(<<>>) = 0
    BY EmptySeq
  <2> QED
    BY <2>1 DEF Init, Tells, TellsAt, Paired, AnnouncedAt, PairedAt
<1>2. ASSUME Shape, Kept, Ordered, Tells, Paired, [Next]_vars
      PROVE  Shape' /\ Kept' /\ Ordered' /\ Tells' /\ Paired'
  <2>1. Shape' /\ Kept' /\ Ordered' /\ Tells'
    BY <1>2, ShapeStep, KeptStep, OrderedStep, TellsStep
  <2> QED
    BY <1>2, <2>1, Touches, PairedWorkedOff, PairedHandled DEF Paired
<1>3. Ordered /\ Tells /\ Paired => ToolStateFirst
  <2> SUFFICES ASSUME Ordered, Tells, Paired, NEW r \in Runs, NEW j \in 1..Len(stream[r]),
                      stream[r][j].seq # 0, log[r][stream[r][j].seq] \in Stateful
               PROVE  stream[r][j].seq \in written[r]
    BY DEF ToolStateFirst
  <2>1. stream[r][j].seq \in 1..Len(log[r])
    BY DEF Ordered, OrderAt, Tells, TellsAt
  <2> QED
    BY <2>1 DEF Paired, AnnouncedAt, Due
<1> QED
  BY <1>1, <1>2, <1>3, ShapeInit, KeptInit, OrderedInit, PTL DEF Spec

-----------------------------------------------------------------------------
(* The one translator: its flags are the fold of the turns it was given    *)

\* The flags as all turns so far set them.
Since(k) ==
  \E i \in 1..Len(turns) : /\ TurnKind(i) = k
                           /\ \A j \in 1..Len(turns) :
                                j > i => TurnKind(j) \notin {"start", "quiet"}

\* The turns are the handled events of all runs, and the flags are their fold.
Turned ==
  /\ \A i \in 1..Len(turns) : turns[i][2] \in seen[turns[i][1]]
  /\ \A r \in Runs : \A m \in seen[r] : \E i \in 1..Len(turns) : turns[i] = <<r, m>>
  /\ (streamed <=> Since("token")) /\ (tools <=> Since("calls"))

\* A turn stands for the same event in the next state.
LEMMA TurnKindKept ==
  ASSUME Shape, Ordered, Turned, \A q \in Runs : LogKept(q),
         NEW i \in 1..Len(turns), turns'[i] = turns[i]
  PROVE  TurnKind(i)' = TurnKind(i)
<1>1. turns[i] \in Runs \X Nat
  BY ElementOfSeq DEF Shape, TypeOK
<1>2. turns[i][1] \in Runs /\ turns[i][2] \in 1..Len(log[turns[i][1]])
  BY <1>1 DEF Turned, Ordered, OrderAt
<1>3. log'[turns[i][1]][turns[i][2]] = log[turns[i][1]][turns[i][2]]
  BY <1>2 DEF LogKept
<1> QED
  BY <1>3 DEF TurnKind

\* An event that had no turn yet comes after all turns.
LEMMA BeforeAll ==
  ASSUME Shape, Turned, NEW r \in Runs, NEW n, n \notin seen[r]
  PROVE  /\ Before(r, n) = 1..Len(turns)
         /\ \A k : SinceCall(r, n, k) <=> Since(k)
<1>1. \A i \in 1..Len(turns) : turns[i] # <<r, n>>
  BY DEF Turned
<1>2. Len(turns) \in Nat
  BY LenProperties DEF Shape, TypeOK
<1>3. \A i \in 1..Len(turns) : \A j \in 1..i : j \in 1..Len(turns)
  BY <1>2
<1>4. Before(r, n) = 1..Len(turns)
  BY <1>1, <1>3 DEF Before
<1> QED
  BY <1>4 DEF SinceCall, Since

\* The turns before an event stay what they are once it had its turn, and when it
\* has it.
LEMMA BeforeKept ==
  ASSUME Shape, Ordered, Turned, \A q \in Runs : LogKept(q),
         NEW r \in Runs, NEW n \in 1..Len(log[r]),
         \/ turns' = turns /\ n \in seen[r]
         \/ \E q \in Runs : \E m \in Nat :
              /\ turns' = Append(turns, <<q, m>>)
              /\ n \in seen[r] \/ <<q, m>> = <<r, n>>
  PROVE  /\ Before(r, n)' = Before(r, n)
         /\ \A i \in Before(r, n) : TurnKind(i)' = TurnKind(i)
<1>1. turns \in Seq(Runs \X Nat) /\ Len(turns) \in Nat
  BY LenProperties DEF Shape, TypeOK
<1>2. CASE turns' = turns
  <2>1. Before(r, n)' = Before(r, n)
    BY <1>2 DEF Before
  <2> QED
    BY <1>2, <2>1, TurnKindKept DEF Before
<1>3. ASSUME NEW q \in Runs, NEW m \in Nat, turns' = Append(turns, <<q, m>>),
             n \in seen[r] \/ <<q, m>> = <<r, n>>
      PROVE  /\ Before(r, n)' = Before(r, n)
             /\ \A i \in Before(r, n) : TurnKind(i)' = TurnKind(i)
  <2>1. /\ Len(turns') = Len(turns) + 1 /\ turns'[Len(turns) + 1] = <<q, m>>
        /\ \A i \in 1..Len(turns) : turns'[i] = turns[i]
    BY <1>1, <1>3
  <2>2. \E j \in 1..Len(turns') : turns'[j] = <<r, n>>
    <3>1. CASE n \in seen[r]
      <4>1. PICK j \in 1..Len(turns) : turns[j] = <<r, n>>
        BY <3>1 DEF Turned
      <4> QED
        BY <1>1, <2>1, <4>1
    <3>2. CASE <<q, m>> = <<r, n>>
      BY <1>1, <2>1, <3>2
    <3> QED
      BY <1>3, <3>1, <3>2
  <2>3. Len(turns) + 1 \notin Before(r, n)'
    <3>1. PICK j \in 1..Len(turns') : turns'[j] = <<r, n>>
      BY <2>2
    <3>2. j \in 1..(Len(turns) + 1)
      BY <2>1, <3>1
    <3> QED
      BY <3>1, <3>2 DEF Before
  <2>4. \A i \in 1..Len(turns) : i \in Before(r, n)' <=> i \in Before(r, n)
    <3>1. \A i \in 1..Len(turns) : i \in 1..Len(turns') /\ \A j \in 1..i : turns'[j] = turns[j]
      BY <1>1, <2>1
    <3> QED
      BY <3>1 DEF Before
  <2>5. \A i \in 1..Len(turns') : i \in 1..Len(turns) \/ i = Len(turns) + 1
    BY <1>1, <2>1
  <2>6. Before(r, n)' \subseteq 1..Len(turns') /\ Before(r, n) \subseteq 1..Len(turns)
    BY DEF Before
  <2>7. Before(r, n)' = Before(r, n)
    BY <2>3, <2>4, <2>5, <2>6
  <2> QED
    BY <2>1, <2>6, <2>7, TurnKindKept
<1> QED
  BY <1>2, <1>3

\* What a step does to the turns, the flags and the logs.
LEMMA TurnsStep ==
  ASSUME Shape, Kept, Ordered, [Next]_vars
  PROVE  /\ \A q \in Runs : LogKept(q)
         /\ \/ UNCHANGED <<seen, streamed, tools, turns>>
            \/ \E r \in Runs : \E n \in Nat :
                 /\ Handles(r, n) /\ n \in 1..Len(log[r]) /\ n \notin seen[r]
                 /\ seen' = [seen EXCEPT ![r] = @ \cup {n}]
                 /\ turns' = Append(turns, <<r, n>>) /\ Fold(log[r][n]) /\ log' = log
<1>1. ASSUME NEW r \in Runs, NEW n \in Nat, Handles(r, n)
      PROVE  /\ \A q \in Runs : LogKept(q)
             /\ n \in 1..Len(log[r]) /\ n \notin seen[r]
             /\ seen' = [seen EXCEPT ![r] = @ \cup {n}]
             /\ turns' = Append(turns, <<r, n>>) /\ Fold(log[r][n]) /\ log' = log
  <2>1. /\ n \in 1..Len(log[r]) /\ n \notin seen[r] /\ Handle(r, n)
        /\ UNCHANGED <<log, dropped>>
    BY <1>1, NextInOrder DEF Handles
  <2> QED
    BY <2>1, StreamSame DEF Handle
<1>2. CASE Unhandled
  BY <1>2 DEF Unhandled
<1> QED
  BY <1>1, <1>2, Steps

\* The fold of a handled event does not change, nor that of the one being handled.
LEMMA FoldedKept ==
  ASSUME Shape, Kept, Ordered, Turned, [Next]_vars, NEW r \in Runs, NEW n \in seen'[r]
  PROVE  /\ n \in 1..Len(log[r]) /\ log'[r][n] = log[r][n]
         /\ Folded(r, n)' = Folded(r, n)
         /\ n \in Handed(r) /\ n \in Handed(r)'
<1>0. seen \in [Runs -> SUBSET Nat]
  BY DEF Shape, TypeOK
<1>1. /\ \A q \in Runs : LogKept(q)
      /\ \/ turns' = turns /\ seen' = seen
         \/ \E q \in Runs : \E m \in Nat :
              /\ Handles(q, m) /\ seen' = [seen EXCEPT ![q] = @ \cup {m}]
              /\ turns' = Append(turns, <<q, m>>)
  BY TurnsStep
<1>2. n \in 1..Len(log[r]) /\ n \notin dropped[r]
  <2>1. CASE n \in seen[r]
    BY <2>1 DEF Ordered, OrderAt
  <2>2. CASE n \notin seen[r]
    <3>1. PICK q \in Runs, m \in Nat : /\ Handles(q, m)
                                       /\ seen' = [seen EXCEPT ![q] = @ \cup {m}]
      BY <1>1, <2>2
    <3>2. q = r /\ m = n
      BY <1>0, <2>2, <3>1
    <3> QED
      BY <3>1, <3>2, NextInOrder DEF Handles
  <2> QED
    BY <2>1, <2>2
<1>3. /\ log'[r][n] = log[r][n] /\ n \in 1..Len(log'[r])
      /\ n \in Handed(r) /\ n \in Handed(r)'
  BY <1>1, <1>2 DEF LogKept, Handed
<1>4. /\ Before(r, n)' = Before(r, n)
      /\ \A i \in Before(r, n) : TurnKind(i)' = TurnKind(i)
  <2>1. CASE turns' = turns /\ seen' = seen
    BY <1>1, <1>2, <2>1, BeforeKept
  <2>2. ASSUME NEW q \in Runs, NEW m \in Nat, seen' = [seen EXCEPT ![q] = @ \cup {m}],
               turns' = Append(turns, <<q, m>>)
        PROVE  /\ Before(r, n)' = Before(r, n)
               /\ \A i \in Before(r, n) : TurnKind(i)' = TurnKind(i)
    <3>1. n \in seen[r] \/ <<q, m>> = <<r, n>>
      BY <1>0, <2>2
    <3> QED
      BY <1>1, <1>2, <2>2, <3>1, BeforeKept
  <2> QED
    BY <1>1, <2>1, <2>2
<1>5. \A k : SinceCall(r, n, k)' = SinceCall(r, n, k)
  <2>1. \A k : SinceCall(r, n, k)' <=> SinceCall(r, n, k)
    BY <1>4 DEF SinceCall
  <2>2. \A k : SinceCall(r, n, k)' \in BOOLEAN /\ SinceCall(r, n, k) \in BOOLEAN
    BY DEF SinceCall
  <2> QED
    BY <2>1, <2>2
<1>6. Folded(r, n)' = Folded(r, n)
  BY <1>3, <1>5 DEF Folded
<1> QED
  BY <1>2, <1>3, <1>6

\* The flags after one more turn.
LEMMA SinceHandled ==
  ASSUME Shape, Ordered, Turned, \A q \in Runs : LogKept(q), NEW r \in Runs,
         NEW n \in 1..Len(log[r]), turns' = Append(turns, <<r, n>>),
         NEW K \in {"token", "calls"}
  PROVE  Since(K)' <=> log[r][n] \notin {"start", "quiet"} /\ (Since(K) \/ log[r][n] = K)
<1>0. turns \in Seq(Runs \X Nat) /\ Len(turns) \in Nat
  BY LenProperties DEF Shape, TypeOK
<1>1. PICK L \in Nat, top \in Nat : L = Len(turns) /\ top = L + 1
  BY <1>0
<1>2. /\ Len(turns') = top /\ turns'[top] = <<r, n>>
      /\ \A i \in 1..L : turns'[i] = turns[i]
  BY <1>0, <1>1
<1>3. (\A i \in 1..L : TurnKind(i)' = TurnKind(i)) /\ TurnKind(top)' = log[r][n]
  <2>1. \A i \in 1..L : TurnKind(i)' = TurnKind(i)
    BY <1>1, <1>2, TurnKindKept
  <2>2. log'[r][n] = log[r][n]
    BY DEF LogKept
  <2>3. turns'[top][1] = r /\ turns'[top][2] = n
    BY <1>2
  <2>4. TurnKind(top)' = log'[turns'[top][1]][turns'[top][2]]
    BY DEF TurnKind
  <2> QED
    BY <2>1, <2>2, <2>3, <2>4
<1>4. /\ \A i \in 1..Len(turns') : i \in 1..L \/ i = top
      /\ top \in 1..Len(turns') /\ \A i \in 1..L : i \in 1..Len(turns') /\ i < top
      /\ \A i \in 1..Len(turns') : ~(i > top)
  BY <1>1, <1>2
<1> DEFINE Kd(i) == TurnKind(i)
           Kn(i) == TurnKind(i)'
<1>5. Since(K) <=> \E i \in 1..L :
                     Kd(i) = K /\ \A j \in 1..L : j > i => Kd(j) \notin {"start", "quiet"}
  BY <1>1 DEF Since
<1>6. Since(K)' <=> \E i \in 1..Len(turns') :
                      /\ Kn(i) = K
                      /\ \A j \in 1..Len(turns') : j > i => Kn(j) \notin {"start", "quiet"}
  BY DEF Since
<1>7. (\A i \in 1..L : Kn(i) = Kd(i)) /\ Kn(top) = log[r][n]
  BY <1>3
<1> HIDE DEF Kd, Kn
<1>8. CASE log[r][n] = K
  BY <1>4, <1>6, <1>7, <1>8
<1>9. CASE log[r][n] \in {"start", "quiet"}
  BY <1>1, <1>4, <1>6, <1>7, <1>9
<1>10. CASE log[r][n] \notin {K, "start", "quiet"}
  <2>1. Since(K)' => Since(K)
    BY <1>4, <1>5, <1>6, <1>7, <1>10
  <2>2. Since(K) => Since(K)'
    BY <1>4, <1>5, <1>6, <1>7, <1>10
  <2> QED
    BY <1>10, <2>1, <2>2
<1> QED
  BY <1>8, <1>9, <1>10

LEMMA TurnedInit == Init => Turned
<1>1. Len(<<>>) = 0
  BY EmptySeq
<1> QED
  BY <1>1 DEF Init, Turned, Since

LEMMA TurnedStep ==
  ASSUME Shape, Kept, Ordered, Turned, [Next]_vars
  PROVE  Turned'
<1>0. /\ turns \in Seq(Runs \X Nat) /\ Len(turns) \in Nat /\ seen \in [Runs -> SUBSET Nat]
      /\ streamed \in BOOLEAN /\ tools \in BOOLEAN
  BY LenProperties DEF Shape, TypeOK
<1>1. \A q \in Runs : LogKept(q)
  BY TurnsStep
<1>2. CASE UNCHANGED <<seen, streamed, tools, turns>>
  <2>1. \A i \in 1..Len(turns) : TurnKind(i)' = TurnKind(i)
    BY <1>1, <1>2, TurnKindKept
  <2>2. \A k : Since(k)' <=> Since(k)
    BY <1>2, <2>1 DEF Since
  <2> QED
    BY <1>2, <2>2 DEF Turned
<1>3. ASSUME NEW r \in Runs, NEW n \in 1..Len(log[r]), seen' = [seen EXCEPT ![r] = @ \cup {n}],
             turns' = Append(turns, <<r, n>>), Fold(log[r][n])
      PROVE  Turned'
  <2>1. /\ Len(turns') = Len(turns) + 1 /\ turns'[Len(turns) + 1] = <<r, n>>
        /\ \A i \in 1..Len(turns) : turns'[i] = turns[i]
    BY <1>0, <1>3
  <2>2. \A q \in Runs : seen'[q] = IF q = r THEN seen[q] \cup {n} ELSE seen[q]
    BY <1>0, <1>3
  <2>3. ASSUME NEW i \in 1..Len(turns') PROVE turns'[i][2] \in seen'[turns'[i][1]]
    <3>1. CASE i = Len(turns) + 1
      <4>1. turns'[i] = <<r, n>>
        BY <2>1, <3>1
      <4>2. turns'[i][1] = r /\ turns'[i][2] = n
        BY <4>1
      <4> QED
        BY <2>2, <4>2
    <3>2. CASE i \in 1..Len(turns)
      <4>1. turns[i] \in Runs \X Nat /\ turns[i][2] \in seen[turns[i][1]]
        BY <1>0, <3>2, ElementOfSeq DEF Turned
      <4> QED
        BY <2>1, <2>2, <3>2, <4>1
    <3> QED
      BY <1>0, <2>1, <3>1, <3>2
  <2>4. ASSUME NEW q \in Runs, NEW m \in seen'[q]
        PROVE  \E i \in 1..Len(turns') : turns'[i] = <<q, m>>
    <3>1. CASE m \in seen[q]
      <4>1. PICK i \in 1..Len(turns) : turns[i] = <<q, m>>
        BY <3>1 DEF Turned
      <4> QED
        BY <1>0, <2>1, <4>1
    <3>2. CASE m \notin seen[q]
      <4>1. q = r /\ m = n
        BY <2>2, <3>2
      <4>2. Len(turns) + 1 \in 1..Len(turns')
        BY <1>0, <2>1
      <4> QED
        BY <2>1, <4>1, <4>2
    <3> QED
      BY <3>1, <3>2
  <2>5. (streamed' <=> Since("token")') /\ (tools' <=> Since("calls")')
    <3>1. /\ Since("token")' <=> log[r][n] \notin {"start", "quiet"}
                                 /\ (Since("token") \/ log[r][n] = "token")
          /\ Since("calls")' <=> log[r][n] \notin {"start", "quiet"}
                                 /\ (Since("calls") \/ log[r][n] = "calls")
      BY <1>1, <1>3, SinceHandled
    <3> QED
      BY <1>0, <1>3, <3>1 DEF Turned, Fold
  <2>6. (\A i \in 1..Len(turns) : turns[i][2] \in seen[turns[i][1]])'
    BY <2>3
  <2>7. (\A q \in Runs : \A m \in seen[q] : \E i \in 1..Len(turns) : turns[i] = <<q, m>>)'
    BY <2>4
  <2> QED
    BY <2>5, <2>6, <2>7 DEF Turned
<1> QED
  BY <1>2, <1>3, TurnsStep

\* Before a handled event every event was handled or dropped.
Gapless == \A r \in Runs : \A m \in seen[r] : \A n \in 1..m : n \in seen[r] \/ n \in dropped[r]

LEMMA GaplessStep ==
  ASSUME Shape, Kept, Ordered, Gapless, [Next]_vars
  PROVE  Gapless'
<1> SUFFICES ASSUME NEW r \in Runs, NEW m \in seen'[r], NEW n \in 1..m
             PROVE  n \in seen'[r] \/ n \in dropped'[r]
  BY DEF Gapless
<1>0. seen \in [Runs -> SUBSET Nat] /\ Len(log[r]) \in Nat
  BY LenProperties DEF Shape, TypeOK
<1>1. CASE Untouched(r)
  <2>1. n \in seen[r] \/ n \in dropped[r]
    BY <1>1 DEF Untouched, Gapless
  <2>2. n \in 1..Len(log[r])
    BY <1>0, <1>1 DEF Untouched, Ordered, OrderAt
  <2> QED
    BY <1>1, <2>1, <2>2 DEF Untouched, LogKept
<1>2. ASSUME NEW k \in Nat, Handles(r, k) PROVE n \in seen'[r] \/ n \in dropped'[r]
  <2>1. /\ k \in 1..Len(log[r]) /\ Handle(r, k) /\ k \notin seen[r] /\ UNCHANGED dropped
        /\ \A x \in 1..Len(log[r]) : x \in seen[r] <=> x < k /\ x \notin dropped[r]
    BY <1>2, NextInOrder DEF Handles
  <2>2. seen'[r] = seen[r] \cup {k}
    BY <1>0, <2>1 DEF Handle
  <2>3. CASE m \in seen[r]
    BY <2>1, <2>2, <2>3 DEF Gapless
  <2>4. CASE m = k
    <3>1. n = k \/ (n \in 1..Len(log[r]) /\ n < k)
      BY <1>0, <2>1, <2>4
    <3> QED
      BY <2>1, <2>2, <3>1
  <2> QED
    BY <2>2, <2>3, <2>4
<1> QED
  BY <1>1, <1>2, Touches

-----------------------------------------------------------------------------
(* The stream says what the log says                                       *)

\* The entry is still to be published.
InHand(r, e) == \E k \in 1..Len(todo[r]) : todo[r][k] = e

\* What is on the stream or in hand is of the fold; nothing of a handled event is
\* missing; a pump that gave up does not wait again.
RendersAt(r) ==
  /\ \A j \in 1..Len(stream[r]) : stream[r][j].seq # 0 => SaysLog(r, stream[r][j])
  /\ \A k \in 1..Len(todo[r]) :
       todo[r][k].seq # 0 /\ todo[r][k].type # Persist => SaysLog(r, todo[r][k])
  /\ ~gaveUp[r] =>
       \A n \in seen[r] : \A i \in 1..Len(Folded(r, n)) :
         IsTold(r, Folded(r, n)[i]) \/ InHand(r, Folded(r, n)[i])

Abandoned(r) == gaveUp[r] => pc[r] \in {"final", "synth", "done", "dead"}

Renders == \A r \in Runs : RendersAt(r)
Abandons == \A r \in Runs : Abandoned(r)

LEMMA AbandonsStep ==
  ASSUME Shape, Abandons, [Next]_vars
  PROVE  Abandons'
<1>0. /\ pc \in [Runs -> {"off", "ready", "replay", "wait", "drain", "final", "synth",
                          "done", "dead"}]
      /\ gaveUp \in [Runs -> BOOLEAN]
  BY DEF Shape, TypeOK
<1>1. ASSUME NEW r \in Runs, Driver(r) \/ Client(r) PROVE Abandons'
  <2>1. UNCHANGED <<pc, gaveUp>>
    BY <1>1 DEF Driver, Talks, Returns, Raises, Settles, Unwinds, Client, Post, Cancels,
                Resumes, pump, handler
  <2> QED
    BY <2>1 DEF Abandons, Abandoned
<1>2. ASSUME NEW r \in Runs, Registration(r) PROVE Abandons'
  BY <1>0, <1>2 DEF Registration, Registers, RegisterFails, handler, Abandons, Abandoned
<1>3. ASSUME NEW r \in Runs, Begin(r) \/ ReplayEnds(r) \/ Timeout(r) \/ Drained(r)
                             \/ FinallyDrained(r) \/ Synthesize(r) \/ Publishes(r)
      PROVE  Abandons'
  BY <1>0, <1>3 DEF Begin, ReplayEnds, Timeout, Drained, FinallyDrained, Synthesize,
                    Publishes, handler, Abandons, Abandoned
<1>4. ASSUME NEW r \in Runs, ReplayNext(r) \/ Take(r) \/ Writes(r) PROVE Abandons'
  BY <1>4 DEF ReplayNext, Take, Writes, Abandons, Abandoned
<1>5. ASSUME NEW r \in Runs, WriteFails(r) \/ \E added \in BOOLEAN : PublishFails(r, added)
      PROVE  Abandons'
  <2>1. UNCHANGED <<pc, gaveUp>> \/ GiveUp(r)
    BY <1>5 DEF WriteFails, PublishFails
  <2>2. CASE GiveUp(r)
    <3>1. ~Idle(r)
      BY <1>5 DEF WriteFails, PublishFails
    <3>2. /\ pc'[r] \in {"final", "done", "dead"}
          /\ \A q \in Runs : q # r => pc'[q] = pc[q] /\ gaveUp'[q] = gaveUp[q]
      BY <1>0, <2>2 DEF GiveUp
    <3> QED
      BY <3>2 DEF Abandons, Abandoned
  <2> QED
    BY <2>1, <2>2 DEF Abandons, Abandoned
<1>6. CASE UNCHANGED vars
  BY <1>6 DEF vars, pump, handler, Abandons, Abandoned
<1> QED
  BY <1>1, <1>2, <1>3, <1>4, <1>5, <1>6 DEF Next, Pump

\* Every entry of a fold stands for its event, and is no write of a tool's state.
LEMMA FoldedEntries ==
  ASSUME Shape, NEW r \in Runs, NEW n \in 1..Len(log[r])
  PROVE  \A i \in 1..Len(Folded(r, n)) : /\ Folded(r, n)[i].seq = n
                                         /\ Folded(r, n)[i].type # Persist
<1> DEFINE types == Translation(log[r][n], SinceCall(r, n, "token"), SinceCall(r, n, "calls"))
<1>1. log[r] \in Seq(Kind) /\ log[r][n] \in Kind
  BY ElementOfSeq DEF Shape, TypeOK
<1>2. types \in Seq(EnvelopeType)
  <2>1. SinceCall(r, n, "token") \in BOOLEAN /\ SinceCall(r, n, "calls") \in BOOLEAN
    BY DEF SinceCall
  <2> QED
    BY <1>1, <2>1, TranslationTypes
<1>3. Folded(r, n) = [i \in 1..Len(types) |-> Entry(n, types[i])]
  BY DEF Folded
<1> HIDE DEF types
<1>4. Len(types) \in Nat /\ \A i \in 1..Len(types) : types[i] \in EnvelopeType
  BY <1>2, LenProperties, ElementOfSeq
<1>5. \A i \in 1..Len(Folded(r, n)) : i \in 1..Len(types) /\ Folded(r, n)[i] = Entry(n, types[i])
  BY <1>3, <1>4
<1>6. Persist \notin EnvelopeType
  BY DEF Persist, EnvelopeType
<1>7. ASSUME NEW i \in 1..Len(Folded(r, n))
      PROVE  Folded(r, n)[i].seq = n /\ Folded(r, n)[i].type # Persist
  <2>1. i \in 1..Len(types) /\ Folded(r, n)[i] = [seq |-> n, type |-> types[i]]
    BY <1>5 DEF Entry
  <2> QED
    BY <1>4, <1>6, <2>1
<1> QED
  BY <1>7

\* With the flags the events before it leave, the work of an event is its fold, and
\* the write of a tool's state.
LEMMA WorkIsFold ==
  ASSUME Shape, NEW r \in Runs, NEW n \in 1..Len(log[r]),
         streamed <=> SinceCall(r, n, "token"), tools <=> SinceCall(r, n, "calls"),
         NEW w, w = HandlerWork(n, log[r][n])
  PROVE  /\ \A i \in 1..Len(Folded(r, n)) : \E k \in 1..Len(w) : w[k] = Folded(r, n)[i]
         /\ \A k \in 1..Len(w) :
              w[k].type = Persist \/ \E i \in 1..Len(Folded(r, n)) : w[k] = Folded(r, n)[i]
<1> DEFINE types == Translation(log[r][n], streamed, tools)
           work == IF log[r][n] \in Stateful THEN <<Persist>> \o types ELSE types
<1>1. log[r] \in Seq(Kind) /\ log[r][n] \in Kind /\ streamed \in BOOLEAN /\ tools \in BOOLEAN
  BY ElementOfSeq DEF Shape, TypeOK
<1>2. /\ types \in Seq(EnvelopeType)
      /\ log[r][n] \in Stateful => \E t \in EnvelopeType : types = <<t>>
  BY <1>1, TranslationTypes
<1>3. types = Translation(log[r][n], SinceCall(r, n, "token"), SinceCall(r, n, "calls"))
  <2>1. SinceCall(r, n, "token") \in BOOLEAN /\ SinceCall(r, n, "calls") \in BOOLEAN
    BY DEF SinceCall
  <2>2. streamed = SinceCall(r, n, "token") /\ tools = SinceCall(r, n, "calls")
    BY <1>1, <2>1
  <2> QED
    BY <2>2
<1>4. w = [k \in 1..Len(work) |-> Entry(n, work[k])]
  BY DEF HandlerWork
<1>5. Folded(r, n) = [i \in 1..Len(types) |-> Entry(n, types[i])]
  BY <1>3 DEF Folded
<1> HIDE DEF types, work
<1>6. CASE log[r][n] \in Stateful
  <2>1. PICK t \in EnvelopeType : types = <<t>>
    BY <1>2, <1>6
  <2>2. work = <<Persist>> \o <<t>>
    BY <1>6, <2>1 DEF work
  <2>3. Len(work) = 2 /\ work[1] = Persist /\ work[2] = t
    BY <2>2
  <2>4. Folded(r, n) = <<Entry(n, t)>>
    BY <1>5, <2>1
  <2>5. Len(w) = 2 /\ w[1] = Entry(n, Persist) /\ w[2] = Entry(n, t)
    BY <1>4, <2>3
  <2>6. Entry(n, Persist).type = Persist
    BY DEF Entry
  <2>7. /\ \A k \in 1..Len(w) : k = 1 \/ k = 2
        /\ \A i \in 1..Len(Folded(r, n)) : i = 1 /\ Folded(r, n)[i] = w[2]
        /\ 2 \in 1..Len(w) /\ 1 \in 1..Len(Folded(r, n)) /\ Folded(r, n)[1] = w[2]
    BY <2>4, <2>5
  <2> QED
    BY <2>5, <2>6, <2>7
<1>7. CASE log[r][n] \notin Stateful
  <2>1. w = Folded(r, n)
    BY <1>4, <1>5, <1>7 DEF work
  <2> QED
    BY <2>1
<1> QED
  BY <1>6, <1>7

\* A step that handles no event: nothing told is lost, nothing else is told.
LEMMA RendersWorkedOff ==
  ASSUME Shape, Shape', Kept, Ordered, Tells, Tells', Turned, Renders, [Next]_vars,
         NEW r \in Runs, Untouched(r)
  PROVE  RendersAt(r)'
<1>1. /\ seen'[r] = seen[r]
      /\ LogKept(r) /\ Published(r) /\ WorkedOff(r) /\ StreamKept(r) /\ Settled(r)
  BY DEF Untouched
<1>2. RendersAt(r)
  BY DEF Renders
<1>3. \A m \in seen[r] : /\ m \in 1..Len(log[r]) /\ Folded(r, m)' = Folded(r, m)
                         /\ m \in Handed(r)'
  BY <1>1, FoldedKept
<1>4. /\ \A j \in 1..Len(stream'[r]) : stream'[r][j].seq # 0 => stream'[r][j].seq \in seen[r]
      /\ \A k \in 1..Len(todo'[r]) : todo'[r][k].seq # 0 => todo'[r][k].seq \in seen[r]
  BY <1>1 DEF Tells, TellsAt
<1>5. ASSUME NEW e, SaysLog(r, e), e.seq \in seen[r] PROVE SaysLog(r, e)'
  BY <1>3, <1>5 DEF SaysLog
<1>6. ASSUME NEW j \in 1..Len(stream'[r]), stream'[r][j].seq # 0
      PROVE  SaysLog(r, stream'[r][j])
  <2>1. CASE j \in 1..Len(stream[r]) /\ stream'[r][j] = stream[r][j]
    BY <1>2, <1>6, <2>1 DEF RendersAt
  <2>2. CASE 1 \in 1..Len(todo[r]) /\ stream'[r][j] = todo[r][1]
    <3>1. stream'[r][j].type # Persist
      <4>1. stream'[r] \in Seq(Envelope) /\ Persist \notin EnvelopeType
        BY DEF Shape, TypeOK, Persist, EnvelopeType
      <4>2. stream'[r][j] \in Envelope
        BY <4>1, ElementOfSeq
      <4> QED
        BY <4>1, <4>2 DEF Envelope
    <3> QED
      BY <1>2, <1>6, <2>2, <3>1 DEF RendersAt
  <2> QED
    BY <1>1, <1>6, <2>1, <2>2 DEF Published
<1>7. ASSUME NEW k \in 1..Len(todo'[r]), todo'[r][k].seq # 0, todo'[r][k].type # Persist
      PROVE  SaysLog(r, todo'[r][k])
  BY <1>1, <1>2, <1>7 DEF RendersAt, WorkedOff
<1>8. ASSUME ~gaveUp'[r], NEW n \in seen[r], NEW i \in 1..Len(Folded(r, n)),
             NEW e, e = Folded(r, n)[i]
      PROVE  IsTold(r, e)' \/ InHand(r, e)'
  <2>1. IsTold(r, e) \/ InHand(r, e)
    BY <1>1, <1>2, <1>8 DEF RendersAt, Settled
  <2>2. e.type # Persist
    BY <1>3, <1>8, FoldedEntries
  <2>3. CASE IsTold(r, e)
    BY <1>1, <2>3 DEF IsTold, StreamKept
  <2>4. CASE InHand(r, e)
    BY <1>1, <1>8, <2>2, <2>4 DEF InHand, IsTold, Settled
  <2> QED
    BY <2>1, <2>3, <2>4
<1>9. ASSUME ~gaveUp'[r], NEW n \in seen'[r], NEW i \in 1..Len(Folded(r, n)')
      PROVE  IsTold(r, Folded(r, n)[i])' \/ InHand(r, Folded(r, n)[i])'
  <2>1. Folded(r, n)' = Folded(r, n) /\ n \in seen[r]
    BY <1>1, <1>3, <1>9
  <2> QED
    BY <1>8, <1>9, <2>1 DEF IsTold, InHand
<1>10. \A j \in 1..Len(stream'[r]) : stream'[r][j].seq # 0 => SaysLog(r, stream[r][j])'
  BY <1>4, <1>5, <1>6 DEF SaysLog
<1>11. \A k \in 1..Len(todo'[r]) :
         todo'[r][k].seq # 0 /\ todo'[r][k].type # Persist => SaysLog(r, todo[r][k])'
  BY <1>4, <1>5, <1>7 DEF SaysLog
<1> QED
  BY <1>9, <1>10, <1>11 DEF RendersAt

\* A step that handles an event: all of its fold is in hand, nothing else was.
LEMMA RendersHandled ==
  ASSUME Shape, Kept, Ordered, Tells, Turned, Renders, [Next]_vars,
         NEW r \in Runs, NEW n \in Nat, Handles(r, n)
  PROVE  RendersAt(r)'
<1> DEFINE w == HandlerWork(n, log[r][n])
<1>0. /\ todo \in [Runs -> Seq(Work)] /\ seen \in [Runs -> SUBSET Nat]
      /\ streamed \in BOOLEAN /\ tools \in BOOLEAN /\ Len(log[r]) \in Nat
      /\ Len(<<>>) = 0 /\ RendersAt(r)
  BY LenProperties, EmptySeq DEF Shape, TypeOK, Renders
<1>1. /\ n \in 1..Len(log[r]) /\ n \notin seen[r] /\ n \notin dropped[r] /\ Handle(r, n)
      /\ \A m \in 1..Len(log[r]) : m \in seen[r] <=> m < n /\ m \notin dropped[r]
      /\ todo[r] = <<>> /\ UNCHANGED <<log, dropped, stream, gaveUp>>
  BY NextInOrder DEF Handles, Idle
<1>2. \A m \in seen[r] : m \in 1..Len(log[r]) /\ m < n /\ m \in Nat
  BY <1>0, <1>1 DEF Ordered, OrderAt
<1>3. seen'[r] = seen[r] \cup {n} /\ todo'[r] = w
  BY <1>0, <1>1 DEF Handle
<1>6. /\ (streamed <=> SinceCall(r, n, "token")) /\ (tools <=> SinceCall(r, n, "calls"))
      /\ w = HandlerWork(n, log[r][n])
  BY <1>1, BeforeAll DEF Turned
<1> HIDE DEF w
<1>7. /\ \A i \in 1..Len(Folded(r, n)) : \E k \in 1..Len(w) : w[k] = Folded(r, n)[i]
      /\ \A k \in 1..Len(w) :
           w[k].type = Persist \/ \E i \in 1..Len(Folded(r, n)) : w[k] = Folded(r, n)[i]
  BY <1>1, <1>6, WorkIsFold
<1>9. \A m \in seen'[r] : Folded(r, m)' = Folded(r, m) /\ m \in Handed(r)'
  BY FoldedKept
<1>10. ASSUME NEW e, SaysLog(r, e), e.seq \in seen'[r] PROVE SaysLog(r, e)'
  BY <1>9, <1>10 DEF SaysLog
<1>11. ASSUME NEW i \in 1..Len(Folded(r, n)), NEW e, e = Folded(r, n)[i]
       PROVE  SaysLog(r, e) /\ e.seq = n
  <2>1. e.seq = n /\ n \in Handed(r)
    BY <1>1, <1>11, FoldedEntries DEF Handed
  <2> QED
    BY <1>11, <2>1 DEF SaysLog
<1>12. \A j \in 1..Len(stream'[r]) : stream'[r][j].seq # 0 => SaysLog(r, stream[r][j])'
  <2>1. \A j \in 1..Len(stream'[r]) : stream'[r][j].seq # 0 =>
          SaysLog(r, stream'[r][j]) /\ stream'[r][j].seq \in seen'[r]
    BY <1>0, <1>1, <1>3 DEF RendersAt, Tells, TellsAt
  <2> QED
    BY <1>10, <2>1 DEF SaysLog
<1>13. \A k \in 1..Len(todo'[r]) :
         todo'[r][k].seq # 0 /\ todo'[r][k].type # Persist => SaysLog(r, todo[r][k])'
  BY <1>3, <1>7, <1>10, <1>11 DEF SaysLog
<1>14. ASSUME ~gaveUp'[r], NEW m \in seen'[r], NEW i \in 1..Len(Folded(r, m)')
       PROVE  IsTold(r, Folded(r, m)[i])' \/ InHand(r, Folded(r, m)[i])'
  <2>1. Folded(r, m)' = Folded(r, m)
    BY <1>9
  <2>2. CASE m = n
    BY <1>3, <1>7, <1>14, <2>1, <2>2 DEF InHand
  <2>3. CASE m \in seen[r]
    <3>1. ~InHand(r, Folded(r, m)[i])
      BY <1>0, <1>1 DEF InHand
    <3>2. IsTold(r, Folded(r, m)[i])
      BY <1>0, <1>1, <1>14, <2>1, <2>3, <3>1 DEF RendersAt
    <3> QED
      BY <1>1, <2>1, <3>2 DEF IsTold
  <2> QED
    BY <1>3, <2>2, <2>3
<1> QED
  BY <1>12, <1>13, <1>14 DEF RendersAt

LEMMA RendersStep ==
  ASSUME Shape, Shape', Kept, Ordered, Tells, Tells', Turned, Renders, [Next]_vars
  PROVE  Renders'
BY RendersHandled, RendersWorkedOff, Touches DEF Renders

\* A pump that waits with an empty queue handled all that was not dropped.
LEMMA RendersIsTellsTheLog ==
  ASSUME Shape, Kept, Ordered, Renders, Abandons
  PROVE  TellsTheLog
<1>1. ASSUME NEW r \in Runs, pc[r] = "wait", todo[r] = <<>>, queue[r] = <<>>, NEW n \in Handed(r),
             NEW i \in 1..Len(Folded(r, n))
      PROVE  IsTold(r, Folded(r, n)[i])
  <2>1. /\ n \in 1..Len(log[r]) /\ n \notin dropped[r] /\ pos[r] \in Nat /\ pos[r] = end[r]
        /\ Len(queue[r]) = 0 /\ Len(todo[r]) = 0
    BY <1>1, EmptySeq DEF Handed, Ordered, OrderAt, Handling, Shape, TypeOK
  <2>2. n \in seen[r] \cup Queued(r) \cup ((pos[r] + 1)..end[r]) \cup dropped[r]
    BY <1>1, <2>1 DEF Kept, KeptAt, Running
  <2>3. n \in seen[r]
    BY <2>1, <2>2 DEF Queued
  <2>4. ~gaveUp[r]
    BY <1>1 DEF Abandons, Abandoned
  <2>5. ~InHand(r, Folded(r, n)[i])
    BY <2>1 DEF InHand
  <2> QED
    BY <2>3, <2>4, <2>5 DEF Renders, RendersAt
<1> QED
  BY <1>1 DEF TellsTheLog, Renders, RendersAt

\* However many runs share the translator, the stream of a run says nothing but its
\* part of the fold of all turns, and all of it when its pump waits with nothing in
\* hand, whatever was retried (runtime_coordinator.py: handle_stamped, publish).
THEOREM StreamTellsTheLog == Spec => []TellsTheLog
<1>1. Init => Tells /\ Renders /\ Abandons
  <2>1. Len(<<>>) = 0
    BY EmptySeq
  <2> QED
    BY <2>1 DEF Init, Tells, TellsAt, Renders, RendersAt, Abandons, Abandoned
<1>2. ASSUME Shape, Kept, Ordered, Tells, Turned, Renders, Abandons, [Next]_vars
      PROVE  Shape' /\ Kept' /\ Ordered' /\ Tells' /\ Turned' /\ Renders' /\ Abandons'
  <2>1. Shape' /\ Kept' /\ Ordered' /\ Tells' /\ Turned' /\ Abandons'
    BY <1>2, ShapeStep, KeptStep, OrderedStep, TellsStep, TurnedStep, AbandonsStep
  <2> QED
    BY <1>2, <2>1, RendersStep
<1>3. Shape /\ Kept /\ Ordered /\ Renders /\ Abandons => TellsTheLog
  BY RendersIsTellsTheLog
<1> QED
  BY <1>1, <1>2, <1>3, ShapeInit, KeptInit, OrderedInit, TurnedInit, PTL DEF Spec

-----------------------------------------------------------------------------
(* The stream is the fold, in its order and without a gap                  *)

\* No entry of a fold occurs in it twice.
LEMMA FoldedOnce ==
  ASSUME Shape, NEW r \in Runs, NEW n \in 1..Len(log[r]),
         NEW i \in 1..Len(Folded(r, n)), NEW k \in 1..Len(Folded(r, n)),
         Folded(r, n)[i] = Folded(r, n)[k]
  PROVE  i = k
<1> DEFINE types == Translation(log[r][n], SinceCall(r, n, "token"), SinceCall(r, n, "calls"))
<1>1. log[r][n] \in Kind /\ SinceCall(r, n, "token") \in BOOLEAN /\ SinceCall(r, n, "calls") \in BOOLEAN
  BY ElementOfSeq DEF Shape, TypeOK, SinceCall
<1>2. /\ Len(types) \in Nat
      /\ \A a, b \in 1..Len(types) : types[a] = types[b] => a = b
  BY <1>1 DEF Translation, RepeatsText, Kind, Talk
<1>3. Folded(r, n) = [a \in 1..Len(types) |-> Entry(n, types[a])]
  BY DEF Folded
<1> HIDE DEF types
<1>4. Len(Folded(r, n)) = Len(types)
  BY <1>2, <1>3
<1>5. Folded(r, n)[i].type = types[i] /\ Folded(r, n)[k].type = types[k]
  BY <1>3, <1>4 DEF Entry
<1> QED
  BY <1>2, <1>4, <1>5

\* An entry of a fold of two stands at its own place in the work of the event.
LEMMA WorkInOrder ==
  ASSUME Shape, NEW r \in Runs, NEW n \in 1..Len(log[r]),
         streamed <=> SinceCall(r, n, "token"), tools <=> SinceCall(r, n, "calls"),
         NEW w, w = HandlerWork(n, log[r][n])
  PROVE  w = Folded(r, n) \/ Len(Folded(r, n)) = 1
<1> DEFINE types == Translation(log[r][n], streamed, tools)
<1>1. log[r][n] \in Kind /\ streamed \in BOOLEAN /\ tools \in BOOLEAN
  BY ElementOfSeq DEF Shape, TypeOK
<1>2. types = Translation(log[r][n], SinceCall(r, n, "token"), SinceCall(r, n, "calls"))
  <2>1. SinceCall(r, n, "token") \in BOOLEAN /\ SinceCall(r, n, "calls") \in BOOLEAN
    BY DEF SinceCall
  <2>2. streamed = SinceCall(r, n, "token") /\ tools = SinceCall(r, n, "calls")
    BY <1>1, <2>1
  <2> QED
    BY <2>2
<1>3. log[r][n] \in Stateful => \E t \in EnvelopeType : types = <<t>>
  BY <1>1, TranslationTypes
<1>4. Folded(r, n) = [i \in 1..Len(types) |-> Entry(n, types[i])]
  BY <1>2 DEF Folded
<1> HIDE DEF types
<1>5. CASE log[r][n] \in Stateful
  <2>1. PICK t \in EnvelopeType : types = <<t>>
    BY <1>3, <1>5
  <2>2. Len(types) = 1
    BY <2>1
  <2> QED
    BY <1>4, <2>2
<1>6. CASE log[r][n] \notin Stateful
  BY <1>4, <1>6 DEF HandlerWork, types
<1> QED
  BY <1>5, <1>6

\* Which of two entries comes first is settled with the fold of the later one's event.
LEMMA PrecedesKept ==
  ASSUME NEW r \in Runs, NEW e, NEW f, Folded(r, f.seq)' = Folded(r, f.seq)
  PROVE  Precedes(r, e, f)' <=> Precedes(r, e, f)
BY DEF Precedes

\* Nothing that the fold puts behind an entry came before it, on the stream or in
\* the work.
Follows(r, e, f) == e.seq # 0 /\ f.seq # 0 => ~Precedes(r, f, e)
InOrderAt(r) ==
  /\ \A j \in 1..Len(stream[r]) : \A i \in 1..(j - 1) : Follows(r, stream[r][i], stream[r][j])
  /\ \A j \in 1..Len(stream[r]) : \A k \in 1..Len(todo[r]) :
       todo[r][k].type # Persist => Follows(r, stream[r][j], todo[r][k])
  /\ \A k \in 1..Len(todo[r]) : \A i \in 1..(k - 1) :
       todo[r][i].type # Persist /\ todo[r][k].type # Persist
         => Follows(r, todo[r][i], todo[r][k])

\* Until a publish is given up, all that the fold puts before an entry came first.
NoGapAt(r) ==
  ~gaveUp[r] =>
    /\ \A j \in 1..Len(stream[r]) : stream[r][j].seq # 0 =>
         \A n \in Handed(r) : \A i \in 1..Len(Folded(r, n)) :
           Precedes(r, Folded(r, n)[i], stream[r][j])
             => \E l \in 1..(j - 1) : stream[r][l] = Folded(r, n)[i]
    /\ \A k \in 1..Len(todo[r]) : todo[r][k].seq # 0 /\ todo[r][k].type # Persist =>
         \A n \in Handed(r) : \A i \in 1..Len(Folded(r, n)) :
           Precedes(r, Folded(r, n)[i], todo[r][k])
             => IsTold(r, Folded(r, n)[i]) \/ \E l \in 1..(k - 1) : todo[r][l] = Folded(r, n)[i]

InOrder == \A r \in Runs : InOrderAt(r)
NoGap == \A r \in Runs : NoGapAt(r)

\* An entry on the stream was there or was first in the work.
LEMMA CameFrom ==
  ASSUME Shape, Shape', Renders, NEW r \in Runs, Published(r),
         NEW j \in 1..Len(stream'[r]), stream'[r][j].seq # 0
  PROVE  \/ j \in 1..Len(stream[r]) /\ stream'[r][j] = stream[r][j]
         \/ /\ j = Len(stream[r]) + 1 /\ 1 \in 1..Len(todo[r]) /\ stream'[r][j] = todo[r][1]
            /\ todo[r][1].type # Persist
<1>1. stream'[r] \in Seq(Envelope) /\ Persist \notin EnvelopeType
  BY DEF Shape, TypeOK, Persist, EnvelopeType
<1>2. stream'[r][j] \in Envelope
  BY <1>1, ElementOfSeq
<1> QED
  BY <1>1, <1>2 DEF Published, Envelope

\* No entry comes before itself.
LEMMA NotBeforeItself ==
  ASSUME Shape, NEW r \in Runs, NEW e, e.seq \in 1..Len(log[r])
  PROVE  ~Precedes(r, e, e)
<1>1. Len(log[r]) \in Nat
  BY LenProperties DEF Shape, TypeOK
<1>2. ~(e.seq < e.seq)
  BY <1>1
<1>3. ASSUME NEW k \in 1..Len(Folded(r, e.seq)), NEW i \in 1..(k - 1),
             e = Folded(r, e.seq)[i], e = Folded(r, e.seq)[k]
      PROVE  FALSE
  <2>1. i \in 1..Len(Folded(r, e.seq)) /\ i # k
    OBVIOUS
  <2> QED
    BY <1>3, <2>1, FoldedOnce
<1> QED
  BY <1>2, <1>3 DEF Precedes

\* A step that handles no event leaves the order of stream and work.
LEMMA InOrderWorkedOff ==
  ASSUME Shape, Shape', Kept, Ordered, Tells, Turned, Renders, InOrder, [Next]_vars,
         NEW r \in Runs, Untouched(r)
  PROVE  InOrderAt(r)'
<1>1. /\ seen'[r] = seen[r] /\ Published(r) /\ Shrinks(r) /\ InOrderAt(r)
      /\ Len(stream[r]) \in Nat
  BY LenProperties DEF Untouched, InOrder, Shape, TypeOK
<1>2. /\ \A j \in 1..Len(stream[r]) : stream[r][j].seq # 0 => stream[r][j].seq \in seen[r]
      /\ \A k \in 1..Len(todo[r]) : todo[r][k].seq # 0 /\ todo[r][k].type # Persist
           => todo[r][k].seq \in seen[r]
  BY DEF Tells, TellsAt
<1>3. ASSUME NEW e, NEW f, Follows(r, e, f), e.seq # 0 => e.seq \in seen[r]
      PROVE  Follows(r, e, f)'
  <2>1. e.seq # 0 => Folded(r, e.seq)' = Folded(r, e.seq)
    BY <1>1, <1>3, FoldedKept
  <2> QED
    BY <1>3, <2>1, PrecedesKept DEF Follows
<1>4. ASSUME NEW e, e.seq # 0 => e.seq \in seen[r]
      PROVE  Follows(r, e, e)
  <2>1. e.seq # 0 => e.seq \in 1..Len(log[r])
    BY <1>4 DEF Ordered, OrderAt
  <2> QED
    BY <2>1, NotBeforeItself DEF Follows
<1>5. ASSUME NEW j \in 1..Len(stream'[r]), NEW i \in 1..(j - 1), NEW e, NEW f,
             e = stream'[r][i], f = stream'[r][j]
      PROVE  Follows(r, e, f)'
  <2> SUFFICES ASSUME e.seq # 0, f.seq # 0 PROVE Follows(r, e, f)'
    BY DEF Follows
  <2>1. i \in 1..Len(stream'[r]) /\ i < j
    OBVIOUS
  <2>2. /\ i \in 1..Len(stream[r]) /\ e = stream[r][i]
        /\ \/ j \in 1..Len(stream[r]) /\ f = stream[r][j]
           \/ 1 \in 1..Len(todo[r]) /\ f = todo[r][1] /\ todo[r][1].type # Persist
    BY <1>1, <1>5, <2>1, CameFrom
  <2>3. Follows(r, e, f)
    BY <1>1, <2>2 DEF InOrderAt
  <2> QED
    BY <1>2, <1>3, <2>2, <2>3
<1>6. ASSUME NEW j \in 1..Len(stream'[r]), NEW k \in 1..Len(todo[r]), NEW e, NEW f,
             e = stream'[r][j], f = todo[r][k], f.type # Persist
      PROVE  Follows(r, e, f)'
  <2> SUFFICES ASSUME e.seq # 0, f.seq # 0 PROVE Follows(r, e, f)'
    BY DEF Follows
  <2>1. CASE j \in 1..Len(stream[r]) /\ e = stream[r][j]
    BY <1>1, <1>2, <1>3, <1>6, <2>1 DEF InOrderAt
  <2>2. CASE 1 \in 1..Len(todo[r]) /\ e = todo[r][1] /\ e.type # Persist
    <3>1. k = 1 \/ 1 \in 1..(k - 1)
      OBVIOUS
    <3>2. e.seq \in seen[r]
      BY <1>2, <2>2
    <3>3. Follows(r, e, f)
      BY <1>1, <1>4, <1>6, <2>2, <3>1, <3>2 DEF InOrderAt
    <3> QED
      BY <1>3, <3>2, <3>3
  <2> QED
    BY <1>1, <1>6, <2>1, <2>2, CameFrom
<1>7. ASSUME NEW k \in 1..Len(todo[r]), NEW i \in 1..(k - 1), NEW e, NEW f,
             e = todo[r][i], f = todo[r][k], e.type # Persist, f.type # Persist
      PROVE  Follows(r, e, f)'
  <2>1. i \in 1..Len(todo[r])
    OBVIOUS
  <2>2. Follows(r, e, f) /\ (e.seq # 0 => e.seq \in seen[r])
    BY <1>1, <1>2, <1>7, <2>1 DEF InOrderAt
  <2> QED
    BY <1>3, <2>2
\* Every item left of the work was there, at a place that keeps the order.
<1>8. ASSUME NEW k \in 1..Len(todo'[r]), todo'[r][k].seq # 0
      PROVE  \/ k \in 1..Len(todo[r]) /\ todo'[r] = todo[r]
             \/ /\ k + 1 \in 1..Len(todo[r])
                /\ \A i \in 1..k : i + 1 \in 1..(k + 1) /\ todo'[r][i] = todo[r][i + 1]
  <2>1. \A i \in 1..k : i \in 1..Len(todo'[r]) /\ i + 1 \in 1..(k + 1)
    OBVIOUS
  <2> QED
    BY <1>1, <1>8, <2>1, ShrinksBy
<1>9. ASSUME NEW j \in 1..Len(stream'[r]), NEW k \in 1..Len(todo'[r]), NEW e, NEW f,
              e = stream'[r][j], f = todo'[r][k], f.type # Persist
       PROVE  Follows(r, e, f)'
  <2> SUFFICES ASSUME f.seq # 0 PROVE Follows(r, e, f)'
    BY DEF Follows
  <2>1. \E m \in 1..Len(todo[r]) : f = todo[r][m]
    BY <1>8, <1>9
  <2> QED
    BY <1>6, <1>9, <2>1
<1>10. ASSUME NEW k \in 1..Len(todo'[r]), NEW i \in 1..(k - 1), NEW e, NEW f,
              e = todo'[r][i], f = todo'[r][k], e.type # Persist, f.type # Persist
       PROVE  Follows(r, e, f)'
  <2> SUFFICES ASSUME f.seq # 0 PROVE Follows(r, e, f)'
    BY DEF Follows
  <2>1. CASE todo'[r] = todo[r]
    BY <1>7, <1>10, <2>1
  <2>2. CASE /\ k + 1 \in 1..Len(todo[r])
             /\ \A m \in 1..k : m + 1 \in 1..(k + 1) /\ todo'[r][m] = todo[r][m + 1]
    <3>1. i \in 1..k /\ k \in 1..k /\ i + 1 \in 1..((k + 1) - 1)
      OBVIOUS
    <3>2. e = todo[r][i + 1] /\ f = todo[r][k + 1]
      BY <1>10, <2>2, <3>1
    <3> QED
      BY <1>7, <1>10, <2>2, <3>1, <3>2
  <2> QED
    BY <1>8, <1>10, <2>1, <2>2
<1>11. (\A j \in 1..Len(stream[r]) : \A i \in 1..(j - 1) :
         Follows(r, stream[r][i], stream[r][j]))'
  BY <1>5
<1>12. (\A j \in 1..Len(stream[r]) : \A k \in 1..Len(todo[r]) :
         todo[r][k].type # Persist => Follows(r, stream[r][j], todo[r][k]))'
  BY <1>9
<1>13. (\A k \in 1..Len(todo[r]) : \A i \in 1..(k - 1) :
         todo[r][i].type # Persist /\ todo[r][k].type # Persist
           => Follows(r, todo[r][i], todo[r][k]))'
  BY <1>10
<1> QED
  BY <1>11, <1>12, <1>13 DEF InOrderAt

\* The entries of a fold stand for their event, in the next state too.
LEMMA FoldedEntriesNext ==
  ASSUME Shape', NEW r \in Runs, NEW n \in 1..Len(log'[r]), NEW i \in 1..Len(Folded(r, n)'),
         NEW e, e = Folded(r, n)'[i]
  PROVE  e.seq = n
<1> DEFINE types == Translation(log[r][n], SinceCall(r, n, "token"), SinceCall(r, n, "calls"))
<1>1. log'[r] \in Seq(Kind) /\ log'[r][n] \in Kind
  BY ElementOfSeq DEF Shape, TypeOK
<1>2. SinceCall(r, n, "token")' \in BOOLEAN /\ SinceCall(r, n, "calls")' \in BOOLEAN
  BY DEF SinceCall
<1>3. types' \in Seq(EnvelopeType)
  BY <1>1, <1>2, TranslationTypes
<1>4. Folded(r, n)' = [a \in 1..Len(types') |-> Entry(n, types'[a])]
  BY DEF Folded
<1> HIDE DEF types
<1>5. Len(types') \in Nat
  BY <1>3, LenProperties
<1>6. e = Entry(n, types'[i])
  BY <1>4, <1>5
<1> QED
  BY <1>6 DEF Entry

\* A step that handles no event skips nothing, unless it gives up.
LEMMA NoGapWorkedOff ==
  ASSUME Shape, Shape', Kept, Ordered, Tells, Turned, Gapless, Renders, NoGap, [Next]_vars,
         NEW r \in Runs, Untouched(r)
  PROVE  NoGapAt(r)'
<1> SUFFICES ASSUME ~gaveUp'[r] PROVE NoGapAt(r)'
  BY DEF NoGapAt
<1>1. /\ LogKept(r) /\ Published(r) /\ StreamKept(r) /\ Shrinks(r) /\ NoGapAt(r) /\ ~gaveUp[r]
      /\ seen'[r] = seen[r]
      /\ Len(stream[r]) \in Nat /\ Len(log[r]) \in Nat /\ Len(log'[r]) \in Nat
  BY LenProperties DEF Untouched, Settled, NoGap, Shape, TypeOK
<1>2. /\ \A j \in 1..Len(stream[r]) : stream[r][j].seq # 0 => stream[r][j].seq \in seen[r]
      /\ \A k \in 1..Len(todo[r]) : todo[r][k].seq # 0 /\ todo[r][k].type # Persist
           => todo[r][k].seq \in seen[r]
  BY DEF Tells, TellsAt
\* What the fold puts before an entry of a handled event, it did already.
<1>3. ASSUME NEW f, f.seq \in seen[r], NEW n \in Handed(r)', NEW i \in 1..Len(Folded(r, n)'),
             NEW e, e = Folded(r, n)'[i], Precedes(r, e, f)'
      PROVE  /\ n \in Handed(r) /\ i \in 1..Len(Folded(r, n)) /\ e = Folded(r, n)[i]
             /\ Precedes(r, e, f) /\ e.type # Persist
  <2>1. n \in 1..Len(log'[r]) /\ e.seq = n /\ n \notin dropped'[r]
    <3>1. n \in 1..Len(log'[r]) /\ n \notin dropped'[r]
      BY DEF Handed
    <3>2. e.seq = n
      BY <1>3, <3>1, FoldedEntriesNext
    <3> QED
      BY <3>1, <3>2
  <2>2. Folded(r, f.seq)' = Folded(r, f.seq) /\ f.seq \in 1..Len(log[r])
    BY <1>1, <1>3, FoldedKept
  <2>3. Precedes(r, e, f)
    BY <1>3, <2>2, PrecedesKept
  <2>4. n \in 1..f.seq /\ n \in 1..Len(log[r])
    BY <1>1, <1>3, <2>1, <2>2, <2>3 DEF Precedes
  <2>5. n \in seen[r]
    BY <1>1, <1>3, <2>1, <2>4 DEF Gapless, LogKept
  <2>6. Folded(r, n)' = Folded(r, n) /\ n \in Handed(r)
    BY <1>1, <2>5, FoldedKept
  <2>7. e.type # Persist
    BY <1>3, <2>4, <2>6, FoldedEntries
  <2> QED
    BY <1>3, <2>3, <2>6, <2>7
<1>4. ASSUME NEW j \in 1..Len(stream'[r]), stream'[r][j].seq # 0,
             NEW n \in Handed(r)', NEW i \in 1..Len(Folded(r, n)'),
             NEW e, e = Folded(r, n)'[i], NEW f, f = stream'[r][j], Precedes(r, e, f)'
      PROVE  \E l \in 1..(j - 1) : stream'[r][l] = e
  <2>1. CASE j \in 1..Len(stream[r]) /\ f = stream[r][j]
    <3>0. f.seq \in seen[r]
      BY <1>2, <1>4, <2>1
    <3>1. /\ n \in Handed(r) /\ i \in 1..Len(Folded(r, n)) /\ e = Folded(r, n)[i]
          /\ Precedes(r, e, f)
      BY <1>3, <1>4, <3>0
    <3>3. \E l \in 1..(j - 1) : stream[r][l] = e
      BY <1>1, <1>4, <2>1, <3>1 DEF NoGapAt
    <3>2. \A l \in 1..(j - 1) : l \in 1..Len(stream[r])
      BY <2>1
    <3> QED
      BY <1>1, <3>2, <3>3 DEF StreamKept
  <2>2. CASE /\ j = Len(stream[r]) + 1 /\ 1 \in 1..Len(todo[r]) /\ f = todo[r][1]
             /\ todo[r][1].type # Persist
    <3>0. f.seq \in seen[r]
      BY <1>2, <1>4, <2>2
    <3>1. /\ n \in Handed(r) /\ i \in 1..Len(Folded(r, n)) /\ e = Folded(r, n)[i]
          /\ Precedes(r, e, f)
      BY <1>3, <1>4, <3>0
    <3>2. IsTold(r, e) \/ \E l \in 1..(1 - 1) : todo[r][l] = e
      <4>1. 1 \in 1..Len(todo[r]) /\ todo[r][1].seq # 0 /\ todo[r][1].type # Persist
        BY <1>4, <2>2
      <4>2. \A m \in Handed(r) : \A h \in 1..Len(Folded(r, m)) :
              Precedes(r, Folded(r, m)[h], todo[r][1])
                => \/ IsTold(r, Folded(r, m)[h])
                   \/ \E l \in 1..(1 - 1) : todo[r][l] = Folded(r, m)[h]
        BY <1>1, <4>1 DEF NoGapAt
      <4>3. Precedes(r, Folded(r, n)[i], todo[r][1])
        BY <2>2, <3>1
      <4> QED
        BY <3>1, <4>2, <4>3
    <3>3. PICK l \in 1..Len(stream[r]) : stream[r][l] = e
      BY <3>2 DEF IsTold
    <3>4. l \in 1..(j - 1) /\ stream'[r][l] = e
      BY <1>1, <2>2, <3>3 DEF StreamKept
    <3> QED
      BY <3>4
  <2> QED
    BY <1>1, <1>4, <2>1, <2>2, CameFrom
<1>5. ASSUME NEW k \in 1..Len(todo'[r]), todo'[r][k].seq # 0, todo'[r][k].type # Persist,
             NEW n \in Handed(r)', NEW i \in 1..Len(Folded(r, n)'),
             NEW e, e = Folded(r, n)'[i], NEW f, f = todo'[r][k], Precedes(r, e, f)'
      PROVE  (\E l \in 1..Len(stream'[r]) : stream'[r][l] = e) \/ \E l \in 1..(k - 1) : todo'[r][l] = e
  <2>0. IsTold(r, e) => \E l \in 1..Len(stream'[r]) : stream'[r][l] = e
    BY <1>1 DEF IsTold, StreamKept
  <2>1. CASE todo'[r] = todo[r]
    <3>0. f = todo[r][k] /\ k \in 1..Len(todo[r]) /\ f.seq \in seen[r]
      BY <1>2, <1>5, <2>1
    <3>1. /\ n \in Handed(r) /\ i \in 1..Len(Folded(r, n)) /\ e = Folded(r, n)[i]
          /\ Precedes(r, e, f)
      BY <1>3, <1>5, <3>0
    <3>2. IsTold(r, e) \/ \E l \in 1..(k - 1) : todo[r][l] = e
      BY <1>1, <1>5, <3>0, <3>1 DEF NoGapAt
    <3> QED
      BY <2>0, <2>1, <3>2
  <2>2. CASE /\ 1 \in 1..Len(todo[r])
             /\ todo[r][1].type # Persist
                  => \E j \in 1..Len(stream'[r]) : stream'[r][j] = todo[r][1]
             /\ \A m \in 1..Len(todo'[r]) :
                  m + 1 \in 1..Len(todo[r]) /\ todo'[r][m] = todo[r][m + 1]
    <3>1. k + 1 \in 1..Len(todo[r]) /\ f = todo[r][k + 1] /\ f.seq \in seen[r]
      BY <1>2, <1>5, <2>2
    <3>2. /\ n \in Handed(r) /\ i \in 1..Len(Folded(r, n)) /\ e = Folded(r, n)[i]
          /\ Precedes(r, e, f) /\ e.type # Persist
      BY <1>3, <1>5, <3>1
    <3>3. IsTold(r, e) \/ \E l \in 1..((k + 1) - 1) : todo[r][l] = e
      BY <1>1, <1>5, <3>1, <3>2 DEF NoGapAt
    <3>4. ASSUME NEW l \in 1..((k + 1) - 1), todo[r][l] = e, l # 1
          PROVE  \E m \in 1..(k - 1) : todo'[r][m] = e
      <4>1. l - 1 \in 1..(k - 1) /\ l - 1 \in 1..Len(todo'[r]) /\ (l - 1) + 1 = l
        BY <3>4
      <4> QED
        BY <2>2, <3>4, <4>1
    <3> QED
      BY <2>0, <2>2, <3>2, <3>3, <3>4
  <2> QED
    BY <1>1, <1>5, <2>1, <2>2, ShrinksBy
<1>6. (\A j \in 1..Len(stream[r]) : stream[r][j].seq # 0 =>
         \A n \in Handed(r) : \A i \in 1..Len(Folded(r, n)) :
           Precedes(r, Folded(r, n)[i], stream[r][j])
             => \E l \in 1..(j - 1) : stream[r][l] = Folded(r, n)[i])'
  BY <1>4
<1>7. (\A k \in 1..Len(todo[r]) : todo[r][k].seq # 0 /\ todo[r][k].type # Persist =>
         \A n \in Handed(r) : \A i \in 1..Len(Folded(r, n)) :
           Precedes(r, Folded(r, n)[i], todo[r][k])
             => IsTold(r, Folded(r, n)[i]) \/ \E l \in 1..(k - 1) : todo[r][l] = Folded(r, n)[i])'
  BY <1>5 DEF IsTold
<1> QED
  BY <1>6, <1>7 DEF NoGapAt

\* A step that handles an event puts its fold, in order, behind all that was told.
LEMMA FoldsHandled ==
  ASSUME Shape, Shape', Kept, Ordered, Tells, Turned, Renders, InOrder, NoGap, [Next]_vars,
         NEW r \in Runs, NEW n \in Nat, Handles(r, n)
  PROVE  InOrderAt(r)' /\ NoGapAt(r)'
<1> DEFINE w == HandlerWork(n, log[r][n])
<1>0. /\ todo \in [Runs -> Seq(Work)] /\ seen \in [Runs -> SUBSET Nat] /\ Len(log[r]) \in Nat
      /\ Len(<<>>) = 0 /\ RendersAt(r) /\ TellsAt(r) /\ InOrderAt(r) /\ NoGapAt(r)
      /\ log[r][n] \in Kind \/ n \notin 1..Len(log[r])
      /\ streamed \in BOOLEAN /\ tools \in BOOLEAN
  BY LenProperties, EmptySeq, ElementOfSeq DEF Shape, TypeOK, Renders, Tells, InOrder, NoGap
<1>1. /\ n \in 1..Len(log[r]) /\ n \notin seen[r] /\ n \notin dropped[r] /\ Handle(r, n)
      /\ \A m \in 1..Len(log[r]) : m \in seen[r] <=> m < n /\ m \notin dropped[r]
      /\ todo[r] = <<>> /\ UNCHANGED <<log, dropped, stream, gaveUp>>
  BY NextInOrder DEF Handles, Idle
<1>2. \A m \in seen[r] : m \in 1..Len(log[r]) /\ m < n
  BY <1>1 DEF Ordered, OrderAt
<1>3. todo'[r] = w /\ seen'[r] = seen[r] \cup {n}
  BY <1>0, <1>1 DEF Handle
<1>4. /\ (streamed <=> SinceCall(r, n, "token")) /\ (tools <=> SinceCall(r, n, "calls"))
      /\ w = HandlerWork(n, log[r][n])
  BY <1>1, BeforeAll DEF Turned
<1>5. \A k \in 1..Len(w) : w[k].seq = n
  <2>1. log[r][n] \in Kind
    BY <1>0, <1>1
  <2> QED
    BY <1>0, <2>1, WorkKinds
<1> HIDE DEF w
<1>6. \A k \in 1..Len(w) :
        w[k].type = Persist \/ \E i \in 1..Len(Folded(r, n)) : w[k] = Folded(r, n)[i]
  BY <1>1, <1>4, WorkIsFold
<1>7. w = Folded(r, n) \/ Len(Folded(r, n)) = 1
  BY <1>1, <1>4, WorkInOrder
<1>8. /\ \A m \in seen'[r] : m \in 1..Len(log[r]) /\ Folded(r, m)' = Folded(r, m)
      /\ \A e, f : f.seq \in seen'[r] => (Precedes(r, e, f)' <=> Precedes(r, e, f))
      /\ Handed(r)' = Handed(r) /\ Handed(r) \subseteq 1..Len(log[r])
  <2>1. \A m \in seen'[r] : m \in 1..Len(log[r]) /\ Folded(r, m)' = Folded(r, m)
    BY FoldedKept
  <2> QED
    BY <1>1, <2>1, PrecedesKept DEF Handed
<1>9. \A j \in 1..Len(stream[r]) : stream[r][j].seq # 0 =>
        /\ stream[r][j].seq \in 1..Len(log[r]) /\ stream[r][j].seq < n
        /\ stream[r][j].seq \in seen'[r]
  BY <1>0, <1>2, <1>3 DEF TellsAt
<1>10. ASSUME NEW e, NEW f, Follows(r, e, f), e.seq # 0 => e.seq \in seen'[r]
       PROVE  Follows(r, e, f)'
  BY <1>8, <1>10 DEF Follows
<1>11. ASSUME NEW j \in 1..Len(stream[r]), NEW k \in 1..Len(w), NEW e, NEW f,
              e = stream[r][j], f = w[k]
       PROVE  Follows(r, e, f)'
  <2>1. e.seq # 0 => e.seq \in 1..Len(log[r]) /\ e.seq < n /\ e.seq \in seen'[r]
    BY <1>9, <1>11
  <2>2. f.seq = n
    BY <1>5, <1>11
  <2>3. e.seq # 0 => ~Precedes(r, f, e)
    BY <1>0, <1>1, <2>1, <2>2 DEF Precedes
  <2> QED
    BY <1>10, <2>1, <2>3 DEF Follows
<1>12. ASSUME NEW k \in 1..Len(w), NEW i \in 1..(k - 1), NEW e, NEW f, e = w[i], f = w[k],
              e.type # Persist, f.type # Persist
       PROVE  Follows(r, e, f)'
  <2>0. i \in 1..Len(w) /\ i < k /\ e.seq = n /\ f.seq = n /\ ~(n < n)
    BY <1>5, <1>12
  <2>1. ASSUME NEW b \in 1..Len(Folded(r, n)), NEW a \in 1..(b - 1),
               f = Folded(r, n)[a], e = Folded(r, n)[b]
        PROVE  FALSE
    <3>1. a \in 1..Len(Folded(r, n)) /\ a < b
      OBVIOUS
    <3>2. CASE w = Folded(r, n)
      <4>1. k = a /\ i = b
        BY <1>1, <1>12, <2>0, <2>1, <3>1, <3>2, FoldedOnce
      <4> QED
        BY <2>0, <3>1, <4>1
    <3>3. CASE Len(Folded(r, n)) = 1
      BY <2>1, <3>1, <3>3
    <3> QED
      BY <1>7, <3>2, <3>3
  <2>2. ~Precedes(r, f, e) /\ n \in seen'[r]
    BY <1>3, <2>0, <2>1 DEF Precedes
  <2> QED
    BY <1>1, <1>10, <2>0, <2>2 DEF Follows
<1>13. ASSUME NEW k \in 1..Len(w), w[k].type # Persist, NEW f, f = w[k],
              NEW m \in Handed(r), NEW i \in 1..Len(Folded(r, m)), NEW e, e = Folded(r, m)[i],
              Precedes(r, e, f), ~gaveUp[r]
       PROVE  (\E j \in 1..Len(stream[r]) : stream[r][j] = e) \/ \E l \in 1..(k - 1) : w[l] = e
  <2>1. f.seq = n /\ e.seq = m /\ m \in 1..Len(log[r]) /\ m \notin dropped[r]
    BY <1>5, <1>8, <1>13, FoldedEntries DEF Handed
  <2>2. CASE m < n
    <3>1. m \in seen[r] /\ ~InHand(r, e)
      <4>1. m \in seen[r]
        BY <1>1, <2>1, <2>2
      <4>2. 1..Len(todo[r]) = {}
        BY <1>0, <1>1
      <4> QED
        BY <4>1, <4>2 DEF InHand
    <3>2. IsTold(r, e)
      BY <1>0, <1>13, <3>1 DEF RendersAt
    <3> QED
      BY <3>2 DEF IsTold
  <2>3. CASE ~(m < n)
    <3>1. PICK b \in 1..Len(Folded(r, n)) : \E a \in 1..(b - 1) :
            e = Folded(r, n)[a] /\ f = Folded(r, n)[b]
      BY <1>13, <2>1, <2>3 DEF Precedes
    <3>2. PICK a \in 1..(b - 1) : e = Folded(r, n)[a] /\ f = Folded(r, n)[b]
      BY <3>1
    <3>3. w = Folded(r, n)
      BY <1>7, <3>2
    <3>4. k = b
      BY <1>1, <1>13, <3>2, <3>3, FoldedOnce
    <3> QED
      BY <3>2, <3>3, <3>4
  <2> QED
    BY <2>2, <2>3
<1>14. InOrderAt(r)'
  <2>1. ASSUME NEW j \in 1..Len(stream[r]), NEW i \in 1..(j - 1), NEW e, NEW f,
               e = stream[r][i], f = stream[r][j]
        PROVE  Follows(r, e, f)'
    <3>1. i \in 1..Len(stream[r])
      OBVIOUS
    <3> QED
      BY <1>0, <1>9, <1>10, <2>1, <3>1 DEF InOrderAt
  <2>2. stream'[r] = stream[r] /\ todo'[r] = w
    BY <1>1, <1>3
  <2>3. (\A j \in 1..Len(stream[r]) : \A i \in 1..(j - 1) :
           Follows(r, stream[r][i], stream[r][j]))'
    BY <2>1, <2>2
  <2>4. (\A j \in 1..Len(stream[r]) : \A k \in 1..Len(todo[r]) :
           todo[r][k].type # Persist => Follows(r, stream[r][j], todo[r][k]))'
    BY <1>11, <2>2
  <2>5. (\A k \in 1..Len(todo[r]) : \A i \in 1..(k - 1) :
           todo[r][i].type # Persist /\ todo[r][k].type # Persist
             => Follows(r, todo[r][i], todo[r][k]))'
    BY <1>12, <2>2
  <2> QED
    BY <2>3, <2>4, <2>5 DEF InOrderAt
<1>15. NoGapAt(r)'
  <2> SUFFICES ASSUME ~gaveUp'[r] PROVE NoGapAt(r)'
    BY DEF NoGapAt
  <2>1. ASSUME NEW m \in Handed(r)', NEW i \in 1..Len(Folded(r, m)'), NEW e, e = Folded(r, m)'[i],
               NEW f, f.seq \in seen'[r], Precedes(r, e, f)'
        PROVE  /\ m \in Handed(r) /\ i \in 1..Len(Folded(r, m)) /\ e = Folded(r, m)[i]
               /\ Precedes(r, e, f) /\ ~gaveUp[r]
    <3>1. m \in Handed(r) /\ m \in 1..Len(log[r]) /\ m \notin dropped[r] /\ ~gaveUp[r]
      BY <1>1, <1>8 DEF Handed
    <3>2. Precedes(r, e, f) /\ f.seq \in 1..Len(log[r])
      BY <1>8, <2>1
    <3>3. e.seq = m
      BY <1>1, <2>1, <3>1, FoldedEntriesNext
    <3>4. m < f.seq \/ m = f.seq
      BY <3>2, <3>3 DEF Precedes
    <3>5. f.seq <= n
      BY <1>0, <1>2, <1>3, <2>1, <3>2
    <3>6. m \in seen'[r]
      BY <1>0, <1>1, <1>3, <3>1, <3>2, <3>4, <3>5
    <3> QED
      BY <1>8, <2>1, <3>1, <3>2, <3>6
  <2>2. ASSUME NEW j \in 1..Len(stream'[r]), stream'[r][j].seq # 0,
               NEW m \in Handed(r)', NEW i \in 1..Len(Folded(r, m)'),
               NEW e, e = Folded(r, m)'[i], NEW f, f = stream'[r][j], Precedes(r, e, f)'
        PROVE  \E l \in 1..(j - 1) : stream'[r][l] = e
    <3>1. f.seq \in seen'[r] /\ f = stream[r][j] /\ j \in 1..Len(stream[r])
      BY <1>1, <1>9, <2>2
    <3>2. /\ m \in Handed(r) /\ i \in 1..Len(Folded(r, m)) /\ e = Folded(r, m)[i]
          /\ Precedes(r, e, f) /\ ~gaveUp[r]
      BY <2>1, <2>2, <3>1
    <3>3. stream[r][j].seq # 0 /\ NoGapAt(r)
      BY <1>0, <1>1, <2>2
    <3>4. \A x \in Handed(r) : \A y \in 1..Len(Folded(r, x)) :
            Precedes(r, Folded(r, x)[y], stream[r][j])
              => \E l \in 1..(j - 1) : stream[r][l] = Folded(r, x)[y]
      BY <3>1, <3>2, <3>3 DEF NoGapAt
    <3>5. \E l \in 1..(j - 1) : stream[r][l] = e
      BY <3>1, <3>2, <3>4
    <3> QED
      BY <1>1, <3>5
  <2>3. ASSUME NEW k \in 1..Len(todo'[r]), todo'[r][k].seq # 0, todo'[r][k].type # Persist,
               NEW m \in Handed(r)', NEW i \in 1..Len(Folded(r, m)'),
               NEW e, e = Folded(r, m)'[i], NEW f, f = todo'[r][k], Precedes(r, e, f)'
        PROVE  (\E l \in 1..Len(stream'[r]) : stream'[r][l] = e)
               \/ \E l \in 1..(k - 1) : todo'[r][l] = e
    <3>1. f.seq \in seen'[r] /\ f = w[k] /\ k \in 1..Len(w)
      BY <1>1, <1>3, <1>5, <2>3
    <3>2. /\ m \in Handed(r) /\ i \in 1..Len(Folded(r, m)) /\ e = Folded(r, m)[i]
          /\ Precedes(r, e, f) /\ ~gaveUp[r]
      BY <2>1, <2>3, <3>1
    <3>3. w[k].type # Persist
      BY <1>3, <2>3
    <3>4. (\E l \in 1..Len(stream[r]) : stream[r][l] = e) \/ \E l \in 1..(k - 1) : w[l] = e
      BY <1>13, <3>1, <3>2, <3>3
    <3> QED
      BY <1>1, <1>3, <3>4
  <2> QED
    <3>1. (\A j \in 1..Len(stream[r]) : stream[r][j].seq # 0 =>
             \A m \in Handed(r) : \A i \in 1..Len(Folded(r, m)) :
               Precedes(r, Folded(r, m)[i], stream[r][j])
                 => \E l \in 1..(j - 1) : stream[r][l] = Folded(r, m)[i])'
      BY <2>2
    <3>2. (\A k \in 1..Len(todo[r]) : todo[r][k].seq # 0 /\ todo[r][k].type # Persist =>
             \A m \in Handed(r) : \A i \in 1..Len(Folded(r, m)) :
               Precedes(r, Folded(r, m)[i], todo[r][k])
                 => IsTold(r, Folded(r, m)[i])
                    \/ \E l \in 1..(k - 1) : todo[r][l] = Folded(r, m)[i])'
      BY <2>3 DEF IsTold
    <3> QED
      BY <3>1, <3>2 DEF NoGapAt
<1> QED
  BY <1>14, <1>15

\* However many runs share the translator, the stream of a run is, up to repeated
\* attempts, its part of the fold of all turns: in the order of the fold, whatever is
\* retried, given up or dropped, and without a gap until a publish is given up
\* (coordinator_factory.py: one EventTranslator; session_gateway_pump.py).
THEOREM StreamFoldsLog == Spec => []StreamIsFold
<1>1. Init => Tells /\ Gapless /\ Renders /\ InOrder /\ NoGap
  <2>1. Len(<<>>) = 0
    BY EmptySeq
  <2> QED
    BY <2>1 DEF Init, Tells, TellsAt, Gapless, Renders, RendersAt, InOrder, InOrderAt,
                NoGap, NoGapAt
<1>2. ASSUME Shape, Kept, Ordered, Tells, Turned, Gapless, Renders, InOrder, NoGap, [Next]_vars
      PROVE  /\ Shape' /\ Kept' /\ Ordered' /\ Tells' /\ Turned' /\ Gapless'
             /\ Renders' /\ InOrder' /\ NoGap'
  <2>1. Shape' /\ Kept' /\ Ordered' /\ Tells' /\ Turned' /\ Gapless'
    BY <1>2, ShapeStep, KeptStep, OrderedStep, TellsStep, TurnedStep, GaplessStep
  <2>2. Renders'
    BY <1>2, <2>1, RendersStep
  <2>3. ASSUME NEW r \in Runs PROVE InOrderAt(r)' /\ NoGapAt(r)'
    <3>1. CASE Untouched(r)
      BY <1>2, <2>1, <3>1, InOrderWorkedOff, NoGapWorkedOff
    <3>2. ASSUME NEW n \in Nat, Handles(r, n) PROVE InOrderAt(r)' /\ NoGapAt(r)'
      BY <1>2, <2>1, <3>2, FoldsHandled
    <3> QED
      BY <1>2, <3>1, <3>2, Touches
  <2> QED
    BY <2>1, <2>2, <2>3 DEF InOrder, NoGap
<1>3. Renders /\ InOrder /\ NoGap => StreamIsFold
  BY DEF Renders, RendersAt, InOrder, InOrderAt, NoGap, NoGapAt, Follows, StreamIsFold
<1> QED
  BY <1>1, <1>2, <1>3, ShapeInit, KeptInit, OrderedInit, TurnedInit, PTL DEF Spec
=============================================================================
