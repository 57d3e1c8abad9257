------------------------- MODULE WriteBehindProofs -------------------------
(***************************************************************************)
(* For every number of events, buffers and timer threads, and whatever the *)
(* disk refuses: the types of the buffers (TypeCorrect), that no event is  *)
(* dropped (NothingDropped) nor, until the disk refuses a write, written   *)
(* twice (NothingRepeated), and what a successful flush stands for         *)
(* (FlushVouches).                                                         *)
(*                                                                         *)
(* Who holds a batch is in the middle of a write (Hands); a buffer that is *)
(* not in the registry is closed or unused (Entry); and while the owner    *)
(* writes a flushed batch, only a failed timer puts events back (Draining).*)
(***************************************************************************)
EXTENDS WriteBehind, TLAPS

\* Who is at work has a buffer that was made; who is not in the middle of a write
\* has no batch.
Hands ==
  /\ \A t \in Timer :
       /\ timer[t].at # "off" => timer[t].of \in 1..made
       /\ timer[t].at \notin {"write", "failed"} => timer[t].batch = <<>>
  /\ owner.at # "idle" => owner.of \in 1..made
  /\ owner.at \in {"idle", "close"} => owner.batch = <<>>

\* A buffer outside the registry is closed, or has not been made yet.
Entry ==
  \A b \in Buffer : b # current => closed[b] \/ (b > made /\ pending[b] = <<>>)

\* A flush in progress has emptied the registry's buffer; what is there again was
\* put back by a timer, which paused it.
Draining ==
  owner.at \in {"flush", "flushFailed"} =>
    /\ owner.of = current
    /\ pending[current] = <<>> \/ paused[current]

Shape == TypeOK /\ Hands

-----------------------------------------------------------------------------
(* Sequences                                                               *)

\* An empty batch holds nothing.
LEMMA HasNothing == ASSUME NEW n PROVE ~Has(<<>>, n)
BY DEF Has

\* Batches of events, put together.
LEMMA Batches ==
  /\ <<>> \in Seq(Event)
  /\ \A s, t \in Seq(Event) : s \o t \in Seq(Event)
  /\ \A s \in Seq(Event), e \in Event : Append(s, e) \in Seq(Event)
OBVIOUS

\* What appending an event to a batch holds.
LEMMA HasAppended ==
  ASSUME NEW S, NEW s \in Seq(S), NEW e \in S, NEW n
  PROVE  Has(Append(s, e), n) <=> Has(s, n) \/ n = e
<1>1. /\ Len(Append(s, e)) = Len(s) + 1 /\ Len(s) \in Nat
      /\ Append(s, e)[Len(s) + 1] = e
      /\ \A i \in 1..Len(s) : Append(s, e)[i] = s[i]
  OBVIOUS
<1> QED
  BY <1>1 DEF Has

\* What two batches in a row hold.
LEMMA HasBoth ==
  ASSUME NEW S, NEW s \in Seq(S), NEW t \in Seq(S), NEW n
  PROVE  Has(s \o t, n) <=> Has(s, n) \/ Has(t, n)
<1>1. /\ Len(s \o t) = Len(s) + Len(t) /\ Len(s) \in Nat /\ Len(t) \in Nat
      /\ \A i \in 1..Len(s) : (s \o t)[i] = s[i]
      /\ \A i \in 1..Len(t) : (s \o t)[Len(s) + i] = t[i]
  OBVIOUS
<1>2. ASSUME Has(s, n)
      PROVE  Has(s \o t, n)
  BY <1>1, <1>2 DEF Has
<1>3. ASSUME Has(t, n)
      PROVE  Has(s \o t, n)
  <2>1. PICK i \in 1..Len(t) : t[i] = n
    BY <1>3 DEF Has
  <2>2. /\ Len(s) + i \in 1..Len(s \o t)
        /\ (s \o t)[Len(s) + i] = n
    BY <1>1, <2>1
  <2> QED
    BY <2>2 DEF Has
<1>4. ASSUME Has(s \o t, n)
      PROVE  Has(s, n) \/ Has(t, n)
  <2>1. PICK i \in 1..Len(s \o t) : (s \o t)[i] = n
    BY <1>4 DEF Has
  <2>2. CASE i <= Len(s)
    BY <1>1, <2>1, <2>2 DEF Has
  <2>3. CASE i > Len(s)
    <3>1. /\ i - Len(s) \in 1..Len(t)
          /\ i = Len(s) + (i - Len(s))
      BY <1>1, <2>1, <2>3
    <3>2. t[i - Len(s)] = n
      BY <1>1, <2>1, <3>1
    <3> QED
      BY <3>1, <3>2 DEF Has
  <2> QED
    BY <1>1, <2>1, <2>2, <2>3
<1> QED
  BY <1>2, <1>3, <1>4

-----------------------------------------------------------------------------
(* Types                                                                   *)

LEMMA InitShape ==
  ASSUME Init
  PROVE  Shape
<1>1. MaxEvents \in Nat /\ MaxFails \in Nat /\ MaxBuffers \in Nat
  BY WriteBehindAssumption
<1>2. /\ NoTimer \in [at : TimerPlace, of : 0..MaxBuffers, batch : Seq(Event)]
      /\ Idle \in [at : OwnerPlace, of : 0..MaxBuffers, batch : Seq(Event)]
  BY <1>1 DEF NoTimer, Idle, TimerPlace, OwnerPlace, None
<1>3. /\ timer \in [Timer -> [at : TimerPlace, of : 0..MaxBuffers, batch : Seq(Event)]]
      /\ owner \in [at : OwnerPlace, of : 0..MaxBuffers, batch : Seq(Event)]
  BY <1>2 DEF Init
<1>4. pending \in [Buffer -> Seq(Event)] /\ file \in Seq(Event)
  BY DEF Init
<1>5. OwnTimer /\ ref \in [Buffer -> 0..MaxTimers]
  BY WriteBehindAssumption DEF Init, OwnTimer, None
<1>6. TypeOK
  BY <1>1, <1>3, <1>4, <1>5 DEF Init, TypeOK, None
<1> QED
  BY <1>6 DEF Init, Shape, Hands, NoTimer, Idle

\* Arming a free timer, or one that ends, makes it the buffer's own.
LEMMA ArmIsOwn ==
  ASSUME TypeOK, NEW b \in Buffer, NEW t \in Timer, timer[t].at \in {"off", "rearm"}, Arm(b, t)
  PROVE  /\ OwnTimer'
         /\ timer' \in [Timer -> [at : TimerPlace, of : 0..MaxBuffers, batch : Seq(Event)]]
         /\ ref' \in [Buffer -> 0..MaxTimers]
<1>1. /\ timer' = [timer EXCEPT ![t] = [at |-> "armed", of |-> b, batch |-> <<>>]]
      /\ ref' = [ref EXCEPT ![b] = t]
      /\ timer \in [Timer -> [at : TimerPlace, of : 0..MaxBuffers, batch : Seq(Event)]]
      /\ ref \in [Buffer -> 0..MaxTimers]
  BY DEF Arm, TypeOK
<1>2. ASSUME NEW c \in Buffer, c # b, ref'[c] # None
      PROVE  timer'[ref'[c]].of = c /\ timer'[ref'[c]].at \in {"armed", "fired"}
  BY <1>1, <1>2 DEF TypeOK, OwnTimer
<1>3. ref'[b] = t /\ timer'[t].of = b /\ timer'[t].at = "armed"
  BY <1>1
<1>4. OwnTimer'
  BY <1>2, <1>3 DEF OwnTimer
<1>5. [at |-> "armed", of |-> b, batch |-> <<>>]
        \in [at : TimerPlace, of : 0..MaxBuffers, batch : Seq(Event)]
  BY WriteBehindAssumption DEF TimerPlace, Buffer
<1> QED
  BY <1>1, <1>4, <1>5, WriteBehindAssumption DEF Timer

\* Cancelling leaves the buffer without a timer of its own.
LEMMA CancelIsOwn ==
  ASSUME TypeOK, NEW b \in Buffer, CancelTimer(b)
  PROVE  /\ OwnTimer'
         /\ timer' \in [Timer -> [at : TimerPlace, of : 0..MaxBuffers, batch : Seq(Event)]]
         /\ ref' \in [Buffer -> 0..MaxTimers]
<1>1. /\ \A t \in Timer : timer'[t] = IF t = ref[b] /\ timer[t].at = "armed" THEN NoTimer
                                     ELSE timer[t]
      /\ DOMAIN timer' = Timer /\ timer' = [t \in Timer |-> timer'[t]]
      /\ ref' = [ref EXCEPT ![b] = None]
      /\ timer \in [Timer -> [at : TimerPlace, of : 0..MaxBuffers, batch : Seq(Event)]]
      /\ ref \in [Buffer -> 0..MaxTimers]
  BY DEF CancelTimer, Cancelled, TypeOK
<1>2. ASSUME NEW c \in Buffer, ref'[c] # None
      PROVE  timer'[ref'[c]].of = c /\ timer'[ref'[c]].at \in {"armed", "fired"}
  <2>1. c # b /\ ref'[c] = ref[c] /\ ref[c] \in Timer
    BY <1>1, <1>2, WriteBehindAssumption DEF None, Timer
  <2>2. timer[ref[c]].of = c /\ timer[ref[c]].at \in {"armed", "fired"}
    BY <1>2, <2>1 DEF TypeOK, OwnTimer
  <2>3. ref[c] # ref[b]
    BY <2>1, <2>2 DEF TypeOK, OwnTimer, None, Timer
  <2> QED
    BY <1>1, <2>1, <2>2, <2>3
<1>3. OwnTimer'
  BY <1>2 DEF OwnTimer
<1>4. NoTimer \in [at : TimerPlace, of : 0..MaxBuffers, batch : Seq(Event)]
  BY WriteBehindAssumption DEF NoTimer, TimerPlace, None
<1>5. timer' \in [Timer -> [at : TimerPlace, of : 0..MaxBuffers, batch : Seq(Event)]]
  BY <1>1, <1>4
<1> QED
  BY <1>1, <1>3, <1>5, WriteBehindAssumption DEF None

\* A timer that does not touch `_timer' stays, or comes to be, no one's own.
LEMMA OthersAreOwn ==
  ASSUME TypeOK, NEW t \in Timer, UNCHANGED ref,
         \A u \in Timer \ {t} : timer'[u] = timer[u],
         \/ timer[t].at \notin {"armed", "fired"}
         \/ timer'[t].of = timer[t].of /\ timer'[t].at \in {"armed", "fired"}
  PROVE  OwnTimer'
<1>1. ASSUME NEW b \in Buffer, ref[b] # None
      PROVE  timer'[ref[b]].of = b /\ timer'[ref[b]].at \in {"armed", "fired"}
  <2>1. ref[b] \in Timer /\ timer[ref[b]].of = b /\ timer[ref[b]].at \in {"armed", "fired"}
    BY <1>1, WriteBehindAssumption DEF TypeOK, OwnTimer, None, Timer
  <2> QED
    BY <2>1
<1> QED
  BY <1>1 DEF OwnTimer

LEMMA TypeStep ==
  ASSUME Shape, [Next]_vars
  PROVE  TypeOK'
<1> USE WriteBehindAssumption DEF Shape
<1>1. CASE Enqueue
  <2> DEFINE b == IF current = None THEN made + 1 ELSE current
  <2>1. b \in Buffer /\ b \in Nat /\ made \in Nat /\ current \in Nat
    BY <1>1 DEF Enqueue, TypeOK, None, Buffer
  <2>2. /\ OwnTimer'
        /\ timer' \in [Timer -> [at : TimerPlace, of : 0..MaxBuffers, batch : Seq(Event)]]
        /\ ref' \in [Buffer -> 0..MaxTimers]
    <3>1. CASE \E t \in NewTimer : Arm(b, t)
      BY <2>1, <3>1, ArmIsOwn DEF NewTimer
    <3>2. CASE UNCHANGED <<timer, ref>>
      BY <3>2 DEF TypeOK, OwnTimer
    <3> QED
      BY <1>1, <3>1, <3>2 DEF Enqueue
  <2>3. committed + 1 \in Event /\ committed' = committed + 1
    BY <1>1 DEF Enqueue, TypeOK, Event
  <2>4. pending' = [pending EXCEPT ![b] = Append(@, committed + 1)]
    BY <1>1 DEF Enqueue
  <2>5. pending' \in [Buffer -> Seq(Event)]
    <3>1. pending \in [Buffer -> Seq(Event)]
      BY DEF TypeOK
    <3> QED
      BY <2>3, <2>4, <3>1, Batches
  <2>6. current' \in 0..made' /\ made' \in 0..MaxBuffers
    BY <1>1, <2>1 DEF Enqueue, TypeOK, None, Buffer
  <2>7. committed' \in 0..MaxEvents /\ vouched' \in 0..committed'
    BY <1>1 DEF Enqueue, TypeOK
  <2> QED
    BY <1>1, <2>2, <2>5, <2>6, <2>7 DEF Enqueue, disk, TypeOK
<1>2. CASE Flush
  <2>1. current \in Buffer
    BY <1>2 DEF Flush, TypeOK, None, Buffer
  <2>2. /\ OwnTimer'
        /\ timer' \in [Timer -> [at : TimerPlace, of : 0..MaxBuffers, batch : Seq(Event)]]
        /\ ref' \in [Buffer -> 0..MaxTimers]
    BY <1>2, <2>1, CancelIsOwn DEF Flush
  <2>3. /\ pending' \in [Buffer -> Seq(Event)]
        /\ paused' \in [Buffer -> BOOLEAN]
    <3>1. pending \in [Buffer -> Seq(Event)] /\ paused \in [Buffer -> BOOLEAN]
      BY DEF TypeOK
    <3>2. /\ pending' = [pending EXCEPT ![current] = <<>>]
          /\ paused' = [paused EXCEPT ![current] = FALSE]
      BY <1>2 DEF Flush
    <3> QED
      BY <3>1, <3>2, Batches
  <2>4. /\ owner' \in [at : OwnerPlace, of : 0..MaxBuffers, batch : Seq(Event)]
        /\ vouched' \in 0..committed'
    <3>1. /\ pending[current] \in Seq(Event) /\ current \in 0..MaxBuffers
          /\ owner \in [at : OwnerPlace, of : 0..MaxBuffers, batch : Seq(Event)]
          /\ vouched \in 0..committed /\ committed \in Nat
      BY <2>1 DEF TypeOK, Buffer
    <3>2. /\ \/ vouched' = committed /\ owner' = owner
             \/ /\ owner' = [at |-> "flush", of |-> current, batch |-> pending[current]]
                /\ vouched' = vouched
          /\ committed' = committed
      BY <1>2 DEF Flush
    <3> QED
      BY <3>1, <3>2 DEF OwnerPlace
  <2> QED
    BY <1>2, <2>2, <2>3, <2>4 DEF Flush, disk, TypeOK
<1>3. CASE Dispose
  <2>1. current \in Buffer
    BY <1>3 DEF Dispose, TypeOK, None, Buffer
  <2>2. /\ OwnTimer'
        /\ timer' \in [Timer -> [at : TimerPlace, of : 0..MaxBuffers, batch : Seq(Event)]]
        /\ ref' \in [Buffer -> 0..MaxTimers]
    BY <1>3, <2>1, CancelIsOwn DEF Dispose
  <2>3. /\ pending' \in [Buffer -> Seq(Event)]
        /\ closed' \in [Buffer -> BOOLEAN]
    <3>1. pending \in [Buffer -> Seq(Event)] /\ closed \in [Buffer -> BOOLEAN]
      BY DEF TypeOK
    <3>2. /\ pending' = [pending EXCEPT ![current] = <<>>]
          /\ closed' = [closed EXCEPT ![current] = TRUE]
      BY <1>3 DEF Dispose
    <3> QED
      BY <3>1, <3>2, Batches
  <2>4. /\ owner' \in [at : OwnerPlace, of : 0..MaxBuffers, batch : Seq(Event)]
        /\ current' \in 0..made'
    BY <1>3, <2>1 DEF Dispose, TypeOK, OwnerPlace, Buffer, None
  <2> QED
    BY <1>3, <2>2, <2>3, <2>4 DEF Dispose, session, disk, TypeOK
<1>4. CASE OwnerWrites
  <2>1. file' \in Seq(Event) /\ fails' = fails
    BY <1>4 DEF OwnerWrites, Written, TypeOK
  <2>2. /\ owner' \in [at : OwnerPlace, of : 0..MaxBuffers, batch : Seq(Event)]
        /\ vouched' \in 0..committed'
    <3>1. /\ owner \in [at : OwnerPlace, of : 0..MaxBuffers, batch : Seq(Event)]
          /\ vouched \in 0..committed /\ committed \in Nat
      BY DEF TypeOK
    <3>2. /\ Idle \in [at : OwnerPlace, of : 0..MaxBuffers, batch : Seq(Event)]
          /\ [at |-> "close", of |-> owner.of, batch |-> <<>>]
               \in [at : OwnerPlace, of : 0..MaxBuffers, batch : Seq(Event)]
      <4>1. 0 \in 0..MaxBuffers /\ {"idle", "close"} \subseteq OwnerPlace
        BY DEF OwnerPlace
      <4> HIDE DEF OwnerPlace
      <4> QED
        BY <3>1, <4>1, Batches DEF Idle, None
    <3>3. /\ \/ owner' = Idle /\ vouched' = committed
             \/ owner' = [at |-> "close", of |-> owner.of, batch |-> <<>>] /\ vouched' = vouched
          /\ committed' = committed
      BY <1>4 DEF OwnerWrites
    <3>4. vouched' \in 0..committed'
      BY <3>1, <3>3
    <3> QED
      BY <3>1, <3>2, <3>3, <3>4
  <2> QED
    BY <1>4, <2>1, <2>2 DEF OwnerWrites, buffer, TypeOK, OwnTimer
<1>5. CASE OwnerRefused
  <2>1. file' \in Seq(Event) /\ fails' \in 0..MaxFails
    <3>1. /\ file \in Seq(Event) /\ owner.batch \in Seq(Event)
          /\ fails \in 0..MaxFails /\ MaxFails \in Nat
      BY DEF TypeOK
    <3>2. /\ file' \in {file, file \o owner.batch}
          /\ \/ fails' = fails
             \/ fails < MaxFails /\ fails' = fails + 1
      BY <1>5 DEF OwnerRefused, Refused, disk
    <3> QED
      <4>1. fails' \in 0..MaxFails
        BY <3>1, <3>2
      <4>2. file \o owner.batch \in Seq(Event)
        BY <3>1, Batches
      <4> QED
        BY <3>1, <3>2, <4>1, <4>2
  <2>2. owner' \in [at : OwnerPlace, of : 0..MaxBuffers, batch : Seq(Event)]
    BY <1>5 DEF OwnerRefused, TypeOK, OwnerPlace
  <2> QED
    BY <1>5, <2>1, <2>2 DEF OwnerRefused, session, buffer, TypeOK, OwnTimer
<1>6. CASE OwnerPutsBack
  <2>1. owner.batch \in Seq(Event) /\ Idle \in [at : OwnerPlace, of : 0..MaxBuffers, batch : Seq(Event)]
    BY DEF TypeOK, Idle, OwnerPlace, None
  <2>2. pending' \in [Buffer -> Seq(Event)]
    <3>1. pending \in [Buffer -> Seq(Event)]
      BY DEF TypeOK
    <3>2. pending' = [pending EXCEPT ![owner.of] = owner.batch \o @]
      BY <1>6 DEF OwnerPutsBack
    <3> QED
      BY <2>1, <3>1, <3>2, Batches
  <2> QED
    BY <1>6, <2>1, <2>2 DEF OwnerPutsBack, Reported, disk, TypeOK, OwnTimer
<1>7. CASE CloseSink
  <2>1. Idle \in [at : OwnerPlace, of : 0..MaxBuffers, batch : Seq(Event)]
    BY DEF Idle, OwnerPlace, None
  <2> QED
    BY <1>7, <2>1 DEF CloseSink, session, disk, TypeOK, OwnTimer
<1>8. ASSUME NEW t \in Timer, Fires(t)
      PROVE  TypeOK'
  <2>1. timer' = [timer EXCEPT ![t].at = "fired"] /\ timer[t].at = "armed"
    BY <1>8 DEF Fires, Goes
  <2>2. timer' \in [Timer -> [at : TimerPlace, of : 0..MaxBuffers, batch : Seq(Event)]]
    BY <2>1 DEF TypeOK, TimerPlace
  <2>3. OwnTimer'
    <3>1. /\ \A u \in Timer \ {t} : timer'[u] = timer[u]
          /\ timer'[t].of = timer[t].of /\ timer'[t].at = "fired"
      BY <2>1 DEF TypeOK
    <3> QED
      BY <1>8, <3>1, OthersAreOwn DEF Fires, buffer
  <2> QED
    BY <1>8, <2>2, <2>3 DEF Fires, session, buffer, disk, TypeOK
<1>9. ASSUME NEW t \in Timer, Takes(t)
      PROVE  TypeOK'
  <2> DEFINE b == timer[t].of
  <2>0. b \in Buffer /\ timer[t].at = "fired"
    BY <1>9 DEF Takes, Hands, TypeOK, Buffer
  <2>1. /\ ref' = [ref EXCEPT ![b] = None]
        /\ \A u \in Timer \ {t} : timer'[u] = timer[u]
    BY <1>9 DEF Takes, TypeOK
  <2>2. OwnTimer'
    <3>1. ASSUME NEW c \in Buffer, ref'[c] # None
          PROVE  timer'[ref'[c]].of = c /\ timer'[ref'[c]].at \in {"armed", "fired"}
      <4>1. c # b /\ ref'[c] = ref[c] /\ ref[c] \in Timer
        BY <2>0, <2>1, <3>1 DEF TypeOK, None, Timer
      <4>2. timer[ref[c]].of = c /\ timer[ref[c]].at \in {"armed", "fired"}
        BY <3>1, <4>1 DEF TypeOK, OwnTimer
      <4>3. ref[c] # t
        BY <4>1, <4>2
      <4> QED
        BY <2>1, <4>1, <4>2, <4>3
    <3> QED
      BY <3>1 DEF OwnTimer
  <2>3. NoTimer \in [at : TimerPlace, of : 0..MaxBuffers, batch : Seq(Event)]
    BY DEF NoTimer, TimerPlace, None
  <2>4. /\ timer' \in [Timer -> [at : TimerPlace, of : 0..MaxBuffers, batch : Seq(Event)]]
        /\ pending' \in [Buffer -> Seq(Event)]
        /\ active' \in [Buffer -> BOOLEAN]
    <3>1. CASE active[b] \/ paused[b] \/ pending[b] = <<>>
      BY <1>9, <2>3, <3>1 DEF Takes, TypeOK
    <3>2. CASE ~(active[b] \/ paused[b] \/ pending[b] = <<>>)
      <4>1. /\ timer \in [Timer -> [at : TimerPlace, of : 0..MaxBuffers, batch : Seq(Event)]]
            /\ pending \in [Buffer -> Seq(Event)] /\ active \in [Buffer -> BOOLEAN]
        BY DEF TypeOK
      <4>2. /\ timer' = [timer EXCEPT ![t].at = "write", ![t].batch = pending[b]]
            /\ active' = [active EXCEPT ![b] = TRUE]
            /\ pending' = [pending EXCEPT ![b] = <<>>]
        BY <1>9, <3>2 DEF Takes
      <4>3. [timer[t] EXCEPT !.at = "write", !.batch = pending[b]]
              \in [at : TimerPlace, of : 0..MaxBuffers, batch : Seq(Event)]
        BY <2>0, <4>1 DEF TimerPlace
      <4>4. timer' = [timer EXCEPT ![t] = [timer[t] EXCEPT !.at = "write", !.batch = pending[b]]]
        BY <4>1, <4>2
      <4> QED
        BY <4>1, <4>2, <4>3, <4>4, Batches
    <3> QED
      BY <3>1, <3>2
  <2>5. ref' \in [Buffer -> 0..MaxTimers]
    <3>1. ref \in [Buffer -> 0..MaxTimers] /\ 0 \in 0..MaxTimers
      BY DEF TypeOK
    <3>2. ref' = [ref EXCEPT ![b] = 0]
      BY <2>1 DEF None
    <3> HIDE DEF b
    <3> QED
      BY <3>1, <3>2
  <2> QED
    BY <1>9, <2>2, <2>4, <2>5 DEF Takes, session, disk, TypeOK
<1>10. ASSUME NEW t \in Timer, TimerWrites(t)
       PROVE  TypeOK'
  <2>1. timer' = [timer EXCEPT ![t].at = "wrote", ![t].batch = <<>>] /\ timer[t].at = "write"
    BY <1>10 DEF TimerWrites
  <2>2. timer' \in [Timer -> [at : TimerPlace, of : 0..MaxBuffers, batch : Seq(Event)]]
    <3>1. timer \in [Timer -> [at : TimerPlace, of : 0..MaxBuffers, batch : Seq(Event)]]
      BY DEF TypeOK
    <3>2. [timer[t] EXCEPT !.at = "wrote", !.batch = <<>>]
            \in [at : TimerPlace, of : 0..MaxBuffers, batch : Seq(Event)]
      BY <3>1, Batches DEF TimerPlace
    <3>3. timer' = [timer EXCEPT ![t] = [timer[t] EXCEPT !.at = "wrote", !.batch = <<>>]]
      BY <2>1, <3>1
    <3> QED
      BY <3>1, <3>2, <3>3
  <2>3. OwnTimer'
    BY <1>10, <2>1, OthersAreOwn DEF TimerWrites, buffer, TypeOK
  <2>4. file' \in Seq(Event) /\ fails' = fails
    BY <1>10 DEF TimerWrites, Written, TypeOK
  <2> QED
    BY <1>10, <2>2, <2>3, <2>4 DEF TimerWrites, session, buffer, TypeOK
<1>11. ASSUME NEW t \in Timer, TimerRefused(t)
       PROVE  TypeOK'
  <2>1. timer' = [timer EXCEPT ![t].at = "failed"] /\ timer[t].at = "write"
    BY <1>11 DEF TimerRefused, Goes
  <2>2. timer' \in [Timer -> [at : TimerPlace, of : 0..MaxBuffers, batch : Seq(Event)]]
    BY <2>1 DEF TypeOK, TimerPlace
  <2>3. OwnTimer'
    BY <1>11, <2>1, OthersAreOwn DEF TimerRefused, buffer, TypeOK
  <2>4. file' \in Seq(Event) /\ fails' \in 0..MaxFails
    <3>1. /\ file \in Seq(Event) /\ timer[t].batch \in Seq(Event)
          /\ fails \in 0..MaxFails /\ MaxFails \in Nat
      BY DEF TypeOK
    <3>2. /\ file' \in {file, file \o timer[t].batch}
          /\ \/ fails' = fails
             \/ fails < MaxFails /\ fails' = fails + 1
      BY <1>11 DEF TimerRefused, Refused, disk
    <3> QED
      <4>1. fails' \in 0..MaxFails
        BY <3>1, <3>2
      <4>2. file \o timer[t].batch \in Seq(Event)
        BY <3>1, Batches
      <4> QED
        BY <3>1, <3>2, <4>1, <4>2
  <2> QED
    BY <1>11, <2>2, <2>3, <2>4 DEF TimerRefused, session, buffer, TypeOK
<1>12. ASSUME NEW t \in Timer, TimerPutsBack(t)
       PROVE  TypeOK'
  <2>1. timer' = [timer EXCEPT ![t].at = "notify", ![t].batch = <<>>] /\ timer[t].at = "failed"
    BY <1>12 DEF TimerPutsBack
  <2>2. timer' \in [Timer -> [at : TimerPlace, of : 0..MaxBuffers, batch : Seq(Event)]]
    <3>1. timer \in [Timer -> [at : TimerPlace, of : 0..MaxBuffers, batch : Seq(Event)]]
      BY DEF TypeOK
    <3>2. [timer[t] EXCEPT !.at = "notify", !.batch = <<>>]
            \in [at : TimerPlace, of : 0..MaxBuffers, batch : Seq(Event)]
      BY <3>1, Batches DEF TimerPlace
    <3>3. timer' = [timer EXCEPT ![t] = [timer[t] EXCEPT !.at = "notify", !.batch = <<>>]]
      BY <2>1, <3>1
    <3> QED
      BY <3>1, <3>2, <3>3
  <2>3. OwnTimer'
    BY <1>12, <2>1, OthersAreOwn DEF TimerPutsBack, TypeOK
  <2>4. pending' \in [Buffer -> Seq(Event)]
    <3>1. pending \in [Buffer -> Seq(Event)] /\ timer[t].batch \in Seq(Event)
      BY DEF TypeOK
    <3>2. pending' = [pending EXCEPT ![timer[t].of] = timer[t].batch \o @]
      BY <1>12 DEF TimerPutsBack, Retained
    <3> QED
      BY <3>1, <3>2, Batches
  <2>5. active' \in [Buffer -> BOOLEAN] /\ paused' \in [Buffer -> BOOLEAN]
    BY <1>12 DEF TimerPutsBack, TypeOK
  <2> QED
    BY <1>12, <2>2, <2>3, <2>4, <2>5 DEF TimerPutsBack, session, disk, TypeOK
<1>13. ASSUME NEW t \in Timer, Releases(t)
       PROVE  TypeOK'
  <2>1. /\ timer[t].at \in {"wrote", "notify"}
        /\ \A u \in Timer \ {t} : timer'[u] = timer[u]
    BY <1>13 DEF Releases, TypeOK
  <2>2. OwnTimer'
    BY <1>13, <2>1, OthersAreOwn DEF Releases
  <2>3. NoTimer \in [at : TimerPlace, of : 0..MaxBuffers, batch : Seq(Event)]
    BY DEF NoTimer, TimerPlace, None
  <2>4. [timer[t] EXCEPT !.at = "rearm"] \in [at : TimerPlace, of : 0..MaxBuffers, batch : Seq(Event)]
    BY DEF TimerPlace, TypeOK
  <2>5. timer' \in [Timer -> [at : TimerPlace, of : 0..MaxBuffers, batch : Seq(Event)]]
    BY <1>13, <2>3, <2>4 DEF Releases, TypeOK
  <2>6. active' \in [Buffer -> BOOLEAN]
    BY <1>13 DEF Releases, TypeOK
  <2> QED
    BY <1>13, <2>2, <2>5, <2>6 DEF Releases, session, disk, TypeOK
<1>14. ASSUME NEW t \in Timer, Rearms(t)
       PROVE  TypeOK'
  <2> DEFINE b == timer[t].of
  <2>0. b \in Buffer /\ timer[t].at = "rearm"
    BY <1>14 DEF Rearms, Hands, TypeOK, Buffer
  <2>1. /\ OwnTimer'
        /\ timer' \in [Timer -> [at : TimerPlace, of : 0..MaxBuffers, batch : Seq(Event)]]
        /\ ref' \in [Buffer -> 0..MaxTimers]
    <3>1. CASE Arm(b, t)
      BY <2>0, <3>1, ArmIsOwn
    <3>2. CASE timer' = [timer EXCEPT ![t] = NoTimer] /\ UNCHANGED ref
      <4>1. NoTimer \in [at : TimerPlace, of : 0..MaxBuffers, batch : Seq(Event)]
        BY DEF NoTimer, TimerPlace, None
      <4>2. OwnTimer'
        BY <2>0, <3>2, OthersAreOwn DEF TypeOK
      <4> QED
        BY <3>2, <4>1, <4>2 DEF TypeOK
    <3> QED
      BY <1>14, <3>1, <3>2 DEF Rearms
  <2> QED
    BY <1>14, <2>1 DEF Rearms, session, disk, TypeOK
<1>15. CASE UNCHANGED vars
  BY <1>15 DEF vars, session, buffer, disk, TypeOK, OwnTimer
<1> QED
  BY <1>1, <1>2, <1>3, <1>4, <1>5, <1>6, <1>7, <1>8, <1>9, <1>10, <1>11, <1>12, <1>13, <1>14,
     <1>15 DEF Next, Owner, Proceed, Thread

-----------------------------------------------------------------------------
(* Who holds a batch                                                       *)

LEMMA HandsStep ==
  ASSUME Shape, [Next]_vars
  PROVE  Hands'
<1> USE WriteBehindAssumption DEF Shape
<1>0. /\ made \in Nat /\ current \in 0..made
      /\ timer \in [Timer -> [at : TimerPlace, of : 0..MaxBuffers, batch : Seq(Event)]]
  BY DEF TypeOK
<1>1. CASE Enqueue
  <2> DEFINE b == IF current = None THEN made + 1 ELSE current
  <2>1. /\ made' \in {made, made + 1} /\ b \in 1..made'
        /\ UNCHANGED owner /\ owner.at = "idle" /\ owner.batch = <<>>
    BY <1>0, <1>1 DEF Enqueue, Hands, Idle, None
  <2>2. ASSUME NEW t \in Timer
        PROVE  /\ timer'[t].at # "off" => timer'[t].of \in 1..made'
               /\ timer'[t].at \notin {"write", "failed"} => timer'[t].batch = <<>>
    <3>1. timer'[t] = timer[t] \/ timer'[t] = [at |-> "armed", of |-> b, batch |-> <<>>]
      BY <1>0, <1>1 DEF Enqueue, Arm
    <3> QED
      BY <1>0, <2>1, <3>1 DEF Hands
  <2> QED
    BY <2>1, <2>2 DEF Hands
<1>2. CASE Flush
  <2>1. \A t \in Timer : timer'[t] \in {timer[t], NoTimer}
    BY <1>2 DEF Flush, CancelTimer, Cancelled
  <2>2. /\ UNCHANGED made /\ current \in 1..made
        /\ owner' = owner \/ owner' = [at |-> "flush", of |-> current, batch |-> pending[current]]
    BY <1>0, <1>2 DEF Flush, None
  <2> QED
    BY <2>1, <2>2 DEF Hands, NoTimer
<1>3. CASE Dispose
  <2>1. \A t \in Timer : timer'[t] \in {timer[t], NoTimer}
    BY <1>3 DEF Dispose, CancelTimer, Cancelled
  <2>2. /\ UNCHANGED made /\ current \in 1..made
        /\ owner'.of = current /\ owner'.batch = pending[current]
        /\ owner'.at = IF pending[current] = <<>> THEN "close" ELSE "drain"
    BY <1>0, <1>3 DEF Dispose, None
  <2> QED
    BY <2>1, <2>2 DEF Hands, NoTimer
<1>4. CASE OwnerWrites
  <2>1. /\ UNCHANGED <<made, timer>>
        /\ owner.at \in {"flush", "drain"}
        /\ owner' = Idle \/ owner' = [at |-> "close", of |-> owner.of, batch |-> <<>>]
    BY <1>4 DEF OwnerWrites, buffer
  <2>2. owner'.batch = <<>> /\ (owner'.at # "idle" => owner'.of = owner.of)
    BY <2>1 DEF Idle
  <2> QED
    BY <2>1, <2>2 DEF Hands
<1>5. CASE OwnerRefused
  <2>1. /\ UNCHANGED <<made, timer>>
        /\ owner.at \in {"flush", "drain"}
        /\ owner'.of = owner.of /\ owner'.at \in {"flushFailed", "drainFailed"}
    BY <1>5 DEF OwnerRefused, buffer, TypeOK
  <2> QED
    BY <2>1 DEF Hands
<1>6. CASE OwnerPutsBack
  BY <1>6 DEF OwnerPutsBack, Idle, Hands
<1>7. CASE CloseSink
  BY <1>7 DEF CloseSink, Idle, Hands
<1>8. ASSUME NEW t \in Timer, Fires(t)
      PROVE  Hands'
  <2>1. /\ UNCHANGED <<made, owner>>
        /\ timer[t].at = "armed"
        /\ timer'[t].of = timer[t].of /\ timer'[t].batch = timer[t].batch
        /\ \A u \in Timer \ {t} : timer'[u] = timer[u]
    BY <1>0, <1>8 DEF Fires, Goes, buffer
  <2> QED
    BY <2>1 DEF Hands
<1>9. ASSUME NEW t \in Timer, Takes(t)
      PROVE  Hands'
  <2>1. /\ UNCHANGED <<made, owner>>
        /\ timer[t].at = "fired"
        /\ \A u \in Timer \ {t} : timer'[u] = timer[u]
        /\ \/ timer'[t] = NoTimer
           \/ timer'[t].of = timer[t].of /\ timer'[t].at = "write"
    BY <1>0, <1>9 DEF Takes
  <2> QED
    BY <2>1 DEF Hands, NoTimer
<1>10. ASSUME NEW t \in Timer, TimerWrites(t)
       PROVE  Hands'
  <2>1. /\ UNCHANGED <<made, owner>>
        /\ timer[t].at = "write"
        /\ timer'[t].of = timer[t].of /\ timer'[t].batch = <<>>
        /\ \A u \in Timer \ {t} : timer'[u] = timer[u]
    BY <1>0, <1>10 DEF TimerWrites, buffer
  <2> QED
    BY <2>1 DEF Hands
<1>11. ASSUME NEW t \in Timer, TimerRefused(t)
       PROVE  Hands'
  <2>1. /\ UNCHANGED <<made, owner>>
        /\ timer[t].at = "write" /\ timer'[t].at = "failed"
        /\ timer'[t].of = timer[t].of
        /\ \A u \in Timer \ {t} : timer'[u] = timer[u]
    BY <1>0, <1>11 DEF TimerRefused, Goes, buffer
  <2> QED
    BY <2>1 DEF Hands
<1>12. ASSUME NEW t \in Timer, TimerPutsBack(t)
       PROVE  Hands'
  <2>1. /\ UNCHANGED <<made, owner>>
        /\ timer[t].at = "failed"
        /\ timer'[t].of = timer[t].of /\ timer'[t].batch = <<>>
        /\ \A u \in Timer \ {t} : timer'[u] = timer[u]
    BY <1>0, <1>12 DEF TimerPutsBack
  <2> QED
    BY <2>1 DEF Hands
<1>13. ASSUME NEW t \in Timer, Releases(t)
       PROVE  Hands'
  <2>1. /\ UNCHANGED <<made, owner>>
        /\ timer[t].at \in {"wrote", "notify"}
        /\ \A u \in Timer \ {t} : timer'[u] = timer[u]
        /\ timer'[t] \in {[timer[t] EXCEPT !.at = "rearm"], NoTimer}
    BY <1>0, <1>13 DEF Releases
  <2>2. \/ timer'[t] = NoTimer
        \/ timer'[t].of = timer[t].of /\ timer'[t].batch = timer[t].batch
    BY <1>0, <2>1
  <2> QED
    BY <2>1, <2>2 DEF Hands, NoTimer
<1>14. ASSUME NEW t \in Timer, Rearms(t)
       PROVE  Hands'
  <2>1. /\ UNCHANGED <<made, owner>>
        /\ timer[t].at = "rearm"
        /\ \A u \in Timer \ {t} : timer'[u] = timer[u]
        /\ timer'[t] \in {[at |-> "armed", of |-> timer[t].of, batch |-> <<>>], NoTimer}
    BY <1>0, <1>14 DEF Rearms, Arm
  <2> QED
    BY <2>1 DEF Hands, NoTimer
<1>15. CASE UNCHANGED vars
  BY <1>15 DEF vars, buffer, Hands
<1> QED
  BY <1>1, <1>2, <1>3, <1>4, <1>5, <1>6, <1>7, <1>8, <1>9, <1>10, <1>11, <1>12, <1>13, <1>14,
     <1>15 DEF Next, Owner, Proceed, Thread

LEMMA ShapeStep == Shape /\ [Next]_vars => Shape'
BY TypeStep, HandsStep DEF Shape

\* TypeOK holds whatever the disk refuses, for every number of events, buffers
\* and timers (write_behind.py).
THEOREM TypeCorrect == Spec => []TypeOK
<1>1. Init => Shape
  BY InitShape
<1>2. Shape /\ [Next]_vars => Shape'
  BY ShapeStep
<1>3. Shape => TypeOK
  BY DEF Shape
<1> QED
  BY <1>1, <1>2, <1>3, PTL DEF Spec

-----------------------------------------------------------------------------
(* Closed buffers and flushes in progress                                  *)

LEMMA EntryStep ==
  ASSUME Shape, Entry, [Next]_vars
  PROVE  Entry'
<1> USE WriteBehindAssumption DEF Shape
<1>0. /\ made \in Nat /\ current \in 0..made /\ made' \in Nat
      /\ closed \in [Buffer -> BOOLEAN] /\ pending \in [Buffer -> Seq(Event)]
  <2>1. TypeOK'
    BY TypeStep
  <2> QED
    BY <2>1 DEF TypeOK
<1>1. ASSUME UNCHANGED <<current, made, closed>>,
             NEW b \in Buffer, b <= made, \A c \in Buffer \ {b} : pending'[c] = pending[c]
      PROVE  Entry'
  BY <1>0, <1>1 DEF Entry, Buffer
<1>2. ASSUME UNCHANGED <<current, made, closed, pending>>
      PROVE  Entry'
  BY <1>2 DEF Entry
<1>3. CASE Enqueue
  <2> DEFINE b == IF current = None THEN made + 1 ELSE current
  <2>1. /\ current' = b /\ made' = (IF current = None THEN b ELSE made)
        /\ closed' = closed
        /\ \A c \in Buffer \ {b} : pending'[c] = pending[c]
    BY <1>0, <1>3 DEF Enqueue
  <2> QED
    BY <1>0, <2>1 DEF Entry, Buffer, None
<1>4. CASE Flush
  <2>1. current \in Buffer /\ current <= made
    BY <1>0, <1>4 DEF Flush, None, Buffer, TypeOK
  <2> QED
    BY <1>0, <1>1, <1>4, <2>1 DEF Flush
<1>5. CASE Dispose
  <2>1. current \in Buffer /\ closed' = [closed EXCEPT ![current] = TRUE]
    BY <1>0, <1>5 DEF Dispose, None, Buffer, TypeOK
  <2>2. made' = made /\ \A c \in Buffer \ {current} : pending'[c] = pending[c]
    BY <1>0, <1>5 DEF Dispose
  <2> QED
    BY <1>0, <2>1, <2>2 DEF Entry
<1>6. CASE OwnerPutsBack
  <2>1. owner.of \in Buffer /\ owner.of <= made
    <3>1. owner.at # "idle" /\ made \in 0..MaxBuffers
      BY <1>6 DEF OwnerPutsBack, TypeOK
    <3> QED
      BY <3>1 DEF Hands, Buffer
  <2> QED
    BY <1>0, <1>1, <1>6, <2>1 DEF OwnerPutsBack
<1>7. ASSUME NEW t \in Timer, Takes(t) \/ TimerPutsBack(t)
      PROVE  Entry'
  <2>1. timer[t].of \in Buffer /\ timer[t].of <= made
    BY <1>0, <1>7 DEF Takes, TimerPutsBack, Hands, Buffer, TypeOK
  <2>2. UNCHANGED <<current, made, closed>>
    BY <1>7 DEF Takes, TimerPutsBack
  <2>3. \A c \in Buffer \ {timer[t].of} : pending'[c] = pending[c]
    BY <1>0, <1>7 DEF Takes, TimerPutsBack
  <2> QED
    BY <1>1, <2>1, <2>2, <2>3
<1>8. CASE OwnerWrites \/ OwnerRefused \/ CloseSink
  BY <1>2, <1>8 DEF OwnerWrites, OwnerRefused, CloseSink, buffer
<1>9. ASSUME NEW t \in Timer,
             Fires(t) \/ TimerWrites(t) \/ TimerRefused(t) \/ Releases(t) \/ Rearms(t)
      PROVE  Entry'
  BY <1>2, <1>9 DEF Fires, TimerWrites, TimerRefused, Releases, Rearms, buffer
<1>10. CASE UNCHANGED vars
  BY <1>2, <1>10 DEF vars, buffer
<1> QED
  BY <1>3, <1>4, <1>5, <1>6, <1>7, <1>8, <1>9, <1>10 DEF Next, Owner, Proceed, Thread

LEMMA DrainingStep ==
  ASSUME Shape, Draining, [Next]_vars
  PROVE  Draining'
<1> USE WriteBehindAssumption DEF Shape
<1>0. /\ current \in 0..made /\ paused \in [Buffer -> BOOLEAN]
      /\ pending \in [Buffer -> Seq(Event)]
      /\ owner \in [at : OwnerPlace, of : 0..MaxBuffers, batch : Seq(Event)]
  BY DEF TypeOK
<1>1. CASE Enqueue
  BY <1>1 DEF Enqueue, Draining, Idle
<1>2. CASE Flush
  <2>1. /\ current \in Buffer /\ owner = Idle /\ current' = current
        /\ pending' = [pending EXCEPT ![current] = <<>>]
        /\ owner' = owner \/ owner'.of = current
    BY <1>0, <1>2 DEF Flush, None, Buffer, TypeOK
  <2> QED
    BY <1>0, <2>1 DEF Draining, Idle
<1>3. CASE Dispose
  BY <1>3 DEF Dispose, Draining
<1>4. CASE OwnerWrites
  <2>1. owner'.at \in {"idle", "close"}
    BY <1>4 DEF OwnerWrites, Idle
  <2> QED
    BY <2>1 DEF Draining
<1>5. CASE OwnerRefused
  <2>1. /\ owner'.of = owner.of /\ UNCHANGED <<current, pending, paused>>
        /\ owner'.at = "flushFailed" => owner.at = "flush"
        /\ owner'.at # "flush"
    BY <1>0, <1>5 DEF OwnerRefused, buffer
  <2> QED
    BY <2>1 DEF Draining
<1>6. CASE OwnerPutsBack \/ CloseSink
  <2>1. owner' = Idle
    BY <1>6 DEF OwnerPutsBack, CloseSink
  <2> QED
    BY <2>1 DEF Draining, Idle
<1>7. ASSUME NEW t \in Timer, Takes(t)
      PROVE  Draining'
  <2>1. /\ UNCHANGED <<current, owner, paused>>
        /\ \A b \in Buffer : pending'[b] = pending[b] \/ pending'[b] = <<>>
    BY <1>0, <1>7 DEF Takes
  <2>2. owner.at # "idle" => owner.of \in Buffer
    BY DEF Hands, TypeOK, Buffer
  <2> QED
    BY <2>1, <2>2 DEF Draining
<1>8. ASSUME NEW t \in Timer, TimerPutsBack(t)
      PROVE  Draining'
  <2>1. /\ UNCHANGED <<current, owner>>
        /\ \A b \in Buffer : (pending'[b] = pending[b] /\ paused'[b] = paused[b]) \/ paused'[b]
    BY <1>0, <1>8 DEF TimerPutsBack
  <2>2. owner.at # "idle" => owner.of \in Buffer
    BY DEF Hands, TypeOK, Buffer
  <2> QED
    BY <2>1, <2>2 DEF Draining
<1>9. ASSUME NEW t \in Timer,
             Fires(t) \/ TimerWrites(t) \/ TimerRefused(t) \/ Releases(t) \/ Rearms(t)
      PROVE  Draining'
  BY <1>9 DEF Fires, TimerWrites, TimerRefused, Releases, Rearms, buffer, Draining
<1>10. CASE UNCHANGED vars
  BY <1>10 DEF vars, buffer, Draining
<1> QED
  BY <1>1, <1>2, <1>3, <1>4, <1>5, <1>6, <1>7, <1>8, <1>9, <1>10
     DEF Next, Owner, Proceed, Thread

-----------------------------------------------------------------------------
(* No event is dropped                                                     *)

Waits(n) == \E b \in Buffer : Has(pending[b], n)
Kept(n) == OnDisk(n) \/ WithTimer(n) \/ Has(owner.batch, n) \/ Waits(n)

\* A write that fails adds the batch to the file or leaves it alone.
LEMMA RefusedKeeps ==
  ASSUME TypeOK, NEW b, NEW batch \in Seq(Event), Refused(b, batch), NEW n, OnDisk(n)
  PROVE  OnDisk(n)'
<1>1. file \in Seq(Event) /\ (file' = file \/ file' = file \o batch)
  BY DEF TypeOK, Refused, disk
<1>2. Has(file, n) => Has(file \o batch, n)
  BY <1>1, HasBoth
<1> QED
  BY <1>1, <1>2 DEF OnDisk

LEMMA KeptStep ==
  ASSUME Shape, [Next]_vars, NEW n \in 1..committed, Kept(n)
  PROVE  Kept(n)'
<1> USE WriteBehindAssumption DEF Shape
<1>0. /\ current \in 0..made /\ file \in Seq(Event) /\ pending \in [Buffer -> Seq(Event)]
      /\ timer \in [Timer -> [at : TimerPlace, of : 0..MaxBuffers, batch : Seq(Event)]]
      /\ owner \in [at : OwnerPlace, of : 0..MaxBuffers, batch : Seq(Event)]
      /\ made \in 0..MaxBuffers
  BY DEF TypeOK
<1>a. ASSUME \A t \in Timer : Has(timer[t].batch, n) => Has(timer'[t].batch, n)
      PROVE  WithTimer(n) => WithTimer(n)'
  BY <1>a DEF WithTimer
<1>b. ASSUME \A b \in Buffer : Has(pending[b], n) => Has(pending'[b], n)
      PROVE  Waits(n) => Waits(n)'
  BY <1>b DEF Waits
<1>1. CASE Enqueue
  <2> DEFINE b == IF current = None THEN made + 1 ELSE current
  <2>1. \A t \in Timer : Has(timer[t].batch, n) => Has(timer'[t].batch, n)
    <3> SUFFICES ASSUME NEW t \in Timer, Has(timer[t].batch, n)
                 PROVE  Has(timer'[t].batch, n)
      OBVIOUS
    <3>1. timer[t].at # "off"
      BY HasNothing DEF Hands
    <3>2. timer'[t] = timer[t]
      BY <1>0, <1>1, <3>1 DEF Enqueue, Arm, NewTimer
    <3> QED
      BY <3>2
  <2>2. \A c \in Buffer : Has(pending[c], n) => Has(pending'[c], n)
    <3>1. committed + 1 \in Event
      BY <1>1 DEF Enqueue, Event, TypeOK
    <3>2. pending' = [pending EXCEPT ![b] = Append(@, committed + 1)]
      BY <1>1 DEF Enqueue
    <3> HIDE DEF b
    <3> QED
      BY <1>0, <3>1, <3>2, HasAppended
  <2> QED
    BY <1>1, <1>a, <1>b, <2>1, <2>2 DEF Enqueue, disk, Kept, OnDisk
<1>2. ASSUME Flush \/ Dispose
      PROVE  Kept(n)'
  <2>1. /\ current \in Buffer /\ owner.batch = <<>> /\ UNCHANGED file
        /\ pending' = [pending EXCEPT ![current] = <<>>]
        /\ pending[current] = <<>> \/ owner'.batch = pending[current]
    <3>1. owner = Idle /\ current # None
      BY <1>2 DEF Flush, Dispose
    <3>2. current \in Buffer /\ owner.batch = <<>>
      BY <1>0, <3>1 DEF Idle, None, Buffer
    <3> QED
      BY <1>2, <3>2 DEF Flush, Dispose, disk
  <2>2. WithTimer(n) => WithTimer(n)'
    <3>1. ASSUME NEW t \in Timer, Has(timer[t].batch, n)
          PROVE  Has(timer'[t].batch, n)
      <4>1. timer[t].at # "armed"
        BY <3>1, HasNothing DEF Hands
      <4>2. timer'[t] = timer[t]
        BY <1>2, <4>1 DEF Flush, Dispose, CancelTimer, Cancelled
      <4> QED
        BY <3>1, <4>2
    <3> QED
      BY <1>a, <3>1
  <2>3. Waits(n) => Waits(n)' \/ Has(owner'.batch, n)
    BY <1>0, <2>1, HasNothing DEF Waits
  <2> QED
    BY <2>1, <2>2, <2>3, HasNothing DEF Kept, OnDisk
<1>3. CASE OwnerWrites
  <2>1. file' = file \o owner.batch /\ UNCHANGED <<pending, timer>>
    BY <1>3 DEF OwnerWrites, Written, buffer
  <2>2. OnDisk(n) \/ Has(owner.batch, n) => OnDisk(n)'
    BY <1>0, <2>1, HasBoth DEF OnDisk
  <2> QED
    BY <2>1, <2>2 DEF Kept, WithTimer, Waits
<1>4. CASE OwnerRefused
  <2>1. UNCHANGED <<pending, timer>> /\ owner'.batch = owner.batch
    BY <1>0, <1>4 DEF OwnerRefused, buffer
  <2>2. OnDisk(n) => OnDisk(n)'
    BY <1>0, <1>4, RefusedKeeps DEF OwnerRefused
  <2> QED
    BY <2>1, <2>2 DEF Kept, WithTimer, Waits
<1>5. CASE OwnerPutsBack
  <2>1. /\ UNCHANGED <<file, timer>> /\ owner.of \in Buffer
        /\ pending' = [pending EXCEPT ![owner.of] = owner.batch \o @]
    <3>1. owner.at # "idle"
      BY <1>5 DEF OwnerPutsBack
    <3>2. owner.of \in Buffer
      BY <1>0, <3>1 DEF Hands, Buffer
    <3> QED
      BY <1>5, <3>2 DEF OwnerPutsBack, disk
  <2>2. Has(owner.batch, n) => Has(pending'[owner.of], n)
    BY <1>0, <2>1, HasBoth
  <2>3. \A b \in Buffer : Has(pending[b], n) => Has(pending'[b], n)
    BY <1>0, <2>1, HasBoth
  <2> QED
    BY <1>b, <2>1, <2>2, <2>3 DEF Kept, OnDisk, WithTimer, Waits
<1>6. CASE CloseSink
  <2>1. owner.batch = <<>> /\ UNCHANGED <<file, timer, pending>>
    BY <1>6 DEF CloseSink, disk, Hands
  <2> QED
    BY <2>1, HasNothing DEF Kept, OnDisk, WithTimer, Waits
<1>7. ASSUME NEW t \in Timer, Fires(t) \/ Releases(t) \/ Rearms(t)
      PROVE  Kept(n)'
  <2>1. UNCHANGED <<file, owner, pending>>
    BY <1>7 DEF Fires, Releases, Rearms, buffer, disk
  <2>2. /\ \A u \in Timer \ {t} : timer'[u] = timer[u]
        /\ timer[t].batch = <<>>
    BY <1>0, <1>7 DEF Fires, Goes, Releases, Rearms, Arm, Hands
  <2>3. WithTimer(n) => WithTimer(n)'
    BY <1>a, <2>2, HasNothing
  <2> QED
    BY <2>1, <2>3 DEF Kept, OnDisk, Waits
<1>8. ASSUME NEW t \in Timer, Takes(t)
      PROVE  Kept(n)'
  <2> DEFINE b == timer[t].of
  <2>1. UNCHANGED <<file, owner>> /\ timer[t].batch = <<>>
    BY <1>8 DEF Takes, disk, Hands
  <2>2. CASE timer' = [timer EXCEPT ![t] = NoTimer] /\ UNCHANGED pending
    <3>1. WithTimer(n) => WithTimer(n)'
      BY <1>0, <1>a, <2>1, <2>2, HasNothing
    <3> QED
      BY <2>1, <2>2, <3>1 DEF Kept, OnDisk, Waits
  <2>3. CASE /\ timer' = [timer EXCEPT ![t].at = "write", ![t].batch = pending[b]]
             /\ pending' = [pending EXCEPT ![b] = <<>>]
    <3>1. /\ \A u \in Timer \ {t} : timer'[u] = timer[u]
          /\ timer'[t].batch = pending[b]
          /\ \A c \in Buffer : c # b => pending'[c] = pending[c]
      BY <1>0, <2>3
    <3>2. WithTimer(n) => WithTimer(n)'
      BY <1>a, <2>1, <3>1, HasNothing
    <3>3. Waits(n) => Waits(n)' \/ WithTimer(n)'
      BY <3>1 DEF Waits, WithTimer
    <3> QED
      BY <2>1, <3>2, <3>3 DEF Kept, OnDisk
  <2> QED
    BY <1>8, <2>2, <2>3 DEF Takes
<1>9. ASSUME NEW t \in Timer, TimerWrites(t)
      PROVE  Kept(n)'
  <2>1. /\ UNCHANGED <<owner, pending>> /\ file' = file \o timer[t].batch
        /\ \A u \in Timer \ {t} : timer'[u] = timer[u]
    BY <1>0, <1>9 DEF TimerWrites, Written, buffer
  <2>2. OnDisk(n) \/ Has(timer[t].batch, n) => OnDisk(n)'
    <3>1. timer[t].batch \in Seq(Event)
      BY <1>0
    <3> QED
      BY <1>0, <2>1, <3>1, HasBoth DEF OnDisk
  <2>3. WithTimer(n) => WithTimer(n)' \/ OnDisk(n)'
    BY <2>1, <2>2 DEF WithTimer
  <2> QED
    BY <2>1, <2>2, <2>3 DEF Kept, Waits
<1>10. ASSUME NEW t \in Timer, TimerRefused(t)
       PROVE  Kept(n)'
  <2>1. /\ UNCHANGED <<owner, pending>>
        /\ \A u \in Timer : timer'[u].batch = timer[u].batch
    BY <1>0, <1>10 DEF TimerRefused, Goes, buffer
  <2>2. OnDisk(n) => OnDisk(n)'
    <3>1. timer[t].batch \in Seq(Event)
      BY <1>0
    <3> QED
      BY <1>10, <3>1, RefusedKeeps DEF TimerRefused
  <2>3. WithTimer(n) => WithTimer(n)'
    BY <1>a, <2>1
  <2> QED
    BY <2>1, <2>2, <2>3 DEF Kept, Waits
<1>11. ASSUME NEW t \in Timer, TimerPutsBack(t)
       PROVE  Kept(n)'
  <2> DEFINE b == timer[t].of
  <2>1. /\ UNCHANGED <<file, owner>> /\ b \in Buffer /\ timer[t].batch \in Seq(Event)
        /\ pending' = [pending EXCEPT ![b] = timer[t].batch \o @]
        /\ \A u \in Timer \ {t} : timer'[u] = timer[u]
    <3>1. timer[t].at # "off"
      BY <1>11 DEF TimerPutsBack
    <3>2. b \in Buffer
      BY <1>0, <3>1 DEF Hands, Buffer
    <3> QED
      BY <1>0, <1>11, <3>2 DEF TimerPutsBack, Retained, disk
  <2> HIDE DEF b
  <2>2. Has(timer[t].batch, n) => Has(pending'[b], n)
    BY <1>0, <2>1, HasBoth
  <2>3. \A c \in Buffer : Has(pending[c], n) => Has(pending'[c], n)
    BY <1>0, <2>1, HasBoth
  <2>4. WithTimer(n) => WithTimer(n)' \/ Waits(n)'
    BY <2>1, <2>2 DEF WithTimer, Waits
  <2> QED
    BY <1>b, <2>1, <2>3, <2>4 DEF Kept, OnDisk
<1>12. CASE UNCHANGED vars
  BY <1>12 DEF vars, buffer, disk, Kept, OnDisk, WithTimer, Waits
<1> QED
  BY <1>1, <1>2, <1>3, <1>4, <1>5, <1>6, <1>7, <1>8, <1>9, <1>10, <1>11, <1>12
     DEF Next, Owner, Proceed, Thread

\* An event just appended is pending.
LEMMA AppendedWaits ==
  ASSUME Shape, Enqueue, NEW n, n = committed + 1
  PROVE  Waits(n)'
<1> USE WriteBehindAssumption DEF Shape
<1> DEFINE b == IF current = None THEN made + 1 ELSE current
<1>1. b \in Buffer
  BY DEF Enqueue, TypeOK, None, Buffer
<1>2. n \in Event
  BY DEF Enqueue, TypeOK, Event
<1>3. /\ pending \in [Buffer -> Seq(Event)]
      /\ pending' = [pending EXCEPT ![b] = Append(@, committed + 1)]
  BY DEF Enqueue, TypeOK
<1> HIDE DEF b
<1>4. Has(pending'[b], n)
  BY <1>1, <1>2, <1>3, HasAppended
<1> QED
  BY <1>1, <1>4 DEF Waits

LEMMA AllKeptStep ==
  ASSUME Shape, KeptUntilWritten, [Next]_vars
  PROVE  KeptUntilWritten'
<1> USE WriteBehindAssumption
<1>1. committed \in Nat
  BY DEF Shape, TypeOK
<1>2. \A n \in 1..committed : Kept(n)
  BY DEF KeptUntilWritten, Kept, Waits
<1>3. \A n \in 1..committed : Kept(n)'
  BY <1>2, KeptStep
<1>4. CASE Enqueue
  <2>1. committed' = committed + 1
    BY <1>4 DEF Enqueue
  <2>2. ASSUME NEW n \in 1..committed'
        PROVE  Kept(n)'
    <3>1. CASE n \in 1..committed
      BY <1>3, <3>1
    <3>2. CASE n = committed + 1
      BY <1>4, <3>2, AppendedWaits DEF Kept
    <3> QED
      BY <1>1, <2>1, <3>1, <3>2
  <2> QED
    BY <2>2 DEF KeptUntilWritten, Kept, Waits
<1>5. CASE ~Enqueue
  <2>1. committed' = committed
    BY <1>5 DEF Next, Owner, Proceed, Thread, Flush, Dispose, OwnerWrites, OwnerRefused,
       OwnerPutsBack, CloseSink, Fires, Takes, TimerWrites, TimerRefused, TimerPutsBack,
       Releases, Rearms, session, vars
  <2> QED
    BY <1>3, <2>1 DEF KeptUntilWritten, Kept, Waits
<1> QED
  BY <1>4, <1>5

\* For every number of events, buffers and timers: an event is on disk, in a
\* writer's hands or pending, whatever fails (write_behind.py: _write_batch and
\* _on_timer_fired put a refused batch back in front).
THEOREM NothingDropped == Spec => []KeptUntilWritten
<1>1. Init => Shape /\ KeptUntilWritten
  <2>1. ASSUME Init
        PROVE  KeptUntilWritten
    BY <2>1 DEF Init, KeptUntilWritten
  <2> QED
    BY <2>1, InitShape
<1>2. Shape /\ KeptUntilWritten /\ [Next]_vars => Shape' /\ KeptUntilWritten'
  BY ShapeStep, AllKeptStep
<1> QED
  BY <1>1, <1>2, PTL DEF Spec

-----------------------------------------------------------------------------
(* One pair of hands                                                       *)

\* Where a batch may be: in the file, with the event loop, with a timer thread, in
\* a buffer.
Place ==
  {<<"file", 0>>, <<"owner", 0>>} \cup ({"timer"} \X Timer) \cup ({"buffer"} \X Buffer)

Holding ==
  [p \in Place |->
     IF p[1] = "file" THEN file
     ELSE IF p[1] = "owner" THEN owner.batch
     ELSE IF p[1] = "timer" THEN timer[p[2]].batch
     ELSE pending[p[2]]]

\* No event is in two places, or twice in one.
Spread(F) ==
  \A p, q \in Place : \A i \in 1..Len(F[p]), j \in 1..Len(F[q]) :
    F[p][i] = F[q][j] => p = q /\ i = j

\* No event of the future is anywhere.
Within(F, n) == \A p \in Place : \A i \in 1..Len(F[p]) : F[p][i] <= n

\* What a place outside P holds stays there or is forgotten.
Rest(F, G, P) == \A p \in Place \ P : G[p] \in {F[p], <<>>}

\* A batch goes from a to b, before or behind what is there, or in its place.
Moved(F, G, a, b) ==
  /\ G[a] = <<>>
  /\ G[b] \in {F[a] \o F[b], F[b] \o F[a], F[a]}
  /\ Rest(F, G, {a, b})

\* Event e goes to the end of b.
Added(F, G, b, e) == G[b] = Append(F[b], e) /\ Rest(F, G, {b})

Batched(F) == \A p \in Place : F[p] \in Seq(Event)

Once == fails = 0 => Spread(Holding) /\ Within(Holding, committed)

LEMMA Places ==
  /\ <<"file", 0>> \in Place /\ <<"owner", 0>> \in Place
  /\ \A t \in Timer : <<"timer", t>> \in Place
  /\ \A b \in Buffer : <<"buffer", b>> \in Place
  /\ \A p \in Place : \/ p = <<"file", 0>> \/ p = <<"owner", 0>>
                      \/ \E t \in Timer : p = <<"timer", t>>
                      \/ \E b \in Buffer : p = <<"buffer", b>>
BY DEF Place

LEMMA HoldingIs ==
  /\ Holding[<<"file", 0>>] = file /\ Holding[<<"owner", 0>>] = owner.batch
  /\ \A t \in Timer : Holding[<<"timer", t>>] = timer[t].batch
  /\ \A b \in Buffer : Holding[<<"buffer", b>>] = pending[b]
BY Places DEF Holding

LEMMA HoldingWillBe ==
  /\ Holding'[<<"file", 0>>] = file' /\ Holding'[<<"owner", 0>>] = owner'.batch
  /\ \A t \in Timer : Holding'[<<"timer", t>>] = timer'[t].batch
  /\ \A b \in Buffer : Holding'[<<"buffer", b>>] = pending'[b]
BY Places DEF Holding

LEMMA HoldingTypes ==
  ASSUME TypeOK
  PROVE  Batched(Holding)
<1>1. file \in Seq(Event) /\ owner.batch \in Seq(Event)
  BY DEF TypeOK
<1>2. \A t \in Timer : timer[t].batch \in Seq(Event)
  BY DEF TypeOK
<1>3. \A b \in Buffer : pending[b] \in Seq(Event)
  BY DEF TypeOK
<1> QED
  BY <1>1, <1>2, <1>3, Places, HoldingIs DEF Batched

\* Batch g is s followed by u.
InARow(g, s, u) == g = s \o u

\* Where each event of batch g, which is s followed by u, comes from.
Halves(g, s, u) ==
  \A i \in 1..Len(g) :
    /\ i <= Len(s) => i \in 1..Len(s) /\ g[i] = s[i]
    /\ i > Len(s) => i - Len(s) \in 1..Len(u) /\ g[i] = u[i - Len(s)]

LEMMA Concatenated ==
  ASSUME NEW s \in Seq(Event), NEW u \in Seq(Event), NEW g, InARow(g, s, u)
  PROVE  Len(s) \in Nat /\ Halves(g, s, u)
<1>1. /\ Len(g) = Len(s) + Len(u) /\ Len(s) \in Nat /\ Len(u) \in Nat
      /\ \A k \in 1..Len(s) : g[k] = s[k]
      /\ \A k \in 1..Len(u) : g[Len(s) + k] = u[k]
  BY DEF InARow
<1>2. ASSUME NEW i \in 1..Len(g), i > Len(s)
      PROVE  i - Len(s) \in 1..Len(u) /\ i = Len(s) + (i - Len(s))
  BY <1>1, <1>2
<1> QED
  BY <1>1, <1>2 DEF Halves

\* An event in a place has no second one.
LEMMA SpreadAt ==
  ASSUME NEW F, Spread(F), NEW p \in Place, NEW q \in Place,
         NEW i \in 1..Len(F[p]), NEW j \in 1..Len(F[q]), F[p][i] = F[q][j]
  PROVE  p = q /\ i = j
BY DEF Spread

\* Nothing moves, or what moves is forgotten.
LEMMA StaysSpread ==
  ASSUME NEW F, NEW G, NEW n, Spread(F), Within(F, n),
         Rest(F, G, {})
  PROVE  Spread(G) /\ Within(G, n)
<1>1. \A p \in Place : Len(G[p]) = 0 \/ G[p] = F[p]
  BY DEF Rest
<1>2. Within(G, n)
  BY <1>1 DEF Within
<1>3. Spread(G)
  BY <1>1 DEF Spread
<1> QED
  BY <1>2, <1>3

\* A batch on its way from place to place is still in one of them.
LEMMA MovesSpread ==
  ASSUME NEW F, NEW G, NEW n, Spread(F), Within(F, n),
         Batched(F), NEW a \in Place, NEW b \in Place, a # b, Moved(F, G, a, b)
  PROVE  Spread(G) /\ Within(G, n)
<1>1. /\ F[a] \in Seq(Event) /\ F[b] \in Seq(Event)
      /\ G[b] \in {F[a] \o F[b], F[b] \o F[a], F[a]}
  BY DEF Batched, Moved
<1>2. ASSUME NEW i \in 1..Len(G[b])
      PROVE  \E p \in {a, b} : \E k \in 1..Len(F[p]) : G[b][i] = F[p][k]
  <2>1. ASSUME NEW c \in {a, b}, NEW d \in {a, b}, InARow(G[b], F[c], F[d])
        PROVE  \E p \in {a, b} : \E k \in 1..Len(F[p]) : G[b][i] = F[p][k]
    <3>1. F[c] \in Seq(Event) /\ F[d] \in Seq(Event)
      BY <1>1, <2>1
    <3>2. Len(F[c]) \in Nat /\ Halves(G[b], F[c], F[d])
      BY <2>1, <3>1, Concatenated
    <3>3. \/ i \in 1..Len(F[c]) /\ G[b][i] = F[c][i]
          \/ i - Len(F[c]) \in 1..Len(F[d]) /\ G[b][i] = F[d][i - Len(F[c])]
      BY <1>2, <3>2 DEF Halves
    <3> QED
      BY <2>1, <3>3
  <2> QED
    BY <1>1, <1>2, <2>1 DEF InARow
<1>3. ASSUME NEW i \in 1..Len(G[b]), NEW j \in 1..Len(G[b]), G[b][i] = G[b][j]
      PROVE  i = j
  <2>1. CASE G[b] = F[a]
    <3>1. i \in 1..Len(F[a]) /\ j \in 1..Len(F[a]) /\ F[a][i] = F[a][j]
      BY <1>3, <2>1
    <3> QED
      BY <3>1, SpreadAt
  <2>2. ASSUME NEW c \in Place, NEW d \in Place, c # d, InARow(G[b], F[c], F[d])
        PROVE  i = j
    <3>0. F[c] \in Seq(Event) /\ F[d] \in Seq(Event)
      BY <2>2 DEF Batched
    <3>1. Len(F[c]) \in Nat /\ Halves(G[b], F[c], F[d])
      BY <2>2, <3>0, Concatenated
    <3>2. CASE i <= Len(F[c]) /\ j <= Len(F[c])
      <4>1. i \in 1..Len(F[c]) /\ j \in 1..Len(F[c]) /\ F[c][i] = F[c][j]
        BY <1>3, <3>1, <3>2 DEF Halves
      <4> QED
        BY <2>2, <4>1, SpreadAt
    <3>3. CASE i > Len(F[c]) /\ j > Len(F[c])
      <4>1. /\ i - Len(F[c]) \in 1..Len(F[d]) /\ j - Len(F[c]) \in 1..Len(F[d])
            /\ F[d][i - Len(F[c])] = F[d][j - Len(F[c])]
        BY <1>3, <3>1, <3>3 DEF Halves
      <4>2. i - Len(F[c]) = j - Len(F[c])
        BY <2>2, <4>1, SpreadAt
      <4> QED
        BY <3>1, <4>2
    <3>4. CASE i <= Len(F[c]) /\ j > Len(F[c])
      <4>1. /\ i \in 1..Len(F[c]) /\ j - Len(F[c]) \in 1..Len(F[d])
            /\ F[c][i] = F[d][j - Len(F[c])]
        BY <1>3, <3>1, <3>4 DEF Halves
      <4> QED
        BY <2>2, <4>1, SpreadAt
    <3>5. CASE i > Len(F[c]) /\ j <= Len(F[c])
      <4>1. /\ j \in 1..Len(F[c]) /\ i - Len(F[c]) \in 1..Len(F[d])
            /\ F[c][j] = F[d][i - Len(F[c])]
        BY <1>3, <3>1, <3>5 DEF Halves
      <4> QED
        BY <2>2, <4>1, SpreadAt
    <3> QED
      BY <3>1, <3>2, <3>3, <3>4, <3>5
  <2> QED
    BY <1>1, <2>1, <2>2 DEF InARow
<1>4. \A p \in Place \ {b} : Len(G[p]) = 0 \/ (G[p] = F[p] /\ p # a)
  BY DEF Moved, Rest
<1>5. Within(G, n)
  BY <1>2, <1>4 DEF Within
<1>6. ASSUME NEW p \in Place \ {b}, NEW i \in 1..Len(G[p]), NEW j \in 1..Len(G[b])
      PROVE  G[p][i] # G[b][j]
  <2>1. G[p] = F[p] /\ p # a /\ p # b
    BY <1>4, <1>6
  <2>2. PICK q \in {a, b} : \E k \in 1..Len(F[q]) : G[b][j] = F[q][k]
    BY <1>2, <1>6
  <2> QED
    BY <1>6, <2>1, <2>2 DEF Spread
<1>7. ASSUME NEW p \in Place \ {b}, NEW q \in Place \ {b},
             NEW i \in 1..Len(G[p]), NEW j \in 1..Len(G[q]), G[p][i] = G[q][j]
      PROVE  p = q /\ i = j
  <2>1. G[p] = F[p] /\ G[q] = F[q]
    BY <1>4, <1>7
  <2> QED
    BY <1>7, <2>1 DEF Spread
<1>8. Spread(G)
  BY <1>3, <1>6, <1>7 DEF Spread
<1> QED
  BY <1>5, <1>8

\* An event that is nowhere yet goes to the end of b.
LEMMA AppendsSpread ==
  ASSUME NEW F, NEW G, NEW n \in Nat, Spread(F), Within(F, n),
         Batched(F), NEW b \in Place, n + 1 \in Event, Added(F, G, b, n + 1)
  PROVE  Spread(G) /\ Within(G, n + 1)
<1>1. \A p \in Place \ {b} : Len(G[p]) = 0 \/ G[p] = F[p]
  BY DEF Added, Rest
<1>2. /\ F[b] \in Seq(Event) /\ Len(F[b]) \in Nat /\ Len(G[b]) = Len(F[b]) + 1
      /\ G[b][Len(F[b]) + 1] = n + 1
      /\ \A i \in 1..Len(F[b]) : G[b][i] = F[b][i]
  BY DEF Added, Batched
<1>3. \A p \in Place : \A i \in 1..Len(F[p]) : F[p][i] \in Nat /\ F[p][i] <= n
  BY WriteBehindAssumption DEF Within, Event, Batched
<1>4. ASSUME NEW p \in Place, NEW i \in 1..Len(G[p])
      PROVE  \/ i \in 1..Len(F[p]) /\ G[p][i] = F[p][i]
             \/ p = b /\ i = Len(F[b]) + 1 /\ G[p][i] = n + 1
  <2>1. CASE p # b
    BY <1>1, <1>4, <2>1
  <2>2. CASE p = b
    <3>1. i \in 1..Len(F[b]) \/ i = Len(F[b]) + 1
      BY <1>2, <1>4, <2>2
    <3> QED
      BY <1>2, <2>2, <3>1
  <2> QED
    BY <2>1, <2>2
<1>5. Within(G, n + 1)
  <2> SUFFICES ASSUME NEW p \in Place, NEW i \in 1..Len(G[p]) PROVE G[p][i] <= n + 1
    BY DEF Within
  <2>1. CASE i \in 1..Len(F[p]) /\ G[p][i] = F[p][i]
    BY <1>3, <2>1
  <2> QED
    BY <1>4, <2>1
<1>6. ASSUME NEW p \in Place, NEW q \in Place,
             NEW i \in 1..Len(G[p]), NEW j \in 1..Len(G[q]), G[p][i] = G[q][j]
      PROVE  p = q /\ i = j
  <2>1. CASE /\ i \in 1..Len(F[p]) /\ G[p][i] = F[p][i]
             /\ j \in 1..Len(F[q]) /\ G[q][j] = F[q][j]
    <3>1. F[p][i] = F[q][j]
      BY <1>6, <2>1
    <3> QED
      BY <2>1, <3>1, SpreadAt
  <2> QED
    BY <1>3, <1>4, <1>6, <2>1
<1> QED
  BY <1>5, <1>6 DEF Spread

\* What a step leaves where it was.
LEMMA HoldingRest ==
  ASSUME NEW P,
         <<"file", 0>> \in P \/ file' = file,
         <<"owner", 0>> \in P \/ owner'.batch \in {owner.batch, <<>>},
         \A t \in Timer : <<"timer", t>> \in P \/ timer'[t].batch \in {timer[t].batch, <<>>},
         \A b \in Buffer : <<"buffer", b>> \in P \/ pending'[b] = pending[b]
  PROVE  Rest(Holding, Holding', P)
<1> SUFFICES ASSUME NEW p \in Place \ P PROVE Holding'[p] \in {Holding[p], <<>>}
  BY DEF Rest
<1>1. CASE p = <<"file", 0>>
  BY <1>1, HoldingIs, HoldingWillBe
<1>2. CASE p = <<"owner", 0>>
  BY <1>2, HoldingIs, HoldingWillBe
<1>3. ASSUME NEW t \in Timer, p = <<"timer", t>> PROVE Holding'[p] \in {Holding[p], <<>>}
  BY <1>3, HoldingIs, HoldingWillBe
<1>4. ASSUME NEW b \in Buffer, p = <<"buffer", b>> PROVE Holding'[p] \in {Holding[p], <<>>}
  BY <1>4, HoldingIs, HoldingWillBe
<1> QED
  BY <1>1, <1>2, <1>3, <1>4, Places

\* The disk counts every write it refuses.
LEMMA FailsGrow ==
  ASSUME Shape, [Next]_vars
  PROVE  fails <= fails'
<1>0. fails \in Nat
  BY WriteBehindAssumption DEF Shape, TypeOK
<1>1. ASSUME UNCHANGED fails
      PROVE  fails <= fails'
  BY <1>0, <1>1
<1>2. ASSUME NEW b, NEW batch, Refused(b, batch) \/ Written(b, batch)
      PROVE  fails <= fails'
  BY <1>0, <1>2 DEF Refused, Written, disk
<1>3. CASE UNCHANGED disk
  BY <1>1, <1>3 DEF disk
<1>4. CASE Owner
  BY <1>2, <1>3, <1>4
  DEF Owner, Proceed, Enqueue, Flush, Dispose, OwnerWrites, OwnerRefused, OwnerPutsBack, CloseSink
<1>5. ASSUME NEW t \in Timer, Thread(t)
      PROVE  fails <= fails'
  BY <1>2, <1>3, <1>5
  DEF Thread, Fires, Takes, TimerWrites, TimerRefused, TimerPutsBack, Releases, Rearms
<1> QED
  BY <1>3, <1>4, <1>5 DEF Next, vars

\* Every step moves one batch, or none.
LEMMA OnceStep ==
  ASSUME Shape, Once, [Next]_vars
  PROVE  Once'
<1> USE WriteBehindAssumption DEF Shape
<1>0. /\ current \in 0..made /\ file \in Seq(Event) /\ pending \in [Buffer -> Seq(Event)]
      /\ timer \in [Timer -> [at : TimerPlace, of : 0..MaxBuffers, batch : Seq(Event)]]
      /\ owner \in [at : OwnerPlace, of : 0..MaxBuffers, batch : Seq(Event)]
      /\ made \in 0..MaxBuffers /\ fails \in Nat /\ committed \in Nat
      /\ Batched(Holding)
  BY HoldingTypes DEF TypeOK
<1> SUFFICES ASSUME fails' = 0 PROVE Spread(Holding') /\ Within(Holding', committed')
  BY DEF Once
<1>00. fails = 0
  BY <1>0, FailsGrow
<1>a. Spread(Holding) /\ Within(Holding, committed)
  BY <1>00 DEF Once
<1>b. ASSUME UNCHANGED <<committed, file>>,
             owner'.batch \in {owner.batch, <<>>},
             \A t \in Timer : timer'[t].batch \in {timer[t].batch, <<>>},
             \A b \in Buffer : pending'[b] = pending[b]
      PROVE  Spread(Holding') /\ Within(Holding', committed')
  <2>1. Rest(Holding, Holding', {})
    BY <1>b, HoldingRest
  <2> QED
    BY <1>a, <1>b, <2>1, StaysSpread
<1>1. CASE Enqueue
  <2> DEFINE b == IF current = None THEN made + 1 ELSE current
  <2>1. b \in Buffer /\ committed + 1 \in Event
    BY <1>0, <1>1 DEF Enqueue, None, Buffer, Event
  <2>2. /\ UNCHANGED <<file, owner>> /\ committed' = committed + 1
        /\ pending' = [pending EXCEPT ![b] = Append(@, committed + 1)]
    BY <1>1 DEF Enqueue, disk
  <2>3. \A t \in Timer : timer'[t].batch \in {timer[t].batch, <<>>}
    <3> DEFINE Armed(t) == timer' = [timer EXCEPT ![t] = [at |-> "armed", of |-> b, batch |-> <<>>]]
    <3>1. CASE pending[b] = <<>> /\ ~active[b] /\ ~paused[b]
      <4>1. PICK t \in Timer : Armed(t)
        BY <1>1, <3>1 DEF Enqueue, NewTimer, Arm
      <4> HIDE DEF b
      <4> QED
        BY <1>0, <4>1
    <3>2. CASE ~(pending[b] = <<>> /\ ~active[b] /\ ~paused[b])
      BY <1>1, <3>2 DEF Enqueue
    <3> QED
      BY <3>1, <3>2
  <2> HIDE DEF b
  <2>4. Holding'[<<"buffer", b>>] = Append(Holding[<<"buffer", b>>], committed + 1)
    BY <1>0, <2>1, <2>2, HoldingIs, HoldingWillBe
  <2>5. Rest(Holding, Holding', {<<"buffer", b>>})
    BY <1>0, <2>1, <2>2, <2>3, HoldingRest
  <2> QED
    BY <1>0, <1>a, <2>1, <2>2, <2>4, <2>5, Places, AppendsSpread DEF Added
<1>2. ASSUME Flush \/ Dispose
      PROVE  Spread(Holding') /\ Within(Holding', committed')
  <2>1. current \in Buffer
    BY <1>0, <1>2 DEF Flush, Dispose, None, Buffer
  <2>2. /\ UNCHANGED <<file, committed>>
        /\ pending' = [pending EXCEPT ![current] = <<>>]
        /\ owner'.batch = pending[current]
    BY <1>2, <2>1 DEF Flush, Dispose, Idle, disk, session
  <2>3. \A t \in Timer : timer'[t].batch \in {timer[t].batch, <<>>}
    BY <1>0, <1>2 DEF Flush, Dispose, CancelTimer, Cancelled, NoTimer
  <2>4. /\ Holding'[<<"buffer", current>>] = <<>>
        /\ Holding'[<<"owner", 0>>] = Holding[<<"buffer", current>>]
    BY <1>0, <2>1, <2>2, HoldingIs, HoldingWillBe
  <2>5. Rest(Holding, Holding', {<<"buffer", current>>, <<"owner", 0>>})
    BY <1>0, <2>1, <2>2, <2>3, HoldingRest
  <2>6. <<"buffer", current>> # <<"owner", 0>>
    OBVIOUS
  <2> QED
    BY <1>0, <1>a, <2>1, <2>2, <2>4, <2>5, <2>6, Places, MovesSpread DEF Moved
<1>3. CASE OwnerWrites
  <2>1. /\ file' = file \o owner.batch /\ UNCHANGED <<pending, timer, committed>>
        /\ owner'.batch = <<>> \/ owner' = Idle
    BY <1>3 DEF OwnerWrites, Written, buffer
  <2>2. owner'.batch = <<>>
    BY <2>1 DEF Idle
  <2>3. /\ Holding'[<<"owner", 0>>] = <<>>
        /\ Holding'[<<"file", 0>>] = Holding[<<"file", 0>>] \o Holding[<<"owner", 0>>]
    BY <2>1, <2>2, HoldingIs, HoldingWillBe
  <2>4. Rest(Holding, Holding', {<<"owner", 0>>, <<"file", 0>>})
    BY <2>1, HoldingRest
  <2>5. <<"owner", 0>> # <<"file", 0>>
    OBVIOUS
  <2> QED
    BY <1>0, <1>a, <2>1, <2>3, <2>4, <2>5, Places, MovesSpread DEF Moved
<1>4. CASE OwnerRefused
  <2>1. UNCHANGED <<pending, timer, committed>> /\ owner'.batch = owner.batch
    BY <1>0, <1>4 DEF OwnerRefused, buffer, session
  <2>2. UNCHANGED file
    BY <1>0, <1>00, <1>4 DEF OwnerRefused, Refused, disk
  <2> QED
    BY <1>b, <2>1, <2>2
<1>5. CASE OwnerPutsBack
  <2>1. owner.of \in Buffer
    BY <1>0, <1>5 DEF OwnerPutsBack, Hands, Buffer
  <2>2. /\ UNCHANGED <<file, timer, committed>> /\ owner'.batch = <<>>
        /\ pending' = [pending EXCEPT ![owner.of] = owner.batch \o @]
    BY <1>5 DEF OwnerPutsBack, disk, Idle
  <2>3. /\ Holding'[<<"owner", 0>>] = <<>>
        /\ Holding'[<<"buffer", owner.of>>] = Holding[<<"owner", 0>>] \o Holding[<<"buffer", owner.of>>]
    BY <1>0, <2>1, <2>2, HoldingIs, HoldingWillBe
  <2>4. Rest(Holding, Holding', {<<"owner", 0>>, <<"buffer", owner.of>>})
    BY <1>0, <2>1, <2>2, HoldingRest
  <2>5. <<"owner", 0>> # <<"buffer", owner.of>>
    OBVIOUS
  <2> QED
    BY <1>0, <1>a, <2>1, <2>2, <2>3, <2>4, <2>5, Places, MovesSpread DEF Moved
<1>6. CASE CloseSink
  <2>1. UNCHANGED <<file, timer, pending, committed>> /\ owner'.batch = <<>>
    BY <1>6 DEF CloseSink, disk, session, Idle
  <2> QED
    BY <1>b, <2>1
<1>7. ASSUME NEW t \in Timer, Fires(t) \/ Releases(t) \/ Rearms(t)
      PROVE  Spread(Holding') /\ Within(Holding', committed')
  <2>1. UNCHANGED <<file, owner, pending, committed>>
    BY <1>7 DEF Fires, Releases, Rearms, buffer, disk, session
  <2>2. \A u \in Timer : timer'[u].batch \in {timer[u].batch, <<>>}
    <3>1. CASE Fires(t)
      BY <1>0, <3>1 DEF Fires, Goes
    <3>2. CASE Releases(t)
      BY <1>0, <3>2 DEF Releases, NoTimer
    <3>3. CASE Rearms(t)
      <4>1. CASE timer' = [timer EXCEPT ![t] = [at |-> "armed", of |-> timer[t].of, batch |-> <<>>]]
        BY <1>0, <4>1
      <4>2. CASE timer' = [timer EXCEPT ![t] = NoTimer]
        BY <1>0, <4>2 DEF NoTimer
      <4> QED
        BY <3>3, <4>1, <4>2 DEF Rearms, Arm
    <3> QED
      BY <1>7, <3>1, <3>2, <3>3
  <2> QED
    BY <1>b, <2>1, <2>2
<1>8. ASSUME NEW t \in Timer, Takes(t)
      PROVE  Spread(Holding') /\ Within(Holding', committed')
  <2> DEFINE b == timer[t].of
  <2>1. UNCHANGED <<file, owner, committed>> /\ b \in Buffer
    BY <1>0, <1>8 DEF Takes, disk, session, Hands, Buffer
  <2>2. CASE timer' = [timer EXCEPT ![t] = NoTimer] /\ UNCHANGED pending
    <3>1. \A u \in Timer : timer'[u].batch \in {timer[u].batch, <<>>}
      BY <1>0, <2>2 DEF NoTimer
    <3> QED
      BY <1>b, <2>1, <2>2, <3>1
  <2>3. CASE /\ timer' = [timer EXCEPT ![t].at = "write", ![t].batch = pending[b]]
             /\ pending' = [pending EXCEPT ![b] = <<>>]
    <3>1. /\ \A u \in Timer \ {t} : timer'[u] = timer[u]
          /\ timer'[t].batch = pending[b] /\ pending'[b] = <<>>
          /\ \A c \in Buffer : c # b => pending'[c] = pending[c]
      BY <1>0, <2>1, <2>3
    <3> HIDE DEF b
    <3>2. /\ Holding'[<<"buffer", b>>] = <<>>
          /\ Holding'[<<"timer", t>>] = Holding[<<"buffer", b>>]
      BY <2>1, <3>1, HoldingIs, HoldingWillBe
    <3>3. Rest(Holding, Holding', {<<"buffer", b>>, <<"timer", t>>})
      BY <2>1, <3>1, HoldingRest
    <3>4. <<"buffer", b>> # <<"timer", t>>
      OBVIOUS
    <3> QED
      BY <1>0, <1>a, <2>1, <3>2, <3>3, <3>4, Places, MovesSpread DEF Moved
  <2> QED
    BY <1>8, <2>2, <2>3 DEF Takes
<1>9. ASSUME NEW t \in Timer, TimerWrites(t)
      PROVE  Spread(Holding') /\ Within(Holding', committed')
  <2>1. /\ UNCHANGED <<owner, pending, committed>> /\ file' = file \o timer[t].batch
        /\ timer'[t].batch = <<>> /\ \A u \in Timer \ {t} : timer'[u] = timer[u]
    BY <1>0, <1>9 DEF TimerWrites, Written, buffer, session
  <2>2. /\ Holding'[<<"timer", t>>] = <<>>
        /\ Holding'[<<"file", 0>>] = Holding[<<"file", 0>>] \o Holding[<<"timer", t>>]
    BY <2>1, HoldingIs, HoldingWillBe
  <2>3. Rest(Holding, Holding', {<<"timer", t>>, <<"file", 0>>})
    BY <2>1, HoldingRest
  <2>4. <<"timer", t>> # <<"file", 0>>
    OBVIOUS
  <2> QED
    BY <1>0, <1>a, <2>1, <2>2, <2>3, <2>4, Places, MovesSpread DEF Moved
<1>10. ASSUME NEW t \in Timer, TimerRefused(t)
       PROVE  Spread(Holding') /\ Within(Holding', committed')
  <2>1. /\ UNCHANGED <<owner, pending, committed>>
        /\ \A u \in Timer : timer'[u].batch = timer[u].batch
    BY <1>0, <1>10 DEF TimerRefused, Goes, buffer, session
  <2>2. UNCHANGED file
    BY <1>0, <1>00, <1>10 DEF TimerRefused, Refused, disk
  <2> QED
    BY <1>b, <2>1, <2>2
<1>11. ASSUME NEW t \in Timer, TimerPutsBack(t)
       PROVE  Spread(Holding') /\ Within(Holding', committed')
  <2> DEFINE b == timer[t].of
  <2>1. /\ UNCHANGED <<file, owner, committed>> /\ b \in Buffer
        /\ pending' = [pending EXCEPT ![b] = timer[t].batch \o @]
        /\ timer'[t].batch = <<>> /\ \A u \in Timer \ {t} : timer'[u] = timer[u]
    BY <1>0, <1>11 DEF TimerPutsBack, Retained, disk, session, Hands, Buffer
  <2> HIDE DEF b
  <2>2. /\ Holding'[<<"timer", t>>] = <<>>
        /\ Holding'[<<"buffer", b>>] = Holding[<<"timer", t>>] \o Holding[<<"buffer", b>>]
    BY <1>0, <2>1, HoldingIs, HoldingWillBe
  <2>3. Rest(Holding, Holding', {<<"timer", t>>, <<"buffer", b>>})
    BY <1>0, <2>1, HoldingRest
  <2>4. <<"timer", t>> # <<"buffer", b>>
    OBVIOUS
  <2> QED
    BY <1>0, <1>a, <2>1, <2>2, <2>3, <2>4, Places, MovesSpread DEF Moved
<1>12. CASE UNCHANGED vars
  BY <1>12, <1>b DEF vars, buffer, disk, session
<1> QED
  BY <1>1, <1>2, <1>3, <1>4, <1>5, <1>6, <1>7, <1>8, <1>9, <1>10, <1>11, <1>12
     DEF Next, Owner, Proceed, Thread

\* For every number of events, buffers and timers: until the disk refuses a write,
\* no event reaches the file twice, although the event loop, the timers and two
\* buffers of the run write it at the same time (write_behind.py: a batch is taken
\* and _pending emptied under one lock).
THEOREM NothingRepeated == Spec => []WrittenOnce
<1>1. Init => Shape /\ Once
  <2> SUFFICES ASSUME Init PROVE Once
    BY InitShape
  <2>1. \A p \in Place : Holding[p] = <<>>
    BY Places, HoldingIs DEF Init, NoTimer, Idle
  <2> QED
    BY <2>1 DEF Once, Spread, Within
<1>2. Shape /\ Once /\ [Next]_vars => Shape' /\ Once'
  BY ShapeStep, OnceStep
<1>3. Once => WrittenOnce
  BY Places, HoldingIs DEF Once, Spread, WrittenOnce
<1> QED
  BY <1>1, <1>2, <1>3, PTL DEF Spec

-----------------------------------------------------------------------------
(* What a flush stands for                                                 *)

Accounted(n) == OnDisk(n) \/ WithTimer(n) \/ SetBack(n) \/ Abandoned(n)

\* An event that only a flushed buffer could still hold is accounted for: the
\* registry's buffer is empty, or what it holds was put back by a timer.
LEMMA NoneElsewhere ==
  ASSUME Shape, Entry, NEW n, Kept(n), ~Has(owner.batch, n), current # None,
         pending[current] = <<>> \/ paused[current]
  PROVE  Accounted(n)
<1> SUFFICES ASSUME NEW b \in Buffer, Has(pending[b], n)
             PROVE  SetBack(n) \/ Abandoned(n)
  BY DEF Kept, Waits, Accounted
<1>1. CASE b = current
  BY <1>1, HasNothing DEF SetBack
<1>2. CASE b # current
  <2>1. closed[b]
    BY <1>2, HasNothing DEF Entry
  <2> QED
    BY <2>1 DEF Abandoned
<1> QED
  BY <1>1, <1>2

LEMMA CheckpointStep ==
  ASSUME Shape, Entry, Draining, KeptUntilWritten, [Next]_vars, vouched' # vouched,
         NEW n \in 1..vouched'
  PROVE  Accounted(n)'
<1> USE WriteBehindAssumption DEF Shape
<1>0. /\ current \in 0..made /\ file \in Seq(Event) /\ committed \in Nat
      /\ pending \in [Buffer -> Seq(Event)] /\ paused \in [Buffer -> BOOLEAN]
      /\ owner.batch \in Seq(Event)
  BY DEF TypeOK
<1>1. \A m \in 1..committed : Kept(m)
  BY DEF KeptUntilWritten, Kept, Waits
<1>2. CASE Flush
  <2>1. /\ pending[current] = <<>> /\ current # None /\ owner.batch = <<>>
        /\ vouched' = committed
    BY <1>2 DEF Flush, Idle
  <2>2. Accounted(n)
    BY <1>1, <2>1, HasNothing, NoneElsewhere
  <2>3. /\ UNCHANGED <<file, closed>>
        /\ pending' = pending
        /\ \A b \in Buffer : paused[b] => paused'[b] \/ b = current
    BY <1>0, <1>2, <2>1 DEF Flush, disk
  <2>4. \A t \in Timer : Has(timer[t].batch, n) => Has(timer'[t].batch, n)
    <3>1. ASSUME NEW t \in Timer, Has(timer[t].batch, n)
          PROVE  Has(timer'[t].batch, n)
      <4>1. timer[t].at # "armed"
        BY <3>1, HasNothing DEF Hands
      <4>2. timer'[t] = timer[t]
        BY <1>2, <4>1 DEF Flush, CancelTimer, Cancelled
      <4> QED
        BY <3>1, <4>2
    <3> QED
      BY <3>1
  <2>5. SetBack(n) => SetBack(n)'
    BY <2>1, <2>3, HasNothing DEF SetBack
  <2> QED
    BY <2>2, <2>3, <2>4, <2>5 DEF Accounted, OnDisk, WithTimer, Abandoned
<1>3. CASE OwnerWrites
  <2>1. /\ owner.at = "flush" /\ vouched' = committed
        /\ file' = file \o owner.batch /\ UNCHANGED <<timer, buffer>>
    BY <1>3 DEF OwnerWrites, Written
  <2>2. current # None /\ (pending[current] = <<>> \/ paused[current])
    BY <1>0, <2>1 DEF Draining, Hands, None
  <2>3. Has(owner.batch, n) \/ OnDisk(n) => OnDisk(n)'
    BY <1>0, <2>1, HasBoth DEF OnDisk
  <2>4. CASE Has(owner.batch, n)
    BY <2>3, <2>4 DEF Accounted
  <2>5. CASE ~Has(owner.batch, n)
    <3>1. Accounted(n)
      BY <1>1, <2>1, <2>2, <2>5, NoneElsewhere
    <3> QED
      BY <2>1, <2>3, <3>1 DEF Accounted, WithTimer, SetBack, Abandoned, buffer
  <2> QED
    BY <2>4, <2>5
<1>4. CASE ~Flush /\ ~OwnerWrites
  <2>1. UNCHANGED vouched
    BY <1>4 DEF Next, Owner, Proceed, Thread, Enqueue, Dispose, OwnerRefused, Reported,
       OwnerPutsBack, CloseSink, Fires, Takes, TimerWrites, TimerRefused, TimerPutsBack,
       Releases, Rearms, session, vars
  <2> QED
    BY <2>1
<1> QED
  BY <1>2, <1>3, <1>4

\* For every number of events, buffers and timers: what a flush that reports
\* success leaves off the disk is in the hands of a timer, set back by one, or
\* of a closed session (checkpoint_policy.py, Session.flush).
THEOREM FlushVouches == Spec => CheckpointHolds
<1> DEFINE Inv == Shape /\ Entry /\ Draining /\ KeptUntilWritten
<1>1. Init => Inv
  <2>1. ASSUME Init
        PROVE  Entry /\ Draining /\ KeptUntilWritten
    BY <2>1, WriteBehindAssumption
       DEF Init, Entry, Draining, KeptUntilWritten, Idle, None, Buffer
  <2> QED
    BY <2>1, InitShape
<1>2. Inv /\ [Next]_vars => Inv'
  BY ShapeStep, EntryStep, DrainingStep, AllKeptStep
<1>3. Inv /\ [Next]_vars =>
        [vouched' # vouched =>
           \A n \in 1..vouched' :
             OnDisk(n)' \/ WithTimer(n)' \/ SetBack(n)' \/ Abandoned(n)']_vars
  <2> SUFFICES ASSUME Inv, [Next]_vars, vouched' # vouched, NEW n \in 1..vouched'
               PROVE  OnDisk(n)' \/ WithTimer(n)' \/ SetBack(n)' \/ Abandoned(n)'
    OBVIOUS
  <2> QED
    BY CheckpointStep DEF Accounted
<1> QED
  BY <1>1, <1>2, <1>3, PTL DEF Spec, CheckpointHolds
=============================================================================
