------------------------ MODULE GatewaySocketProofs ------------------------
(***************************************************************************)
(* Proofs about GatewaySocket for any number of entries, pages, broken     *)
(* connections and any window and queue.                                   *)
(*                                                                         *)
(* Shape (the types, and the stream is not empty) and Written (the stream  *)
(* is in the order of its ids, nothing follows the end of the run) are     *)
(* inductive and give StatusIsTrue.  Position is inductive on top of them: *)
(* what waits in the history or in the frame queue continues what the page *)
(* was sent, but for what is out of the server's reach.  It gives NoGap,   *)
(* NoRedelivery and OverMeansTold, as long as FewPerMs holds: the replay   *)
(* compares ids as strings.                                                *)
(***************************************************************************)
EXTENDS GatewaySocket, SequenceTheorems, WellFoundedInduction, TLAPS

Entries == [id : Id, type : Type]

\* The types; and the stream has at least its first entry.
Shape == TypeOK /\ stream # <<>>

-----------------------------------------------------------------------------
(* Lemmas about the operators                                              *)

LEMMA Identifiers ==
  /\ \A id \in Id : id # Start /\ id[1] \in Nat /\ id[2] \in Nat
  /\ Open = {"asked", "replay", "live"}
  /\ Ending = {"error", "pause", "end"} /\ Terminal = {"pause", "end"}
BY DEF Id, Start, Open, Ending, Terminal

LEMMA Positions ==
  ASSUME Shape
  PROVE  /\ stream \in Seq(Entries) /\ Len(stream) \in Nat \ {0}
         /\ \A i \in 1..Len(stream) : /\ stream[i] \in Entries
                                      /\ IdOf(i) \in Id /\ IdOf(i) # Start
         /\ Len(got) \in Nat /\ Len(hist) \in Nat /\ Len(queue) \in Nat
         /\ \A i \in 1..Len(got) : got[i] \in 1..Len(stream)
         /\ \A i \in 1..Len(hist) : hist[i] \in 1..Len(stream)
         /\ \A i \in 1..Len(queue) : queue[i] \in 1..Len(stream)
<1>1. stream \in Seq(Entries) /\ stream # <<>>
  BY DEF Shape, TypeOK, Entries
<1>2. Len(stream) \in Nat \ {0}
  BY <1>1, EmptySeq
<1>3. \A i \in 1..Len(stream) : stream[i] \in Entries
  BY <1>1, ElementOfSeq
<1>4. \A i \in 1..Len(stream) : IdOf(i) \in Id /\ IdOf(i) # Start
  BY <1>3, Identifiers DEF IdOf, Entries
<1>5. got \in Seq(1..Len(stream)) /\ hist \in Seq(1..Len(stream)) /\ queue \in Seq(1..Len(stream))
  BY DEF Shape, TypeOK
<1> QED
  BY <1>1, <1>2, <1>3, <1>4, <1>5, LenProperties, ElementOfSeq

\* What an entry that is added does to the stream.
LEMMA Added ==
  ASSUME Shape, NEW type \in Type, Add(type)
  PROVE  LET n == Len(stream) IN
         /\ stream' \in Seq(Entries) /\ Len(stream') = n + 1 /\ stream' # <<>>
         /\ \A i \in 1..n : stream'[i] = stream[i]
         /\ stream'[n + 1].type = type /\ stream'[n + 1].id \in Id
         /\ After(stream'[n + 1].id, IdOf(n)) /\ stream'[n + 1].id[2] < PerMs
         /\ first' \in 1..(n + 1) /\ first' >= first
<1> DEFINE n == Len(stream)
<1>1. /\ stream \in Seq(Entries) /\ n \in Nat \ {0} /\ IdOf(n) \in Id
      /\ first \in 1..(n + 1)
  BY Positions DEF Shape, TypeOK
<1>2. PICK id \in {<<IdOf(n)[1] + 1, 0>>, <<IdOf(n)[1], IdOf(n)[2] + 1>>} :
           id[2] < PerMs /\ stream' = Append(stream, [id |-> id, type |-> type])
  BY DEF Add
<1>3. IdOf(n)[1] \in Nat /\ IdOf(n)[2] \in Nat
  BY <1>1, Identifiers
<1>4. id \in Id /\ After(id, IdOf(n))
  <2>1. CASE id = <<IdOf(n)[1] + 1, 0>>
    BY <1>3, <2>1 DEF Id, After
  <2>2. CASE id = <<IdOf(n)[1], IdOf(n)[2] + 1>>
    BY <1>3, <2>2 DEF Id, After
  <2> QED
    BY <1>2, <2>1, <2>2
<1>5. [id |-> id, type |-> type] \in Entries
  BY <1>4 DEF Entries
<1>6. /\ stream' \in Seq(Entries) /\ stream' # <<>> /\ Len(stream') = n + 1
      /\ \A i \in 1..n : stream'[i] = stream[i]
      /\ stream'[n + 1] = [id |-> id, type |-> type]
  BY <1>1, <1>2, <1>5, AppendProperties
<1>7. first' \in 1..(n + 1) /\ first' >= first
  <2>1. Window \in Nat \ {0}
    BY SocketAssumption DEF SocketAssumption
  <2>2. first' = first \/ (n + 1 - first >= Window /\ first' = n + 2 - Window)
    BY DEF Add
  <2> QED
    BY <1>1, <2>1, <2>2
<1> QED
  BY <1>2, <1>4, <1>6, <1>7

\* Positions remain positions while the stream grows.
LEMMA Grown ==
  ASSUME NEW m \in Nat, NEW n \in Nat, m <= n, NEW s \in Seq(1..m)
  PROVE  s \in Seq(1..n)
BY SeqMonotonic

LEMMA LeastOfNat ==
  ASSUME NEW S \in SUBSET Nat, S # {}
  PROVE  \E m \in S : \A k \in S : m <= k
<1> DEFINE R == {p \in Nat \X Nat : p[1] < p[2]}
<1>1. IsWellFoundedOn(R, Nat)
  BY NatLessThanWellFounded DEF OpToRel
<1>2. PICK m \in S : \A k \in S : ~(<<k, m>> \in R)
  BY <1>1, WFMin
<1>3. ASSUME NEW k \in S PROVE m <= k
  <2>1. k \in Nat /\ m \in Nat /\ ~(k < m)
    BY <1>2
  <2> QED
    BY <2>1
<1> QED
  BY <1>3

-----------------------------------------------------------------------------
(* The types                                                               *)

RedisTypes ==
  /\ run \in {"running", "paused", "ended", "canceled"}
  /\ stream \in Seq(Entries) /\ stream # <<>>
  /\ first \in 1..(Len(stream) + 1)
  /\ expired \in BOOLEAN
PageTypes ==
  /\ conn \in Open \cup {"off", "timer", "over"}
  /\ pages \in 0..MaxPages /\ drops \in 0..MaxDrops /\ zombie \in 0..MaxLate
SeenTypes ==
  /\ last \in Id \cup {Start}
  /\ got \in Seq(1..Len(stream))
  /\ horizon \in 1..(Len(stream) + 1)
ServerTypes ==
  /\ upto \in Id \cup {Start} /\ cursor \in Id \cup {Start}
  /\ hist \in Seq(1..Len(stream)) /\ Len(hist) <= Window
  /\ status \in Hint
  /\ queue \in Seq(1..Len(stream)) /\ Len(queue) <= QueueMax

LEMMA Parts ==
  /\ Shape <=> RedisTypes /\ PageTypes /\ SeenTypes /\ ServerTypes
  /\ RedisTypes' /\ PageTypes' /\ SeenTypes' /\ ServerTypes' => Shape'
BY DEF Shape, TypeOK, RedisTypes, PageTypes, SeenTypes, ServerTypes, Entries

LEMMA ShapeInit == Init => Shape
<1> SUFFICES ASSUME Init PROVE Shape
  OBVIOUS
<1>1. stream \in Seq(Entries) /\ stream # <<>> /\ Len(stream) = 1
  <2>1. [id |-> <<1, 0>>, type |-> "event"] \in Entries
    BY DEF Entries, Id, Type
  <2> QED
    BY <2>1 DEF Init
<1>2. /\ <<>> \in Seq(1..Len(stream)) /\ Len(<<>>) = 0
      /\ Window \in Nat /\ QueueMax \in Nat /\ 0 \in 0..MaxPages /\ 0 \in 0..MaxDrops
      /\ 0 \in 0..MaxLate
  BY EmptySeq, SocketAssumption DEF SocketAssumption
<1>3. RedisTypes
  <2>1. /\ run = "running" /\ first = 1 /\ expired = FALSE
    BY DEF Init
  <2>2. first \in 1..(Len(stream) + 1)
    BY <1>1, <2>1
  <2> QED
    BY <1>1, <2>1, <2>2 DEF RedisTypes
<1>5. PageTypes
  BY <1>2 DEF Init, PageTypes
<1>4. SeenTypes /\ ServerTypes
  BY <1>1, <1>2 DEF Init, SeenTypes, ServerTypes, Hint
<1> QED
  BY <1>3, <1>4, <1>5, Parts

\* A new session starts with nothing but the id to resume from.
LEMMA OpenedTypes ==
  ASSUME NEW id \in Id \cup {Start}, OpenSocket(id)
  PROVE  /\ conn' = "asked" /\ upto' = id /\ cursor' = Start
         /\ hist' = <<>> /\ queue' = <<>> /\ status' = "none"
BY DEF OpenSocket, ResumeFrom

LEMMA OpenedServer ==
  ASSUME NEW id \in Id \cup {Start}, OpenSocket(id)
  PROVE  ServerTypes'
<1>1. /\ <<>> \in Seq(1..Len(stream')) /\ Len(<<>>) = 0
      /\ Window \in Nat /\ QueueMax \in Nat
  BY EmptySeq, SocketAssumption DEF SocketAssumption
<1>2. /\ upto' = id /\ cursor' = Start
      /\ hist' = <<>> /\ queue' = <<>> /\ status' = "none"
  BY OpenedTypes
<1> QED
  BY <1>1, <1>2 DEF ServerTypes, Hint

\* A delivered entry is the last the client was sent.
LEMMA Delivered ==
  ASSUME Shape, NEW n \in 1..Len(stream), Deliver(n)
  PROVE  /\ got' \in Seq(1..Len(stream)) /\ got' # <<>> /\ Len(got') = Len(got) + 1
         /\ \A i \in 1..Len(got) : got'[i] = got[i]
         /\ got'[Len(got) + 1] = n
         /\ last' = IdOf(n) /\ last' \in Id
         /\ conn' = IF EndsSession(stream[n].type) THEN "over" ELSE conn
<1>1. got \in Seq(1..Len(stream)) /\ IdOf(n) \in Id
  BY Positions DEF Shape, TypeOK
<1> QED
  BY <1>1, AppendProperties DEF Deliver

\* The history is what is read of the stream, in its order.
LEMMA History ==
  ASSUME Shape, ReadHistory
  PROVE  LET h == [i \in 1..(Len(stream) + 1 - OldestRead) |-> OldestRead + i - 1] IN
         /\ OldestRead \in 1..(Len(stream) + 1) /\ OldestRead >= first
         /\ hist' = h /\ hist' \in Seq(1..Len(stream))
         /\ Len(hist') = Len(stream) + 1 - OldestRead /\ Len(hist') <= Window
         /\ \A i \in 1..Len(hist') : hist'[i] = OldestRead + i - 1
         /\ status' = TerminalStatus(hist')
<1> DEFINE k == Len(stream) + 1 - OldestRead
           h == [i \in 1..k |-> OldestRead + i - 1]
<1>1. /\ Len(stream) \in Nat /\ first \in 1..(Len(stream) + 1)
      /\ Window \in Nat \ {0}
  BY Positions, SocketAssumption DEF Shape, TypeOK, SocketAssumption
<1>2. /\ OldestRead \in 1..(Len(stream) + 1) /\ OldestRead >= first
      /\ k \in Nat /\ k <= Window
  BY <1>1 DEF OldestRead
<1>3. hist' = h /\ status' = TerminalStatus(h)
  BY DEF ReadHistory
<1> HIDE DEF OldestRead
<1>4. \A i \in 1..k : OldestRead + i - 1 \in 1..Len(stream)
  BY <1>1, <1>2
<1>5. h \in Seq(1..Len(stream)) /\ Len(h) = k
  BY <1>2, <1>4
<1> QED
  BY <1>2, <1>3, <1>5

LEMMA ReadNext ==
  ASSUME Shape, Read
  PROVE  \E n \in Unread :
           /\ \A m \in Unread : n <= m
           /\ n \in 1..Len(stream) /\ n >= first
           /\ queue' = Append(queue, n) /\ cursor' = IdOf(n)
<1> DEFINE n == CHOOSE m \in Unread : \A k \in Unread : m <= k
<1>1. Unread # {} /\ queue' = Append(queue, n) /\ cursor' = IdOf(n)
  BY DEF Read
<1>2. Unread \in SUBSET (1..Len(stream)) /\ \A m \in Unread : m >= first
  <2>1. first \in 1..(Len(stream) + 1) /\ Len(stream) \in Nat
    BY Positions DEF Shape, TypeOK
  <2> QED
    BY <2>1 DEF Unread, Held
<1>3. \E m \in Unread : \A k \in Unread : m <= k
  <2>1. Unread \in SUBSET Nat
    BY <1>2
  <2> QED
    BY <1>1, <2>1, LeastOfNat
<1>4. n \in Unread /\ \A k \in Unread : n <= k
  BY <1>3
<1> QED
  BY <1>1, <1>2, <1>4

LEMMA TypesOfUnchanged ==
  /\ UNCHANGED redis => (RedisTypes => RedisTypes')
  /\ UNCHANGED <<conn, page>> => (PageTypes => PageTypes')
  /\ UNCHANGED <<stream, seen, horizon>> => (SeenTypes => SeenTypes')
  /\ UNCHANGED <<stream, server>> => (ServerTypes => ServerTypes')
BY DEF redis, page, seen, server, RedisTypes, PageTypes, SeenTypes, ServerTypes

LEMMA ShapeStep == Shape /\ [Next]_vars => Shape'
<1> SUFFICES ASSUME Shape, [Next]_vars PROVE Shape'
  OBVIOUS
<1>0. RedisTypes /\ PageTypes /\ SeenTypes /\ ServerTypes
  BY Parts
<1>1. ASSUME NEW type \in Type, Publish(type)
      PROVE  Shape'
  <2>1. Add(type) /\ UNCHANGED <<conn, page>> /\ expired' = expired
    BY <1>1 DEF Publish
  <2>2. /\ stream' \in Seq(Entries) /\ Len(stream') = Len(stream) + 1 /\ stream' # <<>>
        /\ first' \in 1..(Len(stream) + 1) /\ Len(stream) \in Nat
    BY <2>1, Added, Positions
  <2>3. run' \in {"running", "paused", "ended", "canceled"}
    BY <1>1 DEF Publish, Type
  <2>4. RedisTypes'
    BY <1>0, <2>1, <2>2, <2>3 DEF RedisTypes
  <2>5. UNCHANGED <<last, got, horizon, upto, hist, status, cursor, queue>>
    BY <1>1 DEF Publish, seen, server
  <2>6. /\ got \in Seq(1..(Len(stream) + 1)) /\ hist \in Seq(1..(Len(stream) + 1))
        /\ queue \in Seq(1..(Len(stream) + 1))
    <3>1. /\ got \in Seq(1..Len(stream)) /\ hist \in Seq(1..Len(stream))
          /\ queue \in Seq(1..Len(stream))
      BY <1>0 DEF SeenTypes, ServerTypes
    <3>2. Len(stream) \in Nat /\ Len(stream) + 1 \in Nat /\ Len(stream) <= Len(stream) + 1
      BY <2>2
    <3> QED
      BY <3>1, <3>2, Grown
  <2>7. SeenTypes'
    <3>1. horizon' \in 1..(Len(stream') + 1)
      BY <1>0, <2>2, <2>5 DEF SeenTypes
    <3> QED
      BY <1>0, <2>2, <2>5, <2>6, <3>1 DEF SeenTypes
  <2>8. ServerTypes'
    BY <1>0, <2>2, <2>5, <2>6 DEF ServerTypes
  <2> QED
    BY <1>0, <2>1, <2>4, <2>7, <2>8, TypesOfUnchanged, Parts
<1>2. CASE Expire
  <2>1. RedisTypes'
    <3>1. Len(stream) \in Nat
      BY Positions
    <3>2. first' \in 1..(Len(stream) + 1)
      BY <1>2, <3>1 DEF Expire
    <3> QED
      BY <1>0, <1>2, <3>2 DEF Expire, RedisTypes
  <2>2. UNCHANGED <<conn, page>> /\ UNCHANGED <<stream, seen, horizon>>
        /\ UNCHANGED <<stream, server>>
    BY <1>2 DEF Expire
  <2> QED
    BY <1>0, <2>1, <2>2, TypesOfUnchanged, Parts
<1>3. CASE Elsewhere
  <2>1. RedisTypes'
    BY <1>0, <1>3 DEF Elsewhere, RedisTypes
  <2>2. UNCHANGED <<conn, page>> /\ UNCHANGED <<stream, seen, horizon>>
        /\ UNCHANGED <<stream, server>>
    BY <1>3 DEF Elsewhere
  <2> QED
    BY <1>0, <2>1, <2>2, TypesOfUnchanged, Parts
<1>4. ASSUME NEW fresh \in BOOLEAN, NewClient(fresh)
      PROVE  Shape'
  <2>1. /\ pages < MaxPages /\ pages' = pages + 1 /\ zombie' = 0 /\ drops' = drops
        /\ last' = (IF fresh THEN Start ELSE last)
        /\ got' = (IF fresh THEN <<>> ELSE got)
        /\ horizon' = (IF fresh THEN 1 ELSE horizon)
        /\ OpenSocket(last') /\ UNCHANGED redis /\ stream' = stream
    BY <1>4 DEF NewClient, redis
  <2>2. SeenTypes'
    <3>1. <<>> \in Seq(1..Len(stream)) /\ Len(stream) \in Nat
      BY EmptySeq, Positions
    <3>2. 1 \in 1..(Len(stream) + 1)
      BY <3>1
    <3>3. CASE fresh
      BY <2>1, <3>1, <3>2, <3>3 DEF SeenTypes
    <3>4. CASE ~fresh
      BY <1>0, <2>1, <3>4 DEF SeenTypes
    <3> QED
      BY <3>3, <3>4
  <2>3. last' \in Id \cup {Start}
    BY <2>2 DEF SeenTypes
  <2>4. conn' = "asked" /\ ServerTypes'
    BY <2>1, <2>3, OpenedTypes, OpenedServer
  <2>5. pages' \in 0..MaxPages /\ zombie' \in 0..MaxLate
    BY <1>0, <2>1, SocketAssumption DEF PageTypes, SocketAssumption
  <2>6. PageTypes'
    BY <1>0, <2>1, <2>4, <2>5, Identifiers DEF PageTypes
  <2> QED
    BY <1>0, <2>1, <2>2, <2>4, <2>6, TypesOfUnchanged, Parts
<1>5. CASE Reconnect
  <2>1. /\ OpenSocket(last) /\ last \in Id \cup {Start}
        /\ UNCHANGED redis /\ UNCHANGED <<stream, seen, horizon>> /\ UNCHANGED page
    BY <1>0, <1>5 DEF Reconnect, SeenTypes, redis
  <2>2. conn' = "asked" /\ ServerTypes'
    BY <2>1, OpenedTypes, OpenedServer
  <2>3. PageTypes'
    BY <1>0, <2>1, <2>2, Identifiers DEF PageTypes, page
  <2> QED
    BY <1>0, <2>1, <2>2, <2>3, TypesOfUnchanged, Parts
<1>6. ASSUME NEW silently \in BOOLEAN, Drop(silently)
      PROVE  Shape'
  <2>1. /\ drops < MaxDrops /\ drops' = drops + 1 /\ conn' = "timer" /\ pages' = pages
        /\ zombie' = IF silently THEN MaxLate ELSE zombie
        /\ UNCHANGED redis /\ UNCHANGED <<stream, seen, horizon>>
        /\ UNCHANGED <<stream, server>>
    BY <1>6 DEF Drop, redis
  <2>2. drops' \in 0..MaxDrops
    BY <1>0, <2>1, SocketAssumption DEF PageTypes, SocketAssumption
  <2>3. zombie' \in 0..MaxLate
    BY <1>0, <2>1, SocketAssumption DEF PageTypes, SocketAssumption
  <2>4. PageTypes'
    BY <1>0, <2>1, <2>2, <2>3 DEF PageTypes
  <2> QED
    BY <1>0, <2>1, <2>4, TypesOfUnchanged, Parts
<1>7. CASE ZombieCloses
  <2>1. /\ zombie' \in {0, zombie - 1} /\ zombie > 0 /\ conn' \in {conn, "timer"} /\ pages' = pages /\ drops' = drops
        /\ UNCHANGED redis /\ UNCHANGED <<stream, seen, horizon>>
        /\ UNCHANGED <<stream, server>>
    BY <1>7 DEF ZombieCloses, redis
  <2>2. zombie' \in 0..MaxLate
    BY <1>0, <2>1, SocketAssumption DEF PageTypes, SocketAssumption
  <2>3. PageTypes'
    BY <1>0, <2>1, <2>2 DEF PageTypes
  <2> QED
    BY <1>0, <2>1, <2>3, TypesOfUnchanged, Parts
<1>8. CASE ToolResult \/ Interrupt
  <2>1. /\ run' \in {"running", "canceled"} /\ conn' \in {conn, "timer"}
        /\ stream' = stream /\ first' = first /\ expired' = expired /\ UNCHANGED page
        /\ UNCHANGED <<stream, seen, horizon>> /\ UNCHANGED <<stream, server>>
    BY <1>8 DEF ToolResult, Interrupt
  <2>2. RedisTypes' /\ PageTypes'
    BY <1>0, <2>1 DEF RedisTypes, PageTypes, page
  <2> QED
    BY <1>0, <2>1, <2>2, TypesOfUnchanged, Parts
<1>9. CASE ReadHistory
  <2>1. /\ UNCHANGED redis /\ UNCHANGED page /\ conn' = "replay" /\ stream' = stream
        /\ last' = last /\ got' = got /\ upto' = upto /\ cursor' = cursor /\ queue' = queue
        /\ horizon' = (IF OldestRead > horizon THEN OldestRead ELSE horizon)
    BY <1>9 DEF ReadHistory, redis, seen
  <2>2. /\ OldestRead \in 1..(Len(stream) + 1)
        /\ hist' \in Seq(1..Len(stream)) /\ Len(hist') <= Window
        /\ status' = TerminalStatus(hist')
    BY <1>9, History
  <2>3. status' \in Hint
    BY <2>2 DEF TerminalStatus, Hint
  <2>4. PageTypes'
    BY <1>0, <2>1, Identifiers DEF PageTypes, page
  <2>5. SeenTypes'
    BY <1>0, <2>1, <2>2 DEF SeenTypes
  <2>6. ServerTypes'
    BY <1>0, <2>1, <2>2, <2>3 DEF ServerTypes
  <2> QED
    BY <1>0, <2>1, <2>4, <2>5, <2>6, TypesOfUnchanged, Parts
<1>10. CASE Replay
  <2>1. /\ conn = "replay" /\ hist # <<>> /\ hist' = Tail(hist)
        /\ \/ UNCHANGED <<upto, seen, conn>>
           \/ Deliver(Head(hist)) /\ upto' = IdOf(Head(hist))
        /\ UNCHANGED redis /\ UNCHANGED page /\ stream' = stream
        /\ horizon' = horizon /\ status' = status /\ cursor' = cursor /\ queue' = queue
    BY <1>10 DEF Replay, redis
  <2>2. /\ hist \in Seq(1..Len(stream)) /\ Len(hist) <= Window /\ Window \in Nat
        /\ Len(hist) \in Nat
    BY <1>0, Positions, SocketAssumption DEF ServerTypes, SocketAssumption
  <2>3. /\ Head(hist) \in 1..Len(stream) /\ Tail(hist) \in Seq(1..Len(stream))
        /\ Len(Tail(hist)) <= Window
    BY <2>1, <2>2, HeadTailProperties
  <2>4. /\ last' \in Id \cup {Start} /\ upto' \in Id \cup {Start}
        /\ got' \in Seq(1..Len(stream)) /\ conn' \in {conn, "over"}
    <3>1. CASE UNCHANGED <<upto, seen, conn>>
      BY <1>0, <3>1 DEF SeenTypes, ServerTypes, seen
    <3>2. CASE Deliver(Head(hist)) /\ upto' = IdOf(Head(hist))
      BY <2>3, <3>2, Delivered
    <3> QED
      BY <2>1, <3>1, <3>2
  <2>5. PageTypes'
    BY <1>0, <2>1, <2>4 DEF PageTypes, page
  <2>6. SeenTypes'
    BY <1>0, <2>1, <2>4 DEF SeenTypes
  <2>7. ServerTypes'
    BY <1>0, <2>1, <2>3, <2>4 DEF ServerTypes
  <2> QED
    BY <1>0, <2>1, <2>5, <2>6, <2>7, TypesOfUnchanged, Parts
<1>11. CASE EndReplay
  <2>1. /\ status' = Report /\ conn' \in {"over", "live"} /\ cursor' = upto
        /\ UNCHANGED redis /\ UNCHANGED page /\ UNCHANGED <<stream, seen, horizon>>
        /\ upto' = upto /\ hist' = hist /\ queue' = queue /\ stream' = stream
    BY <1>11 DEF EndReplay, LiveFrom, redis
  <2>2. status' \in Hint
    BY <1>0, <2>1 DEF ServerTypes, Report, Hint
  <2>3. PageTypes'
    BY <1>0, <2>1, Identifiers DEF PageTypes, page
  <2>4. ServerTypes'
    BY <1>0, <2>1, <2>2 DEF ServerTypes
  <2> QED
    BY <1>0, <2>1, <2>3, <2>4, TypesOfUnchanged, Parts
<1>12. CASE Read
  <2>1. /\ Len(queue) < QueueMax /\ horizon' = (IF first > horizon THEN first ELSE horizon)
        /\ UNCHANGED redis /\ UNCHANGED <<conn, page>> /\ UNCHANGED seen /\ stream' = stream
        /\ upto' = upto /\ hist' = hist /\ status' = status
    BY <1>12 DEF Read, redis
  <2>2. PICK n \in 1..Len(stream) : queue' = Append(queue, n) /\ cursor' = IdOf(n)
    BY <1>12, ReadNext
  <2>3. queue' \in Seq(1..Len(stream)) /\ Len(queue') = Len(queue) + 1 /\ Len(queue) \in Nat
    BY <1>0, <2>2, AppendProperties, Positions DEF ServerTypes
  <2>4. SeenTypes'
    BY <1>0, <2>1 DEF SeenTypes, RedisTypes, seen
  <2>5. Len(queue') <= QueueMax
    BY <2>1, <2>3, SocketAssumption DEF SocketAssumption
  <2>6. cursor' \in Id
    BY <2>2, Positions
  <2>7. ServerTypes'
    BY <1>0, <2>1, <2>3, <2>5, <2>6 DEF ServerTypes
  <2> QED
    BY <1>0, <2>1, <2>4, <2>7, TypesOfUnchanged, Parts
<1>13. CASE Forward
  <2>1. /\ queue # <<>> /\ queue' = Tail(queue) /\ Deliver(Head(queue))
        /\ UNCHANGED redis /\ UNCHANGED page /\ stream' = stream /\ horizon' = horizon
        /\ upto' = upto /\ hist' = hist /\ status' = status /\ cursor' = cursor
    BY <1>13 DEF Forward, redis
  <2>2. /\ queue \in Seq(1..Len(stream)) /\ Len(queue) <= QueueMax /\ QueueMax \in Nat
        /\ Len(queue) \in Nat
    BY <1>0, Positions, SocketAssumption DEF ServerTypes, SocketAssumption
  <2>3. /\ Head(queue) \in 1..Len(stream) /\ Tail(queue) \in Seq(1..Len(stream))
        /\ Len(Tail(queue)) <= QueueMax
    BY <2>1, <2>2, HeadTailProperties
  <2>4. /\ last' \in Id /\ got' \in Seq(1..Len(stream)) /\ conn' \in {conn, "over"}
    BY <2>1, <2>3, Delivered
  <2>5. PageTypes'
    BY <1>0, <2>1, <2>4 DEF PageTypes, page
  <2>6. SeenTypes'
    BY <1>0, <2>1, <2>4 DEF SeenTypes
  <2>7. ServerTypes'
    BY <1>0, <2>1, <2>3 DEF ServerTypes
  <2> QED
    BY <1>0, <2>1, <2>5, <2>6, <2>7, TypesOfUnchanged, Parts
<1>14. CASE UNCHANGED vars
  BY <1>0, <1>14, TypesOfUnchanged, Parts DEF vars, redis
<1> QED
  BY <1>1, <1>2, <1>3, <1>4, <1>5, <1>6, <1>7, <1>8, <1>9, <1>10, <1>11, <1>12, <1>13,
     <1>14 DEF Next, Server, Client, Run

\* The frame queue and the history keep their bounds, and every position names an
\* entry of the stream, for any number of entries, pages and broken connections
\* (agent_gateway.py: _PUMP_QUEUE_MAX, read_history).
THEOREM TypeCorrect == Spec => []TypeOK
<1>1. Shape => TypeOK
  BY DEF Shape
<1> QED
  BY ShapeInit, ShapeStep, <1>1, PTL DEF Spec

-----------------------------------------------------------------------------
(* The stream                                                              *)

\* Entries are in the order of their ids.
Sorted == \A i, j \in 1..Len(stream) : i < j => After(IdOf(j), IdOf(i))
\* The second number of an id is below the bound of entries per millisecond.
Narrow == \A i \in 1..Len(stream) : IdOf(i)[2] < PerMs
\* Nothing follows the end of the run.
EndIsLast ==
  /\ \A p \in 1..Len(stream) : stream[p].type = "end" => run = "ended" /\ p = Len(stream)
  /\ run = "ended" => stream[Len(stream)].type = "end"
\* Redis has the newest entry, unless the key expired.
Stored == ~expired => first <= Len(stream)

Written == Sorted /\ Narrow /\ EndIsLast /\ Stored

LEMMA AfterIsTransitive ==
  ASSUME NEW a \in Id, NEW b \in Id, NEW c \in Id, After(a, b), After(b, c)
  PROVE  After(a, c)
<1>1. /\ a[1] \in Nat /\ a[2] \in Nat /\ b[1] \in Nat /\ b[2] \in Nat
      /\ c[1] \in Nat /\ c[2] \in Nat /\ b # Start /\ c # Start
  BY Identifiers
<1> QED
  BY <1>1 DEF After

LEMMA WrittenInit == Init => Written
<1> SUFFICES ASSUME Init PROVE Written
  OBVIOUS
<1>1. /\ Len(stream) = 1 /\ stream[1].type = "event" /\ IdOf(1) = <<1, 0>>
      /\ run = "running" /\ first = 1
  BY DEF Init, IdOf
<1>2. \A i \in 1..Len(stream) : i = 1
  BY <1>1
<1>5. PerMs > 0
  BY SocketAssumption DEF SocketAssumption
<1>3. Sorted /\ Narrow
  BY <1>1, <1>2, <1>5 DEF Sorted, Narrow
<1>4. EndIsLast /\ Stored
  BY <1>1, <1>2 DEF EndIsLast, Stored
<1> QED
  BY <1>3, <1>4 DEF Written

\* Only Publish adds an entry; nothing else ends the run or brings a key back.
LEMMA RedisMoves ==
  ASSUME [Next]_vars, ~ \E type \in Type : Publish(type)
  PROVE  /\ stream' = stream
         /\ run' = run \/ (run # "ended" /\ run' # "ended")
         /\ (first' = first /\ expired' = expired) \/ expired' = TRUE
<1>1. CASE Expire
  BY <1>1 DEF Expire
<1>2. CASE Elsewhere \/ ToolResult \/ Interrupt
  BY <1>2 DEF Elsewhere, ToolResult, Interrupt
<1>3. CASE UNCHANGED redis
  BY <1>3 DEF redis
<1>4. ASSUME NEW fresh \in BOOLEAN, NewClient(fresh) PROVE UNCHANGED redis
  BY <1>4 DEF NewClient
<1>5. ASSUME NEW silently \in BOOLEAN, Drop(silently) PROVE UNCHANGED redis
  BY <1>5 DEF Drop
<1>6. ASSUME Reconnect \/ ZombieCloses \/ ReadHistory \/ Replay \/ EndReplay \/ Read \/ Forward
      PROVE  UNCHANGED redis
  BY <1>6 DEF Reconnect, ZombieCloses, ReadHistory, Replay, EndReplay, Read, Forward
<1>7. UNCHANGED vars => UNCHANGED redis
  BY DEF vars
<1> QED
  BY <1>1, <1>2, <1>3, <1>4, <1>5, <1>6, <1>7 DEF Next, Server, Client, Run

LEMMA WrittenStep == Shape /\ Written /\ [Next]_vars => Written'
<1> SUFFICES ASSUME Shape, Written, [Next]_vars PROVE Written'
  OBVIOUS
<1> DEFINE n == Len(stream)
<1>0. n \in Nat \ {0} /\ \A i \in 1..n : IdOf(i) \in Id
  BY Positions
<1>1. ASSUME NEW type \in Type, Publish(type)
      PROVE  Written'
  <2>1. Add(type) /\ run # "ended" /\ expired' = expired
    BY <1>1 DEF Publish
  <2>2. /\ Len(stream') = n + 1
        /\ \A i \in 1..n : stream'[i] = stream[i]
        /\ stream'[n + 1].type = type /\ stream'[n + 1].id \in Id
        /\ After(stream'[n + 1].id, IdOf(n)) /\ stream'[n + 1].id[2] < PerMs
        /\ first' \in 1..(n + 1)
    BY <2>1, Added
  <2>3. \A i \in 1..n : stream'[i].id = IdOf(i)
    BY <2>2 DEF IdOf
  <2>4. ASSUME NEW i \in 1..Len(stream'), NEW j \in 1..Len(stream'), i < j
        PROVE  After(stream'[j].id, stream'[i].id)
    <3>1. CASE j \in 1..n
      <4>1. i \in 1..n /\ After(IdOf(j), IdOf(i))
        BY <1>0, <2>2, <2>4, <3>1 DEF Written, Sorted
      <4> QED
        BY <2>3, <3>1, <4>1
    <3>2. CASE j = n + 1
      <4>1. i \in 1..n /\ n \in 1..n
        BY <1>0, <2>2, <2>4, <3>2
      <4>2. After(stream'[n + 1].id, IdOf(n)) /\ IdOf(n) \in Id /\ stream'[n + 1].id \in Id
        BY <1>0, <2>2, <2>3, <4>1
      <4>3. CASE i = n
        BY <2>3, <3>2, <4>1, <4>2, <4>3
      <4>4. CASE i # n
        <5>1. After(IdOf(n), IdOf(i)) /\ IdOf(i) \in Id
          BY <1>0, <4>1, <4>4 DEF Written, Sorted
        <5>2. After(stream'[n + 1].id, IdOf(i))
          BY <4>2, <5>1, AfterIsTransitive
        <5> QED
          BY <2>3, <3>2, <4>1, <5>2
      <4> QED
        BY <4>3, <4>4
    <3> QED
      BY <1>0, <2>2, <3>1, <3>2
  <2>5. Sorted'
    BY <2>4 DEF Sorted, IdOf
  <2>6. Narrow'
    <3>1. ASSUME NEW i \in 1..Len(stream')
          PROVE  stream'[i].id[2] < PerMs
      <4>1. CASE i \in 1..n
        BY <2>3, <4>1 DEF Written, Narrow
      <4>2. CASE i = n + 1
        BY <2>2, <2>3, <4>2
      <4> QED
        BY <1>0, <2>2, <4>1, <4>2
    <3> QED
      BY <3>1 DEF Narrow, IdOf
  <2>7. \A p \in 1..n : stream'[p].type # "end"
    BY <2>1, <2>2 DEF Written, EndIsLast
  <2>8. run' = "ended" <=> type = "end"
    BY <1>1 DEF Publish, Type
  <2>9. EndIsLast'
    <3>1. ASSUME NEW p \in 1..Len(stream'), stream'[p].type = "end"
          PROVE  run' = "ended" /\ p = Len(stream')
      <4>1. p = n + 1
        BY <1>0, <2>2, <2>7, <3>1
      <4> QED
        BY <2>2, <2>8, <3>1, <4>1
    <3> QED
      BY <2>2, <2>8, <3>1 DEF EndIsLast
  <2>10. Stored'
    BY <1>0, <2>2 DEF Stored
  <2> QED
    BY <2>5, <2>6, <2>9, <2>10 DEF Written
<1>2. CASE ~ \E type \in Type : Publish(type)
  <2>1. /\ stream' = stream
        /\ run' = run \/ (run # "ended" /\ run' # "ended")
        /\ (first' = first /\ expired' = expired) \/ expired' = TRUE
    BY <1>2, RedisMoves
  <2>2. Sorted' /\ Narrow'
    BY <2>1 DEF Written, Sorted, Narrow, IdOf
  <2>3. EndIsLast' /\ Stored'
    BY <2>1 DEF Written, EndIsLast, Stored
  <2> QED
    BY <2>2, <2>3 DEF Written
<1> QED
  BY <1>1, <1>2

-----------------------------------------------------------------------------
(* The status a session reports                                            *)

\* A replay that found the end of the run is of a run that ended.
Hinted == conn = "replay" /\ status = "completed" => run = "ended"

LEMMA GreatestBelow ==
  ASSUME NEW n \in Nat, NEW S \in SUBSET (1..n), S # {}
  PROVE  \E m \in S : \A k \in S : m >= k
<1> DEFINE T == {n - k : k \in S}
<1>1. T \in SUBSET Nat /\ T # {}
  <2>1. \A k \in S : n - k \in Nat
    OBVIOUS
  <2> QED
    BY <2>1
<1>2. PICK t \in T : \A u \in T : t <= u
  BY <1>1, LeastOfNat
<1>3. PICK m \in S : t = n - m
  BY <1>2
<1>4. ASSUME NEW k \in S PROVE m >= k
  <2>1. n - m <= n - k
    BY <1>2, <1>3
  <2> QED
    BY <2>1
<1> QED
  BY <1>4

LEMMA CompletedHistory ==
  ASSUME NEW h, Len(h) \in Nat, TerminalStatus(h) = "completed"
  PROVE  \E i \in 1..Len(h) : stream[h[i]].type = "end"
<1> DEFINE ends == {i \in 1..Len(h) : stream[h[i]].type \in Terminal}
           newest == CHOOSE i \in ends : \A j \in ends : i >= j
<1>1. ends # {} /\ stream[h[newest]].type = "end"
  BY DEF TerminalStatus
<1>2. \E i \in ends : \A j \in ends : i >= j
  <2>1. ends \in SUBSET (1..Len(h))
    OBVIOUS
  <2> HIDE DEF ends
  <2> QED
    BY <1>1, <2>1, GreatestBelow
<1>3. newest \in ends
  <2> HIDE DEF ends
  <2> QED
    BY <1>2
<1> QED
  BY <1>1, <1>3

\* What opens a session or waits for one is neither a replay nor a live session.
LEMMA Opens ==
  ASSUME Shape
  PROVE  /\ \A fresh \in BOOLEAN : NewClient(fresh) => conn' = "asked"
         /\ Reconnect => conn' = "asked"
BY OpenedTypes DEF NewClient, Reconnect, OpenSocket

LEMMA StatusStep ==
  Shape /\ Written /\ Hinted /\ StatusIsTrue /\ [Next]_vars => Hinted' /\ StatusIsTrue'
<1> SUFFICES ASSUME Shape, Written, Hinted, StatusIsTrue, [Next]_vars
             PROVE  Hinted' /\ StatusIsTrue'
  OBVIOUS
<1> USE DEF Hinted, StatusIsTrue
<1>1. ASSUME NEW type \in Type, Publish(type)
      PROVE  Hinted' /\ StatusIsTrue'
  <2>1. /\ run # "ended" /\ expired' = expired /\ conn' = conn /\ status' = status
    BY <1>1 DEF Publish, server
  <2> QED
    BY <2>1
<1>2. CASE ~ \E type \in Type : Publish(type)
  <2>1. /\ run' = run \/ (run # "ended" /\ run' # "ended")
        /\ expired' = expired \/ expired' = TRUE
    BY <1>2, RedisMoves
  <2>2. CASE conn' = conn /\ status' = status
    BY <2>1, <2>2
  <2>3. CASE conn' \in {"asked", "timer"}
    BY <2>3
  <2>4. CASE ReadHistory
    <3>1. /\ conn' = "replay" /\ run' = run
      BY <2>4 DEF ReadHistory, redis
    <3>2. /\ status' = TerminalStatus(hist') /\ hist' \in Seq(1..Len(stream))
          /\ Len(hist') \in Nat
      BY <2>4, History, LenProperties
    <3>3. ASSUME status' = "completed" PROVE run = "ended"
      <4>1. PICK i \in 1..Len(hist') : stream[hist'[i]].type = "end"
        BY <3>2, <3>3, CompletedHistory
      <4>2. hist'[i] \in 1..Len(stream)
        BY <3>2, ElementOfSeq
      <4> QED
        BY <4>1, <4>2 DEF Written, EndIsLast
    <3> QED
      BY <3>1, <3>3
  <2>5. CASE Replay
    <3>1. /\ conn = "replay" /\ conn' \in {"replay", "over"} /\ status' = status
          /\ run' = run
      BY <2>5 DEF Replay, Deliver, redis
    <3> QED
      BY <3>1
  <2>6. CASE EndReplay
    <3>1. /\ conn = "replay" /\ conn' \in {"over", "live"} /\ status' = Report
          /\ run' = run /\ expired' = expired
      BY <2>6 DEF EndReplay, redis
    <3>2. ASSUME Held = {} PROVE expired
      <4>1. first \in 1..(Len(stream) + 1) /\ Len(stream) \in Nat
        BY Positions DEF Shape, TypeOK
      <4> QED
        BY <3>2, <4>1 DEF Held, Written, Stored
    <3> QED
      BY <3>1, <3>2 DEF Report
  <2>7. CASE Forward
    <3>1. conn = "live" /\ conn' \in {"live", "over"} /\ status' = status
          /\ run' = run /\ expired' = expired
      BY <2>7 DEF Forward, Deliver, redis
    <3> QED
      BY <3>1
  <2>8. \/ conn' = conn /\ status' = status
        \/ conn' \in {"asked", "timer"}
        \/ ReadHistory \/ Replay \/ EndReplay \/ Forward
    <3>1. \A silently \in BOOLEAN : Drop(silently) => conn' = "timer"
      BY DEF Drop
    <3>2. ZombieCloses \/ ToolResult \/ Interrupt
            => conn' = "timer" \/ (conn' = conn /\ status' = status)
      BY DEF ZombieCloses, ToolResult, Interrupt, server
    <3>3. Read \/ Expire \/ Elsewhere \/ UNCHANGED vars => conn' = conn /\ status' = status
      BY DEF Read, Expire, Elsewhere, vars, server
    <3> QED
      BY <1>2, <3>1, <3>2, <3>3, Opens DEF Next, Server, Client, Run
  <2> QED
    BY <2>2, <2>3, <2>4, <2>5, <2>6, <2>7, <2>8
<1> QED
  BY <1>1, <1>2

\* resume_complete calls a run finished only if it is, or its key expired, through
\* every interleaving of publishing, expiry and reconnects (agent_gateway.py:253-261).
THEOREM StatusIsNeverWrong == Spec => []StatusIsTrue
<1> DEFINE Inv == Shape /\ Written /\ Hinted /\ StatusIsTrue
<1>1. Init => Inv
  BY ShapeInit, WrittenInit DEF Init, Hinted, StatusIsTrue
<1>2. Inv /\ [Next]_vars => Inv'
  BY ShapeStep, WrittenStep, StatusStep
<1>3. Inv => StatusIsTrue
  OBVIOUS
<1> QED
  BY <1>1, <1>2, <1>3, PTL DEF Spec

-----------------------------------------------------------------------------
(* What the page is sent                                                   *)

\* Entries of one millisecond are numbered with one digit.
FewPerMs == PerMs <= Radix

\* The newest position the page was sent, and the newest the live loop read.
Top == IF got = <<>> THEN 0 ELSE got[Len(got)]
LastRead == IF queue = <<>> THEN Top ELSE queue[Len(queue)]

Names(id, p) == IF p = 0 THEN id = Start ELSE id = IdOf(p)

\* Position n may come after p: what lies between is out of the server's reach.
Follows(n, p) == n <= horizon \/ n <= p + 1

Sent == NoRedelivery /\ NoGap /\ Names(last, Top)

\* A session resumes from what the page was sent last.
Asked == conn \in {"asked", "replay"} => upto = last /\ queue = <<>>

\* The history has no holes and leaves none; with the end of the run in it, it
\* reaches to the end of the stream.
Replaying ==
  conn = "replay" =>
    /\ \A i \in 1..Len(hist) : hist[i] = hist[1] + i - 1
    /\ hist # <<>> => Follows(hist[1], Top)
    /\ status = "completed" =>
         IF hist = <<>> THEN Top = Len(stream) ELSE hist[Len(hist)] = Len(stream)

\* The frame queue continues what the page was sent, and the cursor the queue.
Before(i) == IF i = 1 THEN Top ELSE queue[i - 1]
Streaming ==
  conn = "live" =>
    /\ Names(cursor, LastRead)
    /\ \A i \in 1..Len(queue) : Before(i) < queue[i] /\ Follows(queue[i], Before(i))

Position == Sent /\ Asked /\ Replaying /\ Streaming /\ OverMeansTold

LEMMA PositionInit == Init => Position
BY DEF Init, Position, Sent, NoRedelivery, NoGap, Names, Top, Asked, Replaying, Streaming,
       OverMeansTold

\* Ids are compared as the positions are, by the server's strings as by Redis.
LEMMA IdOrder ==
  ASSUME FewPerMs, Shape, Written, NEW i \in 1..Len(stream), NEW j \in 1..Len(stream)
  PROVE  /\ After(IdOf(i), IdOf(j)) <=> i > j
         /\ NotAfter(IdOf(i), IdOf(j)) <=> i <= j
<1> DEFINE a == IdOf(i)
           b == IdOf(j)
<1>1. /\ a \in Id /\ b \in Id /\ a # Start /\ b # Start
      /\ a[1] \in Nat /\ a[2] \in Nat /\ b[1] \in Nat /\ b[2] \in Nat
  BY Positions, Identifiers
<1>2. a[2] < Radix /\ b[2] < Radix
  <2>1. PerMs \in Nat /\ Radix \in Nat
    BY SocketAssumption DEF SocketAssumption
  <2>2. a[2] < PerMs /\ b[2] < PerMs
    BY DEF Written, Narrow
  <2> QED
    BY <1>1, <2>1, <2>2 DEF FewPerMs
<1>3. NumeralLeq(a[2], b[2]) <=> a[2] <= b[2]
  <2>1. Radix \in Nat
    BY SocketAssumption DEF SocketAssumption
  <2> QED
    BY <1>1, <1>2, <2>1 DEF NumeralLeq
<1>4. After(a, b) <=> a[1] > b[1] \/ (a[1] = b[1] /\ a[2] > b[2])
  BY <1>1 DEF After
<1>5. After(b, a) <=> b[1] > a[1] \/ (b[1] = a[1] /\ b[2] > a[2])
  BY <1>1 DEF After
<1>6. NotAfter(a, b) <=> a[1] < b[1] \/ (a[1] = b[1] /\ a[2] <= b[2])
  BY <1>3 DEF NotAfter
<1>7. (i > j => After(a, b)) /\ (j > i => After(b, a)) /\ (i = j => a = b)
  BY Positions DEF Written, Sorted
<1> HIDE DEF a, b
<1>8. i \in Nat /\ j \in Nat
  OBVIOUS
<1> QED
  <2>1. CASE i > j
    BY <1>1, <1>4, <1>6, <1>7, <1>8, <2>1 DEF a, b
  <2>2. CASE i = j
    BY <1>1, <1>4, <1>6, <1>7, <1>8, <2>2 DEF a, b
  <2>3. CASE j > i
    BY <1>1, <1>4, <1>5, <1>6, <1>7, <1>8, <2>3 DEF a, b
  <2> QED
    BY <1>8, <2>1, <2>2, <2>3

LEMMA TopIsNewest ==
  ASSUME Shape, NoRedelivery, NoGap
  PROVE  /\ Top \in 0..Len(stream) /\ (Top = 0 <=> got = <<>>)
         /\ \A i \in 1..Len(got) : got[i] <= Top
         /\ \A m \in horizon..Top : \E i \in 1..Len(got) : got[i] = m
<1>1. /\ Len(got) \in Nat /\ Len(stream) \in Nat
      /\ \A i \in 1..Len(got) : got[i] \in 1..Len(stream)
      /\ horizon \in Nat
  BY Positions DEF Shape, TypeOK
<1>2. CASE got = <<>>
  <2>1. Len(got) = 0 /\ Top = 0
    BY <1>2 DEF Top
  <2>2. horizon > 0
    BY <1>1 DEF Shape, TypeOK
  <2> QED
    BY <1>1, <1>2, <2>1, <2>2
<1>3. CASE got # <<>>
  <2>1. Len(got) \in 1..Len(got) /\ Top = got[Len(got)]
    BY <1>1, <1>3, EmptySeq DEF Top, Shape, TypeOK
  <2>2. Top \in 1..Len(stream)
    BY <1>1, <2>1
  <2>3. \A i \in 1..Len(got) : got[i] <= Top
    BY <1>1, <2>1, <2>2 DEF NoRedelivery
  <2>4. \A m \in horizon..Top : \E i \in 1..Len(got) : got[i] = m
    BY <2>1 DEF NoGap
  <2> QED
    BY <1>3, <2>2, <2>3, <2>4
<1> QED
  BY <1>2, <1>3

\* The next position in order is delivered: nothing is told twice or left out.
LEMMA DeliveredInOrder ==
  ASSUME Shape, Sent, NEW n \in 1..Len(stream), Deliver(n), Top < n, Follows(n, Top),
         stream' = stream, horizon' = horizon
  PROVE  Sent' /\ Top' = n /\ got' # <<>> /\ got'[Len(got')] = n
<1>1. /\ got' # <<>> /\ Len(got') = Len(got) + 1 /\ Len(got) \in Nat
      /\ \A i \in 1..Len(got) : got'[i] = got[i]
      /\ got'[Len(got) + 1] = n /\ last' = IdOf(n)
  BY Delivered, Positions
<1>2. /\ Top \in 0..Len(stream) /\ Len(stream) \in Nat /\ horizon \in Nat
      /\ \A i \in 1..Len(got) : got[i] \in Nat /\ got[i] <= Top
      /\ \A m \in horizon..Top : \E i \in 1..Len(got) : got[i] = m
  BY TopIsNewest, Positions DEF Sent, Shape, TypeOK
<1>3. Top' = n
  BY <1>1 DEF Top
<1>4. ASSUME NEW i \in 1..Len(got'), NEW j \in 1..Len(got'), i < j
      PROVE  got'[i] < got'[j]
  <2>1. i \in 1..Len(got)
    BY <1>1, <1>4
  <2>2. CASE j \in 1..Len(got)
    BY <1>1, <1>4, <2>1, <2>2 DEF Sent, NoRedelivery
  <2>3. CASE j = Len(got) + 1
    BY <1>1, <1>2, <2>1, <2>3
  <2> QED
    BY <1>1, <2>2, <2>3
<1>5. ASSUME NEW j \in 1..Len(got'), NEW m \in horizon..got'[j]
      PROVE  \E i \in 1..j : got'[i] = m
  <2>1. CASE j \in 1..Len(got)
    <3>1. PICK i \in 1..j : got[i] = m
      BY <1>1, <1>5, <2>1 DEF Sent, NoGap
    <3> QED
      BY <1>1, <2>1, <3>1
  <2>2. CASE j = Len(got) + 1
    <3>1. CASE m = n
      BY <1>1, <2>2, <3>1
    <3>2. CASE m # n
      <4>1. m \in horizon..Top
        BY <1>1, <1>2, <1>5, <2>2, <3>2 DEF Follows
      <4>2. PICK i \in 1..Len(got) : got[i] = m
        BY <1>2, <4>1
      <4> QED
        BY <1>1, <2>2, <4>2
    <3> QED
      BY <3>1, <3>2
  <2> QED
    BY <1>1, <2>1, <2>2
<1>6. NoRedelivery' /\ NoGap'
  BY <1>4, <1>5 DEF NoRedelivery, NoGap
<1>7. Names(last, Top)'
  BY <1>1, <1>3 DEF Names, IdOf
<1> QED
  BY <1>1, <1>3, <1>6, <1>7 DEF Sent

\* A position that follows still does when the horizon moves on.
LEMMA SentKept ==
  ASSUME Shape, Sent, UNCHANGED seen, horizon' \in Nat, horizon' >= horizon,
         \A i \in 1..Len(stream) : stream'[i] = stream[i]
  PROVE  Sent' /\ Top' = Top
<1>1. /\ horizon \in Nat /\ got' = got /\ last' = last
      /\ Len(got) \in Nat /\ \A i \in 1..Len(got) : got[i] \in Nat
  BY Positions DEF Shape, TypeOK, seen
<1>2. Top' = Top /\ NoRedelivery'
  BY <1>1 DEF Top, Sent, NoRedelivery
<1>3. NoGap'
  <2>1. ASSUME NEW j \in 1..Len(got), NEW m \in horizon'..got[j]
        PROVE  \E i \in 1..j : got[i] = m
    <3>1. m \in horizon..got[j]
      BY <1>1, <2>1
    <3> QED
      BY <3>1 DEF Sent, NoGap
  <2> QED
    BY <1>1, <2>1 DEF NoGap
<1>4. Names(last, Top)'
  <2>1. Top \in 0..Len(stream)
    BY TopIsNewest DEF Sent
  <2> QED
    BY <1>1, <1>2, <2>1 DEF Sent, Names, IdOf
<1> QED
  BY <1>2, <1>3, <1>4 DEF Sent

LEMMA LastReadIsPosition ==
  ASSUME Shape, Sent
  PROVE  /\ LastRead \in 0..Len(stream)
         /\ \A i \in 1..Len(queue) : Before(i) \in 0..Len(stream) /\ queue[i] \in 1..Len(stream)
<1>1. /\ Top \in 0..Len(stream) /\ Len(queue) \in Nat /\ Len(stream) \in Nat
      /\ \A i \in 1..Len(queue) : queue[i] \in 1..Len(stream)
  BY TopIsNewest, Positions DEF Sent
<1>2. queue \in Seq(1..Len(stream))
  BY DEF Shape, TypeOK
<1>3. queue # <<>> => Len(queue) \in 1..Len(queue)
  BY <1>1, <1>2, EmptySeq
<1>4. LastRead \in 0..Len(stream)
  BY <1>1, <1>3 DEF LastRead
<1>5. ASSUME NEW i \in 1..Len(queue) PROVE Before(i) \in 0..Len(stream)
  <2>1. i # 1 => i - 1 \in 1..Len(queue)
    BY <1>1
  <2> QED
    BY <1>1, <2>1 DEF Before
<1> QED
  BY <1>1, <1>4, <1>5

\* Nothing of a session moves, while entries may be added behind what it has.
LEMMA SessionKept ==
  ASSUME Shape, Position, UNCHANGED <<conn, seen, horizon, server>>,
         \A i \in 1..Len(stream) : stream'[i] = stream[i],
         conn = "replay" /\ status = "completed" => stream' = stream,
         expired => expired'
  PROVE  Position'
<1>1. /\ conn' = conn /\ last' = last /\ got' = got /\ horizon' = horizon /\ upto' = upto
      /\ hist' = hist /\ status' = status /\ cursor' = cursor /\ queue' = queue
  BY DEF seen, server
<1>2. horizon \in Nat /\ horizon >= horizon
  BY Positions DEF Shape, TypeOK
<1>3. Sent' /\ Top' = Top
  BY <1>1, <1>2, SentKept DEF Position
<1>4. Asked'
  BY <1>1 DEF Position, Asked
<1>5. Replaying'
  BY <1>1, <1>3 DEF Position, Replaying, Follows
<1>6. LastRead' = LastRead /\ LastRead \in 0..Len(stream)
  BY <1>1, <1>3, LastReadIsPosition DEF LastRead, Position
<1>7. Names(cursor, LastRead) => Names(cursor, LastRead)'
  BY <1>1, <1>6 DEF Names, IdOf
<1>8. Streaming'
  <2>1. \A i \in 1..Len(queue) : Before(i)' = Before(i)
    BY <1>1, <1>3 DEF Before
  <2> QED
    BY <1>1, <1>7, <2>1 DEF Position, Streaming, Follows, Before
<1>9. OverMeansTold'
  <2>1. got # <<>> => got[Len(got)] \in 1..Len(stream)
    <3>1. got # <<>> => Len(got) \in 1..Len(got)
      BY Positions, EmptySeq DEF Shape, TypeOK
    <3> QED
      BY <3>1, Positions
  <2> QED
    BY <1>1, <2>1 DEF Position, OverMeansTold
<1> QED
  BY <1>3, <1>4, <1>5, <1>8, <1>9 DEF Position

\* A session that is opened asks for what follows the last entry the page has;
\* without a session only what the page was sent matters.
LEMMA NoSession ==
  ASSUME Shape, Sent', OverMeansTold',
         \/ conn' \in {"timer", "off", "over"}
         \/ conn' = "asked" /\ upto' = last' /\ queue' = <<>>
  PROVE  Position'
BY DEF Position, Asked, Replaying, Streaming

LEMMA PositionOpen ==
  ASSUME Shape, Position,
         \/ \E fresh \in BOOLEAN : NewClient(fresh)
         \/ \E silently \in BOOLEAN : Drop(silently)
         \/ Reconnect \/ ZombieCloses
  PROVE  Position'
<1>0. horizon \in Nat /\ horizon >= horizon
  BY Positions DEF Shape, TypeOK
<1>1. ASSUME NEW fresh \in BOOLEAN, NewClient(fresh) PROVE Position'
  <2>1. /\ last' = (IF fresh THEN Start ELSE last)
        /\ got' = (IF fresh THEN <<>> ELSE got)
        /\ horizon' = (IF fresh THEN 1 ELSE horizon)
        /\ OpenSocket(last') /\ stream' = stream /\ expired' = expired
    BY <1>1 DEF NewClient, redis
  <2>2. conn' = "asked" /\ upto' = last' /\ queue' = <<>>
    BY <2>1 DEF OpenSocket, ResumeFrom
  <2>3. Sent'
    <3>1. CASE fresh
      <4>1. got' = <<>> /\ Len(got') = 0 /\ last' = Start
        BY <2>1, <3>1
      <4> QED
        BY <4>1 DEF Sent, NoRedelivery, NoGap, Names, Top
    <3>2. CASE ~fresh
      BY <1>0, <2>1, <3>2, SentKept DEF Position, seen
    <3> QED
      BY <3>1, <3>2
  <2> QED
    BY <2>2, <2>3, NoSession DEF OverMeansTold
<1>2. CASE Reconnect
  <2>1. /\ conn' = "asked" /\ upto' = last' /\ queue' = <<>>
        /\ UNCHANGED seen /\ horizon' = horizon /\ stream' = stream
    BY <1>2 DEF Reconnect, OpenSocket, ResumeFrom, seen, redis
  <2>2. Sent'
    BY <1>0, <2>1, SentKept DEF Position
  <2> QED
    BY <2>1, <2>2, NoSession DEF OverMeansTold
<1>3. ASSUME (\E silently \in BOOLEAN : Drop(silently)) \/ ZombieCloses PROVE Position'
  <2>1. /\ conn' = "timer" \/ conn' = conn
        /\ UNCHANGED seen /\ horizon' = horizon /\ UNCHANGED server /\ stream' = stream
        /\ expired' = expired
    BY <1>3 DEF Drop, ZombieCloses, redis
  <2>2. CASE conn' = "timer"
    <3>1. Sent'
      BY <1>0, <2>1, SentKept DEF Position
    <3> QED
      BY <2>2, <3>1, NoSession DEF OverMeansTold
  <2>3. CASE conn' = conn
    BY <2>1, <2>3, SessionKept
  <2> QED
    BY <2>1, <2>2, <2>3
<1> QED
  BY <1>1, <1>2, <1>3

LEMMA PositionRun ==
  ASSUME Shape, Written, Hinted, Position,
         \/ \E type \in Type : Publish(type)
         \/ Expire \/ Elsewhere \/ ToolResult \/ Interrupt \/ UNCHANGED vars
  PROVE  Position'
<1>1. ASSUME NEW type \in Type, Publish(type) PROVE Position'
  <2>1. /\ run # "ended" /\ expired' = expired /\ Add(type)
        /\ UNCHANGED <<conn, seen, horizon, server>>
    BY <1>1 DEF Publish
  <2>2. \A i \in 1..Len(stream) : stream'[i] = stream[i]
    BY <2>1, Added
  <2>3. ~(conn = "replay" /\ status = "completed")
    BY <2>1 DEF Hinted
  <2> QED
    BY <2>1, <2>2, <2>3, SessionKept
<1>2. CASE Expire \/ Elsewhere \/ ToolResult \/ UNCHANGED vars
  <2>1. /\ UNCHANGED <<conn, seen, horizon, server>> /\ stream' = stream
        /\ expired => expired'
    BY <1>2 DEF Expire, Elsewhere, ToolResult, vars, redis
  <2> QED
    BY <2>1, SessionKept
<1>3. CASE Interrupt
  <2>1. conn' = "timer" /\ UNCHANGED seen /\ horizon' = horizon /\ stream' = stream
    BY <1>3 DEF Interrupt
  <2>2. horizon \in Nat /\ horizon >= horizon
    BY Positions DEF Shape, TypeOK
  <2>3. Sent'
    BY <2>1, <2>2, SentKept DEF Position
  <2> QED
    BY <2>1, <2>3, NoSession DEF OverMeansTold
<1> QED
  BY <1>1, <1>2, <1>3

\* The history begins within the window and runs to the end of the stream.
LEMMA PositionHistory ==
  ASSUME FewPerMs, Shape, Written, Position, ReadHistory, Hinted'
  PROVE  Position'
<1> DEFINE n == Len(stream)
           k == n + 1 - OldestRead
<1>1. /\ conn = "asked" /\ conn' = "replay" /\ stream' = stream /\ UNCHANGED seen
      /\ run' = run /\ upto' = upto /\ queue' = queue /\ last' = last
      /\ horizon' = (IF OldestRead > horizon THEN OldestRead ELSE horizon)
  BY DEF ReadHistory, redis, seen
<1>2. /\ n \in Nat \ {0} /\ horizon \in Nat
      /\ OldestRead \in 1..(n + 1) /\ OldestRead >= first
      /\ hist' \in Seq(1..n) /\ Len(hist') = k /\ k \in Nat
      /\ \A i \in 1..k : hist'[i] = OldestRead + i - 1
  BY History, Positions DEF Shape, TypeOK
<1> HIDE DEF k
<1>3. horizon' \in Nat /\ horizon' >= horizon /\ horizon' >= OldestRead
  BY <1>1, <1>2
<1>4. Sent' /\ Top' = Top
  BY <1>1, <1>3, SentKept DEF Position
<1>5. Asked'
  BY <1>1 DEF Position, Asked
<1>6. \A i \in 1..Len(hist') : hist'[i] = hist'[1] + i - 1
  <2>1. ASSUME NEW i \in 1..k PROVE hist'[i] = hist'[1] + i - 1
    <3>1. 1 \in 1..k /\ hist'[1] = OldestRead
      BY <1>2, <2>1
    <3> QED
      BY <1>2, <2>1, <3>1
  <2> QED
    BY <1>2, <2>1
<1>7. (hist # <<>> => Follows(hist[1], Top))'
  <2>1. ASSUME hist' # <<>> PROVE hist'[1] <= horizon'
    <3>1. 1 \in 1..k
      BY <1>2, <2>1, EmptySeq
    <3> QED
      BY <1>2, <1>3, <3>1
  <2> QED
    BY <2>1 DEF Follows
<1>8. ASSUME status' = "completed" PROVE hist' # <<>> /\ hist'[Len(hist')] = Len(stream')
  <2>1. PICK i \in 1..Len(hist') : stream[hist'[i]].type = "end"
    <3>1. status' = TerminalStatus(hist')
      BY History
    <3> QED
      BY <1>2, <1>8, <3>1, CompletedHistory
  <2>2. k \in 1..k /\ k >= 1
    BY <1>2, <2>1
  <2>3. hist'[k] = n
    BY <1>2, <2>2 DEF k
  <2> QED
    BY <1>1, <1>2, <2>2, <2>3, EmptySeq
<1>9. Replaying'
  BY <1>6, <1>7, <1>8 DEF Replaying
<1>10. Streaming' /\ OverMeansTold'
  BY <1>1 DEF Streaming, OverMeansTold
<1> QED
  BY <1>4, <1>5, <1>9, <1>10 DEF Position

\* An entry the client has is skipped; the next one it has not is delivered.
LEMMA PositionReplay ==
  ASSUME FewPerMs, Shape, Written, Position, Replay
  PROVE  Position'
<1> DEFINE n == Head(hist)
<1>1. /\ conn = "replay" /\ hist # <<>> /\ hist' = Tail(hist)
      /\ stream' = stream /\ horizon' = horizon /\ status' = status /\ queue' = queue
      /\ expired' = expired
      /\ \/ Skip(n) /\ UNCHANGED <<upto, seen, conn>>
         \/ ~Skip(n) /\ Deliver(n) /\ upto' = IdOf(n)
  BY DEF Replay, redis
<1>2. /\ hist \in Seq(1..Len(stream)) /\ Len(hist) \in Nat \ {0} /\ horizon \in Nat
      /\ Len(stream) \in Nat /\ Top \in 0..Len(stream)
  BY <1>1, EmptySeq, TopIsNewest, Positions DEF Shape, TypeOK, Position, Sent
<1>3. /\ n = hist[1] /\ n \in 1..Len(stream)
      /\ Len(hist') = Len(hist) - 1 /\ \A i \in 1..Len(hist') : hist'[i] = hist[i + 1]
      /\ hist' = <<>> <=> Len(hist') = 0
  <2>1. /\ Len(Tail(hist)) = Len(hist) - 1 /\ Tail(hist) \in Seq(1..Len(stream))
        /\ \A i \in 1..Len(Tail(hist)) : Tail(hist)[i] = hist[i + 1]
        /\ Head(hist) \in 1..Len(stream) /\ Head(hist) = hist[1]
    BY <1>1, <1>2, HeadTailProperties
  <2> QED
    BY <1>1, <2>1, EmptySeq
<1>4. /\ \A i \in 1..Len(hist) : hist[i] = n + i - 1
      /\ Follows(n, Top) /\ upto = last /\ queue = <<>> /\ Names(last, Top)
  BY <1>1, <1>3 DEF Position, Sent, Asked, Replaying
<1>5. \A i \in 1..Len(hist') : hist'[i] = hist'[1] + i - 1
  <2>1. ASSUME NEW i \in 1..Len(hist') PROVE hist'[i] = hist'[1] + i - 1
    <3>1. i + 1 \in 1..Len(hist) /\ 2 \in 1..Len(hist) /\ 1 \in 1..Len(hist')
      BY <1>2, <1>3, <2>1
    <3> QED
      BY <1>3, <1>4, <3>1
  <2> QED
    BY <2>1
<1>6. hist' # <<>> => hist'[1] = n + 1 /\ hist'[Len(hist')] = hist[Len(hist)]
  <2>1. ASSUME hist' # <<>> PROVE hist'[1] = n + 1 /\ hist'[Len(hist')] = hist[Len(hist)]
    <3>1. 1 \in 1..Len(hist') /\ Len(hist') \in 1..Len(hist') /\ 2 \in 1..Len(hist)
      BY <1>2, <1>3, <2>1
    <3>2. hist'[1] = hist[2] /\ hist[2] = n + 1
      BY <1>3, <1>4, <3>1
    <3>3. hist'[Len(hist')] = hist[Len(hist') + 1] /\ Len(hist') + 1 = Len(hist)
      BY <1>2, <1>3, <3>1
    <3> QED
      BY <3>2, <3>3
  <2> QED
    BY <2>1
<1>7. hist' = <<>> => hist[Len(hist)] = n
  <2>1. hist' = <<>> => Len(hist) = 1
    BY <1>2, <1>3
  <2> QED
    BY <1>3, <2>1
<1>8. status = "completed" => hist[Len(hist)] = Len(stream)
  BY <1>1 DEF Position, Replaying
<1>9. CASE Skip(n)
  <2>1. upto' = upto /\ UNCHANGED seen /\ conn' = conn /\ last' = last
    BY <1>1, <1>9 DEF seen
  <2>2. n <= Top
    <3>1. upto # Start /\ NotAfter(IdOf(n), upto)
      BY <1>9 DEF Skip
    <3>2. Top \in 1..Len(stream) /\ upto = IdOf(Top)
      BY <1>2, <1>4, <3>1 DEF Names
    <3> QED
      BY <1>3, <3>1, <3>2, IdOrder
  <2>3. Sent' /\ Top' = Top
    <3>1. horizon' \in Nat /\ horizon' >= horizon
      BY <1>1, <1>2
    <3> QED
      BY <1>1, <2>1, <3>1, SentKept DEF Position
  <2>4. Replaying'
    <3>1. (hist # <<>> => Follows(hist[1], Top))'
      BY <1>1, <1>2, <1>3, <1>6, <2>2, <2>3 DEF Follows
    <3>2. status = "completed" =>
            IF hist' = <<>> THEN Top' = Len(stream) ELSE hist'[Len(hist')] = Len(stream)
      BY <1>2, <1>3, <1>6, <1>7, <1>8, <2>2, <2>3
    <3> QED
      BY <1>1, <1>5, <2>3, <3>1, <3>2 DEF Replaying, Follows
  <2>5. Asked' /\ Streaming' /\ OverMeansTold'
    BY <1>1, <1>4, <2>1 DEF Asked, Streaming, OverMeansTold
  <2> QED
    BY <2>3, <2>4, <2>5 DEF Position
<1>10. CASE ~Skip(n)
  <2>1. /\ Deliver(n) /\ upto' = IdOf(n) /\ last' = IdOf(n)
        /\ conn' = (IF EndsSession(stream[n].type) THEN "over" ELSE conn)
    BY <1>1, <1>10 DEF Deliver
  <2>2. Top < n
    <3>1. CASE upto = Start
      <4>1. Top = 0
        BY <1>2, <1>4, <3>1, Positions DEF Names
      <4> QED
        BY <1>3, <4>1
    <3>2. CASE upto # Start
      <4>1. ~NotAfter(IdOf(n), upto)
        BY <1>10, <3>2 DEF Skip
      <4>2. Top \in 1..Len(stream) /\ upto = IdOf(Top)
        BY <1>2, <1>4, <3>2 DEF Names
      <4> QED
        BY <1>3, <4>1, <4>2, IdOrder
    <3> QED
      BY <3>1, <3>2
  <2>3. Sent' /\ Top' = n /\ got' # <<>> /\ got'[Len(got')] = n
    BY <1>1, <1>3, <1>4, <2>1, <2>2, DeliveredInOrder DEF Position
  <2>4. Replaying'
    <3>1. (hist # <<>> => Follows(hist[1], Top))'
      BY <1>1, <1>2, <1>3, <1>6, <2>3 DEF Follows
    <3>2. status = "completed" =>
            IF hist' = <<>> THEN Top' = Len(stream) ELSE hist'[Len(hist')] = Len(stream)
      BY <1>6, <1>7, <1>8, <2>3
    <3> QED
      BY <1>1, <1>5, <2>3, <3>1, <3>2 DEF Replaying, Follows
  <2>5. Asked' /\ Streaming'
    BY <1>1, <1>4, <2>1 DEF Asked, Streaming
  <2>6. OverMeansTold'
    BY <1>1, <2>1, <2>3 DEF OverMeansTold, EndsSession
  <2> QED
    BY <2>3, <2>4, <2>5, <2>6 DEF Position
<1> QED
  BY <1>9, <1>10

\* The session goes live where the replay stopped, or is over: the run ended then,
\* and its last entry is the last the page was sent, or the key expired.
LEMMA PositionEndReplay ==
  ASSUME Shape, Written, Hinted, Position, EndReplay
  PROVE  Position'
<1>1. /\ conn = "replay" /\ hist = <<>> /\ stream' = stream /\ UNCHANGED seen
      /\ horizon' = horizon /\ expired' = expired /\ got' = got /\ last' = last
      /\ conn' = (IF Report = "completed" THEN "over" ELSE "live")
      /\ cursor' = upto /\ queue' = queue
  BY DEF EndReplay, LiveFrom, redis, seen
<1>2. horizon \in Nat /\ horizon >= horizon
  BY Positions DEF Shape, TypeOK
<1>3. Sent' /\ Top' = Top
  BY <1>1, <1>2, SentKept DEF Position
<1>4. upto = last /\ queue = <<>>
  BY <1>1 DEF Position, Asked
<1>5. Streaming'
  <2>1. Len(queue') = 0 /\ LastRead' = Top' /\ cursor' = last'
    BY <1>1, <1>4 DEF LastRead, Top
  <2>2. Names(cursor, LastRead)'
    BY <1>3, <2>1 DEF Sent, Names
  <2> QED
    BY <2>1, <2>2 DEF Streaming
<1>6. OverMeansTold'
  <2>1. ASSUME Report = "completed", ~expired
        PROVE  got # <<>> /\ stream[got[Len(got)]].type \in Ending
    <3>1. Len(stream) \in Nat \ {0} /\ first \in 1..(Len(stream) + 1)
      BY Positions DEF Shape, TypeOK
    <3>2. Held # {}
      BY <2>1, <3>1 DEF Held, Written, Stored
    <3>3. status = "completed"
      BY <2>1, <3>2 DEF Report
    <3>4. run = "ended" /\ Top = Len(stream)
      BY <1>1, <3>3 DEF Hinted, Position, Replaying
    <3>5. stream[Len(stream)].type = "end"
      BY <3>4 DEF Written, EndIsLast
    <3> QED
      BY <3>1, <3>4, <3>5 DEF Top, Ending
  <2> QED
    BY <1>1, <2>1 DEF OverMeansTold
<1>7. Asked' /\ Replaying'
  BY <1>1 DEF Asked, Replaying
<1> QED
  BY <1>3, <1>5, <1>6, <1>7 DEF Position

\* The live loop reads the oldest entry it has not read: what lies between is gone.
LEMMA PositionRead ==
  ASSUME FewPerMs, Shape, Written, Position, Read
  PROVE  Position'
<1>1. /\ conn = "live" /\ conn' = conn /\ stream' = stream /\ UNCHANGED seen
      /\ expired' = expired /\ got' = got
      /\ horizon' = (IF first > horizon THEN first ELSE horizon)
  BY DEF Read, redis, seen
<1>2. PICK n \in Unread :
        /\ \A m \in Unread : n <= m
        /\ n \in 1..Len(stream) /\ n >= first
        /\ queue' = Append(queue, n) /\ cursor' = IdOf(n)
  BY ReadNext
<1>3. /\ Len(stream) \in Nat /\ horizon \in Nat /\ first \in Nat \ {0}
      /\ Top \in 0..Len(stream) /\ LastRead \in 0..Len(stream)
      /\ queue \in Seq(1..Len(stream)) /\ Len(queue) \in Nat
  BY Positions, TopIsNewest, LastReadIsPosition DEF Shape, TypeOK, Position, Sent
<1>4. horizon' \in Nat /\ horizon' >= horizon /\ horizon' >= first
  BY <1>1, <1>3
<1>5. Sent' /\ Top' = Top
  BY <1>1, <1>4, SentKept DEF Position
<1>6. /\ Len(queue') = Len(queue) + 1 /\ queue' # <<>>
      /\ \A i \in 1..Len(queue) : queue'[i] = queue[i]
      /\ queue'[Len(queue) + 1] = n
  BY <1>2, <1>3, AppendProperties
<1>7. Names(cursor, LastRead)
  BY <1>1 DEF Position, Streaming
<1>8. \A m \in 1..Len(stream) : After(IdOf(m), cursor) <=> m > LastRead
  <2>1. CASE LastRead = 0
    BY <1>3, <1>7, <2>1 DEF Names, After
  <2>2. CASE LastRead # 0
    <3>1. LastRead \in 1..Len(stream) /\ cursor = IdOf(LastRead)
      BY <1>3, <1>7, <2>2 DEF Names
    <3> QED
      BY <3>1, IdOrder
  <2> QED
    BY <2>1, <2>2
<1>9. LastRead < n
  <2>1. After(IdOf(n), cursor)
    BY <1>2 DEF Unread
  <2> QED
    BY <1>2, <1>3, <1>8, <2>1
<1>10. n <= horizon' \/ n <= LastRead + 1
  <2>1. ASSUME n > horizon', n > LastRead + 1 PROVE FALSE
    <3>1. n - 1 \in 1..Len(stream) /\ n - 1 >= first /\ n - 1 > LastRead
      BY <1>2, <1>3, <1>4, <2>1
    <3>2. n - 1 \in Unread
      BY <1>3, <1>8, <3>1 DEF Unread, Held
    <3> QED
      BY <1>2, <3>2
  <2> QED
    BY <1>2, <1>3, <1>4, <2>1
<1>11. LastRead' = n
  BY <1>6 DEF LastRead
<1>12. Names(cursor, LastRead)'
  BY <1>1, <1>2, <1>11 DEF Names, IdOf
<1>13. ASSUME NEW i \in 1..Len(queue')
       PROVE  Before(i)' < queue'[i] /\ (queue'[i] <= horizon' \/ queue'[i] <= Before(i)' + 1)
  <2>1. CASE i \in 1..Len(queue)
    <3>1. queue'[i] = queue[i] /\ Before(i)' = Before(i)
      <4>1. i # 1 => i - 1 \in 1..Len(queue)
        BY <1>3, <2>1
      <4> QED
        BY <1>5, <1>6, <2>1, <4>1 DEF Before
    <3>2. Before(i) < queue[i] /\ (queue[i] <= horizon \/ queue[i] <= Before(i) + 1)
      BY <1>1, <2>1 DEF Position, Streaming, Follows
    <3>3. Before(i) \in Nat /\ queue[i] \in Nat
      BY <2>1, LastReadIsPosition DEF Position
    <3> QED
      BY <1>3, <1>4, <3>1, <3>2, <3>3
  <2>2. CASE i = Len(queue) + 1
    <3>1. Before(i)' = LastRead
      <4>1. CASE queue = <<>>
        <5>1. i = 1
          BY <2>2, <4>1
        <5> QED
          BY <1>5, <4>1, <5>1 DEF Before, LastRead
      <4>2. CASE queue # <<>>
        <5>1. Len(queue) \in 1..Len(queue) /\ i # 1 /\ i - 1 = Len(queue)
          BY <1>3, <2>2, <4>2, EmptySeq
        <5> QED
          BY <1>6, <4>2, <5>1 DEF Before, LastRead
      <4> QED
        BY <4>1, <4>2
    <3> QED
      BY <1>6, <1>9, <1>10, <2>2, <3>1
  <2> QED
    BY <1>3, <1>6, <2>1, <2>2
<1>14. Streaming'
  BY <1>12, <1>13 DEF Streaming, Follows
<1>15. Asked' /\ Replaying' /\ OverMeansTold'
  BY <1>1 DEF Asked, Replaying, OverMeansTold
<1> QED
  BY <1>5, <1>14, <1>15 DEF Position

\* The oldest frame of the queue is delivered: the next is the oldest then.
LEMMA PositionForward ==
  ASSUME Shape, Position, Forward
  PROVE  Position'
<1> DEFINE n == Head(queue)
<1>1. /\ conn = "live" /\ queue # <<>> /\ queue' = Tail(queue) /\ Deliver(n)
      /\ stream' = stream /\ horizon' = horizon /\ expired' = expired /\ cursor' = cursor
  BY DEF Forward, redis
<1>2. /\ queue \in Seq(1..Len(stream)) /\ Len(queue) \in Nat \ {0} /\ horizon \in Nat
      /\ Len(stream) \in Nat /\ Top \in 0..Len(stream)
  BY <1>1, EmptySeq, TopIsNewest, Positions DEF Shape, TypeOK, Position, Sent
<1>3. /\ n = queue[1] /\ n \in 1..Len(stream)
      /\ Len(queue') = Len(queue) - 1 /\ \A i \in 1..Len(queue') : queue'[i] = queue[i + 1]
      /\ queue' = <<>> <=> Len(queue') = 0
  <2>1. /\ Len(Tail(queue)) = Len(queue) - 1 /\ Tail(queue) \in Seq(1..Len(stream))
        /\ \A i \in 1..Len(Tail(queue)) : Tail(queue)[i] = queue[i + 1]
        /\ Head(queue) \in 1..Len(stream) /\ Head(queue) = queue[1]
    BY <1>1, <1>2, HeadTailProperties
  <2> QED
    BY <1>1, <2>1, EmptySeq
<1>4. /\ Names(cursor, LastRead)
      /\ \A i \in 1..Len(queue) : Before(i) < queue[i] /\ Follows(queue[i], Before(i))
  BY <1>1 DEF Position, Streaming
<1>5. Top < n /\ Follows(n, Top)
  <2>1. 1 \in 1..Len(queue) /\ Before(1) = Top
    BY <1>2 DEF Before
  <2> QED
    BY <1>3, <1>4, <2>1
<1>6. Sent' /\ Top' = n /\ got' # <<>> /\ got'[Len(got')] = n
  BY <1>1, <1>3, <1>5, DeliveredInOrder DEF Position
<1>7. conn' = (IF EndsSession(stream[n].type) THEN "over" ELSE "live")
  BY <1>1 DEF Deliver
<1>8. LastRead' = LastRead /\ LastRead \in 0..Len(stream)
  <2>1. CASE Len(queue) = 1
    BY <1>1, <1>3, <1>6, <2>1, LastReadIsPosition DEF LastRead, Position
  <2>2. CASE Len(queue) # 1
    <3>1. Len(queue') \in 1..Len(queue') /\ Len(queue') + 1 = Len(queue)
      BY <1>2, <1>3, <2>2
    <3> QED
      BY <1>1, <1>3, <3>1, LastReadIsPosition DEF LastRead, Position
  <2> QED
    BY <2>1, <2>2
<1>9. Names(cursor, LastRead)'
  BY <1>1, <1>4, <1>8 DEF Names, IdOf
<1>10. ASSUME NEW i \in 1..Len(queue')
       PROVE  Before(i)' = Before(i + 1) /\ queue'[i] = queue[i + 1] /\ i + 1 \in 1..Len(queue)
  <2>1. i + 1 \in 1..Len(queue) /\ i + 1 # 1 /\ (i + 1) - 1 = i
    BY <1>2, <1>3, <1>10
  <2>2. CASE i = 1
    BY <1>3, <1>6, <2>1, <2>2 DEF Before
  <2>3. CASE i # 1
    <3>1. i - 1 \in 1..Len(queue') /\ (i - 1) + 1 = i
      BY <1>2, <1>3, <1>10, <2>3
    <3>2. queue'[i - 1] = queue[i]
      BY <1>3, <3>1
    <3> QED
      BY <1>3, <1>10, <2>1, <2>3, <3>2 DEF Before
  <2> QED
    BY <2>2, <2>3
<1>11. Streaming'
  BY <1>1, <1>4, <1>9, <1>10 DEF Streaming, Follows
<1>12. Asked' /\ Replaying'
  BY <1>7 DEF Asked, Replaying
<1>13. OverMeansTold'
  BY <1>1, <1>6, <1>7 DEF OverMeansTold, EndsSession
<1> QED
  BY <1>6, <1>11, <1>12, <1>13 DEF Position

LEMMA PositionStep ==
  ASSUME FewPerMs, Shape, Written, Hinted, Position, [Next]_vars, Hinted'
  PROVE  Position'
BY PositionOpen, PositionRun, PositionHistory, PositionReplay, PositionEndReplay,
   PositionRead, PositionForward DEF Next, Server, Client, Run

\* All of it, for the theorems that follow.
SocketInv == Shape /\ Written /\ Hinted /\ StatusIsTrue /\ Position

LEMMA SocketInductive ==
  ASSUME FewPerMs
  PROVE  (Init => SocketInv) /\ (SocketInv /\ [Next]_vars => SocketInv')
<1>1. Init => SocketInv
  BY ShapeInit, WrittenInit, PositionInit DEF SocketInv, Init, Hinted, StatusIsTrue
<1>2. SocketInv /\ [Next]_vars => SocketInv'
  BY ShapeStep, WrittenStep, StatusStep, PositionStep DEF SocketInv
<1> QED
  BY <1>1, <1>2

\* Over all sessions and reconnects a page is sent entries in the order of the
\* stream and none twice (agent_gateway.py:285, LcaAgentStreamClient.ts:25-26), as
\* long as a millisecond has at most Radix entries: with more, the replay's
\* comparison of ids as strings is wrong.
THEOREM NothingIsRedelivered == FewPerMs /\ Spec => []NoRedelivery
<1>1. SocketInv => NoRedelivery
  BY DEF SocketInv, Position, Sent
<1>2. FewPerMs /\ Init => SocketInv
  BY SocketInductive
<1>3. FewPerMs /\ SocketInv /\ [Next]_vars => SocketInv'
  BY SocketInductive
<1>4. FewPerMs => FewPerMs'
  BY DEF FewPerMs
<1> QED
  BY <1>1, <1>2, <1>3, <1>4, PTL DEF Spec

\* Nothing within the server's reach is left out, across broken connections, the
\* switch from the replay to the live loop and trimming (agent_gateway.py:11-14).
THEOREM NothingIsSkipped == FewPerMs /\ Spec => []NoGap
<1>1. SocketInv => NoGap
  BY DEF SocketInv, Position, Sent
<1>2. FewPerMs /\ Init => SocketInv
  BY SocketInductive
<1>3. FewPerMs /\ SocketInv /\ [Next]_vars => SocketInv'
  BY SocketInductive
<1>4. FewPerMs => FewPerMs'
  BY DEF FewPerMs
<1> QED
  BY <1>1, <1>2, <1>3, <1>4, PTL DEF Spec

\* A client that has ended its session was sent an entry that ends it, unless the
\* key expired (LcaAgentStreamClient.ts:384-391).
THEOREM OverOnlyWhenTold == FewPerMs /\ Spec => []OverMeansTold
<1>1. SocketInv => OverMeansTold
  BY DEF SocketInv, Position
<1>2. FewPerMs /\ Init => SocketInv
  BY SocketInductive
<1>3. FewPerMs /\ SocketInv /\ [Next]_vars => SocketInv'
  BY SocketInductive
<1>4. FewPerMs => FewPerMs'
  BY DEF FewPerMs
<1> QED
  BY <1>1, <1>2, <1>3, <1>4, PTL DEF Spec
=============================================================================
