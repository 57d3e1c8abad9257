--------------------------- MODULE RunFlightProofs ---------------------------
(***************************************************************************)
(* One request is in flight once, for any number of runs, requests and     *)
(* restarts, whatever write fails and whatever a driver absorbs: until a   *)
(* run asks its first question, and unless a rebuilt session took the      *)
(* lease of its request, the lease names it (Leased).  Every release of a  *)
(* lease is for a run that asked, ended or was rebuilt.                    *)
(***************************************************************************)
EXTENDS RunLifecycleProofs

\* No session was rebuilt for a run of the same request.
Alone(r) ==
  \A s \in Session : s[2] > 0 /\ DedupKey[s[1]] = DedupKey[r] => status[s] = "absent"

\* The run is in flight and has not asked anything.
Fresh(r) == status[<<r, 0>>] \in InFlight /\ raised[r] = 0 /\ Alone(r)

Leased == \A r \in Runs : Fresh(r) => lease[DedupKey[r]] = r

\* What is indexed was built, and a fresh run is indexed.
Entered ==
  /\ \A s \in index : status[s] # "absent"
  /\ \A r \in Runs : Fresh(r) => <<r, 0>> \in index

\* A run that pauses, or waits, has asked.
Asked ==
  \A r \in Runs :
    status[<<r, 0>>] = "waiting_input" \/ (\E t \in Task : pc[<<r, 0>>][t] = "pause")
      => raised[r] # 0

\* An execute task that will start finds its session in flight.
Scheduled ==
  \A s \in Session :
    pc[s][Execute] = "ready" /\ NotCancelled(s, Execute) => status[s] \in InFlight

Flight == Leased /\ Entered /\ Asked /\ Scheduled

LEMMA FlightIsSingleFlight == Leased => SingleFlight
<1> SUFFICES ASSUME Leased,
                    NEW r1 \in Runs, NEW r2 \in Runs,
                    r1 # r2, DedupKey[r1] = DedupKey[r2],
                    \A r \in {r1, r2} : status[<<r, 0>>] \in InFlight /\ raised[r] = 0
             PROVE  \E s \in Session : /\ s[2] > 0 /\ status[s] # "absent"
                                       /\ DedupKey[s[1]] = DedupKey[r1]
  BY DEF SingleFlight
<1>1. ~Alone(r1)
  BY DEF Leased, Fresh, Alone
<1> QED
  BY <1>1 DEF Alone

LEMMA FlightInit == Init => Flight
<1> SUFFICES ASSUME Init PROVE Flight
  OBVIOUS
<1>1. Leased /\ Entered
  BY Identities DEF Init, Leased, Entered, Fresh, InFlight
<1>2. Asked
  BY Identities DEF Init, Asked
<1>3. Scheduled
  BY Identities DEF Init, Scheduled
<1> QED
  BY <1>1, <1>2, <1>3 DEF Flight

-----------------------------------------------------------------------------
(* What stays built, and who will start                                    *)

\* A step never takes a session back to "absent".
LEMMA NeverUnbuilt ==
  ASSUME TypeOK, [Next]_vars
  PROVE  \A x \in Session : status'[x] = "absent" => status[x] = "absent"
<1>0. status \in [Session -> Status]
  BY DEF TypeOK
<1>1. ASSUME NEW s \in Session, NEW to \in Status \ {"absent"},
             status' = [status EXCEPT ![s] = to]
      PROVE  \A x \in Session : status'[x] = "absent" => status[x] = "absent"
  BY <1>0, <1>1
<1>2. {"pending", "running", "waiting_input", "canceled"} \cup Terminal
        \subseteq Status \ {"absent"}
  BY DEF Status, InFlight, Terminal
<1>3. ASSUME NEW s \in Session,
             \E w \in Worker : MarkCancelled(s, w)
      PROVE  \A x \in Session : status'[x] = "absent" => status[x] = "absent"
  BY <1>1, <1>2, <1>3 DEF MarkCancelled, RequestCancel
<1>4. ASSUME NEW s \in Session,
             \E w \in Worker, outcome \in Terminal : EnterTerminal(s, w, outcome)
      PROVE  \A x \in Session : status'[x] = "absent" => status[x] = "absent"
  BY <1>1, <1>2, <1>4 DEF EnterTerminal
<1>5. ASSUME NEW r \in Runs, Create(r) \/ RestoreBegin(r) \/ Recovery(r)
      PROVE  \A x \in Session : status'[x] = "absent" => status[x] = "absent"
  BY <1>1, <1>2, <1>5, Identities
  DEF Create, RestoreBegin, Recovery, RestoreFails, RestoreEnd
<1>6. ASSUME NEW s \in Session, Loop(s)
      PROVE  \A x \in Session : status'[x] = "absent" => status[x] = "absent"
  <2>1. CASE Start(s) \/ \E a \in Ask : Resume(s, a)
    BY <1>1, <1>2, <2>1 DEF Start, Resume
  <2>2. CASE \E t \in Task : TaskKilled(s, t) \/ PauseSettles(s, t)
    BY <1>3, <2>2, Identities DEF TaskKilled, PauseSettles
  <2>3. CASE \E w \in Worker : Materialize(s, w) \/ Close(s, w)
    BY <1>3, <2>3 DEF Materialize, Close
  <2> QED
    BY <1>6, <2>1, <2>2, <2>3 DEF Loop
<1>7. ASSUME NEW s \in Session, NEW t \in Task, Driver(s, t)
      PROVE  \A x \in Session : status'[x] = "absent" => status[x] = "absent"
  <2>1. CASE \E c \in {"none", "unnamed", "named"} : DriverAsks(s, t, c)
    BY <1>1, <1>2, <2>1 DEF DriverAsks
  <2>2. CASE (\E success \in BOOLEAN : DriverEnds(s, t, success)) \/ DriverCancelled(s, t)
    BY <1>4, <2>2, Identities, DerivedStatusIsTerminal
    DEF DriverEnds, DriverCancelled, Terminal
  <2>3. CASE DriverAbsorbs(s, t)
    BY <2>3 DEF DriverAbsorbs
  <2> QED
    BY <1>7, <2>1, <2>2, <2>3 DEF Driver
<1>8. ASSUME NEW s \in Session, Cancel(s) \/ \E c \in Clients, a \in Ask : Answer(s, c, a)
      PROVE  \A x \in Session : status'[x] = "absent" => status[x] = "absent"
  BY <1>1, <1>2, <1>4, <1>8, Identities DEF Cancel, RequestCancel, Answer, Terminal
<1>9. ASSUME NEW k \in Keys, Coalesce(k)
      PROVE  \A x \in Session : status'[x] = "absent" => status[x] = "absent"
  BY <1>9 DEF Coalesce
<1>10. CASE Crash
  BY <1>10 DEF Crash
<1>11. CASE UNCHANGED vars
  BY <1>11 DEF vars, memory
<1> QED
  BY <1>5, <1>6, <1>7, <1>8, <1>9, <1>10, <1>11 DEF Next, Requests

\* A cancellation reaches the execute task of every session it marks before the
\* task's first step, and no other task works for the session by then.
LEMMA ScheduledStep ==
  ASSUME TypeOK, Placed, Manned, Scheduled, [Next]_vars
  PROVE  Scheduled'
<1> SUFFICES ASSUME NEW x \in Session,
                    pc'[x][Execute] = "ready", Execute \notin cancelling'[x]
             PROVE  status'[x] \in InFlight
  BY DEF Scheduled, NotCancelled
<1>0. /\ Execute \in Task /\ Execute \in Worker /\ Task \subseteq Worker
      /\ Closer \in Worker /\ Closer # Execute
      /\ pc[x][Execute] = "ready" => cur[x] = Execute
      /\ pc[x][Execute] = "ready" => \A t \in Task : pc[x][t] = "drive" => t = Execute
      /\ pc[x][Execute] = "ready" /\ Execute \notin cancelling[x] => status[x] \in InFlight
  BY Identities DEF Placed, AtWork, Scheduled, NotCancelled
<1>1. ASSUME NEW r \in Runs, Create(r)
      PROVE  status'[x] \in InFlight
  <2> DEFINE s == <<r, 0>>
  <2>1. s \in Session
    BY Identities
  <2>2. /\ status' = [status EXCEPT ![s] = "pending"]
        /\ pc' = [pc EXCEPT ![s][Execute] = "ready"]
        /\ UNCHANGED cancelling
    BY <1>1 DEF Create, Goto
  <2> HIDE DEF s
  <2> QED
    BY <1>0, <2>1, <2>2 DEF TypeOK, InFlight
<1>2. ASSUME NEW k \in Keys, Coalesce(k)
      PROVE  status'[x] \in InFlight
  BY <1>0, <1>2 DEF Coalesce
<1>3. ASSUME NEW s \in Session, Start(s)
      PROVE  status'[x] \in InFlight
  BY <1>0, <1>3
  DEF Start, TypeOK, Suspended, Goto, InFlight
<1>4. ASSUME NEW s \in Session, NEW a \in Ask, Resume(s, a)
      PROVE  status'[x] \in InFlight
  BY <1>0, <1>4
  DEF Resume, TypeOK, Suspended, Goto, InFlight
<1>5. ASSUME NEW s \in Session, NEW t \in Task,
             NEW c \in {"none", "unnamed", "named"}, DriverAsks(s, t, c)
      PROVE  status'[x] \in InFlight
  BY <1>0, <1>5
  DEF DriverAsks, TypeOK, Suspended, Goto, InFlight
<1>6. ASSUME NEW s \in Session, NEW t \in Task, NEW success \in BOOLEAN,
             DriverEnds(s, t, success)
      PROVE  status'[x] \in InFlight
  <2>1. PICK outcome \in Terminal : EnterTerminal(s, t, outcome)
    BY <1>6, Identities, DerivedStatusIsTerminal DEF DriverEnds
  <2>2. pc[s][t] = "drive" /\ UNCHANGED cancelling
    BY <1>6 DEF DriverEnds, Suspended
  <2> QED
    BY <1>0, <2>1, <2>2 DEF EnterTerminal, TypeOK, Goto, InFlight
<1>7. ASSUME NEW s \in Session, NEW t \in Task, DriverCancelled(s, t)
      PROVE  status'[x] \in InFlight
  BY <1>0, <1>7
  DEF DriverCancelled, EnterTerminal, TypeOK, Suspended, Goto, InFlight
<1>8. ASSUME NEW s \in Session, NEW t \in Task, DriverAbsorbs(s, t)
      PROVE  status'[x] \in InFlight
  BY <1>0, <1>8
  DEF DriverAbsorbs, TypeOK, Suspended, Goto, InFlight
<1>9. ASSUME NEW s \in Session, NEW t \in Task, TaskKilled(s, t)
      PROVE  status'[x] \in InFlight
  BY <1>0, <1>9
  DEF TaskKilled, MarkCancelled, RequestCancel, TypeOK, Suspended, Goto, InFlight
<1>10. ASSUME NEW s \in Session, NEW t \in Task, PauseSettles(s, t)
      PROVE  status'[x] \in InFlight
  BY <1>0, <1>10
  DEF PauseSettles, MarkCancelled, RequestCancel, TypeOK, Suspended, Goto, InFlight
<1>11. ASSUME NEW s \in Session, NEW w \in Worker, Materialize(s, w)
      PROVE  status'[x] \in InFlight
  <2>1. UNCHANGED <<status, cancelling>>
    BY <1>11 DEF Materialize
  <2>2. \E where \in {"closing", "killed"} : pc' = [pc EXCEPT ![s][w] = where]
    BY <1>11 DEF Materialize, Goto
  <2> QED
    BY <1>0, <2>1, <2>2 DEF TypeOK
<1>12. ASSUME NEW s \in Session, NEW w \in Worker, Close(s, w)
      PROVE  status'[x] \in InFlight
  BY <1>0, <1>12
  DEF Close, MarkCancelled, RequestCancel, TypeOK, Suspended, Goto, InFlight
<1>13. ASSUME NEW s \in Session, Cancel(s)
      PROVE  status'[x] \in InFlight
  <2>1. CASE CurLive(s)
    <3>1. /\ status' = [status EXCEPT ![s] = "canceled"] /\ UNCHANGED pc
          /\ cancelling' = [cancelling EXCEPT ![s] = @ \cup {cur[s]}]
      BY <1>13, <2>1 DEF Cancel, RequestCancel
    <3> QED
      BY <1>0, <3>1 DEF TypeOK
  <2>2. CASE ~CurLive(s)
    <3>1. /\ status' = [status EXCEPT ![s] = "canceled"] /\ UNCHANGED cancelling
          /\ pc' = [pc EXCEPT ![s][Closer] = "final"]
      BY <1>13, <2>2 DEF Cancel, EnterTerminal, Goto
    <3> QED
      BY <1>0, <2>2, <3>1 DEF TypeOK, CurLive, Live
  <2> QED
    BY <2>1, <2>2
<1>14. ASSUME NEW s \in Session, NEW c \in Clients, NEW a \in Ask,
             Answer(s, c, a)
      PROVE  status'[x] \in InFlight
  BY <1>0, <1>14
  DEF Answer, TypeOK, Suspended, Goto, InFlight
<1>15. ASSUME NEW r \in Runs, RestoreBegin(r)
      PROVE  status'[x] \in InFlight
  BY <1>0, <1>15 DEF RestoreBegin
<1>16. ASSUME NEW r \in Runs, NEW n \in 1..MaxRestores, RestoreEnd(r, n)
      PROVE  status'[x] \in InFlight
  <2> DEFINE s == <<r, n>>
  <2>1. s \in Session
    BY Identities
  <2>2. /\ status[s] = "absent" /\ UNCHANGED <<pc, cancelling>>
        /\ status' = [status EXCEPT ![s] = "waiting_input"]
    BY <1>16 DEF RestoreEnd
  <2>3. pc[s][Execute] = "idle"
    BY <1>0, <2>1, <2>2 DEF Manned, MannedAt
  <2> HIDE DEF s
  <2> QED
    BY <1>0, <2>1, <2>2, <2>3 DEF TypeOK
<1>17. ASSUME NEW r \in Runs, RestoreFails(r)
      PROVE  status'[x] \in InFlight
  BY <1>0, <1>17 DEF RestoreFails
<1>18. ASSUME Crash
      PROVE  status'[x] \in InFlight
  BY <1>0, <1>18 DEF Crash
<1>19. CASE UNCHANGED vars
  BY <1>0, <1>19 DEF vars, memory
<1> QED
  BY <1>1, <1>2, <1>3, <1>4, <1>5, <1>6, <1>7, <1>8, <1>9, <1>10, <1>11, <1>12,
     <1>13, <1>14, <1>15, <1>16, <1>17, <1>18, <1>19
  DEF Next, Requests, Driver, Loop, Recovery

-----------------------------------------------------------------------------
(* The questions the first session of a run asked                          *)

\* A step that neither creates a run nor asks a question.
Moves ==
  /\ UNCHANGED raised
  /\ \A x \in Session : x[2] = 0 =>
       /\ status'[x] \in {"pending", "waiting_input"} => status'[x] = status[x]
       /\ \A t \in Task : pc'[x][t] = "pause" => pc[x][t] = "pause"

LEMMA MovesOn ==
  ASSUME TypeOK, UNCHANGED raised, NEW s \in Session, NEW w \in Worker,
         NEW where \in Control \ {"pause"}, Goto(s, w, where),
         \A x \in Session : status'[x] \in {"pending", "waiting_input"} => status'[x] = status[x]
  PROVE  Moves
<1>1. /\ {"pause", "idle"} \subseteq Control
      /\ pc \in [Session -> [Worker -> Control]] /\ Task \subseteq Worker
  BY Identities DEF TypeOK, Control, Live
<1>2. ASSUME NEW x \in Session, NEW t \in Task, pc'[x][t] = "pause"
      PROVE  pc[x][t] = "pause"
  BY <1>1, <1>2 DEF Goto
<1> QED
  BY <1>2 DEF Moves

LEMMA StepMoves ==
  ASSUME TypeOK, Next
  PROVE  \/ \E r \in Runs : Create(r)
         \/ \E s \in Session, t \in Task, c \in {"none", "unnamed", "named"} :
              DriverAsks(s, t, c)
         \/ Moves
<1>0. /\ TypeOK /\ status \in [Session -> Status] /\ Task \subseteq Worker
      /\ {"ready", "drive", "final", "closing", "done", "killed"} \subseteq Control \ {"pause"}
      /\ "pending" \notin Terminal /\ "waiting_input" \notin Terminal /\ "canceled" \in Terminal
  BY Identities DEF TypeOK, Control, Live, Terminal
<1>1. ASSUME UNCHANGED <<status, pc, raised>>
      PROVE  Moves
  BY <1>1 DEF Moves
<1>2. ASSUME NEW s \in Session, NEW outcome \in Terminal \cup {"running"},
             status' = [status EXCEPT ![s] = outcome]
      PROVE  \A x \in Session : status'[x] \in {"pending", "waiting_input"} => status'[x] = status[x]
  BY <1>0, <1>2
<1>3. ASSUME NEW s \in Session, NEW w \in Worker, NEW outcome \in Terminal,
             EnterTerminal(s, w, outcome), UNCHANGED raised
      PROVE  Moves
  <2>1. Goto(s, w, "final") /\ status' = [status EXCEPT ![s] = outcome]
    BY <1>3 DEF EnterTerminal
  <2> QED
    BY <1>0, <1>2, <1>3, <2>1, MovesOn
<1>4. ASSUME NEW k \in Keys, Coalesce(k)
      PROVE  Moves
  BY <1>1, <1>4 DEF Coalesce, history
<1>5. ASSUME NEW r \in Runs, RestoreBegin(r) \/ RestoreFails(r)
      PROVE  Moves
  BY <1>1, <1>5 DEF RestoreBegin, RestoreFails, history
<1>6. ASSUME NEW r \in Runs, NEW n \in 1..MaxRestores, RestoreEnd(r, n)
      PROVE  Moves
  <2>1. <<r, n>> \in Session /\ n # 0
    BY Identities, RunAssumption DEF RunAssumption
  <2>2. /\ status' = [status EXCEPT ![<<r, n>>] = "waiting_input"]
        /\ UNCHANGED <<pc, raised>>
    BY <1>6 DEF RestoreEnd, history
  <2>3. \A x \in Session : x[2] = 0 => x # <<r, n>> /\ status'[x] = status[x]
    BY <1>0, <2>1, <2>2
  <2> QED
    BY <2>2, <2>3 DEF Moves
<1>7. ASSUME NEW s \in Session, Start(s)
      PROVE  Moves
  <2>1. Goto(s, Execute, "drive") /\ status' = [status EXCEPT ![s] = "running"]
        /\ UNCHANGED raised /\ Execute \in Worker
    BY <1>7, Identities DEF Start, history
  <2> QED
    BY <1>0, <1>2, <2>1, MovesOn
<1>8. ASSUME NEW s \in Session, NEW a \in Ask, Resume(s, a)
      PROVE  Moves
  <2>1. Goto(s, a, "drive") /\ status' = [status EXCEPT ![s] = "running"]
        /\ UNCHANGED raised /\ a \in Worker
    BY <1>8, Identities DEF Resume, history
  <2> QED
    BY <1>0, <1>2, <2>1, MovesOn
<1>9. ASSUME NEW s \in Session, NEW t \in Task, NEW success \in BOOLEAN,
             DriverEnds(s, t, success)
      PROVE  Moves
  <2>1. DerivedStatus(s, t, success) \in Terminal
    BY Identities, DerivedStatusIsTerminal
  <2>2. EnterTerminal(s, t, DerivedStatus(s, t, success)) /\ UNCHANGED raised
    BY <1>9 DEF DriverEnds, history
  <2> QED
    BY <1>0, <1>3, <2>1, <2>2
<1>10. ASSUME NEW s \in Session, NEW t \in Task, DriverCancelled(s, t)
      PROVE  Moves
  BY <1>0, <1>3, <1>10 DEF DriverCancelled, history
<1>11. ASSUME NEW s \in Session, NEW t \in Task, DriverAbsorbs(s, t)
      PROVE  Moves
  BY <1>1, <1>11 DEF DriverAbsorbs, history
<1>12. ASSUME NEW s \in Session, NEW w \in Worker, NEW where \in {"done", "killed"},
             MarkCancelled(s, w), Goto(s, w, where), UNCHANGED raised
      PROVE  Moves
  <2>1. \A x \in Session : status'[x] \in {"pending", "waiting_input"} => status'[x] = status[x]
    <3>1. UNCHANGED status \/ status' = [status EXCEPT ![s] = "canceled"]
      BY <1>12 DEF MarkCancelled, RequestCancel
    <3> QED
      BY <1>0, <1>2, <3>1
  <2> QED
    BY <1>0, <1>12, <2>1, MovesOn
<1>13. ASSUME NEW s \in Session, NEW t \in Task, TaskKilled(s, t) \/ PauseSettles(s, t)
      PROVE  Moves
  BY <1>0, <1>12, <1>13 DEF TaskKilled, PauseSettles, history
<1>14. ASSUME NEW s \in Session, NEW w \in Worker, Materialize(s, w)
      PROVE  Moves
  <2>1. /\ \E where \in {"closing", "killed"} : Goto(s, w, where)
        /\ UNCHANGED <<status, raised>>
    BY <1>14 DEF Materialize, history
  <2> QED
    BY <1>0, <2>1, MovesOn
<1>15. ASSUME NEW s \in Session, NEW w \in Worker, Close(s, w)
      PROVE  Moves
  BY <1>12, <1>15 DEF Close, history
<1>16. ASSUME NEW s \in Session, Cancel(s)
      PROVE  Moves
  <2>1. CASE EnterTerminal(s, Closer, "canceled")
    BY <1>0, <1>3, <1>16, <2>1, Identities DEF Cancel, history
  <2>2. CASE RequestCancel(s) /\ UNCHANGED pc
    BY <1>0, <1>2, <1>16, <2>2 DEF Cancel, RequestCancel, Moves, history
  <2> QED
    BY <1>16, <2>1, <2>2 DEF Cancel
<1>17. ASSUME NEW s \in Session, NEW c \in Clients, NEW a \in Ask, Answer(s, c, a)
      PROVE  Moves
  <2>1. Goto(s, ask[s], "ready") /\ status' = [status EXCEPT ![s] = "running"]
        /\ UNCHANGED raised
    BY <1>17 DEF Answer
  <2>2. ask[s] \in Worker
    BY <1>0, RunAssumption DEF TypeOK, Worker, Task, RunAssumption
  <2> QED
    BY <1>0, <1>2, <2>1, <2>2, MovesOn
<1>18. CASE Crash
  <2>1. \A x \in Session : status'[x] \in {"absent", "lost"}
    BY <1>18 DEF Crash
  <2>2. \A x \in Session, t \in Task : pc'[x][t] = "idle"
    BY <1>0, <1>18 DEF Crash
  <2> QED
    BY <1>18, <2>1, <2>2 DEF Crash, Moves
<1> QED
  BY <1>4, <1>5, <1>6, <1>7, <1>8, <1>9, <1>10, <1>11, <1>13, <1>14, <1>15, <1>16,
     <1>17, <1>18
  DEF Next, Requests, Driver, Loop, Recovery

LEMMA AskedStep ==
  ASSUME TypeOK, Asked, [Next]_vars
  PROVE  Asked' /\ \A r \in Runs : raised[r] # 0 => raised'[r] # 0
<1>0. /\ TypeOK /\ status \in [Session -> Status]
      /\ pc \in [Session -> [Worker -> Control]] /\ raised \in [Runs -> 0..MaxAsks]
      /\ Task \subseteq Worker /\ \A r \in Runs : <<r, 0>> \in Session
  BY Identities DEF TypeOK
<1>1. ASSUME NEW r \in Runs, Create(r)
      PROVE  Asked' /\ UNCHANGED raised
  <2>1. /\ status' = [status EXCEPT ![<<r, 0>>] = "pending"]
        /\ pc' = [pc EXCEPT ![<<r, 0>>][Execute] = "ready"] /\ UNCHANGED raised
    BY <1>1 DEF Create, Goto, history
  <2>2. \A q \in Runs : status'[<<q, 0>>] = "waiting_input" => status[<<q, 0>>] = "waiting_input"
    BY <1>0, <2>1
  <2>3. \A q \in Runs, t \in Task : pc'[<<q, 0>>][t] = "pause" => pc[<<q, 0>>][t] = "pause"
    BY <1>0, <2>1
  <2> QED
    BY <2>1, <2>2, <2>3 DEF Asked
<1>2. ASSUME NEW s \in Session, NEW t \in Task, NEW c \in {"none", "unnamed", "named"},
             DriverAsks(s, t, c)
      PROVE  Asked' /\ \A r \in Runs : raised[r] # 0 => raised'[r] # 0
  <2>1. /\ status' = [status EXCEPT ![s] = "waiting_input"]
        /\ pc' = [pc EXCEPT ![s][t] = "pause"]
        /\ raised' = [raised EXCEPT ![s[1]] = raised[s[1]] + 1]
    BY <1>2 DEF DriverAsks, Goto
  <2>2. s[1] \in Runs /\ raised'[s[1]] # 0
    <3>1. s[1] \in Runs
      BY Identities
    <3>2. raised'[s[1]] = raised[s[1]] + 1 /\ raised[s[1]] \in Nat
      BY <1>0, <2>1, <3>1, RunAssumption DEF RunAssumption
    <3> QED
      BY <3>1, <3>2
  <2>3. \A r \in Runs : r # s[1] => raised'[r] = raised[r]
    BY <1>0, <2>1
  <2>4. ASSUME NEW r \in Runs, r # s[1]
        PROVE  status'[<<r, 0>>] = status[<<r, 0>>] /\ pc'[<<r, 0>>] = pc[<<r, 0>>]
    BY <1>0, <2>1, <2>4
  <2> QED
    BY <2>2, <2>3, <2>4 DEF Asked
<1>3. CASE Moves
  <2>1. \A r \in Runs : status'[<<r, 0>>] = "waiting_input" => status[<<r, 0>>] = "waiting_input"
    BY <1>0, <1>3 DEF Moves
  <2>2. \A r \in Runs, t \in Task : pc'[<<r, 0>>][t] = "pause" => pc[<<r, 0>>][t] = "pause"
    BY <1>0, <1>3 DEF Moves
  <2> QED
    BY <1>3, <2>1, <2>2 DEF Asked, Moves
<1>4. CASE UNCHANGED vars
  BY <1>4 DEF Asked, vars, memory, history
<1> QED
  BY <1>1, <1>2, <1>3, <1>4, StepMoves

-----------------------------------------------------------------------------
(* The lease of a run in flight                                            *)

\* A prune keeps the lease of a fresh run.
LEMMA PruneKeepsLease ==
  ASSUME TypeOK, Entered, NEW S \in PruneResults, NEW r \in Runs,
         Fresh(r), lease[DedupKey[r]] = r
  PROVE  /\ <<r, 0>> \in S /\ r \notin RunsOf(index \ S)
         /\ Released(RunsOf(index \ S))[DedupKey[r]] = r
<1>1. <<r, 0>> \in Session /\ <<r, 0>> \in index /\ DedupKey[r] \in Keys
  BY Identities, RunAssumption DEF Entered, RunAssumption
<1>2. <<r, 0>> \in S
  BY <1>1, PruneDropsTerminal DEF Fresh, InFlight, Terminal
<1>3. \A x \in index : x[1] = r => x = <<r, 0>>
  <2> SUFFICES ASSUME NEW x \in index, x[1] = r, x # <<r, 0>> PROVE FALSE
    OBVIOUS
  <2>1. x \in Session /\ status[x] # "absent"
    BY DEF TypeOK, Entered
  <2>2. x[2] > 0
    BY <2>1, RunAssumption DEF Session, RunAssumption
  <2> QED
    BY <2>1, <2>2 DEF Fresh, Alone
<1>4. r \notin RunsOf(index \ S)
  BY <1>2, <1>3 DEF RunsOf
<1> QED
  BY <1>1, <1>2, <1>4 DEF Released

\* A request whose fingerprint is leased to a fresh run is not admitted.
LEMMA LeaseCoalesces ==
  ASSUME TypeOK, Entered, NEW S \in PruneResults, NEW r \in Runs,
         Fresh(r), lease[DedupKey[r]] = r
  PROVE  Coalescible(DedupKey[r], S)
BY PruneKeepsLease DEF Coalescible, Fresh

\* A run that is fresh after a step was fresh before it or has just been created.
LEMMA FreshBack ==
  ASSUME SafeManned, Asked, Scheduled, Next, NEW r \in Runs, Fresh(r)'
  PROVE  Fresh(r) \/ Create(r)
<1>0. /\ <<r, 0>> \in Session /\ status \in [Session -> Status] /\ TypeOK
      /\ \A q \in Runs : <<q, 0>> \in Session
      /\ status'[<<r, 0>>] \in InFlight /\ raised'[r] = 0
  BY Identities DEF Fresh, SafeManned, Safe, TypeOK
<1>1. raised[r] = 0
  BY AskedStep, <1>0
<1>2. Alone(r)
  BY <1>0, NeverUnbuilt DEF Fresh, Alone
<1>3. ASSUME Moves, status[<<r, 0>>] \notin InFlight
      PROVE  FALSE
  <2>1. status'[<<r, 0>>] = "running"
    BY <1>0, <1>3 DEF Moves, InFlight
  <2>2. ASSUME NEW s \in Session, NEW outcome, outcome # "running",
               status' = [status EXCEPT ![s] = outcome]
        PROVE  FALSE
    BY <1>0, <1>3, <2>1, <2>2
  <2>3. status' # status
    BY <1>0, <1>3, <2>1 DEF InFlight
  <2>4. ~\E q \in Runs : Create(q) \/ RestoreBegin(q) \/ Recovery(q)
    BY <2>2, <2>3, Identities DEF Create, RestoreBegin, Recovery, RestoreFails, RestoreEnd
  <2>5. ~\E k \in Keys : Coalesce(k)
    BY <2>3 DEF Coalesce
  <2>6. ~\E s \in Session : Start(s)
    BY <1>0, <1>3, <2>1 DEF Start, Suspended, Scheduled
  <2>7. ~\E s \in Session, a \in Ask : Resume(s, a)
    <3> SUFFICES ASSUME NEW s \in Session, NEW a \in Ask, Resume(s, a) PROVE FALSE
      OBVIOUS
    <3>1. s = <<r, 0>> /\ pc[s][a] = "ready"
      BY <1>0, <1>3, <2>1 DEF Resume, Suspended
    <3>2. ask[s] = 0
      BY <1>0, <1>1, <3>1, RunAssumption
      DEF SafeManned, Manned, AskedBefore, TypeOK, RunAssumption
    <3>3. a > ask[s]
      BY <3>2, RunAssumption DEF Ask, RunAssumption
    <3> QED
      BY <3>1, <3>3 DEF SafeManned, Manned, MannedAt, ToCome
  <2>8. ~\E s \in Session, c \in Clients, a \in Ask : Answer(s, c, a)
    <3> SUFFICES ASSUME NEW s \in Session, NEW c \in Clients, NEW a \in Ask, Answer(s, c, a)
                 PROVE  FALSE
      OBVIOUS
    <3>1. s = <<r, 0>> /\ status[s] = "waiting_input"
      BY <1>0, <1>3, <2>1 DEF Answer, MayResume
    <3> QED
      BY <1>1, <3>1 DEF Asked
  <2>9. ASSUME NEW s \in Session, NEW w \in Worker, MarkCancelled(s, w) PROVE FALSE
    BY <2>2, <2>3, <2>9 DEF MarkCancelled, RequestCancel
  <2>10. ASSUME NEW s \in Session, NEW w \in Worker, NEW outcome \in Terminal,
                EnterTerminal(s, w, outcome)
         PROVE  FALSE
    BY <2>2, <2>10 DEF EnterTerminal, Terminal
  <2>11. ~\E s \in Session, t \in Task :
            \/ TaskKilled(s, t) \/ PauseSettles(s, t)
            \/ \E c \in {"none", "unnamed", "named"} : DriverAsks(s, t, c)
            \/ DriverAbsorbs(s, t)
    <3> SUFFICES ASSUME NEW s \in Session, NEW t \in Task,
                        \/ TaskKilled(s, t) \/ PauseSettles(s, t)
                        \/ \E c \in {"none", "unnamed", "named"} : DriverAsks(s, t, c)
                        \/ DriverAbsorbs(s, t)
                 PROVE  FALSE
      OBVIOUS
    <3>1. t \in Worker
      BY Identities
    <3>2. CASE TaskKilled(s, t) \/ PauseSettles(s, t)
      BY <2>9, <3>1, <3>2 DEF TaskKilled, PauseSettles
    <3>3. CASE \E c \in {"none", "unnamed", "named"} : DriverAsks(s, t, c)
      BY <2>2, <3>3 DEF DriverAsks
    <3>4. CASE DriverAbsorbs(s, t)
      BY <2>3, <3>4 DEF DriverAbsorbs
    <3> QED
      BY <3>2, <3>3, <3>4
  <2>12. ~\E s \in Session, t \in Task :
            DriverCancelled(s, t) \/ \E success \in BOOLEAN : DriverEnds(s, t, success)
    BY <2>10, Identities, DerivedStatusIsTerminal DEF DriverCancelled, DriverEnds, Terminal
  <2>13. ~\E s \in Session, w \in Worker : Materialize(s, w) \/ Close(s, w)
    BY <2>3, <2>9 DEF Materialize, Close
  <2>14. ~\E s \in Session : Cancel(s)
    BY <2>2, <2>10, Identities DEF Cancel, RequestCancel, Terminal
  <2>15. ~Crash
    BY <1>0, <2>1 DEF Crash
  <2> QED
    BY <2>4, <2>5, <2>6, <2>7, <2>8, <2>11, <2>12, <2>13, <2>14, <2>15
    DEF Next, Requests, Driver, Loop
<1>4. CASE Moves
  BY <1>1, <1>2, <1>3, <1>4 DEF Fresh
<1>5. ASSUME NEW s \in Session, NEW t \in Task, NEW c \in {"none", "unnamed", "named"},
             DriverAsks(s, t, c)
      PROVE  Fresh(r)
  <2>1. status[<<r, 0>>] \in InFlight
    BY <1>0, <1>5 DEF DriverAsks, InFlight
  <2> QED
    BY <1>1, <1>2, <2>1 DEF Fresh
<1>6. ASSUME NEW q \in Runs, Create(q), q # r
      PROVE  Fresh(r)
  <2>1. status[<<r, 0>>] \in InFlight
    BY <1>0, <1>6 DEF Create
  <2> QED
    BY <1>1, <1>2, <2>1 DEF Fresh
<1> QED
  BY <1>0, <1>4, <1>5, <1>6, StepMoves

\* What a step leaves in the index was there or has been built; it takes only
\* sessions that are over, or the memory of a killed kernel, out of it.
LEMMA EnteredStep ==
  ASSUME SafeManned, Flight, [Next]_vars
  PROVE  Entered'
<1>0. /\ TypeOK /\ Entered /\ \A s \in Session : status'[s] = "absent" => status[s] = "absent"
  BY NeverUnbuilt DEF SafeManned, Safe, Flight
<1>1. ASSUME NEW S \in PruneResults, S \subseteq index'
      PROVE  \A r \in Runs : Fresh(r) => <<r, 0>> \in index'
  <2> SUFFICES ASSUME NEW r \in Runs, Fresh(r) PROVE <<r, 0>> \in S
    BY <1>1
  <2> QED
    BY <1>0, PruneKeepsLease DEF Flight, Leased
<1>2. ASSUME \A x \in index' : x \in index \/ status'[x] # "absent",
             \A r \in Runs : Fresh(r) => <<r, 0>> \in index',
             Next, ~\E r \in Runs : Create(r)
      PROVE  Entered'
  <2>1. \A x \in index' : status'[x] # "absent"
    BY <1>0, <1>2 DEF Entered, TypeOK
  <2>2. \A r \in Runs : Fresh(r)' => <<r, 0>> \in index'
    BY <1>2, FreshBack DEF Flight
  <2> QED
    BY <2>1, <2>2 DEF Entered
<1>3. ASSUME UNCHANGED index, Next, ~\E r \in Runs : Create(r)
      PROVE  Entered'
  BY <1>0, <1>2, <1>3 DEF Entered
<1>4. ASSUME NEW r \in Runs, Create(r)
      PROVE  Entered'
  <2>1. PICK S \in PruneResults : index' = S \cup {<<r, 0>>}
    BY <1>4 DEF Create
  <2>2. S \subseteq index /\ <<r, 0>> \in Session
    BY PruneDropsTerminal, Identities
  <2>3. status'[<<r, 0>>] # "absent"
    BY <1>0, <1>4, <2>2 DEF Create, TypeOK
  <2>4. \A x \in index' : status'[x] # "absent"
    BY <1>0, <2>1, <2>2, <2>3 DEF Entered, TypeOK
  <2>5. Next
    BY <1>4 DEF Next, Requests
  <2>6. ASSUME NEW q \in Runs, Fresh(q)' PROVE <<q, 0>> \in index'
    <3>1. CASE Create(q)
      BY <3>1 DEF Create
    <3>2. CASE Fresh(q)
      BY <1>1, <2>1, <3>2
    <3> QED
      BY <2>5, <2>6, <3>1, <3>2, FreshBack DEF Flight
  <2> QED
    BY <2>4, <2>6 DEF Entered
<1> SUFFICES ASSUME ~\E r \in Runs : Create(r) PROVE Entered'
  BY <1>4
<1>5. ASSUME NEW k \in Keys, Coalesce(k)
      PROVE  Entered'
  <2>1. index' \in PruneResults /\ index' \subseteq index
    BY <1>5, PruneDropsTerminal DEF Coalesce
  <2>2. Next
    BY <1>5 DEF Next, Requests
  <2> QED
    BY <1>1, <1>2, <2>1, <2>2
<1>6. ASSUME NEW s \in Session, NEW w \in Worker, Materialize(s, w)
      PROVE  Entered'
  <2>1. index' \in PruneResults /\ index' \subseteq index
    BY <1>6, PruneDropsTerminal DEF Materialize
  <2>2. Next
    BY <1>6 DEF Next, Loop
  <2> QED
    BY <1>1, <1>2, <2>1, <2>2
<1>7. ASSUME NEW r \in Runs, NEW n \in 1..MaxRestores, RestoreEnd(r, n)
      PROVE  Entered'
  <2>1. <<r, n>> \in Session /\ index' = index \cup {<<r, n>>}
    BY <1>7, Identities DEF RestoreEnd
  <2>2. status'[<<r, n>>] # "absent"
    BY <1>0, <1>7, <2>1 DEF RestoreEnd, TypeOK
  <2>3. Next
    BY <1>7 DEF Next, Recovery
  <2> QED
    BY <1>0, <1>2, <2>1, <2>2, <2>3 DEF Entered
<1>8. CASE Crash
  <2>1. index' = {} /\ \A x \in Session : status'[x] \in {"absent", "lost"}
    BY <1>8 DEF Crash
  <2> QED
    BY <2>1, Identities DEF Entered, Fresh, InFlight
<1>9. CASE UNCHANGED vars
  BY <1>0, <1>9 DEF Entered, Fresh, Alone, vars, memory, history
<1>10. ASSUME Next, ~Crash, ~\E k \in Keys : Coalesce(k),
              ~\E s \in Session, w \in Worker : Materialize(s, w),
              ~\E r \in Runs, n \in 1..MaxRestores : RestoreEnd(r, n)
       PROVE  UNCHANGED index
  BY <1>10
  DEF Next, Requests, Loop, Driver, Recovery, RestoreBegin, Cancel, Answer, Start, Resume,
      TaskKilled, PauseSettles, Close, DriverAsks, DriverEnds, DriverCancelled,
      DriverAbsorbs, RestoreFails
<1> QED
  BY <1>3, <1>5, <1>6, <1>7, <1>8, <1>9, <1>10

LEMMA LeasedStep ==
  ASSUME SafeManned, Flight, [Next]_vars
  PROVE  Leased'
<1> SUFFICES ASSUME NEW r \in Runs, Fresh(r)'
             PROVE  lease'[DedupKey[r]] = r
  BY DEF Leased
<1> DEFINE k == DedupKey[r]
<1>0. /\ TypeOK /\ lease \in [Keys -> Runs \cup {NoRun}] /\ k \in Keys
      /\ <<r, 0>> \in Session /\ Leased /\ Entered /\ Asked /\ Scheduled
      /\ status'[<<r, 0>>] \in InFlight /\ raised'[r] = 0
  BY Identities, RunAssumption DEF SafeManned, Safe, TypeOK, RunAssumption, Flight, Fresh
<1>1. CASE UNCHANGED vars
  <2>1. Fresh(r)
    BY <1>1 DEF vars, memory, history, Fresh, Alone
  <2> QED
    BY <1>0, <1>1, <2>1 DEF Leased, vars, memory
<1>2. CASE Create(r)
  BY <1>0, <1>2 DEF Create, Released
<1> SUFFICES ASSUME Next, ~Create(r), Fresh(r), lease[k] = r, status[<<r, 0>>] \in InFlight
             PROVE  lease'[k] = r
  BY <1>0, <1>1, <1>2, FreshBack DEF Leased, Fresh
<1>3. ASSUME UNCHANGED lease
      PROVE  lease'[k] = r
  BY <1>3
<1>4. ASSUME NEW rs, r \notin rs, lease' = Released(rs)
      PROVE  lease'[k] = r
  BY <1>0, <1>4 DEF Released
<1>5. \A s \in Session : s[1] = r /\ s[2] # 0 =>
        status[s] = "absent" /\ \A w \in Worker : pc[s][w] = "idle"
  <2>1. \A s \in Session : s[2] # 0 => s[2] > 0
    BY RunAssumption DEF Session, RunAssumption
  <2> QED
    BY <1>0, <2>1 DEF Fresh, Alone, SafeManned, Manned, MannedAt
<1>6. \A s \in Session : s[1] = r /\ s[2] = 0 => s = <<r, 0>>
  BY DEF Session
<1>7. ASSUME NEW q \in Runs, Create(q)
      PROVE  lease'[k] = r
  <2>1. PICK S \in PruneResults :
               /\ ~Coalescible(DedupKey[q], S)
               /\ lease' = [Released(RunsOf(index \ S)) EXCEPT ![DedupKey[q]] = q]
    BY <1>7 DEF Create
  <2>2. DedupKey[q] # k
    BY <1>0, <2>1, LeaseCoalesces
  <2>3. Released(RunsOf(index \ S))[k] = r
    BY <1>0, PruneKeepsLease
  <2> QED
    BY <2>1, <2>2, <2>3
<1>8. ASSUME NEW key \in Keys, Coalesce(key)
      PROVE  lease'[k] = r
  <2>1. PICK S \in PruneResults : lease' = Released(RunsOf(index \ S))
    BY <1>8 DEF Coalesce
  <2> QED
    BY <1>0, <2>1, PruneKeepsLease
<1>9. ASSUME NEW s \in Session, NEW t \in Task, NEW c \in {"none", "unnamed", "named"},
             DriverAsks(s, t, c)
      PROVE  lease'[k] = r
  <2>1. s[1] # r
    <3>1. raised' = [raised EXCEPT ![s[1]] = raised[s[1]] + 1] /\ raised[s[1]] + 1 \in Ask
      BY <1>9 DEF DriverAsks
    <3>2. raised \in [Runs -> 0..MaxAsks] /\ 0 \notin Ask
      BY <1>0 DEF TypeOK, Ask
    <3> QED
      BY <1>0, <3>1, <3>2
  <2>2. UNCHANGED lease \/ lease' = Released({s[1]})
    BY <1>9 DEF DriverAsks
  <2> QED
    BY <1>3, <1>4, <2>1, <2>2
<1>10. ASSUME NEW s \in Session, NEW t \in Task, PauseSettles(s, t)
       PROVE  lease'[k] = r
  <2>1. pc[s][t] = "pause" /\ lease' = Released({s[1]}) /\ t \in Worker
    BY <1>10, Identities DEF PauseSettles, Suspended
  <2>2. s[1] # r
    BY <1>0, <1>5, <1>6, <2>1 DEF Asked, Fresh
  <2> QED
    BY <1>4, <2>1, <2>2
<1>11. ASSUME NEW s \in Session, NEW w \in Worker, Materialize(s, w)
       PROVE  lease'[k] = r
  <2>1. PICK S \in PruneResults : lease' = Released(RunsOf(index \ S) \cup RunsOf(Indexed(s[1])))
    BY <1>11 DEF Materialize
  <2>2. pc[s][w] = "final"
    BY <1>11 DEF Materialize, Suspended
  <2>3. status[s] \in Terminal
    BY <2>2 DEF SafeManned, Safe, Placed
  <2>4. s[1] # r
    BY <1>5, <1>6, <2>2, <2>3 DEF InFlight, Terminal
  <2>5. r \notin RunsOf(Indexed(s[1]))
    BY <2>4 DEF RunsOf, Indexed
  <2> QED
    BY <1>0, <1>4, <2>1, <2>5, PruneKeepsLease
<1>12. ASSUME NEW q \in Runs, NEW n \in 1..MaxRestores, RestoreEnd(q, n)
       PROVE  lease'[k] = r
  <2>1. /\ lease' = [lease EXCEPT ![DedupKey[q]] = q]
        /\ status' = [status EXCEPT ![<<q, n>>] = "waiting_input"]
    BY <1>12 DEF RestoreEnd
  <2>2. <<q, n>> \in Session /\ n > 0
    BY Identities, RunAssumption DEF RunAssumption
  <2>3. status'[<<q, n>>] = "waiting_input"
    BY <1>0, <2>1, <2>2 DEF TypeOK
  <2>4. DedupKey[q] # k
    BY <2>2, <2>3 DEF Fresh, Alone
  <2> QED
    BY <2>1, <2>4
<1>13. CASE Crash
  BY <1>0, <1>13 DEF Crash, InFlight
<1>14. ASSUME NEW s \in Session,
              \/ Start(s) \/ Cancel(s)
              \/ \E a \in Ask : Resume(s, a)
              \/ \E c \in Clients, a \in Ask : Answer(s, c, a)
              \/ \E t \in Task : \/ TaskKilled(s, t) \/ DriverCancelled(s, t) \/ DriverAbsorbs(s, t)
                               \/ \E success \in BOOLEAN : DriverEnds(s, t, success)
              \/ \E w \in Worker : Close(s, w)
       PROVE  lease'[k] = r
  BY <1>3, <1>14
  DEF Start, Cancel, Resume, Answer, TaskKilled, DriverCancelled, DriverAbsorbs, DriverEnds, Close
<1>15. ASSUME NEW q \in Runs, RestoreBegin(q) \/ RestoreFails(q)
       PROVE  lease'[k] = r
  BY <1>3, <1>15 DEF RestoreBegin, RestoreFails
<1> QED
  BY <1>7, <1>8, <1>9, <1>10, <1>11, <1>12, <1>13, <1>14, <1>15
  DEF Next, Requests, Driver, Loop, Recovery

\* A request posted again while its run is in flight joins that run
\* (find_inflight_run): the lease stays with the run through every prune,
\* cancellation, restart and question of other runs, whatever write fails and
\* even if a driver absorbs the CancelledError it is sent.
THEOREM RequestInFlightOnce == Spec => []SingleFlight
<1> DEFINE Inv == SafeManned /\ Flight
<1>1. Init => Inv
  BY SafeInit, MannedInit, FlightInit DEF SafeManned
<1>2. Inv /\ [Next]_vars => Inv'
  <2> SUFFICES ASSUME SafeManned, Flight, [Next]_vars PROVE SafeManned' /\ Flight'
    OBVIOUS
  <2>1. SafeManned' /\ TypeOK /\ Placed /\ Manned
    BY SafeMannedNext DEF SafeManned, Safe
  <2>2. Asked' /\ Scheduled'
    BY <2>1, AskedStep, ScheduledStep DEF Flight
  <2> QED
    BY <2>1, <2>2, LeasedStep, EnteredStep DEF Flight
<1>3. Inv => SingleFlight
  BY FlightIsSingleFlight DEF Flight
<1> QED
  BY <1>1, <1>2, <1>3, PTL DEF Spec
=============================================================================
