--------------------------- MODULE RunEndingProofs ---------------------------
(***************************************************************************)
(* How a run ends, and what a pause leaves behind: proofs that need no     *)
(* assumption about absorbed cancellations.                                *)
(*                                                                         *)
(* CancelWins is inductive by itself.  TerminalizedOnce follows from       *)
(* EndsOnce: who is in the terminal hook of a session is there alone, and  *)
(* a session that is closed stays over.  Closes gives EndedRunIsClosed:    *)
(* where the artifact flush reaches the disk (FlushHolds), who ended a run *)
(* is on its way to close it.  By SafeManned a question resumes a session  *)
(* once.                                                                   *)
(* Backed gives SettledPauseHasBundle where the bundle reaches the disk    *)
(* (BundleHolds): the question a session waits on is there, or on its way, *)
(* and what is being rebuilt is what the disk holds.                       *)
(***************************************************************************)
EXTENDS RunLifecycleProofs

-----------------------------------------------------------------------------
(* A requested cancellation outranks the outcome                           *)

LEMMA CancelOutranks ==
  ASSUME TypeOK, CancelWins, NEW s \in Session, NEW w \in Worker, NEW outcome \in Terminal,
         cancelReq[s] => outcome = "canceled", EnterTerminal(s, w, outcome)
  PROVE  CancelWins'
<1>1. /\ status' = [status EXCEPT ![s] = outcome]
      /\ cancelReq' = [cancelReq EXCEPT ![s] = @ \/ outcome = "canceled"]
      /\ status \in [Session -> Status] /\ cancelReq \in [Session -> BOOLEAN]
  BY DEF EnterTerminal, TypeOK
<1>2. ASSUME NEW x \in Session, x # s, cancelReq'[x]
      PROVE  status'[x] \notin {"completed", "failed"}
  BY <1>1, <1>2 DEF CancelWins
<1>3. ASSUME cancelReq'[s]
      PROVE  status'[s] \notin {"completed", "failed"}
  <2>1. outcome = "canceled"
    BY <1>1, <1>3, Zenon
  <2> QED
    BY <1>1, <2>1
<1> QED
  BY <1>2, <1>3 DEF CancelWins

LEMMA MarkKeepsCancel ==
  ASSUME TypeOK, CancelWins, NEW s \in Session, NEW w \in Worker, MarkCancelled(s, w)
  PROVE  CancelWins'
BY DEF MarkCancelled, RequestCancel, TypeOK, CancelWins

LEMMA CancelStep ==
  ASSUME TypeOK, CancelWins, [Next]_vars
  PROVE  CancelWins'
<1>1. ASSUME NEW s \in Session, NEW new \in Status \ {"completed", "failed"},
             status' = [status EXCEPT ![s] = new], UNCHANGED cancelReq
      PROVE  CancelWins'
  BY <1>1 DEF TypeOK, CancelWins
<1>2. ASSUME UNCHANGED <<status, cancelReq>>
      PROVE  CancelWins'
  BY <1>2 DEF CancelWins
<1>3. /\ {"pending", "running", "waiting_input"} \subseteq Status \ {"completed", "failed"}
      /\ "canceled" \in Terminal
  BY DEF Status, InFlight, Terminal
<1>4. ASSUME NEW r \in Runs, Create(r)
      PROVE  CancelWins'
  BY <1>1, <1>3, <1>4, Identities DEF Create
<1>5. ASSUME NEW s \in Session, Start(s) \/ \E a \in Ask : Resume(s, a)
      PROVE  CancelWins'
  BY <1>1, <1>3, <1>5 DEF Start, Resume
<1>6. ASSUME NEW s \in Session, NEW t \in Task, NEW c \in {"none", "unnamed", "named"},
             DriverAsks(s, t, c)
      PROVE  CancelWins'
  BY <1>1, <1>3, <1>6 DEF DriverAsks
<1>7. ASSUME NEW s \in Session, NEW t \in Task, NEW success \in BOOLEAN,
             DriverEnds(s, t, success)
      PROVE  CancelWins'
  <2>1. cancelReq[s] => DerivedStatus(s, t, success) = "canceled"
    BY DEF DerivedStatus
  <2> QED
    BY <1>7, <2>1, Identities, DerivedStatusIsTerminal, CancelOutranks DEF DriverEnds
<1>8. ASSUME NEW s \in Session, NEW t \in Task, DriverCancelled(s, t)
      PROVE  CancelWins'
  BY <1>3, <1>8, Identities, CancelOutranks DEF DriverCancelled
<1>9. ASSUME NEW s \in Session, NEW t \in Task, DriverAbsorbs(s, t)
      PROVE  CancelWins'
  BY <1>2, <1>9 DEF DriverAbsorbs
<1>10. ASSUME NEW s \in Session, NEW t \in Task, TaskKilled(s, t) \/ PauseSettles(s, t)
      PROVE  CancelWins'
  BY <1>10, Identities, MarkKeepsCancel DEF TaskKilled, PauseSettles
<1>11. ASSUME NEW s \in Session, NEW w \in Worker, Materialize(s, w)
      PROVE  CancelWins'
  BY <1>2, <1>11 DEF Materialize
<1>12. ASSUME NEW s \in Session, NEW w \in Worker, Close(s, w)
      PROVE  CancelWins'
  BY <1>12, MarkKeepsCancel DEF Close
<1>13. ASSUME NEW s \in Session, Cancel(s)
      PROVE  CancelWins'
  <2>1. CASE RequestCancel(s)
    BY <2>1 DEF RequestCancel, TypeOK, CancelWins
  <2>2. CASE EnterTerminal(s, Closer, "canceled")
    BY <1>3, <2>2, Identities, CancelOutranks
  <2> QED
    BY <1>13, <2>1, <2>2 DEF Cancel
<1>14. ASSUME NEW s \in Session, NEW c \in Clients, NEW a \in Ask, Answer(s, c, a)
      PROVE  CancelWins'
  BY <1>1, <1>3, <1>14 DEF Answer
<1>15. ASSUME NEW r \in Runs, NEW n \in 1..MaxRestores, RestoreEnd(r, n)
      PROVE  CancelWins'
  BY <1>1, <1>3, <1>15, Identities DEF RestoreEnd
<1>16. ASSUME NEW r \in Runs, RestoreBegin(r) \/ RestoreFails(r)
      PROVE  CancelWins'
  BY <1>2, <1>16 DEF RestoreBegin, RestoreFails
<1>17. ASSUME NEW k \in Keys, Coalesce(k)
      PROVE  CancelWins'
  BY <1>2, <1>17 DEF Coalesce
<1>18. CASE Crash
  BY <1>18 DEF Crash, CancelWins
<1>19. CASE UNCHANGED vars
  BY <1>2, <1>19 DEF vars, memory
<1> QED
  BY <1>4, <1>5, <1>6, <1>7, <1>8, <1>9, <1>10, <1>11, <1>12, <1>13, <1>14, <1>15, <1>16,
     <1>17, <1>18, <1>19
  DEF Next, Requests, Driver, Loop, Recovery

\* Once cancellation is requested the run never ends as completed or failed, even
\* when its driver absorbs the CancelledError and goes on to a conclusion.
THEOREM CancellationWins == Spec => []CancelWins
<1>1. Init => Safe /\ CancelWins
  BY SafeInit DEF Init, CancelWins
<1>2. Safe /\ CancelWins /\ [Next]_vars => Safe' /\ CancelWins'
  BY SafeNext, CancelStep DEF Safe
<1> QED
  BY <1>1, <1>2, PTL DEF Spec

-----------------------------------------------------------------------------
(* The terminal hook runs once                                             *)

InHook(s, w) == pc[s][w] \in {"final", "closing"}

\* A session in the hook is over, has one worker there and nobody driving it; a
\* closed one stays over and nobody works for it.  The cancel handler never drives.
EndsOnceAt(s) ==
  /\ ~AtWork(s, Closer)
  /\ \A w \in Worker : InHook(s, w) => status[s] \in Terminal
  /\ \A w1, w2 \in Worker : InHook(s, w1) /\ InHook(s, w2) => w1 = w2
  /\ \A t \in Task : AtWork(s, t) => ~closed[s] /\ \A w \in Worker : ~InHook(s, w)
  /\ closed[s] => /\ status[s] \in Terminal \cup {"lost"}
                  /\ \A w \in Worker : ~InHook(s, w)

EndsOnce == \A s \in Session : EndsOnceAt(s)

LEMMA EndsOnceIsTerminalizedOnce == EndsOnce => TerminalizedOnce
<1> SUFFICES ASSUME EndsOnce PROVE TerminalizedOnce
  OBVIOUS
<1>1. ASSUME NEW s \in Session, closed[s], NEW w \in Worker
      PROVE  pc[s][w] \notin {"ready", "drive", "final", "closing"}
  BY <1>1 DEF EndsOnce, EndsOnceAt, InHook, AtWork, Worker
<1> QED
  BY <1>1 DEF EndsOnce, EndsOnceAt, InHook, TerminalizedOnce

LEMMA EndsOnceInit == Init => EndsOnce
BY Identities DEF Init, EndsOnce, EndsOnceAt, InHook, AtWork, Worker, Session

\* A session is not affected by what leaves its workers and its flags alone.
LEMMA OtherSessions ==
  ASSUME EndsOnce, NEW x \in Session,
         status'[x] = status[x], pc'[x] = pc[x], closed'[x] = closed[x]
  PROVE  EndsOnceAt(x)'
BY DEF EndsOnce, EndsOnceAt, InHook, AtWork

LEMMA GotoMoves ==
  ASSUME TypeOK, NEW s \in Session, NEW w \in Worker, NEW where \in Control, Goto(s, w, where)
  PROVE  /\ pc'[s][w] = where
         /\ \A x \in Worker : x # w => pc'[s][x] = pc[s][x]
         /\ \A x \in Session : x # s => pc'[x] = pc[x]
BY DEF TypeOK, Goto

\* One worker of session s goes elsewhere, not into the hook: the session has no
\* second worker at work, and its status only ends where a hook may be running.
LEMMA EndsOnceMoves ==
  ASSUME TypeOK, EndsOnce, NEW s \in Session, NEW w \in Worker,
         NEW where \in Control \ {"final", "closing"}, Goto(s, w, where), closed' = closed,
         \A x \in Session : x # s => status'[x] = status[x],
         \A x \in Worker : InHook(s, x) => status'[s] \in Terminal,
         closed[s] => status'[s] \in Terminal \cup {"lost"},
         where \in {"ready", "drive"} =>
           w \in Task /\ ~closed[s] /\ \A x \in Worker : ~InHook(s, x)
  PROVE  EndsOnce'
<1>1. /\ pc'[s][w] = where
      /\ \A x \in Worker : x # w => pc'[s][x] = pc[s][x]
      /\ \A x \in Session : x # s => pc'[x] = pc[x]
  BY GotoMoves
<1>2. ASSUME NEW x \in Session, x # s
      PROVE  EndsOnceAt(x)'
  BY <1>1, <1>2, OtherSessions
<1>3. \A x \in Worker : InHook(s, x)' => InHook(s, x)
  BY <1>1 DEF InHook
<1>4. \A t \in Task : AtWork(s, t)' => AtWork(s, t) \/ where \in {"ready", "drive"}
  BY <1>1 DEF AtWork, Worker
<1>5. EndsOnceAt(s)
  BY DEF EndsOnce
<1>6. EndsOnceAt(s)'
  <2>1. \A x \in Worker : InHook(s, x)' => status'[s] \in Terminal
    BY <1>3
  <2>2. \A x, y \in Worker : InHook(s, x)' /\ InHook(s, y)' => x = y
    BY <1>3, <1>5 DEF EndsOnceAt
  <2>3. \A t \in Task : AtWork(s, t)' => ~closed'[s] /\ \A x \in Worker : ~InHook(s, x)'
    BY <1>3, <1>4, <1>5 DEF EndsOnceAt
  <2>4. closed'[s] => /\ status'[s] \in Terminal \cup {"lost"}
                      /\ \A x \in Worker : ~InHook(s, x)'
    BY <1>3, <1>5 DEF EndsOnceAt
  <2>5. ~AtWork(s, Closer)'
    BY <1>1, <1>5, Identities DEF EndsOnceAt, AtWork
  <2> QED
    BY <2>1, <2>2, <2>3, <2>4, <2>5 DEF EndsOnceAt
<1> QED
  BY <1>2, <1>6 DEF EndsOnce

\* The only worker of a session enters the hook.
LEMMA EndsOnceEnters ==
  ASSUME TypeOK, EndsOnce, NEW s \in Session, NEW w \in Worker, NEW outcome \in Terminal,
         EnterTerminal(s, w, outcome), closed' = closed, ~closed[s],
         \A x \in Worker : ~InHook(s, x),
         \A t \in Task : AtWork(s, t) => t = w
  PROVE  EndsOnce'
<1>1. /\ status' = [status EXCEPT ![s] = outcome] /\ Goto(s, w, "final")
      /\ status \in [Session -> Status] /\ "final" \in Control
  BY DEF EnterTerminal, TypeOK, Control, Live
<1>2. /\ pc'[s][w] = "final"
      /\ \A x \in Worker : x # w => pc'[s][x] = pc[s][x]
      /\ \A x \in Session : x # s => pc'[x] = pc[x]
  BY <1>1, GotoMoves
<1>3. ASSUME NEW x \in Session, x # s
      PROVE  EndsOnceAt(x)'
  BY <1>1, <1>2, <1>3, OtherSessions
<1>4. \A x \in Worker : InHook(s, x)' => x = w
  BY <1>2 DEF InHook
<1>5. \A t \in Task : ~AtWork(s, t)'
  BY <1>2 DEF AtWork, Worker
<1>6. ~AtWork(s, Closer)'
  BY <1>2, Identities DEF AtWork, EndsOnce, EndsOnceAt
<1>7. EndsOnceAt(s)'
  BY <1>1, <1>4, <1>5, <1>6 DEF EndsOnceAt
<1> QED
  BY <1>3, <1>7 DEF EndsOnce

LEMMA EndsOnceStep ==
  ASSUME Safe, EndsOnce, [Next]_vars
  PROVE  EndsOnce'
<1>0. /\ TypeOK /\ Placed /\ status \in [Session -> Status]
      /\ \A s \in Session : EndsOnceAt(s)
      /\ {"ready", "drive", "pause", "done", "killed"} \subseteq Control \ {"final", "closing"}
      /\ "closing" \in Control /\ Task \subseteq Worker /\ "canceled" \in Terminal
  BY Identities DEF Safe, TypeOK, EndsOnce, Control, Live, Terminal
\* What a status that is not over says of a session.
<1>1. ASSUME NEW s \in Session, status[s] \notin Terminal
      PROVE  /\ \A w \in Worker : ~InHook(s, w)
             /\ status[s] # "lost" => ~closed[s]
  BY <1>0, <1>1 DEF EndsOnceAt
\* What a task at work says of its session.
<1>2. ASSUME NEW s \in Session, NEW t \in Task, AtWork(s, t)
      PROVE  /\ ~closed[s] /\ \A w \in Worker : ~InHook(s, w)
             /\ \A u \in Task : AtWork(s, u) => u = t
  <2>1. ~closed[s] /\ \A w \in Worker : ~InHook(s, w)
    BY <1>0, <1>2 DEF EndsOnceAt
  <2>2. \A u \in Task : AtWork(s, u) => u = t
    BY <1>0, <1>2 DEF Placed
  <2> QED
    BY <2>1, <2>2
\* What the done callback does to the status.
<1>3. ASSUME NEW s \in Session, NEW w \in Worker, MarkCancelled(s, w)
      PROVE  /\ \A x \in Session : x # s => status'[x] = status[x]
             /\ status'[s] \in {status[s], "canceled"}
  BY <1>0, <1>3 DEF MarkCancelled, RequestCancel
<1>4. ASSUME NEW r \in Runs, Create(r)
      PROVE  EndsOnce'
  <2> DEFINE s == <<r, 0>>
  <2>1. s \in Session /\ Execute \in Worker /\ Execute \in Task
    BY Identities
  <2>2. /\ status[s] = "absent" /\ status' = [status EXCEPT ![s] = "pending"]
        /\ Goto(s, Execute, "ready") /\ closed' = closed
    BY <1>4 DEF Create
  <2>3. ~closed[s] /\ \A w \in Worker : ~InHook(s, w)
    BY <1>1, <2>1, <2>2 DEF Terminal
  <2> HIDE DEF s
  <2> QED
    BY <1>0, <2>1, <2>2, <2>3, EndsOnceMoves
<1>5. ASSUME NEW s \in Session, Start(s)
      PROVE  EndsOnce'
  <2>1. /\ AtWork(s, Execute) /\ status' = [status EXCEPT ![s] = "running"]
        /\ Goto(s, Execute, "drive") /\ closed' = closed /\ Execute \in Task
    BY <1>5, Identities DEF Start, Suspended, AtWork
  <2> QED
    BY <1>0, <1>2, <2>1, EndsOnceMoves
<1>6. ASSUME NEW s \in Session, NEW a \in Ask, Resume(s, a)
      PROVE  EndsOnce'
  <2>1. /\ AtWork(s, a) /\ status' = [status EXCEPT ![s] = "running"]
        /\ Goto(s, a, "drive") /\ closed' = closed /\ a \in Task
    BY <1>6, Identities DEF Resume, Suspended, AtWork
  <2> QED
    BY <1>0, <1>2, <2>1, EndsOnceMoves
<1>7. ASSUME NEW s \in Session, NEW t \in Task, NEW c \in {"none", "unnamed", "named"},
             DriverAsks(s, t, c)
      PROVE  EndsOnce'
  <2>1. /\ AtWork(s, t) /\ status' = [status EXCEPT ![s] = "waiting_input"]
        /\ Goto(s, t, "pause") /\ closed' = closed
    BY <1>7 DEF DriverAsks, Suspended, AtWork
  <2> QED
    BY <1>0, <1>2, <2>1, EndsOnceMoves
<1>8. ASSUME NEW s \in Session, NEW t \in Task, NEW outcome \in Terminal,
             EnterTerminal(s, t, outcome), closed' = closed, Suspended(s, t, "drive")
      PROVE  EndsOnce'
  <2>1. AtWork(s, t)
    BY <1>8 DEF AtWork, Suspended
  <2> QED
    BY <1>0, <1>2, <1>8, <2>1, EndsOnceEnters
<1>9. ASSUME NEW s \in Session, NEW t \in Task, NEW success \in BOOLEAN,
             DriverEnds(s, t, success)
      PROVE  EndsOnce'
  BY <1>0, <1>8, <1>9, DerivedStatusIsTerminal DEF DriverEnds
<1>10. ASSUME NEW s \in Session, NEW t \in Task, DriverCancelled(s, t)
      PROVE  EndsOnce'
  BY <1>0, <1>8, <1>10 DEF DriverCancelled
<1>11. ASSUME NEW s \in Session, NEW w \in Worker,
              NEW where \in {"done", "killed"}, Goto(s, w, where), MarkCancelled(s, w),
              closed' = closed
      PROVE  EndsOnce'
  <2>1. \A x \in Worker : InHook(s, x) => status'[s] \in Terminal
    BY <1>0, <1>3, <1>11 DEF EndsOnceAt
  <2>2. closed[s] => status'[s] \in Terminal \cup {"lost"}
    BY <1>0, <1>3, <1>11 DEF EndsOnceAt
  <2> QED
    BY <1>0, <1>3, <1>11, <2>1, <2>2, EndsOnceMoves
<1>12. ASSUME NEW s \in Session, NEW t \in Task, TaskKilled(s, t) \/ PauseSettles(s, t)
      PROVE  EndsOnce'
  BY <1>0, <1>11, <1>12 DEF TaskKilled, PauseSettles
<1>13. ASSUME NEW s \in Session, NEW w \in Worker, Materialize(s, w)
      PROVE  EndsOnce'
  <2>1. InHook(s, w) /\ UNCHANGED <<status, closed>>
    BY <1>13 DEF Materialize, Suspended, InHook
  <2>2. CASE Goto(s, w, "killed")
    BY <1>0, <2>1, <2>2, EndsOnceMoves DEF EndsOnceAt
  <2>3. CASE Goto(s, w, "closing")
    <3>1. /\ pc'[s][w] = "closing"
          /\ \A x \in Worker : x # w => pc'[s][x] = pc[s][x]
          /\ \A x \in Session : x # s => pc'[x] = pc[x]
      BY <1>0, <2>3, GotoMoves
    <3>2. \A x \in Session : x # s => EndsOnceAt(x)'
      BY <2>1, <3>1, OtherSessions
    <3>3. \A x \in Worker : InHook(s, x)' <=> InHook(s, x)
      BY <2>1, <3>1 DEF InHook
    <3>4. \A t \in Worker : AtWork(s, t)' => AtWork(s, t)
      BY <1>0, <3>1 DEF AtWork
    <3>5. EndsOnceAt(s)'
      BY <1>0, <2>1, <3>3, <3>4, Identities DEF EndsOnceAt
    <3> QED
      BY <3>2, <3>5 DEF EndsOnce
  <2> QED
    BY <1>13, <2>2, <2>3 DEF Materialize
<1>14. ASSUME NEW s \in Session, NEW w \in Worker, Close(s, w)
      PROVE  EndsOnce'
  <2>1. /\ InHook(s, w) /\ Goto(s, w, "done") /\ MarkCancelled(s, w)
        /\ closed' = [closed EXCEPT ![s] = TRUE] /\ closed \in [Session -> BOOLEAN]
    BY <1>0, <1>14 DEF Close, Suspended, InHook, TypeOK
  <2>2. /\ pc'[s][w] = "done"
        /\ \A x \in Worker : x # w => pc'[s][x] = pc[s][x]
        /\ \A x \in Session : x # s => pc'[x] = pc[x]
    BY <1>0, <2>1, GotoMoves
  <2>3. \A x \in Session : x # s => EndsOnceAt(x)'
    BY <1>3, <2>1, <2>2, OtherSessions
  <2>4. status[s] \in Terminal /\ status'[s] \in Terminal
    BY <1>0, <1>3, <2>1 DEF EndsOnceAt
  <2>5. \A x \in Worker : ~InHook(s, x)'
    BY <1>0, <2>1, <2>2 DEF EndsOnceAt, InHook
  <2>6. \A t \in Task : ~AtWork(s, t)'
    BY <1>0, <2>1, <2>2 DEF EndsOnceAt, AtWork
  <2>7. ~AtWork(s, Closer)'
    BY <1>0, <2>2, Identities DEF EndsOnceAt, AtWork
  <2>8. EndsOnceAt(s)'
    BY <2>4, <2>5, <2>6, <2>7 DEF EndsOnceAt
  <2> QED
    BY <2>3, <2>8 DEF EndsOnce
<1>15. ASSUME NEW s \in Session, Cancel(s)
      PROVE  EndsOnce'
  <2>1. status[s] \notin Terminal /\ closed' = closed /\ \A w \in Worker : ~InHook(s, w)
    BY <1>1, <1>15 DEF Cancel
  <2>2. CASE RequestCancel(s) /\ UNCHANGED pc
    <3>1. status' = [status EXCEPT ![s] = "canceled"]
      BY <2>2 DEF RequestCancel
    <3>2. \A x \in Session : x # s => EndsOnceAt(x)'
      BY <1>0, <2>1, <2>2, <3>1, OtherSessions
    <3>3. EndsOnceAt(s)'
      BY <1>0, <2>1, <2>2, <3>1 DEF EndsOnceAt, InHook, AtWork
    <3> QED
      BY <3>2, <3>3 DEF EndsOnce
  <2>3. CASE ~CurLive(s) /\ ~closed[s] /\ EnterTerminal(s, Closer, "canceled")
    <3>1. \A t \in Task : ~AtWork(s, t)
      BY <1>0, <2>3 DEF Placed, CurLive, AtWork, Live
    <3> QED
      BY <1>0, <2>1, <2>3, <3>1, Identities, EndsOnceEnters
  <2> QED
    BY <1>15, <2>2, <2>3 DEF Cancel
<1>16. ASSUME NEW s \in Session, NEW c \in Clients, NEW a \in Ask, Answer(s, c, a)
      PROVE  EndsOnce'
  <2>1. /\ status[s] = "waiting_input" /\ status' = [status EXCEPT ![s] = "running"]
        /\ Goto(s, ask[s], "ready") /\ closed' = closed
    BY <1>16 DEF Answer, MayResume
  <2>2. ~closed[s] /\ \A w \in Worker : ~InHook(s, w)
    BY <1>1, <2>1 DEF Terminal
  <2>3. ask[s] \in Task
    BY <1>0, RunAssumption DEF TypeOK, Task, RunAssumption
  <2> QED
    BY <1>0, <2>1, <2>2, <2>3, EndsOnceMoves
<1>17. ASSUME NEW r \in Runs, NEW n \in 1..MaxRestores, RestoreEnd(r, n)
      PROVE  EndsOnce'
  <2> DEFINE s == <<r, n>>
  <2>1. s \in Session
    BY Identities
  <2>2. /\ status[s] = "absent" /\ status' = [status EXCEPT ![s] = "waiting_input"]
        /\ UNCHANGED <<pc, closed>>
    BY <1>17 DEF RestoreEnd
  <2>3. ~closed[s] /\ \A w \in Worker : ~InHook(s, w)
    BY <1>1, <2>1, <2>2 DEF Terminal
  <2> HIDE DEF s
  <2>4. \A x \in Session : x # s => EndsOnceAt(x)'
    BY <1>0, <2>2, OtherSessions
  <2>5. EndsOnceAt(s)'
    BY <1>0, <2>1, <2>2, <2>3 DEF EndsOnceAt, InHook, AtWork
  <2> QED
    BY <2>4, <2>5 DEF EndsOnce
<1>18. CASE Crash
  BY <1>0, <1>18, Identities DEF Crash, EndsOnce, EndsOnceAt, InHook, AtWork, Terminal
<1>19. ASSUME UNCHANGED <<status, pc, closed>>
      PROVE  EndsOnce'
  BY <1>19, OtherSessions DEF EndsOnce
<1>20. ASSUME NEW s \in Session, NEW t \in Task, DriverAbsorbs(s, t)
      PROVE  EndsOnce'
  BY <1>19, <1>20 DEF DriverAbsorbs
<1>21. ASSUME NEW r \in Runs, RestoreBegin(r) \/ RestoreFails(r)
      PROVE  EndsOnce'
  BY <1>19, <1>21 DEF RestoreBegin, RestoreFails
<1>22. ASSUME NEW k \in Keys, Coalesce(k)
      PROVE  EndsOnce'
  BY <1>19, <1>22 DEF Coalesce
<1>23. CASE UNCHANGED vars
  BY <1>19, <1>23 DEF vars, memory
<1> QED
  BY <1>4, <1>5, <1>6, <1>7, <1>9, <1>10, <1>12, <1>13, <1>14, <1>15, <1>16, <1>17, <1>18,
     <1>20, <1>21, <1>22, <1>23
  DEF Next, Requests, Driver, Loop, Recovery

\* terminalize runs once per session, whoever gets there: the driver's task, a
\* task that is cancelled, or the cancel handler; and nothing runs after it.
THEOREM HookRunsOnce == Spec => []TerminalizedOnce
<1>1. Init => Safe /\ EndsOnce
  BY SafeInit, EndsOnceInit
<1>2. Safe /\ EndsOnce /\ [Next]_vars => Safe' /\ EndsOnce'
  BY SafeNext, EndsOnceStep
<1> QED
  BY <1>1, <1>2, EndsOnceIsTerminalizedOnce, PTL DEF Spec

-----------------------------------------------------------------------------
(* A run that ended is closed                                              *)

\* What the artifact flush of the terminal hook writes reaches the disk.
FlushHolds == "flush" \notin Faults

\* A session that completed or failed is closed, or a worker is on its way to
\* close it.
Closes ==
  \A s \in Session : status[s] \in {"completed", "failed"} =>
    closed[s] \/ \E w \in Worker : InHook(s, w)

LEMMA ClosesIsEndedRunIsClosed == Closes => EndedRunIsClosed
BY DEF Closes, EndedRunIsClosed, Quiet, InHook, Live

\* A step that sends a worker outside the hook elsewhere, and ends no session.
LEMMA ClosesMoves ==
  ASSUME TypeOK, Closes, NEW s \in Session, NEW w \in Worker, NEW where \in Control,
         ~InHook(s, w), Goto(s, w, where), closed' = closed,
         \A x \in Session : status'[x] \in {"completed", "failed"} => status'[x] = status[x]
  PROVE  Closes'
<1>1. \A x \in Session, v \in Worker : x # s \/ v # w => pc'[x][v] = pc[x][v]
  BY GotoMoves
<1>2. ASSUME NEW x \in Session, NEW v \in Worker, InHook(x, v)
      PROVE  InHook(x, v)'
  <2>1. x # s \/ v # w
    BY <1>2
  <2> QED
    BY <1>1, <1>2, <2>1 DEF InHook
<1> QED
  BY <1>2 DEF Closes

LEMMA ClosesEnters ==
  ASSUME TypeOK, Closes, NEW s \in Session, NEW w \in Worker, NEW outcome \in Terminal,
         EnterTerminal(s, w, outcome), closed' = closed
  PROVE  Closes'
<1>1. /\ status' = [status EXCEPT ![s] = outcome] /\ Goto(s, w, "final")
      /\ status \in [Session -> Status] /\ "final" \in Control
  BY DEF EnterTerminal, TypeOK, Control, Live
<1>2. /\ pc'[s][w] = "final"
      /\ \A x \in Session : x # s => pc'[x] = pc[x] /\ status'[x] = status[x]
  BY <1>1, GotoMoves
<1>3. InHook(s, w)'
  BY <1>2 DEF InHook
<1>4. ASSUME NEW x \in Session, x # s, NEW v \in Worker
      PROVE  InHook(x, v)' <=> InHook(x, v)
  BY <1>2, <1>4 DEF InHook
<1> QED
  BY <1>2, <1>3, <1>4 DEF Closes

LEMMA ClosesStep ==
  ASSUME FlushHolds, TypeOK, Closes, [Next]_vars
  PROVE  Closes'
<1>0. /\ status \in [Session -> Status] /\ "canceled" \in Terminal /\ Task \subseteq Worker
      /\ {"ready", "drive", "pause", "done", "killed", "closing"} \subseteq Control
  BY Identities DEF TypeOK, Control, Live, Terminal
<1>1. ASSUME NEW s \in Session, NEW w \in Worker, NEW where \in Control,
             pc[s][w] \in {"idle", "ready", "drive", "pause", "done", "killed"},
             Goto(s, w, where), closed' = closed,
             \/ \E new \in Status \ {"completed", "failed"} :
                  status' = [status EXCEPT ![s] = new]
             \/ MarkCancelled(s, w)
      PROVE  Closes'
  <2>1. \A x \in Session : status'[x] \in {"completed", "failed"} => status'[x] = status[x]
    BY <1>0, <1>1 DEF MarkCancelled, RequestCancel
  <2>2. ~InHook(s, w)
    BY <1>1 DEF InHook
  <2> QED
    BY <1>1, <2>1, <2>2, ClosesMoves
<1>2. {"pending", "running", "waiting_input"} \subseteq Status \ {"completed", "failed"}
  BY DEF Status, InFlight
<1>3. ASSUME UNCHANGED <<pc, closed>>, NEW s \in Session,
             NEW new \in Status \ {"completed", "failed"},
             \/ status' = [status EXCEPT ![s] = new]
             \/ UNCHANGED status
      PROVE  Closes'
  <2>1. \A x \in Session : status'[x] \in {"completed", "failed"} => status'[x] = status[x]
    BY <1>0, <1>3
  <2> QED
    BY <1>3, <2>1 DEF Closes, InHook
<1>4. ASSUME UNCHANGED <<status, pc, closed>>
      PROVE  Closes'
  BY <1>4 DEF Closes, InHook
\* A session that did not end goes on.
<1>5. ASSUME NEW s \in Session, NEW w \in Worker, NEW where \in Control,
             status[s] \notin {"completed", "failed"}, Goto(s, w, where), closed' = closed,
             NEW new \in Status \ {"completed", "failed"},
             status' = [status EXCEPT ![s] = new]
      PROVE  Closes'
  <2>1. \A x \in Session : x # s => pc'[x] = pc[x] /\ status'[x] = status[x]
    BY <1>0, <1>5, GotoMoves
  <2>2. status'[s] \notin {"completed", "failed"}
    BY <1>0, <1>5
  <2> QED
    BY <1>5, <2>1, <2>2 DEF Closes, InHook
<1>6. ASSUME NEW r \in Runs, Create(r)
      PROVE  Closes'
  <2> DEFINE s == <<r, 0>>
  <2>1. s \in Session /\ Execute \in Worker
    BY Identities
  <2>2. /\ status[s] = "absent" /\ status' = [status EXCEPT ![s] = "pending"]
        /\ Goto(s, Execute, "ready") /\ closed' = closed
    BY <1>6 DEF Create
  <2> HIDE DEF s
  <2> QED
    BY <1>0, <1>2, <1>5, <2>1, <2>2
<1>7. ASSUME NEW s \in Session, Start(s)
      PROVE  Closes'
  BY <1>0, <1>1, <1>2, <1>7, Identities DEF Start, Suspended
<1>8. ASSUME NEW s \in Session, NEW a \in Ask, Resume(s, a)
      PROVE  Closes'
  BY <1>0, <1>1, <1>2, <1>8, Identities DEF Resume, Suspended
<1>9. ASSUME NEW s \in Session, NEW t \in Task, NEW c \in {"none", "unnamed", "named"},
             DriverAsks(s, t, c)
      PROVE  Closes'
  <2>1. /\ pc[s][t] = "drive" /\ status' = [status EXCEPT ![s] = "waiting_input"]
        /\ Goto(s, t, "pause") /\ closed' = closed
    BY <1>9 DEF DriverAsks, Suspended
  <2> QED
    BY <1>0, <1>1, <1>2, <2>1
<1>10. ASSUME NEW s \in Session, NEW t \in Task, NEW success \in BOOLEAN,
              DriverEnds(s, t, success)
       PROVE  Closes'
  BY <1>0, <1>10, ClosesEnters, DerivedStatusIsTerminal DEF DriverEnds
<1>11. ASSUME NEW s \in Session, NEW t \in Task, DriverCancelled(s, t)
       PROVE  Closes'
  BY <1>0, <1>11, ClosesEnters DEF DriverCancelled
<1>12. ASSUME NEW s \in Session, NEW t \in Task, DriverAbsorbs(s, t)
       PROVE  Closes'
  BY <1>4, <1>12 DEF DriverAbsorbs
<1>13. ASSUME NEW s \in Session, NEW t \in Task, TaskKilled(s, t)
       PROVE  Closes'
  <2>1. /\ pc[s][t] \in {"ready", "pause"} /\ MarkCancelled(s, t)
        /\ Goto(s, t, "killed") /\ closed' = closed
    BY <1>13 DEF TaskKilled
  <2> QED
    BY <1>0, <1>1, <2>1
<1>14. ASSUME NEW s \in Session, NEW t \in Task, PauseSettles(s, t)
       PROVE  Closes'
  <2>1. /\ pc[s][t] = "pause" /\ MarkCancelled(s, t)
        /\ Goto(s, t, "done") /\ closed' = closed
    BY <1>14 DEF PauseSettles, Suspended
  <2> QED
    BY <1>0, <1>1, <2>1
<1>15. ASSUME NEW s \in Session, NEW w \in Worker, Materialize(s, w)
       PROVE  Closes'
  <2>1. Goto(s, w, "closing") /\ UNCHANGED <<status, closed>>
    BY <1>15 DEF Materialize, FlushHolds
  <2>2. /\ pc'[s][w] = "closing"
        /\ \A x \in Session, v \in Worker : x # s \/ v # w => pc'[x][v] = pc[x][v]
    BY <1>0, <2>1, GotoMoves
  <2>3. \A x \in Session, v \in Worker : InHook(x, v) => InHook(x, v)'
    BY <2>2 DEF InHook
  <2> QED
    BY <2>1, <2>3 DEF Closes
<1>16. ASSUME NEW s \in Session, NEW w \in Worker, Close(s, w)
       PROVE  Closes'
  <2>1. /\ closed' = [closed EXCEPT ![s] = TRUE] /\ closed \in [Session -> BOOLEAN]
        /\ MarkCancelled(s, w) /\ Goto(s, w, "done")
    BY <1>16 DEF Close, TypeOK
  <2>2. \A x \in Session : x # s => /\ pc'[x] = pc[x] /\ status'[x] = status[x]
                                    /\ closed'[x] = closed[x]
    BY <1>0, <2>1, GotoMoves DEF MarkCancelled, RequestCancel
  <2>3. closed'[s]
    BY <2>1
  <2> QED
    BY <2>2, <2>3 DEF Closes, InHook
<1>17. ASSUME NEW s \in Session, Cancel(s)
       PROVE  Closes'
  <2>1. CASE RequestCancel(s) /\ UNCHANGED pc
    <3>1. status' = [status EXCEPT ![s] = "canceled"] /\ UNCHANGED <<pc, closed>>
      BY <1>17, <2>1 DEF RequestCancel, Cancel
    <3> QED
      BY <1>3, <3>1 DEF Status, Terminal
  <2>2. CASE EnterTerminal(s, Closer, "canceled")
    BY <1>0, <1>17, <2>2, Identities, ClosesEnters DEF Cancel
  <2> QED
    BY <1>17, <2>1, <2>2 DEF Cancel
<1>18. ASSUME NEW s \in Session, NEW c \in Clients, NEW a \in Ask, Answer(s, c, a)
       PROVE  Closes'
  <2>1. /\ status[s] = "waiting_input" /\ status' = [status EXCEPT ![s] = "running"]
        /\ Goto(s, ask[s], "ready") /\ closed' = closed
    BY <1>18 DEF Answer, MayResume
  <2>2. ask[s] \in Worker
    BY <1>0, RunAssumption DEF TypeOK, Task, RunAssumption
  <2> QED
    BY <1>0, <1>2, <1>5, <2>1, <2>2
<1>19. ASSUME NEW r \in Runs, NEW n \in 1..MaxRestores, RestoreEnd(r, n)
       PROVE  Closes'
  <2>1. <<r, n>> \in Session /\ UNCHANGED <<pc, closed>>
        /\ status' = [status EXCEPT ![<<r, n>>] = "waiting_input"]
    BY <1>19, Identities DEF RestoreEnd
  <2> QED
    BY <1>2, <1>3, <2>1
<1>20. ASSUME NEW r \in Runs, RestoreBegin(r) \/ RestoreFails(r)
       PROVE  Closes'
  BY <1>4, <1>20 DEF RestoreBegin, RestoreFails
<1>21. ASSUME NEW k \in Keys, Coalesce(k)
       PROVE  Closes'
  BY <1>4, <1>21 DEF Coalesce
<1>22. CASE Crash
  BY <1>22 DEF Crash, Closes
<1>23. CASE UNCHANGED vars
  BY <1>4, <1>23 DEF vars, memory
<1> QED
  BY <1>6, <1>7, <1>8, <1>9, <1>10, <1>11, <1>12, <1>13, <1>14, <1>15, <1>16, <1>17, <1>18,
     <1>19, <1>20, <1>21, <1>22, <1>23
  DEF Next, Requests, Driver, Loop, Recovery

\* Where the terminal flush reaches the disk, a run that completed or failed and has
\* no step left is closed (terminalize: session.close after the export), whatever
\* cancellations, absorbed or not, and restarts come between.
THEOREM EndedIsClosed ==
  ASSUME FlushHolds
  PROVE  Spec => []EndedRunIsClosed
<1>1. Init => Safe /\ Closes
  BY SafeInit DEF Init, Closes
<1>2. Safe /\ Closes /\ [Next]_vars => Safe' /\ Closes'
  BY SafeNext, ClosesStep DEF Safe
<1> QED
  BY <1>1, <1>2, ClosesIsEndedRunIsClosed, PTL DEF Spec

-----------------------------------------------------------------------------
(* A question resumes a session once                                       *)

\* The task that carries an answer starts from "idle" (resume_approval: the
\* waiting_input gate), for any number of front ends, whatever keys their answers
\* carry, with every disk and driver fault: by Manned the task of the question a
\* session waits on is untouched.
THEOREM QuestionResumesOnce == Spec => AnsweredOnce
<1>1. SafeManned /\ [Next]_vars
        => [\A s \in Session, a \in Ask :
              (pc[s][a] # "ready" /\ pc'[s][a] = "ready") => pc[s][a] = "idle"]_vars
  <2> SUFFICES ASSUME SafeManned, [Next]_vars, NEW s \in Session, NEW a \in Ask,
                      pc[s][a] # "ready", pc'[s][a] = "ready"
               PROVE  pc[s][a] = "idle"
    OBVIOUS
  <2>t. TypeOK
    BY DEF SafeManned, Safe
  <2>0. /\ Task \subseteq Worker /\ Ask \subseteq Task /\ Execute \in Worker
        /\ a \in Worker /\ a # Execute
        /\ {"ready", "drive", "pause", "done", "killed", "closing", "final"} \subseteq Control
    BY Identities DEF Control, Live, Ask, Execute
  <2>1. ASSUME NEW x \in Session, NEW w \in Worker, NEW where \in Control, Goto(x, w, where),
               where # "ready" \/ w = Execute
        PROVE  FALSE
    <3>1. x # s \/ a # w => pc'[s][a] = pc[s][a]
      BY <2>t, <2>0, <2>1, GotoMoves
    <3>2. pc'[x][w] = where
      BY <2>t, <2>1, GotoMoves
    <3> QED
      BY <2>0, <2>1, <3>1, <3>2
  <2>2. ASSUME NEW x \in Session, NEW c \in Clients, NEW b \in Ask, Answer(x, c, b)
        PROVE  pc[s][a] = "idle"
    <3>1. Goto(x, ask[x], "ready") /\ status[x] = "waiting_input"
      BY <2>2 DEF Answer, MayResume
    <3>2. ask[x] \in Worker
      BY <2>0, <2>t, RunAssumption DEF TypeOK, Task, RunAssumption
    <3>3. s = x /\ a = ask[x]
      BY <2>0, <2>t, <3>1, <3>2, GotoMoves
    <3>4. ToCome(s, a)
      BY <3>1, <3>3 DEF ToCome
    <3> QED
      BY <3>4 DEF SafeManned, Manned, MannedAt
  <2>3. ASSUME NEW r \in Runs PROVE ~Create(r)
    BY <2>t, <2>0, <2>1, <2>3, Identities DEF Create
  <2>4. ASSUME NEW x \in Session PROVE ~Loop(x)
    <3>1. ~Start(x)
      BY <2>0, <2>1, <2>4 DEF Start
    <3>2. \A b \in Ask : ~Resume(x, b)
      BY <2>0, <2>1, <2>4 DEF Resume
    <3>3. \A t \in Task : ~TaskKilled(x, t) /\ ~PauseSettles(x, t)
      BY <2>0, <2>1, <2>4 DEF TaskKilled, PauseSettles
    <3>4. \A w \in Worker : ~Materialize(x, w) /\ ~Close(x, w)
      BY <2>0, <2>1, <2>4 DEF Materialize, Close
    <3> QED
      BY <3>1, <3>2, <3>3, <3>4 DEF Loop
  <2>5. ASSUME NEW x \in Session, NEW t \in Task PROVE ~Driver(x, t)
    <3>1. \A c : ~DriverAsks(x, t, c)
      BY <2>0, <2>1, <2>5 DEF DriverAsks
    <3>2. ASSUME NEW outcome, EnterTerminal(x, t, outcome) PROVE FALSE
      BY <2>0, <2>1, <2>5, <3>2 DEF EnterTerminal
    <3>3. ~DriverCancelled(x, t) /\ \A success : ~DriverEnds(x, t, success)
      BY <3>2 DEF DriverEnds, DriverCancelled
    <3>4. ~DriverAbsorbs(x, t)
      BY DEF DriverAbsorbs
    <3> QED
      BY <3>1, <3>3, <3>4 DEF Driver
  <2>6. ASSUME NEW x \in Session PROVE ~Cancel(x)
    BY <2>0, <2>1, <2>6, Identities DEF Cancel, EnterTerminal
  <2>7. ASSUME NEW r \in Runs PROVE ~RestoreBegin(r) /\ ~Recovery(r)
    BY DEF RestoreBegin, Recovery, RestoreFails, RestoreEnd
  <2>8. \A k \in Keys : ~Coalesce(k)
    BY DEF Coalesce
  <2>9. ~Crash
    BY <2>0 DEF Crash
  <2>10. ~(UNCHANGED vars)
    BY DEF vars, memory
  <2> QED
    BY <2>2, <2>3, <2>4, <2>5, <2>6, <2>7, <2>8, <2>9, <2>10 DEF Next, Requests
<1>2. Init => SafeManned
  BY SafeInit, MannedInit DEF SafeManned
<1>3. SafeManned /\ [Next]_vars => SafeManned'
  BY SafeMannedNext
<1> QED
  BY <1>1, <1>2, <1>3, PTL DEF Spec, AnsweredOnce

-----------------------------------------------------------------------------
(* What a restart would bring back                                         *)

\* write_resume_bundle reaches the disk.
BundleHolds == "bundle" \notin Faults

\* No object of the session is in memory.
Gone(s) == status[s] \in {"absent", "lost"}

Pausing(s) == \E t \in Task : pc[s][t] = "pause"

OtherLives(s) == \E x \in Session : x[1] = s[1] /\ x # s /\ ~Gone(x)

\* The question a waiting session could be restored with is on disk or on its way
\* there, unless another session of the run may write its own.
BackedAt(s) ==
  status[s] = "waiting_input" /\ cache[s] = "named"
    => Pausing(s) \/ bundle[s[1]] = ask[s] \/ OtherLives(s)

\* A cancellation reaches a pause only on a session that reads canceled.
PauseCut(s) ==
  \A t \in Task : pc[s][t] = "pause" /\ ~NotCancelled(s, t)
                    => status[s] = "canceled" /\ cur[s] = t

\* What is being rebuilt is what the disk holds, unless a session came first.
Rebuilds(r) ==
  restoring[r] # 0 => \/ restoring[r] = bundle[r]
                      \/ \E x \in Session : x[1] = r /\ ~Gone(x)

Idles(s) == Gone(s) => \A w \in Worker : pc[s][w] = "idle"

Backed ==
  /\ \A s \in Session : BackedAt(s) /\ PauseCut(s) /\ Idles(s)
  /\ \A r \in Runs : Rebuilds(r)

LEMMA BackedIsSettled == Backed => SettledPauseHasBundle
<1> SUFFICES ASSUME Backed, NEW s \in Session,
                    status[s] = "waiting_input", cache[s] = "named", Quiet(s),
                    \A x \in Session : x[1] = s[1] /\ x # s => status[x] \in {"absent", "lost"}
             PROVE  bundle[s[1]] = ask[s]
  BY DEF SettledPauseHasBundle
<1>1. ~Pausing(s)
  BY DEF Pausing, Quiet, Live, Worker
<1>2. ~OtherLives(s)
  BY DEF OtherLives, Gone
<1> QED
  BY <1>1, <1>2 DEF Backed, BackedAt

\* A step of session s, which is in memory after it.
LEMMA BackedMoves ==
  ASSUME Backed, NEW s \in Session,
         \A x \in Session : x # s =>
           /\ status'[x] = status[x] /\ pc'[x] = pc[x] /\ ask'[x] = ask[x]
           /\ cache'[x] = cache[x] /\ cur'[x] = cur[x] /\ cancelling'[x] = cancelling[x],
         \A r \in Runs : r # s[1] => bundle'[r] = bundle[r] /\ restoring'[r] = restoring[r],
         status'[s] \notin {"absent", "lost"}, BackedAt(s)', PauseCut(s)'
  PROVE  Backed'
<1>1. ~Gone(s)' /\ \A x \in Session : x # s => (Gone(x)' <=> Gone(x))
  BY DEF Gone
<1>2. ASSUME NEW x \in Session, x # s
      PROVE  BackedAt(x)' /\ PauseCut(x)' /\ Idles(x)'
  <2>1. PauseCut(x)' /\ Idles(x)'
    BY <1>2 DEF Backed, PauseCut, NotCancelled, Idles, Gone
  <2>2. Pausing(x)' <=> Pausing(x)
    BY <1>2 DEF Pausing
  <2>3. OtherLives(x) => OtherLives(x)'
    BY <1>1, <1>2 DEF OtherLives
  <2>4. x[1] = s[1] => OtherLives(x)'
    BY <1>1, <1>2 DEF OtherLives
  <2>5. x[1] # s[1] => bundle'[x[1]] = bundle[x[1]]
    BY Identities
  <2> QED
    BY <1>2, <2>1, <2>2, <2>3, <2>4, <2>5 DEF Backed, BackedAt
<1>3. ASSUME NEW r \in Runs
      PROVE  Rebuilds(r)'
  BY <1>1, <1>3 DEF Backed, Rebuilds
<1>4. Idles(s)'
  BY <1>1 DEF Idles
<1> QED
  BY <1>2, <1>3, <1>4 DEF Backed

\* Worker w of session s goes elsewhere, not to a pause; nothing is asked or written.
LEMMA BackedGoes ==
  ASSUME TypeOK, Backed, NEW s \in Session, NEW w \in Worker,
         NEW where \in Control \ {"pause"}, Goto(s, w, where),
         UNCHANGED <<ask, cache, cancelling, bundle, restoring>>,
         \A x \in Session : x # s => status'[x] = status[x] /\ cur'[x] = cur[x],
         status'[s] \notin {"absent", "lost"},
         status'[s] = "waiting_input" => status[s] = "waiting_input" /\ pc[s][w] # "pause",
         \A t \in Task : t # w /\ pc[s][t] = "pause" /\ ~NotCancelled(s, t)
                           => status'[s] = "canceled" /\ cur'[s] = t
  PROVE  Backed'
<1>1. /\ pc'[s][w] = where
      /\ \A x \in Worker : x # w => pc'[s][x] = pc[s][x]
      /\ \A x \in Session : x # s => pc'[x] = pc[x]
  BY GotoMoves
<1>2. PauseCut(s)'
  BY <1>1, Identities DEF PauseCut, NotCancelled
<1>3. BackedAt(s)'
  <2>1. pc[s][w] # "pause" => (Pausing(s) => Pausing(s)')
    BY <1>1, Identities DEF Pausing
  <2>2. OtherLives(s) => OtherLives(s)'
    BY DEF OtherLives, Gone
  <2> QED
    BY <2>1, <2>2 DEF Backed, BackedAt
<1> QED
  BY <1>1, <1>2, <1>3, BackedMoves

LEMMA BackedStep ==
  ASSUME BundleHolds, Safe, Backed, [Next]_vars
  PROVE  Backed'
<1>0. /\ TypeOK /\ Placed /\ status \in [Session -> Status] /\ Task \subseteq Worker
      /\ {"ready", "drive", "pause", "done", "killed", "closing", "final"} \subseteq Control
      /\ "canceled" \in Terminal /\ \A o \in Terminal : o \notin {"absent", "lost", "waiting_input"}
  BY Identities DEF Safe, TypeOK, Control, Live, Terminal
<1>1. ASSUME NEW s \in Session, NEW w \in Worker, pc[s][w] # "idle"
      PROVE  status[s] \notin {"absent", "lost"}
  BY <1>1 DEF Backed, Idles, Gone
\* While a task is at work no cancellation waits for a pause.
<1>2. ASSUME NEW s \in Session, NEW t \in Task, AtWork(s, t),
             NEW u \in Task, pc[s][u] = "pause", ~NotCancelled(s, u)
      PROVE  FALSE
  <2>1. cur[s] = u /\ cur[s] = t
    BY <1>0, <1>2 DEF Backed, PauseCut, Placed
  <2> QED
    BY <1>2, <2>1 DEF AtWork
<1>3. ASSUME NEW s \in Session, NEW w \in Worker, NEW outcome \in Terminal,
             EnterTerminal(s, w, outcome),
             \A t \in Task : pc[s][t] = "pause" => NotCancelled(s, t),
             UNCHANGED <<cur, ask, cache, cancelling, bundle, restoring>>
      PROVE  Backed'
  <2>1. status' = [status EXCEPT ![s] = outcome] /\ Goto(s, w, "final")
    BY <1>3 DEF EnterTerminal
  <2> QED
    BY <1>0, <1>3, <2>1, BackedGoes
<1>4. ASSUME NEW s \in Session, NEW w \in Worker, MarkCancelled(s, w)
      PROVE  /\ \A x \in Session : x # s => status'[x] = status[x]
             /\ status'[s] \in {status[s], "canceled"}
  BY <1>0, <1>4 DEF MarkCancelled, RequestCancel
<1>5. ASSUME UNCHANGED <<status, pc, ask, cache, cur, cancelling, bundle>>,
             \A r \in Runs : restoring'[r] \in {0, restoring[r], bundle[r]}
      PROVE  Backed'
  <2>1. ASSUME NEW s \in Session PROVE BackedAt(s)' /\ PauseCut(s)' /\ Idles(s)'
    BY <1>5 DEF Backed, BackedAt, PauseCut, Idles, Pausing, OtherLives, Gone, NotCancelled
  <2>2. ASSUME NEW r \in Runs PROVE Rebuilds(r)'
    BY <1>5 DEF Backed, Rebuilds, Gone
  <2> QED
    BY <2>1, <2>2 DEF Backed
<1>6. ASSUME NEW r \in Runs, Create(r)
      PROVE  Backed'
  <2> DEFINE s == <<r, 0>>
  <2>1. s \in Session /\ Execute \in Worker
    BY Identities
  <2>2. /\ status[s] = "absent" /\ status' = [status EXCEPT ![s] = "pending"]
        /\ cur' = [cur EXCEPT ![s] = Execute] /\ Goto(s, Execute, "ready")
        /\ UNCHANGED <<ask, cache, cancelling, bundle, restoring>>
    BY <1>6 DEF Create, disk
  <2> HIDE DEF s
  <2>3. \A t \in Task : pc[s][t] # "pause"
    BY <1>0, <1>1, <2>1, <2>2
  <2>4. cur \in [Session -> Task \cup {NoTask}]
    BY <1>0 DEF TypeOK
  <2>5. status'[s] = "pending" /\ \A x \in Session : x # s => status'[x] = status[x] /\ cur'[x] = cur[x]
    BY <1>0, <2>1, <2>2, <2>4
  <2> QED
    BY <1>0, <2>1, <2>2, <2>3, <2>5, BackedGoes
<1>7. ASSUME NEW s \in Session, NEW t \in Task, pc[s][t] = "ready", Goto(s, t, "drive"),
             status' = [status EXCEPT ![s] = "running"],
             UNCHANGED <<cur, ask, cache, cancelling, bundle, restoring>>
      PROVE  Backed'
  BY <1>0, <1>2, <1>7, BackedGoes DEF AtWork
<1>8. ASSUME NEW s \in Session, Start(s) \/ \E a \in Ask : Resume(s, a)
      PROVE  Backed'
  BY <1>7, <1>8, Identities DEF Start, Resume, Suspended, disk
<1>9. ASSUME NEW s \in Session, NEW t \in Task, NEW c \in {"none", "unnamed", "named"},
             DriverAsks(s, t, c)
      PROVE  Backed'
  <2> DEFINE a == raised[s[1]] + 1
  <2>1. /\ AtWork(s, t) /\ NotCancelled(s, t) /\ Goto(s, t, "pause")
        /\ status' = [status EXCEPT ![s] = "waiting_input"]
        /\ ask' = [ask EXCEPT ![s] = a]
        /\ cache' = [cache EXCEPT ![s] = c]
        /\ UNCHANGED <<cur, cancelling, bundle, restoring>>
    BY <1>9 DEF DriverAsks, Suspended, AtWork, disk
  <2> HIDE DEF a
  <2>2. /\ pc'[s][t] = "pause"
        /\ \A x \in Worker : x # t => pc'[s][x] = pc[s][x]
        /\ \A x \in Session : x # s => pc'[x] = pc[x]
    BY <1>0, <2>1, GotoMoves
  <2>3. BackedAt(s)'
    BY <2>2 DEF BackedAt, Pausing
  <2>4. PauseCut(s)'
    BY <1>0, <1>2, <2>1, <2>2 DEF PauseCut, NotCancelled
  <2> QED
    BY <1>0, <2>1, <2>2, <2>3, <2>4, BackedMoves DEF TypeOK
<1>10. ASSUME NEW s \in Session, NEW t \in Task, NEW success \in BOOLEAN,
              DriverEnds(s, t, success)
       PROVE  Backed'
  <2>1. AtWork(s, t) /\ DerivedStatus(s, t, success) \in Terminal
    BY <1>0, <1>10, DerivedStatusIsTerminal DEF DriverEnds, Suspended, AtWork
  <2> QED
    BY <1>0, <1>2, <1>3, <1>10, <2>1 DEF DriverEnds, disk
<1>11. ASSUME NEW s \in Session, NEW t \in Task, DriverCancelled(s, t)
       PROVE  Backed'
  BY <1>0, <1>2, <1>3, <1>11 DEF DriverCancelled, Suspended, AtWork, disk
<1>12. ASSUME NEW s \in Session, NEW t \in Task, DriverAbsorbs(s, t)
       PROVE  Backed'
  <2>1. /\ AtWork(s, t) /\ cancelling' = [cancelling EXCEPT ![s] = @ \ {t}]
        /\ UNCHANGED <<status, pc, ask, cache, cur, bundle, restoring>>
        /\ cancelling \in [Session -> SUBSET Task]
    BY <1>0, <1>12 DEF DriverAbsorbs, Suspended, AtWork, disk, TypeOK
  <2>2. BackedAt(s)'
    BY <2>1 DEF Backed, BackedAt, Pausing, OtherLives, Gone
  <2>3. PauseCut(s)'
    BY <1>2, <2>1 DEF PauseCut, NotCancelled
  <2> QED
    BY <1>0, <1>1, <2>1, <2>2, <2>3, BackedMoves DEF AtWork
<1>13. ASSUME NEW s \in Session, NEW t \in Task, TaskKilled(s, t)
       PROVE  Backed'
  <2>1. /\ pc[s][t] \in {"ready", "pause"} /\ ~NotCancelled(s, t)
        /\ MarkCancelled(s, t) /\ Goto(s, t, "killed")
        /\ UNCHANGED <<cur, ask, cache, cancelling, bundle, restoring>>
    BY <1>13 DEF TaskKilled, disk
  <2>2. /\ \A x \in Session : x # s => status'[x] = status[x]
        /\ status'[s] \in {status[s], "canceled"} /\ status[s] \notin {"absent", "lost"}
    BY <1>0, <1>1, <1>4, <2>1
  <2>3. status[s] # "waiting_input"
    BY <1>0, <2>1 DEF Placed, AtWork, InFlight, Backed, PauseCut
  <2>4. \A u \in Task : u # t /\ pc[s][u] = "pause" => NotCancelled(s, u)
    <3>1. CASE pc[s][t] = "ready"
      BY <1>2, <3>1 DEF AtWork
    <3>2. CASE pc[s][t] = "pause"
      BY <2>1, <3>2 DEF Backed, PauseCut
    <3> QED
      BY <2>1, <3>1, <3>2
  <2> QED
    BY <1>0, <2>1, <2>2, <2>3, <2>4, BackedGoes
<1>14. ASSUME NEW s \in Session, NEW t \in Task, PauseSettles(s, t)
       PROVE  Backed'
  <2>1. /\ pc[s][t] = "pause" /\ NotCancelled(s, t)
        /\ MarkCancelled(s, t) /\ Goto(s, t, "done") /\ WriteBundle(s)
        /\ UNCHANGED <<cur, ask, cache, cancelling, restoring>>
    BY <1>14 DEF PauseSettles, Suspended
  <2>2. /\ \A x \in Session : x # s => status'[x] = status[x]
        /\ status'[s] \in {status[s], "canceled"} /\ status[s] \notin {"absent", "lost"}
    BY <1>0, <1>1, <1>4, <2>1
  <2>3. /\ pc'[s][t] = "done"
        /\ \A x \in Worker : x # t => pc'[s][x] = pc[s][x]
        /\ \A x \in Session : x # s => pc'[x] = pc[x]
    BY <1>0, <2>1, GotoMoves
  <2>4. s[1] \in Runs /\ bundle \in [Runs -> 0..MaxAsks]
    BY <1>0, Identities DEF TypeOK
  <2>5. /\ \A r \in Runs : r # s[1] => bundle'[r] = bundle[r]
        /\ cache[s] = "named" => bundle'[s[1]] = ask[s]
    BY <2>1, <2>4 DEF WriteBundle, BundleHolds
  <2>6. BackedAt(s)'
    BY <2>1, <2>5 DEF BackedAt
  <2>7. PauseCut(s)'
    BY <1>0, <2>1, <2>2, <2>3 DEF Backed, PauseCut, NotCancelled
  <2> QED
    BY <2>1, <2>2, <2>3, <2>5, <2>6, <2>7, BackedMoves
<1>15. ASSUME NEW s \in Session, NEW w \in Worker, pc[s][w] \in {"final", "closing"},
              NEW where \in {"closing", "killed", "done"}, Goto(s, w, where),
              UNCHANGED status \/ MarkCancelled(s, w),
              UNCHANGED <<cur, ask, cache, cancelling, bundle, restoring>>
       PROVE  Backed'
  <2>1. /\ \A x \in Session : x # s => status'[x] = status[x]
        /\ status'[s] \in {status[s], "canceled"} /\ status[s] \notin {"absent", "lost"}
    BY <1>0, <1>1, <1>4, <1>15
  <2>2. \A u \in Task : pc[s][u] = "pause" /\ ~NotCancelled(s, u)
                          => status'[s] = "canceled" /\ cur'[s] = u
    BY <1>15, <2>1 DEF Backed, PauseCut
  <2> QED
    BY <1>0, <1>15, <2>1, <2>2, BackedGoes
<1>16. ASSUME NEW s \in Session, NEW w \in Worker, Materialize(s, w) \/ Close(s, w)
       PROVE  Backed'
  BY <1>15, <1>16 DEF Materialize, Close, Suspended, disk
<1>17. ASSUME NEW s \in Session, Cancel(s)
       PROVE  Backed'
  <2>1. status[s] \notin Terminal /\ UNCHANGED <<cur, ask, cache, bundle, restoring>>
    BY <1>17 DEF Cancel, disk
  <2>2. CASE /\ RequestCancel(s) /\ UNCHANGED pc
             /\ cancelling' = [cancelling EXCEPT ![s] = @ \cup {cur[s]}]
    <3>1. status' = [status EXCEPT ![s] = "canceled"] /\ cancelling \in [Session -> SUBSET Task]
      BY <1>0, <2>2 DEF RequestCancel, TypeOK
    <3>2. BackedAt(s)' /\ status'[s] = "canceled"
      BY <1>0, <3>1 DEF BackedAt
    <3>3. \A u \in Task : u \in cancelling'[s] => u \in cancelling[s] \/ u = cur[s]
      BY <2>2, <3>1
    <3>4. PauseCut(s)'
      BY <1>0, <2>1, <2>2, <3>2, <3>3 DEF Backed, PauseCut, NotCancelled
    <3> QED
      BY <1>0, <2>1, <2>2, <3>1, <3>2, <3>4, BackedMoves
  <2>3. CASE ~CurLive(s) /\ EnterTerminal(s, Closer, "canceled") /\ UNCHANGED cancelling
    <3>1. \A t \in Task : pc[s][t] = "pause" => NotCancelled(s, t)
      BY <1>0, <2>1 DEF Backed, PauseCut
    <3> QED
      BY <1>0, <1>3, <2>1, <2>3, <3>1, Identities
  <2> QED
    BY <1>17, <2>2, <2>3 DEF Cancel
<1>18. ASSUME NEW s \in Session, NEW c \in Clients, NEW a \in Ask, Answer(s, c, a)
       PROVE  Backed'
  <2>1. /\ status[s] = "waiting_input" /\ status' = [status EXCEPT ![s] = "running"]
        /\ cur' = [cur EXCEPT ![s] = ask[s]] /\ Goto(s, ask[s], "ready")
        /\ UNCHANGED <<ask, cache, cancelling, bundle, restoring>>
    BY <1>18 DEF Answer, MayResume, disk
  <2>2. ask[s] \in Worker /\ cur \in [Session -> Task \cup {NoTask}]
    BY <1>0, RunAssumption DEF TypeOK, Task, RunAssumption
  <2>3. \A u \in Task : pc[s][u] = "pause" => NotCancelled(s, u)
    BY <2>1 DEF Backed, PauseCut
  <2>4. /\ status'[s] = "running"
        /\ \A x \in Session : x # s => status'[x] = status[x] /\ cur'[x] = cur[x]
    BY <1>0, <2>1, <2>2
  <2> QED
    BY <1>0, <2>1, <2>2, <2>3, <2>4, BackedGoes
<1>19. ASSUME NEW r \in Runs, NEW n \in 1..MaxRestores, RestoreEnd(r, n)
       PROVE  Backed'
  <2> DEFINE s == <<r, n>>
  <2>1. s \in Session /\ s[1] = r
    BY Identities
  <2>2. /\ restoring[r] # 0 /\ status[s] = "absent"
        /\ status' = [status EXCEPT ![s] = "waiting_input"]
        /\ ask' = [ask EXCEPT ![s] = restoring[r]]
        /\ cache' = [cache EXCEPT ![s] = "named"]
        /\ restoring' = [restoring EXCEPT ![r] = 0]
        /\ UNCHANGED <<cur, pc, cancelling, bundle>>
    BY <1>19 DEF RestoreEnd, disk
  <2> HIDE DEF s
  <2>3. ask \in [Session -> 0..MaxAsks] /\ restoring \in [Runs -> 0..MaxAsks]
        /\ cache \in [Session -> {"none", "unnamed", "named"}]
    BY <1>0 DEF TypeOK
  <2>4. status'[s] = "waiting_input" /\ ask'[s] = restoring[r]
    BY <1>0, <2>1, <2>2, <2>3
  <2>5. /\ \A x \in Session : x # s =>
             status'[x] = status[x] /\ ask'[x] = ask[x] /\ cache'[x] = cache[x]
        /\ \A q \in Runs : q # r => restoring'[q] = restoring[q]
    BY <1>0, <2>1, <2>2, <2>3
  <2>6. BackedAt(s)'
    <3>1. CASE restoring[r] = bundle[r]
      BY <2>1, <2>2, <2>4, <3>1 DEF BackedAt
    <3>2. CASE \E x \in Session : x[1] = r /\ ~Gone(x)
      <4>1. PICK x \in Session : x[1] = r /\ ~Gone(x)
        BY <3>2
      <4>2. x # s
        BY <2>2, <4>1 DEF Gone
      <4>3. ~Gone(x)'
        BY <2>5, <4>1, <4>2 DEF Gone
      <4>4. OtherLives(s)'
        BY <2>1, <4>1, <4>2, <4>3 DEF OtherLives
      <4> QED
        BY <4>4 DEF BackedAt
    <3> QED
      BY <2>2, <3>1, <3>2 DEF Backed, Rebuilds
  <2>7. PauseCut(s)'
    <3>1. \A t \in Task : pc[s][t] # "pause"
      BY <1>0, <1>1, <2>1, <2>2
    <3> QED
      BY <2>2, <3>1 DEF PauseCut
  <2> QED
    BY <2>1, <2>2, <2>4, <2>5, <2>6, <2>7, BackedMoves
<1>20. ASSUME NEW r \in Runs, RestoreBegin(r) \/ RestoreFails(r)
       PROVE  Backed'
  <2>1. /\ UNCHANGED <<status, pc, ask, cache, cur, cancelling, bundle>>
        /\ \/ restoring' = [restoring EXCEPT ![r] = bundle[r]]
           \/ restoring' = [restoring EXCEPT ![r] = 0]
        /\ restoring \in [Runs -> 0..MaxAsks]
    BY <1>0, <1>20 DEF RestoreBegin, RestoreFails, disk, TypeOK
  <2>2. \A q \in Runs : restoring'[q] \in {0, restoring[q], bundle[q]}
    BY <2>1
  <2> QED
    BY <1>5, <2>1, <2>2
<1>21. ASSUME NEW k \in Keys, Coalesce(k)
       PROVE  Backed'
  BY <1>5, <1>21 DEF Coalesce, disk
<1>22. CASE Crash
  <2>1. ASSUME NEW s \in Session PROVE BackedAt(s)' /\ PauseCut(s)' /\ Idles(s)'
    <3>1. status'[s] \in {"absent", "lost"} /\ \A w \in Worker : pc'[s][w] = "idle"
      BY <1>22 DEF Crash
    <3> QED
      BY <1>0, <3>1 DEF BackedAt, PauseCut, Idles
  <2>2. ASSUME NEW r \in Runs PROVE Rebuilds(r)'
    BY <1>22 DEF Crash, Rebuilds
  <2> QED
    BY <2>1, <2>2 DEF Backed
<1>23. CASE UNCHANGED vars
  BY <1>5, <1>23 DEF vars, memory, disk
<1> QED
  BY <1>6, <1>8, <1>9, <1>10, <1>11, <1>12, <1>13, <1>14, <1>16, <1>17, <1>18,
     <1>19, <1>20, <1>21, <1>22, <1>23
  DEF Next, Requests, Driver, Loop, Recovery

\* Where the resume bundle reaches the disk, a settled pause whose question can be
\* named is the one a kernel restart brings back (write_resume_bundle,
\* restore_waiting_run), whatever is cancelled, absorbed, evicted and rebuilt around
\* it, unless another session of the run is still in memory.
THEOREM PauseSurvives ==
  ASSUME BundleHolds
  PROVE  Spec => []SettledPauseHasBundle
<1>1. Init => Safe /\ Backed
  <2>1. Init => Backed
    BY Identities DEF Init, Backed, BackedAt, PauseCut, Idles, Rebuilds, Gone, Session, Worker
  <2> QED
    BY <2>1, SafeInit
<1>2. Safe /\ Backed /\ [Next]_vars => Safe' /\ Backed'
  BY SafeNext, BackedStep
<1> QED
  BY <1>1, <1>2, BackedIsSettled, PTL DEF Spec
=============================================================================
