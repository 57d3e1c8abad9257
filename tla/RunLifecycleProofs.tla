------------------------- MODULE RunLifecycleProofs -------------------------
(***************************************************************************)
(* Proofs about RunLifecycle for any number of runs, clients, questions,   *)
(* rebuilt sessions and restarts.                                          *)
(*                                                                         *)
(* TypeOK, Placed and Manned are inductive whatever the disk and the       *)
(* drivers do, and leave no orphan (NoOrphanRun).                          *)
(* With CancelledError never absorbed (NoSwallow), Owned and Single are    *)
(* inductive too and give SoleDriver and TerminalIsFinal.                  *)
(***************************************************************************)
EXTENDS RunLifecycleProperties, TLAPS

\* The driver of a session delivers the CancelledError it is sent.
NoSwallow == "swallow" \notin Faults


-----------------------------------------------------------------------------
(* Identities of sessions, tasks and workers                               *)

LEMMA Identities ==
  /\ Execute \in Task /\ Ask \subseteq Task /\ Task \subseteq Worker
  /\ Closer \in Worker /\ Closer \notin Task /\ NoTask \notin Worker
  /\ \A s \in Session : s[1] \in Runs /\ <<s[1], 0>> \in Session
  /\ \A r \in Runs : <<r, 0>> \in Session
  /\ \A r \in Runs, n \in 1..MaxRestores : <<r, n>> \in Session
<1>1. MaxAsks \in Nat /\ MaxRestores \in Nat
  BY RunAssumption DEF RunAssumption
<1>2. /\ Execute \in Task /\ Ask \subseteq Task /\ Task \subseteq Worker
      /\ Closer \in Worker /\ Closer \notin Task /\ NoTask \notin Worker
  BY <1>1 DEF Execute, Ask, Task, Worker, Closer, NoTask
<1>3. 0 \in 0..MaxRestores /\ 1..MaxRestores \subseteq 0..MaxRestores
  BY <1>1
<1>4. \A s \in Session : s[1] \in Runs
  BY DEF Session
<1> QED
  BY <1>2, <1>3, <1>4 DEF Session

\* A prune drops only sessions that are over.
LEMMA PruneDropsTerminal ==
  ASSUME NEW S \in PruneResults
  PROVE  S \subseteq index /\ \A s \in index \ S : status[s] \in Terminal
<1> DEFINE terminal == {s \in index : status[s] \in Terminal}
           Overflow(kept) == {d \in SUBSET kept :
             /\ Cardinality(d) = IF Cardinality(kept) > MaxTerminal
                                 THEN Cardinality(kept) - MaxTerminal ELSE 0
             /\ \A x \in d, y \in kept \ d : stamped[x] => stamped[y]}
<1>1. PICK expired \in SUBSET {s \in terminal : stamped[s]} :
             S \in {index \ (expired \cup d) : d \in Overflow(terminal \ expired)}
  BY DEF PruneResults
<1>2. PICK d \in Overflow(terminal \ expired) : S = index \ (expired \cup d)
  BY <1>1
<1>3. expired \subseteq terminal /\ d \subseteq terminal
  OBVIOUS
<1> HIDE DEF Overflow
<1> QED
  BY <1>2, <1>3

-----------------------------------------------------------------------------
(* The part that needs no assumption                                       *)

LEMMA SafeInit == Init => Safe
<1> SUFFICES ASSUME Init PROVE Safe
  OBVIOUS
<1>1. TypeOK
  BY RunAssumption, Identities
  DEF Init, TypeOK, RunAssumption, Status, Control, Live, InFlight, Terminal
<1>2. Placed
  BY Identities DEF Init, Placed, AtWork, Worker, Task, Session
<1> QED
  BY <1>1, <1>2 DEF Safe

LEMMA GotoTypes ==
  ASSUME TypeOK, NEW s \in Session, NEW w \in Worker, NEW where \in Control,
         Goto(s, w, where)
  PROVE  pc' \in [Session -> [Worker -> Control]]
  BY DEF TypeOK, Goto

LEMMA EnterTerminalTypes ==
  ASSUME TypeOK, NEW s \in Session, NEW w \in Worker, NEW outcome \in Terminal,
         EnterTerminal(s, w, outcome)
  PROVE  /\ status' \in [Session -> Status] /\ cancelReq' \in [Session -> BOOLEAN]
         /\ stamped' \in [Session -> BOOLEAN]
         /\ pc' \in [Session -> [Worker -> Control]]
<1>1. Terminal \subseteq Status /\ "final" \in Control
  BY DEF Status, Control, Live
<1> QED
  BY <1>1, GotoTypes DEF TypeOK, EnterTerminal

LEMMA MarkCancelledTypes ==
  ASSUME TypeOK, NEW s \in Session, NEW t \in Worker, MarkCancelled(s, t)
  PROVE  /\ status' \in [Session -> Status]
         /\ cancelReq' \in [Session -> BOOLEAN]
  BY DEF TypeOK, MarkCancelled, RequestCancel, Status, Terminal

LEMMA DerivedStatusIsTerminal ==
  \A s \in Session, w \in Worker, success \in BOOLEAN :
    DerivedStatus(s, w, success) \in Terminal
  BY DEF DerivedStatus, Terminal

\* Every step keeps the types; a worker in the terminal hook hands journal.json a
\* terminal outcome.
LEMMA TypeStep ==
  ASSUME TypeOK, Placed, Next
  PROVE  TypeOK'
<1>1. ASSUME NEW r \in Runs, Create(r)
     PROVE  TypeOK'
  <2>1. <<r, 0>> \in Session /\ Execute \in Worker /\ Execute \in Task
    BY Identities
  <2>2. pc' \in [Session -> [Worker -> Control]]
    BY <1>1, <2>1, GotoTypes DEF Create, Control, Live
  <2>3. index' \subseteq Session
    BY <1>1, <2>1, PruneDropsTerminal DEF Create, TypeOK
  <2>4. lease' \in [Keys -> Runs \cup {NoRun}]
    BY <1>1 DEF Create, TypeOK, Released
  <2> QED
    BY <1>1, <2>1, <2>2, <2>3, <2>4 DEF Create, TypeOK, Status, InFlight, disk,
        history
<1>2. ASSUME NEW k \in Keys, Coalesce(k)
     PROVE  TypeOK'
  BY <1>2, PruneDropsTerminal DEF Coalesce, TypeOK, Released, disk, history
<1>3. ASSUME NEW s \in Session, Start(s)
     PROVE  TypeOK'
  BY <1>3, Identities DEF Start, TypeOK, Goto, Status, InFlight, Control, Live,
      disk, history
<1>4. ASSUME NEW s \in Session, NEW a \in Ask, Resume(s, a)
     PROVE  TypeOK'
  BY <1>4, Identities DEF Resume, TypeOK, Goto, Status, InFlight, Control, Live,
      disk, history
<1>5. ASSUME NEW s \in Session, NEW t \in Task,
             NEW c \in {"none", "unnamed", "named"}, DriverAsks(s, t, c)
     PROVE  TypeOK'
  <2>1. s[1] \in Runs /\ t \in Worker
    BY Identities
  <2>2. raised[s[1]] + 1 \in 0..MaxAsks
    BY <1>5, RunAssumption DEF RunAssumption, DriverAsks, Ask
  <2>3. lease' \in [Keys -> Runs \cup {NoRun}]
    BY <1>5 DEF DriverAsks, TypeOK, Released
  <2>4. pc' \in [Session -> [Worker -> Control]]
    BY <1>5, <2>1, GotoTypes DEF DriverAsks, Control, Live
  <2> QED
    BY <1>5, <2>1, <2>2, <2>3, <2>4 DEF DriverAsks, TypeOK, disk, Status
<1>6. ASSUME NEW s \in Session, NEW t \in Task, NEW success \in BOOLEAN,
             DriverEnds(s, t, success)
     PROVE  TypeOK'
  <2>1. t \in Worker /\ DerivedStatus(s, t, success) \in Terminal
    BY Identities, DerivedStatusIsTerminal
  <2> QED
    BY <1>6, <2>1, EnterTerminalTypes DEF DriverEnds, TypeOK, disk, history
<1>7. ASSUME NEW s \in Session, NEW t \in Task, DriverCancelled(s, t)
     PROVE  TypeOK'
  <2>1. t \in Worker /\ "canceled" \in Terminal
    BY Identities DEF Terminal
  <2> QED
    BY <1>7, <2>1, EnterTerminalTypes DEF DriverCancelled, TypeOK, disk, history
<1>8. ASSUME NEW s \in Session, NEW t \in Task, DriverAbsorbs(s, t)
     PROVE  TypeOK'
  BY <1>8 DEF DriverAbsorbs, TypeOK, disk, history
<1>9. ASSUME NEW s \in Session, NEW t \in Task, TaskKilled(s, t)
     PROVE  TypeOK'
  <2>1. pc' \in [Session -> [Worker -> Control]]
    BY <1>9, Identities, GotoTypes DEF TaskKilled, Control
  <2> QED
    BY <1>9, <2>1, Identities, MarkCancelledTypes DEF TaskKilled, TypeOK, disk,
        history
<1>10. ASSUME NEW s \in Session, NEW t \in Task, PauseSettles(s, t)
     PROVE  TypeOK'
  <2>1. t \in Worker /\ s[1] \in Runs
    BY Identities
  <2>2. pc' \in [Session -> [Worker -> Control]]
    BY <1>10, <2>1, GotoTypes DEF PauseSettles, Control
  <2>3. bundle' \in [Runs -> 0..MaxAsks]
    BY <1>10, <2>1 DEF PauseSettles, TypeOK, WriteBundle
  <2>4. artifact' \in [Runs -> {"none", "paused", "completed", "failed", "stopped"}]
    BY <1>10, <2>1 DEF PauseSettles, TypeOK
  <2>5. lease' \in [Keys -> Runs \cup {NoRun}]
    BY <1>10 DEF PauseSettles, TypeOK, Released
  <2>6. status' \in [Session -> Status] /\ cancelReq' \in [Session -> BOOLEAN]
    BY <1>10, <2>1, MarkCancelledTypes DEF PauseSettles
  <2> QED
    BY <1>10, <2>2, <2>3, <2>4, <2>5, <2>6 DEF PauseSettles, TypeOK, history
<1>11. ASSUME NEW s \in Session, NEW w \in Worker, Materialize(s, w)
     PROVE  TypeOK'
  <2>1. s[1] \in Runs
    BY Identities
  <2>2. pc' \in [Session -> [Worker -> Control]]
    BY <1>11, GotoTypes DEF Materialize, Control, Live
  <2>3. JournalOutcome(status[s]) \in {"completed", "failed", "stopped"}
    BY <1>11 DEF Materialize, Placed, Suspended, Terminal, JournalOutcome
  <2>4. artifact' \in [Runs -> {"none", "paused", "completed", "failed", "stopped"}]
    BY <1>11, <2>1, <2>3 DEF Materialize, TypeOK
  <2>5. lease' \in [Keys -> Runs \cup {NoRun}]
    BY <1>11 DEF Materialize, TypeOK, Released
  <2>6. index' \subseteq Session
    BY <1>11, PruneDropsTerminal DEF Materialize, TypeOK
  <2> QED
    BY <1>11, <2>2, <2>4, <2>5, <2>6 DEF Materialize, TypeOK, history
<1>12. ASSUME NEW s \in Session, NEW w \in Worker, Close(s, w)
     PROVE  TypeOK'
  <2>1. pc' \in [Session -> [Worker -> Control]]
    BY <1>12, GotoTypes DEF Close, Control
  <2> QED
    BY <1>12, <2>1, MarkCancelledTypes DEF Close, TypeOK, disk, history
<1>13. ASSUME NEW s \in Session, Cancel(s)
     PROVE  TypeOK'
  <2>1. CASE CurLive(s)
    <3>1. /\ status' = [status EXCEPT ![s] = "canceled"]
          /\ cancelReq' = [cancelReq EXCEPT ![s] = TRUE]
          /\ cancelling' = [cancelling EXCEPT ![s] = @ \cup {cur[s]}]
          /\ UNCHANGED <<stamped, pc>>
      BY <1>13, <2>1 DEF Cancel, RequestCancel
    <3>2. cur[s] \in Task
      BY <2>1 DEF CurLive
    <3>3. cancelling' \in [Session -> SUBSET Task]
      BY <3>1, <3>2 DEF TypeOK
    <3> QED
      BY <1>13, <3>1, <3>3 DEF Cancel, TypeOK, Status, Terminal, disk, history
  <2>2. CASE ~CurLive(s)
    <3>1. EnterTerminal(s, Closer, "canceled") /\ UNCHANGED cancelling
      BY <1>13, <2>2 DEF Cancel
    <3>2. "canceled" \in Terminal /\ Closer \in Worker
      BY Identities DEF Terminal
    <3> QED
      BY <1>13, <3>1, <3>2, EnterTerminalTypes DEF Cancel, TypeOK, disk, history
  <2> QED
    BY <2>1, <2>2
<1>14. ASSUME NEW s \in Session, NEW c \in Clients, NEW a \in Ask,
             Answer(s, c, a)
     PROVE  TypeOK'
  <2>1. s[1] \in Runs /\ ask[s] \in Task /\ ask[s] \in Worker
    BY Identities DEF TypeOK, Task
  <2>2. pc' \in [Session -> [Worker -> Control]]
    BY <1>14, <2>1, GotoTypes DEF Answer, Control, Live
  <2>3. keys' \in [Session -> SUBSET (Clients \X Ask)]
    <3>1. KeyOf[<<c, a>>] \in Clients \X Ask
      BY KeyAssumption DEF Ask
    <3> QED
      BY <1>14, <3>1 DEF Answer, TypeOK
  <2>4. accepted' \in [Runs -> SUBSET (Clients \X Ask)]
    BY <1>14, <2>1 DEF Answer, TypeOK
  <2> QED
    BY <1>14, <2>1, <2>2, <2>3, <2>4 DEF Answer, TypeOK, disk, Status, InFlight
<1>15. ASSUME NEW r \in Runs, RestoreBegin(r)
     PROVE  TypeOK'
  BY <1>15 DEF RestoreBegin, TypeOK, disk, history
<1>16. ASSUME NEW r \in Runs, NEW n \in 1..MaxRestores, RestoreEnd(r, n)
     PROVE  TypeOK'
  <2> DEFINE s == <<r, n>>
  <2>1. s \in Session /\ 0 \in 0..MaxAsks
    BY Identities, RunAssumption DEF RunAssumption
  <2>2. lease' \in [Keys -> Runs \cup {NoRun}]
    BY <1>16 DEF RestoreEnd, TypeOK
  <2>3. status' \in [Session -> Status]
    BY <1>16, <2>1 DEF RestoreEnd, TypeOK, Status
  <2>4. ask' \in [Session -> 0..MaxAsks]
    BY <1>16, <2>1 DEF RestoreEnd, TypeOK
  <2>5. cache' \in [Session -> {"none", "unnamed", "named"}]
    BY <1>16, <2>1 DEF RestoreEnd, TypeOK
  <2>6. index' \subseteq Session
    BY <1>16, <2>1 DEF RestoreEnd, TypeOK
  <2>7. restoring' \in [Runs -> 0..MaxAsks]
    BY <1>16, <2>1 DEF RestoreEnd, TypeOK
  <2> HIDE DEF s
  <2> QED
    BY <1>16, <2>2, <2>3, <2>4, <2>5, <2>6, <2>7 DEF RestoreEnd, TypeOK, disk,
        history
<1>17. ASSUME NEW r \in Runs, RestoreFails(r)
     PROVE  TypeOK'
  BY <1>17, RunAssumption DEF RunAssumption, RestoreFails, TypeOK, disk, history
<1>18. ASSUME Crash
     PROVE  TypeOK'
  BY <1>18, RunAssumption DEF RunAssumption, Crash, TypeOK, Status, Control, disk
<1> QED
  BY <1>1, <1>2, <1>3, <1>4, <1>5, <1>6, <1>7, <1>8, <1>9,
     <1>10, <1>11, <1>12, <1>13, <1>14, <1>15, <1>16, <1>17, <1>18
  DEF Next, Requests, Driver, Loop, Recovery

\* Every step keeps workers in their place.
LEMMA PlacedStep ==
  ASSUME TypeOK, Placed, Next
  PROVE  Placed'
<1>1. ASSUME NEW r \in Runs, Create(r)
     PROVE  Placed'
  <2> DEFINE s == <<r, 0>>
  <2>1. s \in Session /\ Execute \in Task /\ Task \subseteq Worker
    BY Identities
  <2>2. /\ status[s] = "absent"
        /\ status' = [status EXCEPT ![s] = "pending"]
        /\ cur' = [cur EXCEPT ![s] = Execute]
        /\ pc' = [pc EXCEPT ![s][Execute] = "ready"]
    BY <1>1 DEF Create, Goto
  <2> HIDE DEF s
  <2> QED
    BY <2>1, <2>2 DEF TypeOK, Placed, AtWork, InFlight, Terminal
<1>2. ASSUME NEW k \in Keys, Coalesce(k)
     PROVE  Placed'
  BY <1>2 DEF Coalesce, Placed, AtWork
<1>3. ASSUME NEW s \in Session, Start(s)
     PROVE  Placed'
  BY <1>3, Identities
  DEF Start, TypeOK, Placed, AtWork, Suspended, Goto, InFlight, Execute
<1>4. ASSUME NEW s \in Session, NEW a \in Ask, Resume(s, a)
     PROVE  Placed'
  BY <1>4, Identities
  DEF Resume, TypeOK, Placed, AtWork, Suspended, Goto, InFlight
<1>5. ASSUME NEW s \in Session, NEW t \in Task,
             NEW c \in {"none", "unnamed", "named"}, DriverAsks(s, t, c)
     PROVE  Placed'
  BY <1>5, Identities
  DEF DriverAsks, TypeOK, Placed, AtWork, Suspended, Goto
<1>6. ASSUME NEW s \in Session, NEW t \in Task, NEW success \in BOOLEAN,
             DriverEnds(s, t, success)
     PROVE  Placed'
  BY <1>6, Identities, DerivedStatusIsTerminal
  DEF DriverEnds, TypeOK, Placed, AtWork, Suspended, Goto, EnterTerminal
<1>7. ASSUME NEW s \in Session, NEW t \in Task, DriverCancelled(s, t)
     PROVE  Placed'
  BY <1>7, Identities
  DEF DriverCancelled, TypeOK, Placed, AtWork, Suspended, Goto, EnterTerminal,
      Terminal
<1>8. ASSUME NEW s \in Session, NEW t \in Task, DriverAbsorbs(s, t)
     PROVE  Placed'
  BY <1>8 DEF DriverAbsorbs, Placed, AtWork
<1>9. ASSUME NEW s \in Session, NEW t \in Task, TaskKilled(s, t)
     PROVE  Placed'
  BY <1>9, Identities
  DEF TaskKilled, TypeOK, Placed, AtWork, Suspended, Goto, MarkCancelled,
      RequestCancel, InFlight, Terminal
<1>10. ASSUME NEW s \in Session, NEW t \in Task, PauseSettles(s, t)
     PROVE  Placed'
  BY <1>10, Identities
  DEF PauseSettles, TypeOK, Placed, AtWork, Suspended, Goto, MarkCancelled,
      RequestCancel, InFlight, Terminal
<1>11. ASSUME NEW s \in Session, NEW w \in Worker, Materialize(s, w)
     PROVE  Placed'
  <2>1. UNCHANGED <<status, cur>>
    BY <1>11 DEF Materialize
  <2>2. \E where \in {"closing", "killed"} : pc' = [pc EXCEPT ![s][w] = where]
    BY <1>11 DEF Materialize, Goto
  <2> QED
    BY <2>1, <2>2, Identities DEF TypeOK, Placed, AtWork
<1>12. ASSUME NEW s \in Session, NEW w \in Worker, Close(s, w)
     PROVE  Placed'
  BY <1>12, Identities
  DEF Close, TypeOK, Placed, AtWork, Suspended, Goto, MarkCancelled, RequestCancel,
      InFlight, Terminal
<1>13. ASSUME NEW s \in Session, Cancel(s)
     PROVE  Placed'
  <2>1. CASE CurLive(s)
    <3>1. status' = [status EXCEPT ![s] = "canceled"] /\ UNCHANGED <<cur, pc>>
      BY <1>13, <2>1 DEF Cancel, RequestCancel
    <3> QED
      BY <3>1 DEF TypeOK, Placed, AtWork, InFlight, Terminal
  <2>2. CASE ~CurLive(s)
    <3>1. /\ status' = [status EXCEPT ![s] = "canceled"] /\ UNCHANGED cur
          /\ pc' = [pc EXCEPT ![s][Closer] = "final"]
      BY <1>13, <2>2 DEF Cancel, EnterTerminal, Goto
    <3>2. \A t \in Task : ~AtWork(s, t)
      BY <2>2 DEF Placed, CurLive, AtWork, Live
    <3> QED
      BY <3>1, <3>2, Identities DEF TypeOK, Placed, AtWork, InFlight, Terminal
  <2> QED
    BY <2>1, <2>2
<1>14. ASSUME NEW s \in Session, NEW c \in Clients, NEW a \in Ask,
             Answer(s, c, a)
     PROVE  Placed'
  BY <1>14, Identities
  DEF Answer, TypeOK, Placed, AtWork, Goto, MayResume, InFlight, Terminal
<1>15. ASSUME NEW r \in Runs, RestoreBegin(r)
     PROVE  Placed'
  BY <1>15 DEF RestoreBegin, Placed, AtWork
<1>16. ASSUME NEW r \in Runs, NEW n \in 1..MaxRestores, RestoreEnd(r, n)
     PROVE  Placed'
  <2> DEFINE s == <<r, n>>
  <2>1. s \in Session
    BY Identities
  <2>2. /\ status[s] = "absent"
        /\ status' = [status EXCEPT ![s] = "waiting_input"]
        /\ UNCHANGED <<cur, pc>>
    BY <1>16 DEF RestoreEnd
  <2> HIDE DEF s
  <2> QED
    BY <2>1, <2>2 DEF TypeOK, Placed, AtWork, InFlight, Terminal
<1>17. ASSUME NEW r \in Runs, RestoreFails(r)
     PROVE  Placed'
  BY <1>17 DEF RestoreFails, Placed, AtWork
<1>18. ASSUME Crash
     PROVE  Placed'
  BY <1>18, Identities DEF Crash, Placed, AtWork
<1> QED
  BY <1>1, <1>2, <1>3, <1>4, <1>5, <1>6, <1>7, <1>8, <1>9,
     <1>10, <1>11, <1>12, <1>13, <1>14, <1>15, <1>16, <1>17, <1>18
  DEF Next, Requests, Driver, Loop, Recovery

-----------------------------------------------------------------------------
(* No orphan, whatever the drivers do                                      *)

\* A step that leaves a session alone and forgets no question keeps it manned.
LEMMA MannedElsewhere ==
  ASSUME NEW x \in Session, MannedAt(x),
         status'[x] = status[x], cur'[x] = cur[x], ask'[x] = ask[x],
         pc'[x] = pc[x], cancelling'[x] = cancelling[x]
  PROVE  MannedAt(x)'
  BY DEF MannedAt, ToCome, AtWork

\* No step makes a session, a bundle or a recovery name a question of the future.
LEMMA AskedBeforeStep ==
  ASSUME TypeOK, AskedBefore, Next
  PROVE  AskedBefore'
<1>0. \A r \in Runs : raised[r] \in Nat
  BY RunAssumption DEF RunAssumption, TypeOK
<1>1. ASSUME UNCHANGED <<ask, raised, bundle>>,
             \A r \in Runs : restoring'[r] \in {restoring[r], bundle[r], 0}
      PROVE  AskedBefore'
  BY <1>0, <1>1 DEF AskedBefore
<1>2. ASSUME NEW s \in Session, NEW t \in Task,
             NEW c \in {"none", "unnamed", "named"}, DriverAsks(s, t, c)
      PROVE  AskedBefore'
  <2>1. /\ raised' = [raised EXCEPT ![s[1]] = raised[s[1]] + 1]
        /\ ask' = [ask EXCEPT ![s] = raised[s[1]] + 1]
        /\ UNCHANGED <<bundle, restoring>>
    BY <1>2 DEF DriverAsks, disk
  <2>2. \A r \in Runs : raised'[r] \in Nat /\ raised[r] <= raised'[r]
    BY <1>0, <2>1, Identities DEF TypeOK
  <2>3. \A x \in Session : ask'[x] <= raised'[x[1]]
    <3> SUFFICES ASSUME NEW x \in Session PROVE ask'[x] <= raised'[x[1]]
      OBVIOUS
    <3>0. x[1] \in Runs /\ s[1] \in Runs
      BY Identities
    <3>1. x[1] \in Runs /\ s[1] \in Runs /\ ask[x] \in Nat /\ ask[x] <= raised[x[1]]
      BY <3>0, RunAssumption DEF AskedBefore, TypeOK, RunAssumption
    <3>2. CASE x = s
      BY <1>0, <2>1, <3>1, <3>2 DEF TypeOK
    <3>3. CASE x # s
      <4>1. ask'[x] = ask[x]
        BY <2>1, <3>3 DEF TypeOK
      <4> QED
        BY <1>0, <2>2, <3>1, <4>1
    <3> QED
      BY <3>2, <3>3
  <2>4. \A r \in Runs : restoring'[r] <= raised'[r] /\ bundle'[r] <= raised'[r]
    BY <1>0, <2>1, <2>2, RunAssumption DEF AskedBefore, TypeOK, RunAssumption
  <2> QED
    BY <2>3, <2>4 DEF AskedBefore
<1>3. ASSUME NEW s \in Session, NEW t \in Task, PauseSettles(s, t)
      PROVE  AskedBefore'
  <2>1. UNCHANGED <<ask, raised, restoring>>
    BY <1>3 DEF PauseSettles, history
  <2>2. \A r \in Runs : bundle'[r] = bundle[r] \/ (r = s[1] /\ bundle'[r] = ask[s])
    BY <1>3 DEF PauseSettles, WriteBundle, TypeOK
  <2> QED
    BY <2>1, <2>2 DEF AskedBefore
<1>4. ASSUME NEW r \in Runs, NEW n \in 1..MaxRestores, RestoreEnd(r, n)
      PROVE  AskedBefore'
  <2> DEFINE s == <<r, n>>
  <2>1. s \in Session /\ s[1] = r
    BY Identities
  <2>2. /\ ask' = [ask EXCEPT ![s] = restoring[r]]
        /\ restoring' = [restoring EXCEPT ![r] = 0]
        /\ UNCHANGED <<raised, bundle>>
    BY <1>4 DEF RestoreEnd, disk, history
  <2> HIDE DEF s
  <2> QED
    BY <1>0, <2>1, <2>2 DEF AskedBefore, TypeOK
<1>5. ASSUME NEW r \in Runs, RestoreBegin(r) \/ RestoreFails(r)
      PROVE  AskedBefore'
  BY <1>1, <1>5 DEF RestoreBegin, RestoreFails, disk, history, TypeOK
<1>6. ASSUME Crash
      PROVE  AskedBefore'
  BY <1>1, <1>6 DEF Crash, disk
<1>7. ASSUME NEW r \in Runs, Create(r)
      PROVE  AskedBefore'
  BY <1>1, <1>7 DEF Create, disk, history
<1>8. ASSUME NEW k \in Keys, Coalesce(k)
      PROVE  AskedBefore'
  BY <1>1, <1>8 DEF Coalesce, disk, history
<1>9. ASSUME NEW s \in Session, Start(s) \/ (\E a \in Ask : Resume(s, a)) \/ Cancel(s)
      PROVE  AskedBefore'
  BY <1>1, <1>9 DEF Start, Resume, Cancel, disk, history
<1>10. ASSUME NEW s \in Session, NEW t \in Task,
              \/ \E success \in BOOLEAN : DriverEnds(s, t, success)
              \/ DriverCancelled(s, t) \/ DriverAbsorbs(s, t) \/ TaskKilled(s, t)
       PROVE  AskedBefore'
  BY <1>1, <1>10
  DEF DriverEnds, DriverCancelled, DriverAbsorbs, TaskKilled, disk, history
<1>11. ASSUME NEW s \in Session, NEW w \in Worker, Materialize(s, w) \/ Close(s, w)
       PROVE  AskedBefore'
  BY <1>1, <1>11 DEF Materialize, Close, disk, history
<1>12. ASSUME NEW s \in Session, NEW c \in Clients, NEW a \in Ask, Answer(s, c, a)
       PROVE  AskedBefore'
  BY <1>1, <1>12 DEF Answer, disk
<1> QED
  BY <1>2, <1>3, <1>4, <1>5, <1>6, <1>7, <1>8, <1>9, <1>10, <1>11, <1>12
  DEF Next, Requests, Driver, Loop, Recovery

\* A step that writes a session that is at work, waits or is new keeps it manned,
\* and leaves the other sessions alone.
LEMMA MannedStep ==
  ASSUME TypeOK, Placed, Manned, Next, NEW x \in Session
  PROVE  MannedAt(x)'
<1>0. /\ MannedAt(x)
      /\ Execute \in Task /\ Ask \subseteq Task /\ Task \subseteq Worker
      /\ Execute \notin Ask /\ 0 \notin Ask /\ Closer \notin Task
      /\ ask[x] \in Nat /\ \A t \in Ask : t \in Nat
  BY Identities, RunAssumption
  DEF Manned, TypeOK, RunAssumption, Execute, Ask
<1>1. ASSUME NEW r \in Runs, Create(r)
      PROVE  MannedAt(x)'
  <2> DEFINE s == <<r, 0>>
  <2>1. s \in Session
    BY Identities
  <2>2. /\ status[s] = "absent"
        /\ status' = [status EXCEPT ![s] = "pending"]
        /\ cur' = [cur EXCEPT ![s] = Execute]
        /\ pc' = [pc EXCEPT ![s][Execute] = "ready"]
        /\ UNCHANGED <<ask, cancelling>>
    BY <1>1 DEF Create, Goto
  <2> HIDE DEF s
  <2> QED
    BY <1>0, <2>1, <2>2 DEF TypeOK, MannedAt, ToCome, AtWork, InFlight
<1>2. ASSUME NEW k \in Keys, Coalesce(k)
      PROVE  MannedAt(x)'
  BY <1>0, <1>2, MannedElsewhere DEF Coalesce
<1>3. ASSUME NEW s \in Session, Start(s)
      PROVE  MannedAt(x)'
  <2>1. CASE x = s
    BY <1>0, <1>3, <2>1
    DEF Start, TypeOK, Placed, MannedAt, ToCome, AtWork, Suspended, NotCancelled, Goto, InFlight, Terminal
  <2>2. CASE x # s
    BY <1>0, <1>3, <2>2, MannedElsewhere
    DEF Start, TypeOK, Placed, MannedAt, ToCome, AtWork, Suspended, NotCancelled, Goto, InFlight, Terminal
  <2> QED
    BY <2>1, <2>2
<1>4. ASSUME NEW s \in Session, NEW a \in Ask, Resume(s, a)
      PROVE  MannedAt(x)'
  <2>1. CASE x = s
    BY <1>0, <1>4, <2>1
    DEF Resume, TypeOK, Placed, MannedAt, ToCome, AtWork, Suspended, NotCancelled, Goto, InFlight, Terminal
  <2>2. CASE x # s
    BY <1>0, <1>4, <2>2, MannedElsewhere
    DEF Resume, TypeOK, Placed, MannedAt, ToCome, AtWork, Suspended, NotCancelled, Goto, InFlight, Terminal
  <2> QED
    BY <2>1, <2>2
<1>5. ASSUME NEW s \in Session, NEW t \in Task,
             NEW c \in {"none", "unnamed", "named"}, DriverAsks(s, t, c)
      PROVE  MannedAt(x)'
  <2>1. CASE x = s
    <3>0. /\ pc[x][t] = "drive" /\ t \notin cancelling[x]
          /\ raised[x[1]] + 1 \in Ask /\ UNCHANGED <<cur, cancelling>>
      BY <1>5, <2>1 DEF DriverAsks, Suspended, NotCancelled
    <3>a. x[1] \in Runs
      BY Identities
    <3>b. ask[x] < raised[x[1]] + 1
      BY <1>0, <3>a, RunAssumption DEF Manned, AskedBefore, TypeOK, RunAssumption
    <3>1. /\ pc[x][t] = "drive" /\ t \notin cancelling[x] /\ cur[x] = t
          /\ raised[x[1]] + 1 \in Ask /\ ask[x] < raised[x[1]] + 1
          /\ UNCHANGED <<cur, cancelling>>
      BY <3>0, <3>b DEF Placed, AtWork
    <3>2. /\ status'[x] = "waiting_input" /\ ask'[x] = raised[x[1]] + 1
          /\ pc'[x] = [pc[x] EXCEPT ![t] = "pause"]
      BY <1>5, <2>1 DEF DriverAsks, Goto, TypeOK
    <3>3. \A q \in Ask : ToCome(x, q)' => ToCome(x, q)
      BY <1>0, <3>1, <3>2 DEF ToCome
    <3>4. ~ToCome(x, t) \/ t \notin Ask
      BY <1>0, <3>1 DEF MannedAt
    <3>5. \A q \in Ask : ToCome(x, q)' => pc'[x][q] = "idle" /\ q \notin cancelling'[x]
      BY <1>0, <3>1, <3>2, <3>3, <3>4 DEF MannedAt, TypeOK
    <3> QED
      BY <1>0, <3>1, <3>2, <3>5 DEF MannedAt, InFlight
  <2>2. CASE x # s
    BY <1>0, <1>5, <2>2, MannedElsewhere
    DEF DriverAsks, TypeOK, Placed, MannedAt, ToCome, AtWork, Suspended, NotCancelled, Goto, InFlight, Terminal
  <2> QED
    BY <2>1, <2>2
<1>6. ASSUME NEW s \in Session, NEW t \in Task, NEW success \in BOOLEAN,
             DriverEnds(s, t, success)
      PROVE  MannedAt(x)'
  <2>1. CASE x = s
    <3>1. PICK outcome \in Terminal : EnterTerminal(s, t, outcome)
      BY <1>6, Identities, DerivedStatusIsTerminal DEF DriverEnds
    <3>2. /\ pc[x][t] = "drive" /\ t \notin cancelling[x] /\ cur[x] = t
          /\ UNCHANGED <<cur, ask, cancelling>>
      BY <1>0, <1>6, <2>1
      DEF DriverEnds, Suspended, NotCancelled, Placed, AtWork
    <3> QED
      BY <1>0, <2>1, <3>1, <3>2
      DEF EnterTerminal, Goto, TypeOK, MannedAt, ToCome, InFlight, Terminal
  <2>2. CASE x # s
    BY <1>0, <1>6, <2>2, MannedElsewhere
    DEF DriverEnds, EnterTerminal, TypeOK, Placed, MannedAt, ToCome, AtWork, Suspended, NotCancelled, Goto, InFlight, Terminal
  <2> QED
    BY <2>1, <2>2
<1>7. ASSUME NEW s \in Session, NEW t \in Task, DriverCancelled(s, t)
      PROVE  MannedAt(x)'
  <2>1. CASE x = s
    BY <1>0, <1>7, <2>1
    DEF DriverCancelled, EnterTerminal, TypeOK, Placed, MannedAt, ToCome, AtWork, Suspended, NotCancelled, Goto, InFlight, Terminal
  <2>2. CASE x # s
    BY <1>0, <1>7, <2>2, MannedElsewhere
    DEF DriverCancelled, EnterTerminal, TypeOK, Placed, MannedAt, ToCome, AtWork, Suspended, NotCancelled, Goto, InFlight, Terminal
  <2> QED
    BY <2>1, <2>2
<1>8. ASSUME NEW s \in Session, NEW t \in Task, DriverAbsorbs(s, t)
      PROVE  MannedAt(x)'
  <2>1. CASE x = s
    BY <1>0, <1>8, <2>1
    DEF DriverAbsorbs, TypeOK, Placed, MannedAt, ToCome, AtWork, Suspended, NotCancelled, Goto, InFlight, Terminal
  <2>2. CASE x # s
    BY <1>0, <1>8, <2>2, MannedElsewhere
    DEF DriverAbsorbs, TypeOK, Placed, MannedAt, ToCome, AtWork, Suspended, NotCancelled, Goto, InFlight, Terminal
  <2> QED
    BY <2>1, <2>2
<1>9. ASSUME NEW s \in Session, NEW t \in Task, TaskKilled(s, t)
      PROVE  MannedAt(x)'
  <2>1. CASE x = s
    BY <1>0, <1>9, <2>1
    DEF TaskKilled, MarkCancelled, RequestCancel, TypeOK, Placed, MannedAt, ToCome, AtWork, Suspended, NotCancelled, Goto, InFlight, Terminal
  <2>2. CASE x # s
    BY <1>0, <1>9, <2>2, MannedElsewhere
    DEF TaskKilled, MarkCancelled, RequestCancel, TypeOK, Placed, MannedAt, ToCome, AtWork, Suspended, NotCancelled, Goto, InFlight, Terminal
  <2> QED
    BY <2>1, <2>2
<1>10. ASSUME NEW s \in Session, NEW t \in Task, PauseSettles(s, t)
      PROVE  MannedAt(x)'
  <2>1. CASE x = s
    BY <1>0, <1>10, <2>1
    DEF PauseSettles, MarkCancelled, RequestCancel, TypeOK, Placed, MannedAt, ToCome, AtWork, Suspended, NotCancelled, Goto, InFlight, Terminal
  <2>2. CASE x # s
    BY <1>0, <1>10, <2>2, MannedElsewhere
    DEF PauseSettles, MarkCancelled, RequestCancel, TypeOK, Placed, MannedAt, ToCome, AtWork, Suspended, NotCancelled, Goto, InFlight, Terminal
  <2> QED
    BY <2>1, <2>2
<1>11. ASSUME NEW s \in Session, NEW w \in Worker, Materialize(s, w)
      PROVE  MannedAt(x)'
  <2>1. UNCHANGED <<status, cur, ask, cancelling>> /\ pc[s][w] = "final"
    BY <1>11 DEF Materialize, Suspended
  <2>2. \E where \in {"closing", "killed"} : pc' = [pc EXCEPT ![s][w] = where]
    BY <1>11 DEF Materialize, Goto
  <2> QED
    BY <1>0, <2>1, <2>2 DEF TypeOK, Placed, MannedAt, ToCome, AtWork, InFlight
<1>12. ASSUME NEW s \in Session, NEW w \in Worker, Close(s, w)
      PROVE  MannedAt(x)'
  <2>1. CASE x = s
    BY <1>0, <1>12, <2>1
    DEF Close, MarkCancelled, RequestCancel, TypeOK, Placed, MannedAt, ToCome, AtWork, Suspended, NotCancelled, Goto, InFlight, Terminal
  <2>2. CASE x # s
    BY <1>0, <1>12, <2>2, MannedElsewhere
    DEF Close, MarkCancelled, RequestCancel, TypeOK, Placed, MannedAt, ToCome, AtWork, Suspended, NotCancelled, Goto, InFlight, Terminal
  <2> QED
    BY <2>1, <2>2
<1>13. ASSUME NEW s \in Session, Cancel(s)
      PROVE  MannedAt(x)'
  <2>1. /\ status' = [status EXCEPT ![s] = "canceled"] /\ UNCHANGED <<cur, ask>>
        /\ \/ CurLive(s) /\ UNCHANGED pc
              /\ cancelling' = [cancelling EXCEPT ![s] = @ \cup {cur[s]}]
           \/ pc' = [pc EXCEPT ![s][Closer] = "final"] /\ UNCHANGED cancelling
    BY <1>13 DEF Cancel, RequestCancel, EnterTerminal, Goto
  <2> QED
    BY <1>0, <2>1
    DEF TypeOK, MannedAt, ToCome, AtWork, InFlight, Terminal, CurLive, Live
<1>14. ASSUME NEW s \in Session, NEW c \in Clients, NEW a \in Ask,
             Answer(s, c, a)
      PROVE  MannedAt(x)'
  <2>1. CASE x = s
    <3>1. /\ status[x] = "waiting_input" /\ status'[x] = "running"
          /\ cur'[x] = ask[x] /\ pc'[x] = [pc[x] EXCEPT ![ask[x]] = "ready"]
          /\ UNCHANGED <<ask, cancelling>>
      BY <1>14, <2>1 DEF Answer, MayResume, Goto, TypeOK
    <3>2. ask[x] \in Ask /\ ToCome(x, ask[x]) /\ ask[x] \notin cancelling[x]
      BY <1>0, <3>1, RunAssumption
      DEF MannedAt, ToCome, TypeOK, Ask, RunAssumption
    <3>3. /\ pc'[x][ask[x]] = "ready"
          /\ \A q \in Worker : q # ask[x] => pc'[x][q] = pc[x][q]
      BY <1>0, <3>1, <3>2 DEF TypeOK
    <3>4. \A q \in Ask : ToCome(x, q)' => ToCome(x, q) /\ q # ask[x]
      BY <1>0, <3>1 DEF ToCome
    <3> QED
      BY <1>0, <3>1, <3>2, <3>3, <3>4 DEF MannedAt, AtWork, InFlight
  <2>2. CASE x # s
    BY <1>0, <1>14, <2>2, MannedElsewhere
    DEF Answer, MayResume, TypeOK, Placed, MannedAt, ToCome, AtWork, Suspended, NotCancelled, Goto, InFlight, Terminal
  <2> QED
    BY <2>1, <2>2
<1>15. ASSUME NEW r \in Runs, RestoreBegin(r)
      PROVE  MannedAt(x)'
  BY <1>0, <1>15, MannedElsewhere DEF RestoreBegin
<1>16. ASSUME NEW r \in Runs, NEW n \in 1..MaxRestores, RestoreEnd(r, n)
      PROVE  MannedAt(x)'
  <2> DEFINE s == <<r, n>>
  <2>1. s \in Session /\ r \in Runs
    BY Identities
  <2>2. /\ status[s] = "absent" /\ restoring[r] # 0 /\ restoring[r] \in Nat
        /\ status' = [status EXCEPT ![s] = "waiting_input"]
        /\ ask' = [ask EXCEPT ![s] = restoring[r]]
        /\ UNCHANGED <<cur, pc, cancelling>>
    BY <1>16, RunAssumption DEF RestoreEnd, TypeOK, RunAssumption
  <2> HIDE DEF s
  <2> QED
    BY <1>0, <2>1, <2>2 DEF TypeOK, MannedAt, ToCome, AtWork, InFlight
<1>17. ASSUME NEW r \in Runs, RestoreFails(r)
      PROVE  MannedAt(x)'
  BY <1>0, <1>17, MannedElsewhere DEF RestoreFails
<1>18. ASSUME Crash
      PROVE  MannedAt(x)'
  BY <1>0, <1>18 DEF Crash, MannedAt, ToCome, InFlight, TypeOK
<1> QED
  BY <1>1, <1>2, <1>3, <1>4, <1>5, <1>6, <1>7, <1>8, <1>9,
     <1>10, <1>11, <1>12, <1>13, <1>14, <1>15, <1>16, <1>17, <1>18
  DEF Next, Requests, Driver, Loop, Recovery

-----------------------------------------------------------------------------
(* The part that needs cancellations to be delivered                       *)

\* The steps that touch one session that was created, and neither the index nor
\* a recovery, keep Single.
LEMMA SingleKept ==
  ASSUME TypeOK, Single, NEW s \in Session,
         status[<<s[1], 0>>] # "absent",
         UNCHANGED <<index, restoring>>,
         \A x \in Session : x # s => status'[x] = status[x] /\ pc'[x] = pc[x],
         \A r \in Runs : r # s[1] => bundle'[r] = bundle[r],
         status'[s] = "absent" => status[s] = "absent",
         status'[s] \in InFlight \cup {"waiting_input"} => s \in index
  PROVE  Single'
<1>1. ASSUME NEW x \in Session, status'[<<x[1], 0>>] = "absent"
      PROVE  x # s /\ status[<<x[1], 0>>] = "absent" /\ x[1] # s[1]
  BY <1>1, Identities
<1>2. \A x \in Session : status'[x] \in InFlight \cup {"waiting_input"} => x \in index'
  BY DEF Single
<1>3. \A s1, s2 \in index' : s1[1] = s2[1] => s1 = s2
  BY DEF Single
<1>4. \A x \in index' : restoring'[x[1]] = 0
  BY DEF Single
<1>5. ASSUME NEW x \in Session, status'[<<x[1], 0>>] = "absent"
      PROVE  /\ bundle'[x[1]] = 0 /\ restoring'[x[1]] = 0
             /\ x \notin index'
             /\ \A w \in Worker : pc'[x][w] = "idle"
  <2>1. x # s /\ status[<<x[1], 0>>] = "absent" /\ x[1] # s[1] /\ x[1] \in Runs
    BY <1>1, <1>5, Identities
  <2>2. bundle'[x[1]] = bundle[x[1]] /\ pc'[x] = pc[x]
    BY <2>1
  <2> QED
    BY <2>1, <2>2 DEF Single
<1> QED
  BY <1>2, <1>3, <1>4, <1>5 DEF Single

\* A session somebody works for, or that is indexed, belongs to a created run.
LEMMA CreatedRun ==
  ASSUME Single, NEW s \in Session,
         s \in index \/ \E w \in Worker : pc[s][w] # "idle"
  PROVE  status[<<s[1], 0>>] # "absent"
  BY DEF Single

\* A step sends or delivers a cancellation only where the session says so.
LEMMA MarkedStep ==
  ASSUME NoSwallow, IInv, Next
  PROVE  Marked'
<1>1. ASSUME NEW r \in Runs, Create(r)
     PROVE  Marked'
  <2> DEFINE s == <<r, 0>>
  <2>1. s \in Session
    BY Identities
  <2>2. /\ status[s] = "absent" /\ status' = [status EXCEPT ![s] = "pending"]
        /\ UNCHANGED <<cancelling, absorbed>>
    BY <1>1 DEF Create
  <2> HIDE DEF s
  <2> QED
    BY <2>1, <2>2 DEF IInv, Safe, TypeOK, Marked
<1>2. ASSUME NEW k \in Keys, Coalesce(k)
     PROVE  Marked'
  BY <1>2 DEF IInv, Coalesce, Marked
<1>3. ASSUME NEW s \in Session, Start(s)
     PROVE  Marked'
  <2>1. Drives(s, Execute)
    BY <1>3 DEF Start, Drives, Suspended
  <2>2. status[s] \in InFlight /\ cancelling[s] = {}
    BY <2>1, Identities DEF IInv, Owned, Marked, InFlight
  <2> QED
    BY <1>3, <2>2 DEF IInv, Safe, TypeOK, Marked, Start
<1>4. ASSUME NEW s \in Session, NEW a \in Ask, Resume(s, a)
     PROVE  Marked'
  <2>1. Drives(s, a)
    BY <1>4 DEF Resume, Drives, Suspended
  <2>2. status[s] \in InFlight /\ cancelling[s] = {}
    BY <2>1, Identities DEF IInv, Owned, Marked, InFlight
  <2> QED
    BY <1>4, <2>2 DEF IInv, Safe, TypeOK, Marked, Resume
<1>5. ASSUME NEW s \in Session, NEW t \in Task,
             NEW c \in {"none", "unnamed", "named"}, DriverAsks(s, t, c)
     PROVE  Marked'
  <2>1. Drives(s, t)
    BY <1>5 DEF DriverAsks, Drives, Suspended
  <2>2. status[s] \in InFlight /\ cancelling[s] = {}
    BY <2>1, Identities DEF IInv, Owned, Marked, InFlight
  <2> QED
    BY <1>5, <2>2 DEF IInv, Safe, TypeOK, Marked, DriverAsks
<1>6. ASSUME NEW s \in Session, NEW t \in Task, NEW success \in BOOLEAN,
             DriverEnds(s, t, success)
     PROVE  Marked'
  <2>1. Drives(s, t)
    BY <1>6 DEF DriverEnds, Drives, Suspended
  <2>2. status[s] \in InFlight /\ cancelling[s] = {}
    BY <2>1, Identities DEF IInv, Owned, Marked, InFlight
  <2> QED
    BY <1>6, <2>2 DEF IInv, Safe, TypeOK, Marked, DriverEnds, EnterTerminal
<1>7. ASSUME NEW s \in Session, NEW t \in Task, DriverCancelled(s, t)
     PROVE  Marked'
  BY <1>7
  DEF IInv, Safe, TypeOK, Marked, DriverCancelled, EnterTerminal
<1>8. ASSUME NEW s \in Session, NEW t \in Task, DriverAbsorbs(s, t)
     PROVE  Marked'
  BY <1>8 DEF NoSwallow, DriverAbsorbs
<1>9. ASSUME NEW s \in Session, NEW t \in Task, TaskKilled(s, t)
     PROVE  Marked'
  BY <1>9
  DEF TaskKilled, IInv, Safe, TypeOK, Marked, MarkCancelled, RequestCancel
<1>10. ASSUME NEW s \in Session, NEW t \in Task, PauseSettles(s, t)
     PROVE  Marked'
  BY <1>10
  DEF PauseSettles, IInv, Safe, TypeOK, Marked, MarkCancelled, RequestCancel
<1>11. ASSUME NEW s \in Session, NEW w \in Worker, Materialize(s, w)
     PROVE  Marked'
  BY <1>11 DEF IInv, Materialize, Marked
<1>12. ASSUME NEW s \in Session, NEW w \in Worker, Close(s, w)
     PROVE  Marked'
  BY <1>12
  DEF Close, IInv, Safe, TypeOK, Marked, MarkCancelled, RequestCancel
<1>13. ASSUME NEW s \in Session, Cancel(s)
     PROVE  Marked'
  BY <1>13
  DEF IInv, Safe, TypeOK, Marked, Cancel, RequestCancel, EnterTerminal
<1>14. ASSUME NEW s \in Session, NEW c \in Clients, NEW a \in Ask,
             Answer(s, c, a)
     PROVE  Marked'
  BY <1>14 DEF IInv, Safe, TypeOK, Marked, Answer, MayResume
<1>15. ASSUME NEW r \in Runs, RestoreBegin(r)
     PROVE  Marked'
  BY <1>15 DEF IInv, RestoreBegin, Marked
<1>16. ASSUME NEW r \in Runs, NEW n \in 1..MaxRestores, RestoreEnd(r, n)
     PROVE  Marked'
  <2> DEFINE s == <<r, n>>
  <2>1. s \in Session
    BY Identities
  <2>2. /\ status[s] = "absent" /\ status' = [status EXCEPT ![s] = "waiting_input"]
        /\ UNCHANGED <<cancelling, absorbed>>
    BY <1>16 DEF RestoreEnd
  <2> HIDE DEF s
  <2> QED
    BY <2>1, <2>2 DEF IInv, Safe, TypeOK, Marked
<1>17. ASSUME NEW r \in Runs, RestoreFails(r)
     PROVE  Marked'
  BY <1>17 DEF IInv, RestoreFails, Marked
<1>18. ASSUME Crash
     PROVE  Marked'
  BY <1>18 DEF Crash, Marked
<1> QED
  BY <1>1, <1>2, <1>3, <1>4, <1>5, <1>6, <1>7, <1>8, <1>9,
     <1>10, <1>11, <1>12, <1>13, <1>14, <1>15, <1>16, <1>17, <1>18
  DEF Next, Requests, Driver, Loop, Recovery

\* A step gives a session a status in flight together with the task that drives it.
LEMMA OwnedStep ==
  ASSUME NoSwallow, IInv, Next
  PROVE  Owned'
<1>1. ASSUME NEW r \in Runs, Create(r)
     PROVE  Owned'
  <2> DEFINE s == <<r, 0>>
  <2>1. s \in Session /\ Execute \in Task /\ Task \subseteq Worker
    BY Identities
  <2>2. /\ status[s] = "absent"
        /\ status' = [status EXCEPT ![s] = "pending"]
        /\ cur' = [cur EXCEPT ![s] = Execute]
        /\ pc' = [pc EXCEPT ![s][Execute] = "ready"]
        /\ UNCHANGED cancelling
    BY <1>1 DEF Create, Goto
  <2> HIDE DEF s
  <2> QED
    BY <2>1, <2>2 DEF IInv, Safe, TypeOK, Marked, Owned, Drives, NotCancelled,
        InFlight
<1>2. ASSUME NEW k \in Keys, Coalesce(k)
     PROVE  Owned'
  BY <1>2 DEF IInv, Coalesce, Owned, Drives, NotCancelled
<1>3. ASSUME NEW s \in Session, Start(s)
     PROVE  Owned'
  BY <1>3, Identities
  DEF Start, IInv, Safe, TypeOK, Placed, Marked, Owned, Drives, AtWork, Suspended,
      NotCancelled, Goto, InFlight
<1>4. ASSUME NEW s \in Session, NEW a \in Ask, Resume(s, a)
     PROVE  Owned'
  BY <1>4, Identities
  DEF Resume, IInv, Safe, TypeOK, Placed, Marked, Owned, Drives, AtWork, Suspended,
      NotCancelled, Goto, InFlight
<1>5. ASSUME NEW s \in Session, NEW t \in Task,
             NEW c \in {"none", "unnamed", "named"}, DriverAsks(s, t, c)
     PROVE  Owned'
  BY <1>5, Identities
  DEF DriverAsks, IInv, Safe, TypeOK, Placed, Marked, Owned, Drives, AtWork,
      Suspended, NotCancelled, Goto, InFlight
<1>6. ASSUME NEW s \in Session, NEW t \in Task, NEW success \in BOOLEAN,
             DriverEnds(s, t, success)
     PROVE  Owned'
  BY <1>6, Identities, DerivedStatusIsTerminal
  DEF DriverEnds, EnterTerminal, Terminal, IInv, Safe, TypeOK, Placed, Marked,
      Owned, Drives, AtWork, Suspended, NotCancelled, Goto, InFlight
<1>7. ASSUME NEW s \in Session, NEW t \in Task, DriverCancelled(s, t)
     PROVE  Owned'
  BY <1>7, Identities
  DEF DriverCancelled, EnterTerminal, IInv, Safe, TypeOK, Placed, Marked, Owned,
      Drives, AtWork, Suspended, NotCancelled, Goto, InFlight
<1>8. ASSUME NEW s \in Session, NEW t \in Task, DriverAbsorbs(s, t)
     PROVE  Owned'
  BY <1>8 DEF NoSwallow, DriverAbsorbs
<1>9. ASSUME NEW s \in Session, NEW t \in Task, TaskKilled(s, t)
     PROVE  Owned'
  BY <1>9, Identities
  DEF TaskKilled, MarkCancelled, RequestCancel, IInv, Safe, TypeOK, Placed, Marked,
      Owned, Drives, AtWork, Suspended, NotCancelled, Goto, InFlight
<1>10. ASSUME NEW s \in Session, NEW t \in Task, PauseSettles(s, t)
     PROVE  Owned'
  BY <1>10, Identities
  DEF PauseSettles, MarkCancelled, RequestCancel, TaskCancelled, IInv, Safe, TypeOK,
      Placed, Marked, Owned, Drives, AtWork, Suspended, NotCancelled, Goto, InFlight
<1>11. ASSUME NEW s \in Session, NEW w \in Worker, Materialize(s, w)
     PROVE  Owned'
  <2>1. UNCHANGED <<status, cur, cancelling>> /\ pc[s][w] = "final"
    BY <1>11 DEF Materialize, Suspended
  <2>2. \E where \in {"closing", "killed"} : pc' = [pc EXCEPT ![s][w] = where]
    BY <1>11 DEF Materialize, Goto
  <2> QED
    BY <2>1, <2>2, Identities
    DEF IInv, Safe, TypeOK, Placed, Owned, Drives, NotCancelled, InFlight, Terminal
<1>12. ASSUME NEW s \in Session, NEW w \in Worker, Close(s, w)
     PROVE  Owned'
  BY <1>12, Identities
  DEF Close, MarkCancelled, RequestCancel, TaskCancelled, IInv, Safe, TypeOK,
      Placed, Marked, Owned, Drives, AtWork, Suspended, NotCancelled, Goto, InFlight
<1>13. ASSUME NEW s \in Session, Cancel(s)
     PROVE  Owned'
  <2>1. CASE CurLive(s)
    <3>1. /\ status' = [status EXCEPT ![s] = "canceled"]
          /\ cancelling' = [cancelling EXCEPT ![s] = @ \cup {cur[s]}]
          /\ UNCHANGED <<cur, pc>>
      BY <1>13, <2>1 DEF Cancel, RequestCancel
    <3> QED
      BY <3>1 DEF IInv, Safe, TypeOK, Placed, Owned, Drives, AtWork, NotCancelled,
          InFlight
  <2>2. CASE ~CurLive(s)
    <3>1. /\ status' = [status EXCEPT ![s] = "canceled"]
          /\ pc' = [pc EXCEPT ![s][Closer] = "final"]
          /\ UNCHANGED <<cur, cancelling>>
      BY <1>13, <2>2 DEF Cancel, EnterTerminal, Goto
    <3>2. \A t \in Task : ~AtWork(s, t)
      BY <2>2 DEF IInv, Safe, Placed, CurLive, AtWork, Live
    <3> QED
      BY <3>1, <3>2, Identities
      DEF IInv, Safe, TypeOK, Owned, Drives, AtWork, NotCancelled, InFlight
  <2> QED
    BY <2>1, <2>2
<1>14. ASSUME NEW s \in Session, NEW c \in Clients, NEW a \in Ask,
             Answer(s, c, a)
     PROVE  Owned'
  <2>1. ask[s] \in Task /\ ask[s] \in Worker
    BY Identities DEF IInv, Safe, TypeOK, Task
  <2>2. /\ status[s] = "waiting_input"
        /\ status' = [status EXCEPT ![s] = "running"]
        /\ cur' = [cur EXCEPT ![s] = ask[s]]
        /\ pc' = [pc EXCEPT ![s][ask[s]] = "ready"]
        /\ UNCHANGED cancelling
    BY <1>14 DEF Answer, MayResume, Goto
  <2>3. cancelling[s] = {} /\ \A t \in Task : ~AtWork(s, t)
    BY <2>2 DEF IInv, Safe, Placed, Marked, InFlight
  <2> QED
    BY <2>1, <2>2, <2>3, Identities
    DEF IInv, Safe, TypeOK, Owned, Drives, AtWork, NotCancelled, InFlight
<1>15. ASSUME NEW r \in Runs, RestoreBegin(r)
     PROVE  Owned'
  BY <1>15 DEF IInv, RestoreBegin, Owned, Drives, NotCancelled
<1>16. ASSUME NEW r \in Runs, NEW n \in 1..MaxRestores, RestoreEnd(r, n)
     PROVE  Owned'
  <2> DEFINE s == <<r, n>>
  <2>1. s \in Session
    BY Identities
  <2>2. /\ status[s] = "absent"
        /\ status' = [status EXCEPT ![s] = "waiting_input"]
        /\ UNCHANGED <<cur, pc, cancelling>>
    BY <1>16 DEF RestoreEnd
  <2> HIDE DEF s
  <2> QED
    BY <2>1, <2>2 DEF IInv, Safe, TypeOK, Owned, Drives, NotCancelled, InFlight
<1>17. ASSUME NEW r \in Runs, RestoreFails(r)
     PROVE  Owned'
  BY <1>17 DEF IInv, RestoreFails, Owned, Drives, NotCancelled
<1>18. ASSUME Crash
     PROVE  Owned'
  BY <1>18, Identities DEF Crash, Owned, Drives, InFlight
<1> QED
  BY <1>1, <1>2, <1>3, <1>4, <1>5, <1>6, <1>7, <1>8, <1>9,
     <1>10, <1>11, <1>12, <1>13, <1>14, <1>15, <1>16, <1>17, <1>18
  DEF Next, Requests, Driver, Loop, Recovery

\* A step indexes a session of a run only where the run has none.
LEMMA SingleStep ==
  ASSUME NoSwallow, IInv, Next
  PROVE  Single'
<1>1. ASSUME NEW r \in Runs, Create(r)
     PROVE  Single'
  <2> DEFINE s == <<r, 0>>
  <2>1. s \in Session /\ s[1] = r /\ <<s[1], 0>> = s
    BY Identities
  <2>2. PICK S \in PruneResults : index' = S \cup {s}
    BY <1>1 DEF Create
  <2>3. S \subseteq index /\ \A x \in index \ S : status[x] \in Terminal
    BY PruneDropsTerminal
  <2>4. /\ status[s] = "absent"
        /\ status' = [status EXCEPT ![s] = "pending"]
        /\ pc' = [pc EXCEPT ![s][Execute] = "ready"]
        /\ UNCHANGED <<restoring, bundle>>
    BY <1>1 DEF Create, Goto, disk
  <2>5. restoring[r] = 0 /\ \A x \in index : x[1] # r
    BY <2>1, <2>4 DEF IInv, Safe, TypeOK, Single
  <2>6. \A x \in Session : status'[x] \in InFlight \cup {"waiting_input"} => x \in index'
    BY <2>1, <2>2, <2>3, <2>4
    DEF IInv, Safe, TypeOK, Single, InFlight, Terminal
  <2>7. \A s1, s2 \in index' : s1[1] = s2[1] => s1 = s2
    BY <2>1, <2>2, <2>3, <2>5 DEF IInv, Single
  <2>8. \A x \in index' : restoring'[x[1]] = 0
    BY <2>1, <2>2, <2>3, <2>4, <2>5 DEF IInv, Single
  <2>9. ASSUME NEW x \in Session, status'[<<x[1], 0>>] = "absent"
        PROVE  /\ bundle'[x[1]] = 0 /\ restoring'[x[1]] = 0
               /\ x \notin index'
               /\ \A w \in Worker : pc'[x][w] = "idle"
    <3>1. <<x[1], 0>> \in Session
      BY Identities
    <3>2. <<x[1], 0>> # s /\ status[<<x[1], 0>>] = "absent"
      BY <2>1, <2>4, <2>9, <3>1 DEF IInv, Safe, TypeOK
    <3>3. x # s
      BY <2>1, <3>2
    <3> QED
      BY <2>1, <2>2, <2>3, <2>4, <3>2, <3>3 DEF IInv, Safe, TypeOK, Single
  <2> QED
    BY <2>6, <2>7, <2>8, <2>9 DEF Single
<1>2. ASSUME NEW k \in Keys, Coalesce(k)
     PROVE  Single'
  <2>1. PICK S \in PruneResults : index' = S
    BY <1>2 DEF Coalesce
  <2>2. S \subseteq index /\ \A x \in index \ S : status[x] \in Terminal
    BY PruneDropsTerminal
  <2>3. UNCHANGED <<status, pc, restoring, bundle>>
    BY <1>2 DEF Coalesce, disk
  <2> QED
    BY <2>1, <2>2, <2>3 DEF IInv, Single, InFlight, Terminal
<1>3. ASSUME NEW s \in Session, Start(s)
     PROVE  Single'
  <2>1. status[<<s[1], 0>>] # "absent"
    BY <1>3, Identities, CreatedRun DEF IInv, Start, Suspended
  <2>2. s \in index \/ status'[s] \notin InFlight \cup {"waiting_input"}
    BY <1>3, Identities
    DEF Start, IInv, Owned, Single, Drives, Suspended
  <2> QED
    BY <1>3, <2>1, <2>2, SingleKept
    DEF IInv, Safe, TypeOK, Start, Goto, disk
<1>4. ASSUME NEW s \in Session, NEW a \in Ask, Resume(s, a)
     PROVE  Single'
  <2>1. status[<<s[1], 0>>] # "absent"
    BY <1>4, Identities, CreatedRun DEF IInv, Resume, Suspended
  <2>2. s \in index \/ status'[s] \notin InFlight \cup {"waiting_input"}
    BY <1>4, Identities
    DEF Resume, IInv, Owned, Single, Drives, Suspended
  <2> QED
    BY <1>4, <2>1, <2>2, SingleKept
    DEF IInv, Safe, TypeOK, Resume, Goto, disk
<1>5. ASSUME NEW s \in Session, NEW t \in Task,
             NEW c \in {"none", "unnamed", "named"}, DriverAsks(s, t, c)
     PROVE  Single'
  <2>1. status[<<s[1], 0>>] # "absent"
    BY <1>5, Identities, CreatedRun DEF IInv, DriverAsks, Suspended
  <2>2. s \in index \/ status'[s] \notin InFlight \cup {"waiting_input"}
    BY <1>5, Identities
    DEF DriverAsks, IInv, Owned, Single, Drives, Suspended
  <2> QED
    BY <1>5, <2>1, <2>2, SingleKept
    DEF IInv, Safe, TypeOK, DriverAsks, Goto, disk
<1>6. ASSUME NEW s \in Session, NEW t \in Task, NEW success \in BOOLEAN,
             DriverEnds(s, t, success)
     PROVE  Single'
  <2>1. status[<<s[1], 0>>] # "absent"
    BY <1>6, Identities, CreatedRun DEF IInv, DriverEnds, Suspended
  <2>2. PICK outcome \in Terminal : EnterTerminal(s, t, outcome)
    BY <1>6, Identities, DerivedStatusIsTerminal DEF DriverEnds
  <2>3. status' = [status EXCEPT ![s] = outcome] /\ pc' = [pc EXCEPT ![s][t] = "final"]
    BY <2>2 DEF EnterTerminal, Goto
  <2>4. UNCHANGED <<index, restoring, bundle>>
    BY <1>6 DEF DriverEnds, disk
  <2> QED
    BY <2>1, <2>3, <2>4, SingleKept DEF IInv, Safe, TypeOK, Terminal, InFlight
<1>7. ASSUME NEW s \in Session, NEW t \in Task, DriverCancelled(s, t)
     PROVE  Single'
  <2>1. status[<<s[1], 0>>] # "absent"
    BY <1>7, Identities, CreatedRun DEF IInv, DriverCancelled, Suspended
  <2>2. s \in index \/ status'[s] \notin InFlight \cup {"waiting_input"}
    BY <1>7
    DEF DriverCancelled, EnterTerminal, IInv, Safe, TypeOK, InFlight, Terminal
  <2> QED
    BY <1>7, <2>1, <2>2, SingleKept
    DEF IInv, Safe, TypeOK, DriverCancelled, Goto, disk, EnterTerminal
<1>8. ASSUME NEW s \in Session, NEW t \in Task, DriverAbsorbs(s, t)
     PROVE  Single'
  BY <1>8 DEF NoSwallow, DriverAbsorbs
<1>9. ASSUME NEW s \in Session, NEW t \in Task, TaskKilled(s, t)
     PROVE  Single'
  <2>1. status[<<s[1], 0>>] # "absent"
    BY <1>9, Identities, CreatedRun DEF IInv, TaskKilled, Suspended
  <2>2. s \in index \/ status'[s] \notin InFlight \cup {"waiting_input"}
    BY <1>9
    DEF TaskKilled, MarkCancelled, RequestCancel, IInv, Safe, TypeOK, Single,
        InFlight
  <2> QED
    BY <1>9, <2>1, <2>2, SingleKept
    DEF IInv, Safe, TypeOK, TaskKilled, Goto, disk, MarkCancelled, RequestCancel
<1>10. ASSUME NEW s \in Session, NEW t \in Task, PauseSettles(s, t)
     PROVE  Single'
  <2>1. status[<<s[1], 0>>] # "absent"
    BY <1>10, Identities, CreatedRun DEF IInv, PauseSettles, Suspended
  <2>2. s \in index \/ status'[s] \notin InFlight \cup {"waiting_input"}
    BY <1>10
    DEF PauseSettles, MarkCancelled, RequestCancel, IInv, Safe, TypeOK, Single,
        InFlight
  <2> QED
    BY <1>10, <2>1, <2>2, SingleKept
    DEF IInv, Safe, TypeOK, PauseSettles, Goto, disk, WriteBundle, MarkCancelled,
        RequestCancel
<1>11. ASSUME NEW s \in Session, NEW w \in Worker, Materialize(s, w)
     PROVE  Single'
  <2>1. PICK S \in PruneResults : index' = S
    BY <1>11 DEF Materialize
  <2>2. S \subseteq index /\ \A x \in index \ S : status[x] \in Terminal
    BY PruneDropsTerminal
  <2>3. UNCHANGED <<status, restoring, bundle>> /\ pc[s][w] = "final"
    BY <1>11 DEF Materialize, Suspended
  <2>4. \A x \in Session : x # s => pc'[x] = pc[x]
    BY <1>11 DEF Materialize, Goto, IInv, Safe, TypeOK
  <2>5. status[<<s[1], 0>>] # "absent"
    BY <2>3, CreatedRun DEF IInv
  <2>6. ASSUME NEW x \in Session, status'[<<x[1], 0>>] = "absent"
        PROVE  /\ bundle'[x[1]] = 0 /\ restoring'[x[1]] = 0
               /\ x \notin index'
               /\ \A v \in Worker : pc'[x][v] = "idle"
    BY <2>1, <2>2, <2>3, <2>4, <2>5, <2>6 DEF IInv, Single
  <2> QED
    BY <2>1, <2>2, <2>3, <2>6 DEF IInv, Single, InFlight, Terminal
<1>12. ASSUME NEW s \in Session, NEW w \in Worker, Close(s, w)
     PROVE  Single'
  <2>1. status[<<s[1], 0>>] # "absent"
    BY <1>12, CreatedRun DEF IInv, Close, Suspended
  <2>2. s \in index \/ status'[s] \notin InFlight \cup {"waiting_input"}
    BY <1>12
    DEF Close, MarkCancelled, RequestCancel, IInv, Safe, TypeOK, Single, InFlight
  <2> QED
    BY <1>12, <2>1, <2>2, SingleKept
    DEF IInv, Safe, TypeOK, Close, Goto, disk, MarkCancelled, RequestCancel
<1>13. ASSUME NEW s \in Session, Cancel(s)
     PROVE  Single'
  <2>1. s \in index /\ status[<<s[1], 0>>] # "absent"
    BY <1>13, CreatedRun DEF IInv, Cancel
  <2>2. /\ status' = [status EXCEPT ![s] = "canceled"]
        /\ UNCHANGED <<index, restoring, bundle>>
        /\ \A x \in Session : x # s => pc'[x] = pc[x]
    BY <1>13
    DEF Cancel, RequestCancel, EnterTerminal, Goto, disk, IInv, Safe, TypeOK
  <2> QED
    BY <2>1, <2>2, SingleKept DEF IInv, Safe, TypeOK
<1>14. ASSUME NEW s \in Session, NEW c \in Clients, NEW a \in Ask,
             Answer(s, c, a)
     PROVE  Single'
  <2>1. s \in index /\ status[<<s[1], 0>>] # "absent"
    BY <1>14, CreatedRun DEF IInv, Answer
  <2> QED
    BY <1>14, <2>1, SingleKept DEF IInv, Safe, TypeOK, Answer, Goto, disk
<1>15. ASSUME NEW r \in Runs, RestoreBegin(r)
     PROVE  Single'
  <2>1. Indexed(r) = {} /\ bundle[r] # 0
    BY <1>15 DEF RestoreBegin
  <2>2. /\ restoring' = [restoring EXCEPT ![r] = bundle[r]]
        /\ UNCHANGED <<status, pc, index, bundle>>
    BY <1>15 DEF RestoreBegin, disk
  <2>3. \A x \in index : x[1] # r
    BY <2>1 DEF Indexed
  <2>4. \A x \in Session : status[<<x[1], 0>>] = "absent" => x[1] # r
    BY <2>1 DEF IInv, Single
  <2> QED
    BY <2>2, <2>3, <2>4, Identities DEF IInv, Safe, TypeOK, Single
<1>16. ASSUME NEW r \in Runs, NEW n \in 1..MaxRestores, RestoreEnd(r, n)
     PROVE  Single'
  <2> DEFINE s == <<r, n>>
  <2>1. s \in Session /\ s[1] = r
    BY Identities
  <2>2. /\ restoring[r] # 0 /\ status[s] = "absent"
        /\ status' = [status EXCEPT ![s] = "waiting_input"]
        /\ index' = index \cup {s}
        /\ restoring' = [restoring EXCEPT ![r] = 0]
        /\ UNCHANGED <<pc, bundle>>
    BY <1>16 DEF RestoreEnd, disk
  <2>3. \A x \in index : x[1] # r
    BY <2>2 DEF IInv, Single
  <2>4. status[<<s[1], 0>>] # "absent"
    BY <2>1, <2>2 DEF IInv, Single
  <2> HIDE DEF s
  <2>5. \A x \in Session : status'[x] \in InFlight \cup {"waiting_input"} => x \in index'
    BY <2>1, <2>2 DEF IInv, Safe, TypeOK, Single
  <2>6. \A s1, s2 \in index' : s1[1] = s2[1] => s1 = s2
    BY <2>1, <2>2, <2>3 DEF IInv, Single
  <2>7. \A x \in index' : restoring'[x[1]] = 0
    BY <2>1, <2>2, <2>3, Identities DEF IInv, Safe, TypeOK, Single
  <2>8. ASSUME NEW x \in Session, status'[<<x[1], 0>>] = "absent"
        PROVE  /\ bundle'[x[1]] = 0 /\ restoring'[x[1]] = 0
               /\ x \notin index'
               /\ \A w \in Worker : pc'[x][w] = "idle"
    <3>1. <<x[1], 0>> \in Session /\ x[1] \in Runs
      BY Identities
    <3>2. status[<<x[1], 0>>] = "absent" /\ x[1] # s[1]
      BY <2>2, <2>4, <2>8, <3>1 DEF IInv, Safe, TypeOK
    <3> QED
      BY <2>1, <2>2, <3>1, <3>2 DEF IInv, Safe, TypeOK, Single
  <2> QED
    BY <2>5, <2>6, <2>7, <2>8 DEF Single
<1>17. ASSUME NEW r \in Runs, RestoreFails(r)
     PROVE  Single'
  <2>1. /\ restoring' = [restoring EXCEPT ![r] = 0]
        /\ UNCHANGED <<status, pc, index, bundle>>
    BY <1>17 DEF RestoreFails, disk
  <2> QED
    BY <2>1, Identities DEF IInv, Safe, TypeOK, Single
<1>18. ASSUME Crash
     PROVE  Single'
  <2>1. /\ index' = {}
        /\ \A x \in Session : status'[x] \in {"absent", "lost"}
                              /\ (status'[x] = "absent" => status[x] = "absent")
        /\ \A x \in Session, w \in Worker : pc'[x][w] = "idle"
        /\ \A r \in Runs : restoring'[r] = 0
        /\ UNCHANGED bundle
    BY <1>18 DEF Crash, disk
  <2> QED
    BY <2>1, Identities DEF IInv, Single, InFlight
<1> QED
  BY <1>1, <1>2, <1>3, <1>4, <1>5, <1>6, <1>7, <1>8, <1>9,
     <1>10, <1>11, <1>12, <1>13, <1>14, <1>15, <1>16, <1>17, <1>18
  DEF Next, Requests, Driver, Loop, Recovery

\* A step that writes a status finds the session in flight, waiting, new, or marked
\* canceled already.
LEMMA TerminalStep ==
  ASSUME NoSwallow, IInv, Next
  PROVE  \A x \in Session : status[x] \in Terminal => status'[x] \in {status[x], "lost"}
<1>1. ASSUME NEW r \in Runs, Create(r)
     PROVE  \A x \in Session : status[x] \in Terminal => status'[x] \in {status[x], "lost"}
  BY <1>1, Identities DEF Create, IInv, Safe, TypeOK, Terminal
<1>2. ASSUME NEW k \in Keys, Coalesce(k)
     PROVE  \A x \in Session : status[x] \in Terminal => status'[x] \in {status[x], "lost"}
  BY <1>2 DEF Coalesce
<1>3. ASSUME NEW s \in Session, Start(s)
     PROVE  \A x \in Session : status[x] \in Terminal => status'[x] \in {status[x], "lost"}
  <2>1. status[s] \in InFlight
    BY <1>3, Identities DEF Start, IInv, Owned, Drives, Suspended
  <2> QED
    BY <1>3, <2>1 DEF Start, EnterTerminal, InFlight, IInv, Safe, TypeOK, Terminal
<1>4. ASSUME NEW s \in Session, NEW a \in Ask, Resume(s, a)
     PROVE  \A x \in Session : status[x] \in Terminal => status'[x] \in {status[x], "lost"}
  <2>1. status[s] \in InFlight
    BY <1>4, Identities DEF Resume, IInv, Owned, Drives, Suspended
  <2> QED
    BY <1>4, <2>1 DEF Resume, EnterTerminal, InFlight, IInv, Safe, TypeOK, Terminal
<1>5. ASSUME NEW s \in Session, NEW t \in Task,
             NEW c \in {"none", "unnamed", "named"}, DriverAsks(s, t, c)
     PROVE  \A x \in Session : status[x] \in Terminal => status'[x] \in {status[x], "lost"}
  <2>1. status[s] \in InFlight
    BY <1>5, Identities DEF DriverAsks, IInv, Owned, Drives, Suspended
  <2> QED
    BY <1>5, <2>1 DEF DriverAsks, EnterTerminal, InFlight, IInv, Safe, TypeOK,
        Terminal
<1>6. ASSUME NEW s \in Session, NEW t \in Task, NEW success \in BOOLEAN,
             DriverEnds(s, t, success)
     PROVE  \A x \in Session : status[x] \in Terminal => status'[x] \in {status[x], "lost"}
  <2>1. status[s] \in InFlight
    BY <1>6, Identities DEF DriverEnds, IInv, Owned, Drives, Suspended
  <2> QED
    BY <1>6, <2>1 DEF DriverEnds, EnterTerminal, InFlight, IInv, Safe, TypeOK,
        Terminal
<1>7. ASSUME NEW s \in Session, NEW t \in Task, DriverCancelled(s, t)
     PROVE  \A x \in Session : status[x] \in Terminal => status'[x] \in {status[x], "lost"}
  BY <1>7 DEF DriverCancelled, EnterTerminal, NotCancelled, Marked, IInv, Safe,
      TypeOK, Terminal
<1>8. ASSUME NEW s \in Session, NEW t \in Task, DriverAbsorbs(s, t)
     PROVE  \A x \in Session : status[x] \in Terminal => status'[x] \in {status[x], "lost"}
  BY <1>8 DEF NoSwallow, DriverAbsorbs
<1>9. ASSUME NEW s \in Session, NEW t \in Task, TaskKilled(s, t)
     PROVE  \A x \in Session : status[x] \in Terminal => status'[x] \in {status[x], "lost"}
  BY <1>9
  DEF TaskKilled, MarkCancelled, RequestCancel, TaskCancelled, Marked, IInv, Safe,
      TypeOK, Terminal
<1>10. ASSUME NEW s \in Session, NEW t \in Task, PauseSettles(s, t)
     PROVE  \A x \in Session : status[x] \in Terminal => status'[x] \in {status[x], "lost"}
  BY <1>10
  DEF PauseSettles, MarkCancelled, RequestCancel, TaskCancelled, Marked, IInv, Safe,
      TypeOK, Terminal
<1>11. ASSUME NEW s \in Session, NEW w \in Worker, Materialize(s, w)
     PROVE  \A x \in Session : status[x] \in Terminal => status'[x] \in {status[x], "lost"}
  BY <1>11 DEF Materialize
<1>12. ASSUME NEW s \in Session, NEW w \in Worker, Close(s, w)
     PROVE  \A x \in Session : status[x] \in Terminal => status'[x] \in {status[x], "lost"}
  BY <1>12
  DEF Close, MarkCancelled, RequestCancel, TaskCancelled, Marked, IInv, Safe,
      TypeOK, Terminal
<1>13. ASSUME NEW s \in Session, Cancel(s)
     PROVE  \A x \in Session : status[x] \in Terminal => status'[x] \in {status[x], "lost"}
  BY <1>13 DEF Cancel, RequestCancel, EnterTerminal, IInv, Safe, TypeOK, Terminal
<1>14. ASSUME NEW s \in Session, NEW c \in Clients, NEW a \in Ask,
             Answer(s, c, a)
     PROVE  \A x \in Session : status[x] \in Terminal => status'[x] \in {status[x], "lost"}
  BY <1>14 DEF Answer, MayResume, IInv, Safe, TypeOK, Terminal
<1>15. ASSUME NEW r \in Runs, RestoreBegin(r)
     PROVE  \A x \in Session : status[x] \in Terminal => status'[x] \in {status[x], "lost"}
  BY <1>15 DEF RestoreBegin
<1>16. ASSUME NEW r \in Runs, NEW n \in 1..MaxRestores, RestoreEnd(r, n)
     PROVE  \A x \in Session : status[x] \in Terminal => status'[x] \in {status[x], "lost"}
  BY <1>16, Identities DEF RestoreEnd, IInv, Safe, TypeOK, Terminal
<1>17. ASSUME NEW r \in Runs, RestoreFails(r)
     PROVE  \A x \in Session : status[x] \in Terminal => status'[x] \in {status[x], "lost"}
  BY <1>17 DEF RestoreFails
<1>18. ASSUME Crash
     PROVE  \A x \in Session : status[x] \in Terminal => status'[x] \in {status[x], "lost"}
  BY <1>18 DEF Crash, Terminal
<1> QED
  BY <1>1, <1>2, <1>3, <1>4, <1>5, <1>6, <1>7, <1>8, <1>9,
     <1>10, <1>11, <1>12, <1>13, <1>14, <1>15, <1>16, <1>17, <1>18
  DEF Next, Requests, Driver, Loop, Recovery

-----------------------------------------------------------------------------
(* Theorems                                                                *)

LEMMA SafeNext == Safe /\ [Next]_vars => Safe'
<1> SUFFICES ASSUME Safe, [Next]_vars PROVE Safe'
  OBVIOUS
<1>1. CASE Next
  BY <1>1, TypeStep, PlacedStep DEF Safe
<1>2. CASE UNCHANGED vars
  BY <1>2 DEF Safe, TypeOK, Placed, AtWork, vars, memory, disk, history
<1> QED
  BY <1>1, <1>2

LEMMA MannedInit == Init => Manned
<1> SUFFICES ASSUME Init PROVE Manned
  OBVIOUS
<1>1. AskedBefore
  <2>1. \A s \in Session : ask[s] = 0 /\ raised[s[1]] = 0
    BY Identities DEF Init
  <2>2. \A r \in Runs : restoring[r] = 0 /\ raised[r] = 0 /\ bundle[r] = 0
    BY DEF Init
  <2> QED
    BY <2>1, <2>2 DEF AskedBefore
<1>2. ASSUME NEW s \in Session PROVE MannedAt(s)
  BY Identities DEF Init, MannedAt, InFlight
<1> QED
  BY <1>1, <1>2 DEF Manned

LEMMA SafeMannedNext == SafeManned /\ [Next]_vars => SafeManned'
<1> SUFFICES ASSUME SafeManned, [Next]_vars PROVE SafeManned'
  OBVIOUS
<1>1. Safe'
  BY SafeNext DEF SafeManned
<1>2. CASE Next
  BY <1>1, <1>2, AskedBeforeStep, MannedStep DEF SafeManned, Safe, Manned
<1>3. CASE UNCHANGED vars
  <2>1. AskedBefore'
    BY <1>3 DEF SafeManned, Manned, AskedBefore, vars, memory, disk, history
  <2>2. ASSUME NEW s \in Session PROVE MannedAt(s)'
    BY <1>3, <2>2, MannedElsewhere DEF SafeManned, Manned, vars, memory
  <2> QED
    BY <1>1, <2>1, <2>2 DEF SafeManned, Manned
<1> QED
  BY <1>2, <1>3

LEMMA IInvInit == Init => IInv
<1> SUFFICES ASSUME Init PROVE IInv
  OBVIOUS
<1>1. Safe
  BY SafeInit
<1>2. Marked /\ Owned
  BY Identities DEF Init, Marked, Owned, Drives, InFlight
<1>3. Single
  BY Identities DEF Init, Single, InFlight
<1> QED
  BY <1>1, <1>2, <1>3 DEF IInv

LEMMA IInvNext == NoSwallow /\ IInv /\ [Next]_vars => IInv'
<1> SUFFICES ASSUME NoSwallow, IInv, [Next]_vars PROVE IInv'
  OBVIOUS
<1>1. Safe'
  BY SafeNext DEF IInv
<1>2. CASE Next
  BY <1>1, <1>2, MarkedStep, OwnedStep, SingleStep DEF IInv
<1>3. CASE UNCHANGED vars
  <2>1. Marked' /\ Owned'
    BY <1>3 DEF IInv, Marked, Owned, Drives, NotCancelled, vars, memory
  <2>2. Single'
    BY <1>3 DEF IInv, Single, vars, memory, disk
  <2> QED
    BY <1>1, <2>1, <2>2 DEF IInv
<1> QED
  BY <1>2, <1>3

\* Type correctness: in particular a journal.json written by the terminal hook
\* carries an outcome of the JournalMetadata vocabulary, never "canceled" or a
\* status in flight, whatever write fails and whatever the drivers do.
THEOREM TypeCorrect == Spec => []TypeOK
<1>1. Init => Safe
  BY SafeInit
<1>2. Safe /\ [Next]_vars => Safe'
  BY SafeNext
<1>3. Safe => TypeOK
  BY DEF Safe
<1> QED
  BY <1>1, <1>2, <1>3, PTL DEF Spec

\* With cancellations delivered, the inductive invariant holds: who drives a run,
\* who is indexed for it and what is marked as cancelled always agree.
THEOREM OwnershipHolds ==
  ASSUME NoSwallow
  PROVE  Spec => []IInv
BY IInvInit, IInvNext, PTL DEF Spec

\* With cancellations delivered, at most one task drives a run: competing
\* answers, a cancel, a prune, a restart and a rebuilt session never add one.
THEOREM OneDriver ==
  ASSUME NoSwallow
  PROVE  Spec => []SoleDriver
<1>1. Init => IInv
  BY IInvInit
<1>2. IInv /\ [Next]_vars => IInv'
  BY IInvNext
<1>3. IInv => SoleDriver
  <2> SUFFICES ASSUME IInv,
                      NEW s1 \in Session, NEW s2 \in Session, s1[1] = s2[1],
                      NEW t1 \in Task, NEW t2 \in Task,
                      Drives(s1, t1), Drives(s2, t2)
               PROVE  s1 = s2 /\ t1 = t2
    BY DEF SoleDriver
  <2>1. s1 \in index /\ s2 \in index
    BY DEF IInv, Owned, Single
  <2>2. s1 = s2
    BY <2>1 DEF IInv, Single
  <2> QED
    BY <2>2 DEF IInv, Safe, Placed, AtWork, Drives
<1> QED
  BY <1>1, <1>2, <1>3, PTL DEF Spec

\* A status in flight always has a task behind it that starts or runs: no handler
\* leaves a run "running" that nobody runs, whatever write fails and even if a
\* driver absorbs the CancelledError it is sent.
THEOREM NoOrphans == Spec => []NoOrphanRun
<1>1. Init => SafeManned
  BY SafeInit, MannedInit DEF SafeManned
<1>2. SafeManned /\ [Next]_vars => SafeManned'
  BY SafeMannedNext
<1>3. SafeManned => NoOrphanRun
  BY DEF SafeManned, Manned, MannedAt, NoOrphanRun, AtWork, Drives, NotCancelled, InFlight
<1> QED
  BY <1>1, <1>2, <1>3, PTL DEF Spec

\* With cancellations delivered, a run that ended keeps its outcome while the
\* kernel lives: no late task, done callback or answer rewrites it.
THEOREM OutcomeStays ==
  ASSUME NoSwallow
  PROVE  Spec => TerminalIsFinal
<1>1. Init => IInv
  BY IInvInit
<1>2. IInv /\ [Next]_vars => IInv'
  BY IInvNext
<1>3. IInv /\ [Next]_vars
        => [\A s \in Session :
              status[s] \in Terminal => status'[s] \in {status[s], "lost"}]_vars
  BY TerminalStep
<1> QED
  BY <1>1, <1>2, <1>3, PTL DEF Spec, TerminalIsFinal
=============================================================================
