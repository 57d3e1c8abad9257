------------------------- MODULE RunOwnershipProofs -------------------------
(***************************************************************************)
(* RunLifecycle implements RunOwnership, for any number of runs, clients,  *)
(* questions, rebuilt sessions and restarts, when no driver absorbs a      *)
(* cancellation.                                                           *)
(*                                                                         *)
(* A step of the carrier changes the status of one session at most, in one *)
(* of six ways (Kinds), or is a crash.  IInv says that a run has at most   *)
(* one session that is not over and that its current task is the one that  *)
(* drives it, so each way is a step of the abstract run or none at all.    *)
(***************************************************************************)
EXTENDS RunLifecycleProofs

\* A run that was never created has no session, and what is indexed is alive.
Built ==
  /\ \A s \in Session : status[<<s[1], 0>>] = "absent" => status[s] = "absent"
  /\ \A s \in index : status[s] \notin {"absent", "lost"}

Active == InFlight \cup {"waiting_input"}

-----------------------------------------------------------------------------
(* The ways a step changes the status of a session                         *)

\* Nothing changes, as far as the status goes.
Still ==
  /\ UNCHANGED status /\ index' \subseteq index
  /\ \A s \in Session : status[s] \in InFlight => cur'[s] = cur[s]

\* Only session s changes.
Local(s) ==
  /\ \A x \in Session : x # s => status'[x] = status[x] /\ cur'[x] = cur[x]
  /\ index' \subseteq index \cup {s}

Creates(s)  == s[2] = 0 /\ status[s] = "absent" /\ status'[s] = "pending"
Works(s)    == status[s] \in InFlight /\ status'[s] \in InFlight /\ cur'[s] = cur[s]
Pauses(s)   == status[s] \in InFlight /\ status'[s] = "waiting_input"
Takes(s)    == status[s] = "waiting_input" /\ status'[s] = "running"
Ends(s)     == status[s] \in Active /\ status'[s] \in Terminal
Rebuilds(s) ==
  /\ status[s] = "absent" /\ status[<<s[1], 0>>] # "absent"
  /\ status'[s] = "waiting_input"
  /\ \A x \in Session : x[1] = s[1] => status[x] \notin Active

Kinds(s) ==
  Creates(s) \/ Works(s) \/ Pauses(s) \/ Takes(s) \/ Ends(s) \/ Rebuilds(s)

\* Where nobody is cancelled without a mark, the done callback changes nothing.
LEMMA MarkChangesNothing ==
  ASSUME IInv, NEW s \in Session, NEW w \in Worker, MarkCancelled(s, w)
  PROVE  UNCHANGED status
<1>1. CASE w = Execute /\ TaskCancelled(s, w)
  <2>1. cancelling[s] # {}
    BY <1>1 DEF TaskCancelled, IInv, Marked
  <2>2. status[s] = "canceled" /\ status' = [status EXCEPT ![s] = "canceled"]
    BY <1>1, <2>1 DEF MarkCancelled, RequestCancel, IInv, Marked
  <2> QED
    BY <2>2 DEF IInv, Safe, TypeOK
<1>2. CASE ~(w = Execute /\ TaskCancelled(s, w))
  BY <1>2 DEF MarkCancelled
<1> QED
  BY <1>1, <1>2

LEMMA StepKinds ==
  ASSUME NoSwallow, IInv, Built, Next
  PROVE  Still \/ Crash \/ \E s \in Session : Local(s) /\ Kinds(s)
<1>0. /\ status \in [Session -> Status] /\ cur \in [Session -> Task \cup {NoTask}]
      /\ TypeOK /\ Marked /\ Owned /\ Single /\ Placed
  BY DEF IInv, Safe, TypeOK
<1>1. ASSUME NEW r \in Runs, Create(r)
      PROVE  \E s \in Session : Local(s) /\ Kinds(s)
  <2> DEFINE s == <<r, 0>>
  <2>1. s \in Session
    BY Identities
  <2>2. index' \subseteq index \cup {s}
    BY <1>1, PruneDropsTerminal DEF Create
  <2>3. Local(s) /\ Creates(s)
    BY <1>0, <1>1, <2>1, <2>2 DEF Create, Local, Creates
  <2> QED
    BY <2>1, <2>3 DEF Kinds
<1>2. ASSUME NEW k \in Keys, Coalesce(k)
      PROVE  Still
  <2>1. index' \subseteq index
    BY <1>2, PruneDropsTerminal DEF Coalesce
  <2> QED
    BY <1>2, <2>1 DEF Coalesce, Still
<1>3. ASSUME NEW s \in Session, Start(s)
      PROVE  Local(s) /\ Kinds(s)
  <2>1. status[s] \in InFlight
    BY <1>0, <1>3, Identities DEF Start, Suspended, Owned, Drives
  <2> QED
    BY <1>0, <1>3, <2>1 DEF Start, Local, Kinds, Works, InFlight
<1>4. ASSUME NEW s \in Session, NEW a \in Ask, Resume(s, a)
      PROVE  Local(s) /\ Kinds(s)
  <2>1. status[s] \in InFlight
    BY <1>0, <1>4, Identities DEF Resume, Suspended, Owned, Drives
  <2> QED
    BY <1>0, <1>4, <2>1 DEF Resume, Local, Kinds, Works, InFlight
<1>5. ASSUME NEW s \in Session, NEW t \in Task, NEW c \in {"none", "unnamed", "named"},
             DriverAsks(s, t, c)
      PROVE  Local(s) /\ Kinds(s)
  <2>1. status[s] \in InFlight
    BY <1>0, <1>5 DEF DriverAsks, Suspended, Owned, Drives
  <2> QED
    BY <1>0, <1>5, <2>1 DEF DriverAsks, Local, Kinds, Pauses
<1>6. ASSUME NEW s \in Session, NEW t \in Task, NEW success \in BOOLEAN,
             DriverEnds(s, t, success)
      PROVE  Local(s) /\ Kinds(s)
  <2>1. status[s] \in InFlight
    BY <1>0, <1>6 DEF DriverEnds, Suspended, Owned, Drives
  <2>2. DerivedStatus(s, t, success) \in Terminal
    BY Identities, DerivedStatusIsTerminal
  <2>3. status' = [status EXCEPT ![s] = DerivedStatus(s, t, success)]
    BY <1>6 DEF DriverEnds, EnterTerminal
  <2>4. Local(s)
    BY <1>0, <1>6, <2>3 DEF DriverEnds, Local
  <2> QED
    BY <1>0, <2>1, <2>2, <2>3, <2>4 DEF Kinds, Ends, Active
<1>7. ASSUME NEW s \in Session, NEW t \in Task, DriverCancelled(s, t)
      PROVE  Still
  <2>1. status[s] = "canceled"
    BY <1>0, <1>7 DEF DriverCancelled, NotCancelled, Marked
  <2>2. UNCHANGED status
    BY <1>0, <1>7, <2>1 DEF DriverCancelled, EnterTerminal
  <2> QED
    BY <1>7, <2>2 DEF DriverCancelled, Still
<1>8. ASSUME NEW s \in Session, NEW t \in Task, DriverAbsorbs(s, t)
      PROVE  Still
  BY <1>8 DEF DriverAbsorbs, NoSwallow
<1>9. ASSUME NEW s \in Session, NEW t \in Task, TaskKilled(s, t)
      PROVE  Still
  <2>1. UNCHANGED status
    BY <1>9, Identities, MarkChangesNothing DEF TaskKilled
  <2> QED
    BY <1>9, <2>1 DEF TaskKilled, Still
<1>10. ASSUME NEW s \in Session, NEW t \in Task, PauseSettles(s, t)
      PROVE  Still
  <2>1. UNCHANGED status
    BY <1>10, Identities, MarkChangesNothing DEF PauseSettles
  <2> QED
    BY <1>10, <2>1 DEF PauseSettles, Still
<1>11. ASSUME NEW s \in Session, NEW w \in Worker, Materialize(s, w)
      PROVE  Still
  <2>1. index' \subseteq index
    BY <1>11, PruneDropsTerminal DEF Materialize
  <2> QED
    BY <1>11, <2>1 DEF Materialize, Still
<1>12. ASSUME NEW s \in Session, NEW w \in Worker, Close(s, w)
      PROVE  Still
  <2>1. UNCHANGED status
    BY <1>12, MarkChangesNothing DEF Close
  <2> QED
    BY <1>12, <2>1 DEF Close, Still
<1>13. ASSUME NEW s \in Session, Cancel(s)
      PROVE  Local(s) /\ Kinds(s)
  <2>1. status[s] \in Active
    BY <1>0, <1>13 DEF Cancel, Built, Status, Active
  <2>2. status' = [status EXCEPT ![s] = "canceled"] /\ UNCHANGED <<cur, index>>
    BY <1>13 DEF Cancel, RequestCancel, EnterTerminal
  <2> QED
    BY <1>0, <2>1, <2>2 DEF Local, Kinds, Ends, Terminal
<1>14. ASSUME NEW s \in Session, NEW c \in Clients, NEW a \in Ask, Answer(s, c, a)
      PROVE  Local(s) /\ Kinds(s)
  <2>1. status[s] = "waiting_input" /\ status' = [status EXCEPT ![s] = "running"]
        /\ cur' = [cur EXCEPT ![s] = ask[s]] /\ index' = index
    BY <1>14 DEF Answer, MayResume
  <2> QED
    BY <1>0, <2>1 DEF Local, Kinds, Takes
<1>15. ASSUME NEW r \in Runs, RestoreBegin(r)
      PROVE  Still
  BY <1>15 DEF RestoreBegin, Still
<1>16. ASSUME NEW r \in Runs, NEW n \in 1..MaxRestores, RestoreEnd(r, n)
      PROVE  \E s \in Session : Local(s) /\ Kinds(s)
  <2> DEFINE s == <<r, n>>
  <2>1. s \in Session /\ s[1] = r
    BY Identities
  <2>2. /\ restoring[r] # 0 /\ status[s] = "absent"
        /\ status' = [status EXCEPT ![s] = "waiting_input"]
        /\ index' = index \cup {s} /\ cur' = cur
    BY <1>16 DEF RestoreEnd
  <2>3. status[<<r, 0>>] # "absent"
    BY <1>0, <2>1, <2>2 DEF Single
  <2>4. \A x \in Session : x[1] = r => status[x] \notin Active
    BY <1>0, <2>2 DEF Single, Active
  <2>5. Local(s)
    BY <1>0, <2>2 DEF Local
  <2>6. Rebuilds(s)
    BY <1>0, <2>1, <2>2, <2>3, <2>4 DEF Rebuilds
  <2> QED
    BY <2>1, <2>5, <2>6 DEF Kinds
<1>17. ASSUME NEW r \in Runs, RestoreFails(r)
      PROVE  Still
  BY <1>17 DEF RestoreFails, Still
<1> QED
  BY <1>1, <1>2, <1>3, <1>4, <1>5, <1>6, <1>7, <1>8, <1>9, <1>10, <1>11, <1>12, <1>13,
     <1>14, <1>15, <1>16, <1>17
  DEF Next, Requests, Driver, Loop, Recovery

-----------------------------------------------------------------------------
(* Built is inductive                                                      *)

LEMMA BuiltInit == Init => Built
BY Identities DEF Init, Built

LEMMA BuiltStep ==
  ASSUME NoSwallow, IInv, Built, [Next]_vars
  PROVE  Built'
<1>0. status \in [Session -> Status]
  BY DEF IInv, Safe, TypeOK
<1>1. CASE Still
  BY <1>1 DEF Still, Built
<1>2. CASE Crash
  BY <1>0, <1>2, Identities DEF Crash, Built
<1>3. ASSUME NEW s \in Session, Local(s), Kinds(s)
      PROVE  Built'
  <2>1. status'[s] \notin {"absent", "lost"}
    BY <1>3
    DEF Kinds, Creates, Works, Pauses, Takes, Ends, Rebuilds, InFlight, Terminal
  <2>2. s[2] = 0 \/ status[<<s[1], 0>>] # "absent"
    BY <1>3 DEF Kinds, Creates, Works, Pauses, Takes, Ends, Rebuilds, Built, InFlight, Active
  <2>3. s = <<s[1], s[2]>> /\ <<s[1], 0>> \in Session
    BY Identities DEF Session
  <2>4. status'[<<s[1], 0>>] # "absent"
    BY <1>3, <2>1, <2>2, <2>3 DEF Local
  <2>5. ASSUME NEW x \in Session, status'[<<x[1], 0>>] = "absent"
        PROVE  status'[x] = "absent"
    <3>1. x[1] # s[1] /\ <<x[1], 0>> \in Session
      BY <2>4, <2>5, Identities
    <3>2. x # s /\ <<x[1], 0>> # s
      BY <2>3, <3>1
    <3> QED
      BY <1>3, <2>5, <3>1, <3>2 DEF Local, Built
  <2>6. \A x \in index' : status'[x] \notin {"absent", "lost"}
    BY <1>3, <2>1 DEF Local, Built, IInv, Safe, TypeOK
  <2> QED
    BY <2>5, <2>6 DEF Built
<1>4. CASE UNCHANGED vars
  BY <1>4 DEF Built, vars, memory
<1> QED
  BY <1>1, <1>2, <1>3, <1>4, StepKinds

-----------------------------------------------------------------------------
(* The refinement mapping                                                  *)

\* RunState and RunCarriers as functions of the two variables they read.
StateOf(st, r) ==
  IF \E s \in SessionsOf(r) : st[s] \in InFlight THEN "working"
  ELSE IF \E s \in SessionsOf(r) : st[s] = "waiting_input" THEN "waiting"
  ELSE IF \A s \in SessionsOf(r) : st[s] = "absent" THEN "none"
  ELSE "over"

CarriersOf(st, cu, r) == {<<s, cu[s]>> : s \in {x \in SessionsOf(r) : st[x] \in InFlight}}

\* A run has one session at most that is not over.
OneActive(st) ==
  \A s1, s2 \in Session :
    s1[1] = s2[1] /\ st[s1] \in Active /\ st[s2] \in Active => s1 = s2

LEMMA MappedStates ==
  ASSUME NEW r \in Runs
  PROVE  RunState(r) = StateOf(status, r) /\ RunState(r)' = StateOf(status', r)
BY DEF RunState, StateOf, SessionsOf

\* The tasks that drive a run are the current tasks of its sessions in flight.
LEMMA MappedCarriers ==
  IInv => /\ OneActive(status)
          /\ \A r \in Runs : RunCarriers(r) = CarriersOf(status, cur, r)
<1> SUFFICES ASSUME IInv
             PROVE  /\ OneActive(status)
                    /\ \A r \in Runs : RunCarriers(r) = CarriersOf(status, cur, r)
  OBVIOUS
<1>1. OneActive(status)
  BY DEF OneActive, Active, IInv, Single
<1>2. ASSUME NEW r \in Runs
      PROVE  RunCarriers(r) = CarriersOf(status, cur, r)
  <2>1. ASSUME NEW c \in RunCarriers(r)
        PROVE  c \in CarriersOf(status, cur, r)
    <3>1. /\ c \in Session \X Task /\ c[1] \in Session /\ c[1][1] = r /\ c[2] \in Task
          /\ Drives(c[1], c[2])
      BY DEF RunCarriers
    <3>2. status[c[1]] \in InFlight /\ cur[c[1]] = c[2]
      BY <3>1 DEF IInv, Owned, Safe, Placed, Drives, AtWork
    <3>3. c = <<c[1], cur[c[1]]>>
      BY <3>1, <3>2
    <3> QED
      BY <3>1, <3>2, <3>3 DEF CarriersOf, SessionsOf
  <2>2. ASSUME NEW s \in SessionsOf(r), status[s] \in InFlight
        PROVE  <<s, cur[s]>> \in RunCarriers(r)
    <3>1. s \in Session /\ s[1] = r
      BY DEF SessionsOf
    <3>2. cur[s] \in Task /\ Drives(s, cur[s])
      BY <2>2, <3>1 DEF IInv, Owned
    <3> QED
      BY <3>1, <3>2 DEF RunCarriers
  <2> QED
    BY <2>1, <2>2 DEF CarriersOf
<1> QED
  BY <1>1, <1>2

LEMMA MappedCarriersNext ==
  IInv' => /\ OneActive(status')
           /\ \A r \in Runs : RunCarriers(r)' = CarriersOf(status', cur', r)
<1>1. (IInv => /\ OneActive(status)
               /\ \A r \in Runs : RunCarriers(r) = CarriersOf(status, cur, r))'
  BY MappedCarriers, PTL
<1> QED
  BY <1>1 DEF OneActive, CarriersOf, SessionsOf

\* What one session that is not over makes of its run.
LEMMA ActiveState ==
  ASSUME NEW st, OneActive(st), NEW s \in Session
  PROVE  /\ st[s] \in InFlight => StateOf(st, s[1]) = "working"
         /\ st[s] = "waiting_input" => StateOf(st, s[1]) = "waiting"
<1>1. s \in SessionsOf(s[1]) /\ \A x \in SessionsOf(s[1]) : x \in Session /\ x[1] = s[1]
  BY DEF SessionsOf
<1>2. ASSUME st[s] = "waiting_input", NEW x \in SessionsOf(s[1])
      PROVE  st[x] \notin InFlight
  <2>1. st[x] \in InFlight => x = s
    BY <1>1, <1>2 DEF OneActive, Active
  <2> QED
    BY <1>2, <2>1 DEF InFlight
<1> QED
  BY <1>1, <1>2 DEF StateOf

\* A run without such a session is over once it has a session at all.
LEMMA OverState ==
  ASSUME NEW st, NEW s \in Session, st[s] # "absent",
         \A x \in SessionsOf(s[1]) : st[x] \notin Active
  PROVE  StateOf(st, s[1]) = "over"
BY DEF StateOf, SessionsOf, Active

LEMMA WorkingCarrier ==
  ASSUME NEW st, NEW cu, OneActive(st), NEW s \in Session, st[s] \in InFlight
  PROVE  CarriersOf(st, cu, s[1]) = {<<s, cu[s]>>}
<1>1. ASSUME NEW x \in SessionsOf(s[1]), st[x] \in InFlight
      PROVE  x = s
  BY <1>1 DEF SessionsOf, OneActive, Active
<1>2. s \in SessionsOf(s[1])
  BY DEF SessionsOf
<1> QED
  BY <1>1, <1>2 DEF CarriersOf

LEMMA IdleCarrier ==
  ASSUME NEW st, NEW cu, NEW r, StateOf(st, r) # "working"
  PROVE  CarriersOf(st, cu, r) = {}
BY DEF StateOf, CarriersOf

-----------------------------------------------------------------------------
(* Every step is a step of the abstract run                                *)

LEMMA Mapped ==
  ASSUME NEW r \in Runs, NEW new, NEW who,
         RunState(r)' = new, RunCarriers(r)' = who,
         \A q \in Runs : q # r => /\ RunState(q)' = RunState(q)
                                  /\ RunCarriers(q)' = RunCarriers(q)
  PROVE  Ownership!Becomes(r, new, who)
BY DEF Ownership!Becomes

LEMMA OwnershipInit == Init => Ownership!Init
<1> SUFFICES ASSUME Init
             PROVE  \A r \in Runs : RunState(r) = "none" /\ RunCarriers(r) = {}
  BY DEF Ownership!Init
<1>1. \A s \in Session : status[s] = "absent"
  BY DEF Init
<1>2. ASSUME NEW r \in Runs
      PROVE  RunState(r) = "none"
  BY <1>1 DEF RunState, SessionsOf, InFlight
<1>3. ASSUME NEW r \in Runs
      PROVE  RunCarriers(r) = {}
  BY DEF Init, RunCarriers, Drives, Worker
<1> QED
  BY <1>2, <1>3

LEMMA OwnershipStep ==
  ASSUME NoSwallow, IInv, Built, [Next]_vars
  PROVE  [Ownership!Next]_Ownership!vars
<1>0. /\ IInv' /\ OneActive(status) /\ OneActive(status')
      /\ \A r \in Runs : /\ RunState(r) = StateOf(status, r)
                         /\ RunState(r)' = StateOf(status', r)
                         /\ RunCarriers(r) = CarriersOf(status, cur, r)
                         /\ RunCarriers(r)' = CarriersOf(status', cur', r)
  BY IInvNext, MappedStates, MappedCarriers, MappedCarriersNext
<1>1. ASSUME \A r \in Runs : RunState(r)' = RunState(r) /\ RunCarriers(r)' = RunCarriers(r)
      PROVE  [Ownership!Next]_Ownership!vars
  BY <1>1 DEF Ownership!vars
<1>2. CASE Still
  <2>1. ASSUME NEW r \in Runs
        PROVE  RunState(r)' = RunState(r) /\ RunCarriers(r)' = RunCarriers(r)
    <3>1. status' = status /\ \A s \in SessionsOf(r) : status[s] \in InFlight => cur'[s] = cur[s]
      BY <1>2 DEF Still, SessionsOf
    <3>2. CarriersOf(status', cur', r) = CarriersOf(status, cur, r)
      BY <3>1 DEF CarriersOf
    <3> QED
      BY <1>0, <3>1, <3>2
  <2> QED
    BY <1>1, <2>1
<1>3. CASE Crash
  <2>1. ASSUME NEW r \in Runs
        PROVE  StateOf(status', r) = IF StateOf(status, r) = "none" THEN "none" ELSE "over"
    <3>1. \A s \in SessionsOf(r) :
            status'[s] = IF status[s] = "absent" THEN "absent" ELSE "lost"
      BY <1>3 DEF Crash, SessionsOf
    <3>2. StateOf(status, r) = "none" <=> \A s \in SessionsOf(r) : status[s] = "absent"
      BY DEF StateOf, InFlight
    <3> QED
      BY <3>1, <3>2 DEF StateOf, InFlight
  <2>2. \A r \in Runs : CarriersOf(status', cur', r) = {}
    BY <2>1, IdleCarrier
  <2>3. Ownership!Crash
    BY <1>0, <2>1, <2>2 DEF Ownership!Crash
  <2> QED
    BY <2>3 DEF Ownership!Next
<1>4. ASSUME NEW s \in Session, Local(s), Kinds(s)
      PROVE  [Ownership!Next]_Ownership!vars
  <2> DEFINE r == s[1]
  <2>0. r \in Runs /\ s \in SessionsOf(r)
    BY Identities DEF SessionsOf
  <2>1. ASSUME NEW q \in Runs, q # r
        PROVE  RunState(q)' = RunState(q) /\ RunCarriers(q)' = RunCarriers(q)
    <3>1. \A x \in SessionsOf(q) : status'[x] = status[x] /\ cur'[x] = cur[x]
      BY <1>4, <2>1 DEF Local, SessionsOf
    <3>2. StateOf(status', q) = StateOf(status, q)
      BY <3>1 DEF StateOf
    <3>3. CarriersOf(status', cur', q) = CarriersOf(status, cur, q)
      BY <3>1 DEF CarriersOf
    <3> QED
      BY <1>0, <3>2, <3>3
  <2>2. ASSUME status'[s] \in InFlight
        PROVE  /\ RunState(r)' = "working"
               /\ \E c \in Session \X Task : RunCarriers(r)' = {c}
    <3>1. RunState(r)' = "working" /\ RunCarriers(r)' = {<<s, cur'[s]>>}
      BY <1>0, <2>0, <2>2, ActiveState, WorkingCarrier
    <3>2. cur'[s] \in Task
      BY <1>0, <2>2 DEF IInv, Owned
    <3> QED
      BY <3>1, <3>2
  <2>3. ASSUME RunState(r)' # "working"
        PROVE  RunCarriers(r)' = {}
    BY <1>0, <2>0, <2>3, IdleCarrier
  <2> HIDE DEF r
  <2>4. CASE Creates(s)
    <3>1. RunState(r) = "none"
      <4>1. s = <<r, 0>>
        BY <2>4 DEF Creates, Session, r
      <4>2. \A x \in SessionsOf(r) : status[x] = "absent"
        BY <2>4, <4>1 DEF Creates, Built, SessionsOf
      <4> QED
        BY <4>2 DEF RunState, InFlight
    <3>2. Ownership!Begin(r)
      BY <2>0, <2>1, <2>2, <2>4, <3>1, Mapped DEF Ownership!Begin, Creates, InFlight
    <3> QED
      BY <2>0, <3>2 DEF Ownership!Next
  <2>5. CASE Works(s)
    <3>1. RunState(r) = "working" /\ RunState(r)' = "working"
      BY <1>0, <2>0, <2>5, ActiveState DEF Works, r
    <3>2. RunCarriers(r) = {<<s, cur[s]>>}
      BY <1>0, <2>0, <2>5, WorkingCarrier DEF Works, r
    <3>3. RunCarriers(r)' = {<<s, cur'[s]>>}
      BY <1>0, <2>0, <2>5, WorkingCarrier DEF Works, r
    <3>4. RunCarriers(r)' = RunCarriers(r)
      BY <2>5, <3>2, <3>3 DEF Works
    <3> QED
      BY <1>1, <2>1, <3>1, <3>4
  <2>6. CASE Pauses(s)
    <3>1. RunState(r) = "working" /\ RunState(r)' = "waiting"
      BY <1>0, <2>0, <2>6, ActiveState DEF Pauses, r
    <3>2. Ownership!Ask(r)
      BY <2>0, <2>1, <2>3, <3>1, Mapped DEF Ownership!Ask
    <3> QED
      BY <2>0, <3>2 DEF Ownership!Next
  <2>7. CASE Takes(s)
    <3>1. RunState(r) = "waiting"
      BY <1>0, <2>0, <2>7, ActiveState DEF Takes, r
    <3>2. Ownership!Answer(r)
      BY <2>0, <2>1, <2>2, <2>7, <3>1, Mapped DEF Ownership!Answer, Takes, InFlight
    <3> QED
      BY <2>0, <3>2 DEF Ownership!Next
  <2>8. CASE Ends(s)
    <3>1. RunState(r) \in {"working", "waiting"}
      BY <1>0, <2>0, <2>8, ActiveState DEF Ends, Active, r
    <3>2. ASSUME NEW x \in SessionsOf(r)
          PROVE  status'[x] \notin Active
      <4>1. x \in Session /\ x[1] = s[1]
        BY DEF SessionsOf, r
      <4>2. CASE x = s
        BY <2>8, <4>2 DEF Ends, Active, InFlight, Terminal
      <4>3. CASE x # s
        BY <1>0, <1>4, <2>8, <4>1, <4>3 DEF Local, Ends, OneActive
      <4> QED
        BY <4>2, <4>3
    <3>3. RunState(r)' = "over"
      BY <1>0, <2>0, <2>8, <3>2, OverState DEF Ends, Terminal, r
    <3>4. Ownership!End(r)
      BY <2>0, <2>1, <2>3, <3>1, <3>3, Mapped DEF Ownership!End
    <3> QED
      BY <2>0, <3>4 DEF Ownership!Next
  <2>9. CASE Rebuilds(s)
    <3>1. <<r, 0>> \in Session /\ <<r, 0>>[1] = r
      BY <2>0, Identities
    <3>2. RunState(r) = "over"
      <4>1. \A x \in SessionsOf(<<r, 0>>[1]) : status[x] \notin Active
        BY <2>9, <3>1 DEF Rebuilds, SessionsOf, r
      <4>2. status[<<r, 0>>] # "absent"
        BY <2>9 DEF Rebuilds, r
      <4> QED
        BY <1>0, <2>0, <3>1, <4>1, <4>2, OverState
    <3>3. RunState(r)' = "waiting"
      BY <1>0, <2>0, <2>9, ActiveState DEF Rebuilds, r
    <3>4. Ownership!Rebuild(r)
      BY <2>0, <2>1, <2>3, <3>2, <3>3, Mapped DEF Ownership!Rebuild
    <3> QED
      BY <2>0, <3>4 DEF Ownership!Next
  <2> QED
    BY <1>4, <2>4, <2>5, <2>6, <2>7, <2>8, <2>9 DEF Kinds
<1>5. CASE UNCHANGED vars
  <2>1. Still
    BY <1>5 DEF Still, vars, memory
  <2> QED
    BY <1>2, <2>1
<1> QED
  BY <1>2, <1>3, <1>4, <1>5, StepKinds

\* With cancellations delivered, the carrier implements RunOwnership: whatever
\* sessions, tasks, evictions and restarts a run goes through, it is worked on by
\* one carrier while it is in flight and by none otherwise.
THEOREM CarrierImplementsOwnership ==
  ASSUME NoSwallow
  PROVE  Spec => OwnedByOne
<1>1. Init => IInv /\ Built /\ Ownership!Init
  BY IInvInit, BuiltInit, OwnershipInit
<1>2. IInv /\ Built /\ [Next]_vars => IInv' /\ Built' /\ [Ownership!Next]_Ownership!vars
  BY IInvNext, BuiltStep, OwnershipStep
<1> QED
  BY <1>1, <1>2, PTL DEF Spec, OwnedByOne, Ownership!Spec
=============================================================================
