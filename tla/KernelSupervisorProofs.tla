---------------------- MODULE KernelSupervisorProofs ----------------------
(***************************************************************************)
(* Proofs about KernelSupervisor for every number of spawns, every retry   *)
(* budget and every script of calls: the variables keep their shape, the   *)
(* decider stays within the retry budget, stop ends its own child, and no  *)
(* thread spawns anything once stop has joined (Joined).  For the scripts  *)
(* that start an object at most once (UsedProperly), Sole and Remaining    *)
(* give OneChild: at most one party is about to cause a spawn, and the     *)
(* only child that may be alive is the one it is about.                    *)
(***************************************************************************)
EXTENDS KernelSupervisor, SequenceTheorems, TLAPS

-----------------------------------------------------------------------------
(* Queues                                                                  *)

\* Taking the first element of a queue leaves a queue of the same elements.
LEMMA TailOfQueue ==
  ASSUME NEW S, NEW s \in Seq(S), s # <<>>
  PROVE  Tail(s) \in Seq(S) /\ Head(s) \in S
BY HeadTailProperties

\* _emit puts an event in the queue or leaves the queue as it is.
LEMMA EmittedIsQueue ==
  ASSUME NEW q \in Seq(Exit \cup {"other"}), NEW e \in Exit \cup {"other"}
  PROVE  Emitted(q, e) \in Seq(Exit \cup {"other"})
BY AppendProperties DEF Emitted

-----------------------------------------------------------------------------
(* The shape of the variables                                              *)

\* Every step of the supervisor keeps the shape of the variables.
LEMMA ShapeStep ==
  ASSUME Shape, [Next]_vars
  PROVE  Shape'
<1> USE SupervisorAssumption DEF Shape, None
<1>a. events \in Seq(Exit \cup {"other"})
  BY DEF TypeOK
<1>b. Emitted(events, "other") \in Seq(Exit \cup {"other"})
  BY <1>a, EmittedIsQueue
<1>c. ASSUME NEW c \in Exit
      PROVE  Emitted(events, c) \in Seq(Exit \cup {"other"})
  BY <1>a, <1>c, EmittedIsQueue
<1>1. ASSUME StartSpawns
      PROVE  Shape'
  <2>1. script' \in Seq(Call)
    BY <1>1, TailOfQueue DEF StartSpawns, Calls, TypeOK
  <2>2. /\ proc' \in Pid /\ target' \in Pid
        /\ life' \in [Pid -> {"unborn", "alive", "terming", "dead"}]
    BY <1>1 DEF StartSpawns, Spawned, TypeOK
  <2>3. phantom' \in BOOLEAN /\ caller' = "mark"
    BY <1>1 DEF StartSpawns
  <2>4. TypeOK'
    BY <1>1, <2>1, <2>2, <2>3 DEF StartSpawns, TypeOK, object, own, kernel
  <2>5. Watching'
    BY <1>1 DEF StartSpawns, Watching, TypeOK, own, kernel
  <2> QED
    BY <2>4, <2>5
<1>2. ASSUME StartRefused
      PROVE  Shape'
  <2>1. script' \in Seq(Call)
    BY <1>2, TailOfQueue DEF StartRefused, Calls, TypeOK
  <2>2. events' \in Seq(Exit \cup {"other"})
    BY <1>2, <1>a, <1>b DEF StartRefused, Transition
  <2> QED
    BY <1>2, <2>1, <2>2 DEF StartRefused, TypeOK, Watching, object, own, kernel,
        Transition, ProgramState
<1>3. ASSUME StopCalled
      PROVE  Shape'
  <2>1. script' \in Seq(Call)
    BY <1>3, TailOfQueue DEF StopCalled, Calls, TypeOK
  <2>2. /\ stopEvent' \in BOOLEAN /\ target' \in Pid \cup {None}
        /\ caller' \in {"idle", "stopping"}
    BY <1>3 DEF StopCalled, Calls, TypeOK
  <2>3. TypeOK'
    BY <1>3, <2>1, <2>2 DEF StopCalled, TypeOK, object, own, kernel
  <2>4. Watching'
    BY <1>3 DEF StopCalled, Watching, TypeOK, own, kernel
  <2> QED
    BY <2>3, <2>4
<1>4. ASSUME Sweep
      PROVE  Shape'
  <2>1. script' \in Seq(Call)
    BY <1>4, TailOfQueue DEF Sweep, Calls, TypeOK
  <2> QED
    BY <1>4, <2>1 DEF Sweep, TypeOK, Watching, object, own, kernel
<1>5. ASSUME Reopen
      PROVE  Shape'
  <2>1. script' \in Seq(Call)
    BY <1>5, TailOfQueue DEF Reopen, Calls, TypeOK
  <2>2. events' \in Seq(Exit \cup {"other"})
    BY <1>5 DEF Reopen
  <2> QED
    BY <1>5, <2>1, <2>2 DEF Reopen, TypeOK, Watching, object, own, kernel, IsAlive,
        ProgramState
<1>6. ASSUME StartMarks
      PROVE  Shape'
  <2>1. events' \in Seq(Exit \cup {"other"})
    BY <1>6, <1>a, <1>b DEF StartMarks, Transition
  <2> QED
    BY <1>6, <2>1 DEF StartMarks, TypeOK, Watching, object, own, kernel, Transition,
        ProgramState
<1>7. ASSUME StartThreads
      PROVE  Shape'
  <2>1. /\ stopEvent' \in BOOLEAN /\ threads' \in Pid \cup {None}
        /\ waiter' \in [Pid -> {"none", "new", "waiting", "done"}]
    BY <1>7 DEF StartThreads, TypeOK
  <2>2. TypeOK'
    BY <1>7, <2>1 DEF StartThreads, TypeOK, object, own, kernel
  <2>3. Watching'
    BY <1>7 DEF StartThreads, Watching, TypeOK, own, kernel
  <2> QED
    BY <2>2, <2>3
<1>8. ASSUME StopMarks
      PROVE  Shape'
  <2>1. events' \in Seq(Exit \cup {"other"})
    BY <1>8, <1>a, <1>b DEF StopMarks, Transition
  <2> QED
    BY <1>8, <2>1 DEF StopMarks, TypeOK, Watching, object, own, kernel, Transition,
        ProgramState
<1>9. ASSUME StopTerms
      PROVE  Shape'
  <2>1. life' \in [Pid -> {"unborn", "alive", "terming", "dead"}]
    <3> DEFINE next(p) == IF life[p] = "alive" THEN "terming" ELSE life[p]
    <3>1. life' = [life EXCEPT ![target] = next(target)]
      BY <1>9 DEF StopTerms
    <3>2. target \in Pid => next(target) \in {"unborn", "alive", "terming", "dead"}
      BY DEF TypeOK
    <3> HIDE DEF next
    <3> QED
      BY <3>1, <3>2 DEF TypeOK
  <2>2. TypeOK'
    BY <1>9, <2>1 DEF StopTerms, TypeOK, object, own, kernel
  <2>3. Watching'
    BY <1>9 DEF StopTerms, Watching, TypeOK, own, kernel
  <2> QED
    BY <2>2, <2>3
<1>10. ASSUME StopWaits
      PROVE  Shape'
  BY <1>10 DEF StopWaits, TypeOK, Watching, object, own, kernel, IsAlive, Exit
<1>11. ASSUME StopJoins
      PROVE  Shape'
  BY <1>11 DEF StopJoins, TypeOK, Watching, object, own, kernel
<1>12. ASSUME StopClears
      PROVE  Shape'
  <2>1. events' \in Seq(Exit \cup {"other"})
    BY <1>12, <1>a, <1>b DEF StopClears, Transition
  <2> QED
    <3>0. /\ caller' = "idle" /\ target' = None /\ proc' = None /\ phantom' = FALSE
          /\ state' = "stopped" /\ file' = [state |-> "stopped", pid |-> None, count |-> count]
          /\ UNCHANGED <<script, count, stopEvent, threads, waiter, watched, decider,
                         decision, fresh, readiness, life, code, foreign>>
      BY <1>12 DEF StopClears, Transition, own, kernel
    <3>1. file' \in [state : ProgramState, pid : Pid \cup {None}, count : Nat]
      BY <3>0 DEF TypeOK, ProgramState
    <3>2. /\ state' \in ProgramState /\ proc' \in Pid \cup {None} /\ target' \in Pid \cup {None}
          /\ phantom' \in BOOLEAN
          /\ caller' \in {"idle", "mark", "threads", "stopping", "term", "wait", "join", "clear"}
      BY <3>0 DEF ProgramState
    <3>3. TypeOK'
      <4>1. UNCHANGED <<script, count, stopEvent, threads, waiter, watched, decider,
                        decision, fresh, readiness, life, code, foreign>>
        BY <3>0
      <4> QED
        BY <2>1, <3>1, <3>2, <4>1 DEF TypeOK
    <3>4. Watching'
      BY <3>0 DEF Watching
    <3> QED
      BY <3>3, <3>4
<1>13. ASSUME NEW p \in Pid, WaiterBegins(p)
      PROVE  Shape'
  BY <1>13 DEF WaiterBegins, TypeOK, Watching, object, own, kernel
<1>14. ASSUME NEW p \in Pid, WaiterReports(p)
      PROVE  Shape'
  <2>1. code[watched[p]] \in Exit
    BY <1>14 DEF WaiterReports, TypeOK, Watching
  <2>2. events' \in Seq(Exit \cup {"other"})
    BY <1>14, <2>1, <1>a, <1>c DEF WaiterReports
  <2> QED
    BY <1>14, <2>2 DEF WaiterReports, TypeOK, Watching, object, own, kernel
<1>15. ASSUME NEW p \in Pid, Exits(p)
      PROVE  Shape'
  BY <1>15 DEF Exits, TypeOK, Watching, object, own, kernel, IsAlive
<1>16. ASSUME DeciderChecks
      PROVE  Shape'
  BY <1>16 DEF DeciderChecks, TypeOK, Watching, object, own, kernel, DeciderAt
<1>17. ASSUME DeciderGets
      PROVE  Shape'
  <2>1. CASE events = <<>>
    BY <1>17, <2>1 DEF DeciderGets, DeciderAt, TypeOK, Watching, own, kernel
  <2>2. CASE events # <<>>
    <3>1. /\ Head(events) \in Exit \cup {"other"}
          /\ Tail(events) \in Seq(Exit \cup {"other"})
      BY <2>2, TailOfQueue DEF TypeOK
    <3>2. /\ events' \in Seq(Exit \cup {"other"})
          /\ decision' \in Exit \cup {"none", "stopped", "fatal", "backoff"}
      BY <1>17, <2>2, <3>1 DEF DeciderGets, TypeOK
    <3>3. decider' \in {"check", "decide"}
      BY <1>17, <2>2 DEF DeciderGets, DeciderAt
    <3>4. TypeOK'
      BY <1>17, <3>2, <3>3 DEF DeciderGets, TypeOK, kernel
    <3>5. Watching'
      BY <1>17 DEF DeciderGets, Watching
    <3> QED
      BY <3>4, <3>5
  <2> QED
    BY <2>1, <2>2
<1>18. ASSUME DeciderDecides
      PROVE  Shape'
  BY <1>18 DEF DeciderDecides, TypeOK, Watching, object, own, kernel, DeciderAt,
      DecideRestart
<1>19. ASSUME DeciderApplies
       PROVE  Shape'
  <2>1. events' \in Seq(Exit \cup {"other"})
    BY <1>19, <1>a, <1>b DEF DeciderApplies, Transition
  <2>2. /\ state' \in ProgramState
        /\ file' \in [state : ProgramState, pid : Pid \cup {None}, count : Nat]
    <3>1. CASE decision \in {"stopped", "fatal"}
      BY <1>19, <3>1 DEF DeciderApplies, Transition, ProgramState, TypeOK
    <3>2. CASE decision = "backoff"
      BY <1>19, <3>2 DEF DeciderApplies, Transition, ProgramState, TypeOK
    <3> QED
      BY <1>19, <3>1, <3>2 DEF DeciderApplies
  <2>3. /\ proc' \in Pid \cup {None} /\ phantom' \in BOOLEAN
        /\ decider' \in {"check", "sleep"} /\ decision' = "none"
    BY <1>19 DEF DeciderApplies, DeciderAt, TypeOK
  <2>4. TypeOK'
    BY <1>19, <2>1, <2>2, <2>3 DEF DeciderApplies, TypeOK, kernel
  <2>5. Watching'
    BY <1>19 DEF DeciderApplies, Watching
  <2> QED
    BY <2>4, <2>5
<1>20. ASSUME DeciderSleeps
      PROVE  Shape'
  <2>1. events' \in Seq(Exit \cup {"other"})
    BY <1>20, <1>a, <1>b DEF DeciderSleeps
  <2> QED
    BY <1>20, <2>1 DEF DeciderSleeps, TypeOK, Watching, object, own, kernel,
        DeciderAt
<1>21. ASSUME DeciderSpawns
      PROVE  Shape'
  <2>1. events' \in Seq(Exit \cup {"other"})
    BY <1>21, <1>a, <1>b DEF DeciderSpawns, Transition
  <2>2. /\ state' \in ProgramState
        /\ file' \in [state : ProgramState, pid : Pid \cup {None}, count : Nat]
    BY <1>21 DEF DeciderSpawns, Transition, ProgramState, TypeOK
  <2>3. /\ life' \in [Pid -> {"unborn", "alive", "terming", "dead"}]
        /\ fresh' \in Pid \cup {None} /\ decider' \in {"adopt", "check"}
    BY <1>21 DEF DeciderSpawns, DeciderAt, Spawned, TypeOK
  <2>4. /\ UNCHANGED <<script, caller, target, proc, phantom, count, stopEvent, threads>>
        /\ UNCHANGED <<waiter, watched, decision, readiness, code, foreign>>
    BY <1>21 DEF DeciderSpawns
  <2>5. TypeOK'
    BY <2>1, <2>2, <2>3, <2>4 DEF TypeOK
  <2>6. Watching'
    BY <2>4 DEF Watching
  <2> QED
    BY <2>5, <2>6
<1>22. ASSUME DeciderAdopts
      PROVE  Shape'
  <2>1. proc' \in Pid \cup {None} /\ phantom' \in BOOLEAN
    BY <1>22 DEF DeciderAdopts, TypeOK
  <2>2. TypeOK'
    BY <1>22, <2>1 DEF DeciderAdopts, TypeOK, object, own, kernel, DeciderAt
  <2>3. Watching'
    BY <1>22 DEF DeciderAdopts, Watching, TypeOK, own, kernel
  <2> QED
    BY <2>2, <2>3
<1>23. ASSUME DeciderMarks
       PROVE  Shape'
  <2>1. events' \in Seq(Exit \cup {"other"})
    BY <1>23, <1>a, <1>b DEF DeciderMarks, Transition
  <2>2. waiter' \in [Pid -> {"none", "new", "waiting", "done"}]
    BY <1>23 DEF DeciderMarks, TypeOK
  <2>3. /\ state' \in ProgramState /\ decider' = "check" /\ fresh' = None
        /\ file' \in [state : ProgramState, pid : Pid \cup {None}, count : Nat]
    BY <1>23 DEF DeciderMarks, DeciderAt, Transition, ProgramState, TypeOK
  <2>4. TypeOK'
    BY <1>23, <2>1, <2>2, <2>3 DEF DeciderMarks, TypeOK, kernel
  <2>5. Watching'
    BY <1>23 DEF DeciderMarks, Watching, TypeOK
  <2> QED
    BY <2>4, <2>5
<1>24. ASSUME ReadinessChecks
      PROVE  Shape'
  BY <1>24 DEF ReadinessChecks, TypeOK, Watching, object, own, kernel, ReadinessAt
<1>25. ASSUME ReadinessProbes
      PROVE  Shape'
  BY <1>25 DEF ReadinessProbes, TypeOK, Watching, object, own, kernel, ReadinessAt
<1>26. ASSUME ReadinessMarks
      PROVE  Shape'
  <2>1. events' \in Seq(Exit \cup {"other"})
    BY <1>26, <1>a, <1>b DEF ReadinessMarks, Transition
  <2> QED
    BY <1>26, <2>1 DEF ReadinessMarks, TypeOK, Watching, object, own, kernel,
        ReadinessAt, Transition, ProgramState
<1>27. CASE UNCHANGED vars
  BY <1>27 DEF TypeOK, Watching, vars, object, own, kernel
<1> QED
  BY <1>1, <1>2, <1>3, <1>4, <1>5, <1>6, <1>7, <1>8, <1>9, <1>10, <1>11, <1>12, <1>13, <1>14,
     <1>15, <1>16, <1>17, <1>18, <1>19, <1>20, <1>21, <1>22, <1>23, <1>24, <1>25, <1>26, <1>27
  DEF Next, Enter, Proceed, Waiter, Decider, Readiness

-----------------------------------------------------------------------------
(* The retry budget                                                        *)

\* The decider counts a retry only after decide_restart found one left.
LEMMA BudgetStep ==
  ASSUME TypeOK, Budget, [Next]_vars
  PROVE  Budget'
<1> USE SupervisorAssumption DEF Budget, RetriesBounded, RetryLeft, FileInBudget
<1>1. ASSUME UNCHANGED <<count, file, decider, decision>>
      PROVE  Budget'
  BY <1>1
<1>2. ASSUME UNCHANGED <<count, decider, decision>>, file'.count = count
      PROVE  Budget'
  BY <1>2
<1>3. CASE Enter
  <2>1. CASE StartRefused
    BY <2>1, <1>1, <1>2 DEF StartRefused, Transition, own
  <2>2. CASE Reopen
    BY <2>2 DEF Reopen
  <2> QED
    BY <1>3, <1>1, <2>1, <2>2 DEF Enter, StartSpawns, StopCalled, Sweep, object, own
<1>4. CASE Proceed
  <2>1. CASE StartMarks \/ StopMarks \/ StopClears
    BY <2>1, <1>2 DEF StartMarks, StopMarks, StopClears, Transition, own
  <2>2. CASE StartThreads
    BY <2>2 DEF StartThreads
  <2> QED
    BY <1>4, <1>1, <2>1, <2>2 DEF Proceed, StopTerms, StopWaits, StopJoins, object,
        own
<1>5. CASE \E p \in Pid : Waiter(p) \/ Exits(p)
  BY <1>5, <1>1 DEF Waiter, WaiterBegins, WaiterReports, Exits, object, own
<1>6. CASE Decider
  <2>1. ASSUME UNCHANGED <<count, file>>, decider' \in {"off", "check", "get", "decide"}
        PROVE  Budget'
    BY <2>1
  <2>2. CASE DeciderChecks \/ DeciderGets
    BY <1>6, <2>1, <2>2 DEF DeciderChecks, DeciderGets, DeciderAt, object
  <2>3. CASE DeciderDecides
    <3>1. decider' = "apply" /\ UNCHANGED <<count, file>>
      BY <2>3 DEF DeciderDecides, DeciderAt, object
    <3>2. decision' = "backoff" => count < StartRetries
      BY <2>3 DEF DeciderDecides, DecideRestart, TypeOK
    <3> QED
      BY <3>1, <3>2
  <2>4. CASE DeciderApplies
    <3>1. count' = count /\ file'.count = count /\ decision' = "none"
      BY <2>4 DEF DeciderApplies, Transition
    <3>2. decider' = "check" \/ (decider' = "sleep" /\ decision = "backoff")
      BY <2>4 DEF DeciderApplies, DeciderAt
    <3>3. decider = "apply"
      BY <2>4 DEF DeciderApplies, DeciderAt
    <3> QED
      BY <3>1, <3>2, <3>3
  <2>5. CASE DeciderSleeps
    <3>1. decider = "sleep" /\ decider' \in {"check", "spawn"} /\ file' = file
      BY <2>5 DEF DeciderSleeps, DeciderAt
    <3>2. count' \in {count, count + 1}
      BY <2>5 DEF DeciderSleeps
    <3> QED
      BY <3>1, <3>2 DEF TypeOK
  <2>6. CASE DeciderSpawns
    <3>1. count' = count /\ decider' \in {"adopt", "check"}
      BY <2>6 DEF DeciderSpawns, DeciderAt
    <3>2. file' = file \/ file'.count = count
      BY <2>6 DEF DeciderSpawns, Transition
    <3> QED
      BY <3>1, <3>2
  <2>7. CASE DeciderAdopts
    BY <2>7 DEF DeciderAdopts, DeciderAt
  <2>8. CASE DeciderMarks
    BY <2>8 DEF DeciderMarks, DeciderAt, Transition
  <2> QED
    BY <1>6, <2>2, <2>3, <2>4, <2>5, <2>6, <2>7, <2>8 DEF Decider
<1>7. CASE Readiness
  <2>1. CASE ReadinessMarks
    BY <2>1, <1>2 DEF ReadinessMarks, Transition
  <2> QED
    BY <1>7, <1>1, <2>1 DEF Readiness, ReadinessChecks, ReadinessProbes, object
<1>8. CASE UNCHANGED vars
  BY <1>8, <1>1 DEF vars, object, own
<1> QED
  BY <1>3, <1>4, <1>5, <1>6, <1>7, <1>8 DEF Next

-----------------------------------------------------------------------------
(* The child stop was called for                                           *)

\* A process that is not unborn is none that Popen can return.
LEMMA SpawnedIsNew ==
  ASSUME TypeOK, NEW p \in Pid, Spawned(p), NEW q \in Pid \cup {None}, Born(q)
  PROVE  /\ q # p /\ life'[p] = "alive"
         /\ q \in Pid => life'[q] = life[q]
BY DEF TypeOK, Spawned, Born, None, Pid

\* SIGTERM and death bear and revive nobody.
LEMMA LaterLife ==
  ASSUME TypeOK,
         \A p \in Pid : life'[p] = life[p] \/ (life[p] \in {"alive", "terming"}
                                                 /\ life'[p] \in {"terming", "dead"}),
         NEW q \in Pid \cup {None}
  PROVE  /\ Born(q) => (q # None => life'[q] # "unborn")
         /\ ~IsAlive(q) => ~(q \in Pid /\ life'[q] \in {"alive", "terming"})
BY DEF TypeOK, Born, IsAlive, None, Pid

\* stop waits for its own child to be dead, and nobody revives it; a phantom does
\* not turn into a child while stop runs, because it has no threads.
LEMMA ChildStep ==
  ASSUME TypeOK, Child, [Next]_vars
  PROVE  Child'
<1> USE SupervisorAssumption DEF Child, RefersToBorn, PhantomAlone, StopEndsChild
<1>0. proc \in Pid \cup {None} /\ target \in Pid \cup {None} /\ fresh \in Pid \cup {None}
  BY DEF TypeOK
<1>1. ASSUME UNCHANGED <<proc, target, fresh, phantom, life>>,
             decider = "off" => decider' = "off",
             caller' = caller
      PROVE  Child'
  BY <1>1 DEF Born, IsAlive
<1>2. ASSUME UNCHANGED <<target, fresh, phantom, life, decider>>, proc' \in {proc, None},
             caller' \in {"idle", "stopping", "term", "wait"}
      PROVE  Child'
  BY <1>2 DEF Born, None
<1>3. CASE StartSpawns
  <2>1. PICK p \in Pid : Spawned(p) /\ proc' = p /\ target' = p
    BY <1>3 DEF StartSpawns
  <2>2. phantom' = FALSE /\ caller' = "mark" /\ fresh' = fresh
    BY <1>3 DEF StartSpawns, own
  <2>3. Born(proc)' /\ Born(target)' /\ Born(fresh)'
    <3>1. p # None /\ life'[p] = "alive"
      BY <1>0, <2>1, SpawnedIsNew, SupervisorAssumption DEF None, Pid
    <3>2. fresh # None => life'[fresh] = life[fresh]
      BY <1>0, <2>1, SpawnedIsNew
    <3> QED
      BY <2>1, <2>2, <3>1, <3>2 DEF Born
  <2> QED
    BY <2>1, <2>2, <2>3
<1>4. CASE StartRefused \/ StartMarks
  <2>1. CASE StartRefused
    BY <2>1, <1>1 DEF StartRefused, own, kernel
  <2>2. CASE StartMarks
    BY <2>2 DEF StartMarks, own, kernel, Born
  <2> QED
    BY <1>4, <2>1, <2>2
<1>5. CASE StartThreads
  <2>1. ~phantom /\ ~phantom'
    BY <1>5 DEF StartThreads
  <2>2. UNCHANGED <<proc, fresh, life>> /\ target' = None /\ caller' = "idle"
    BY <1>5 DEF StartThreads, kernel
  <2> QED
    BY <2>1, <2>2 DEF Born, None
<1>6. CASE StopCalled
  <2>1. UNCHANGED <<proc, fresh, phantom, life, decider>>
    BY <1>6 DEF StopCalled, own, kernel
  <2>2. target' \in {target, proc} /\ caller' \in {"idle", "stopping"}
    BY <1>6 DEF StopCalled, Calls
  <2> QED
    BY <2>1, <2>2 DEF Born
<1>7. CASE StopMarks
  BY <1>7, <1>2 DEF StopMarks, own, kernel
<1>8. CASE StopTerms \/ Sweep
  <2>1. \A p \in Pid : life'[p] = life[p]
                         \/ (life[p] = "alive" /\ life'[p] = "terming")
    BY <1>8 DEF StopTerms, Sweep, TypeOK
  <2>2. UNCHANGED <<proc, target, fresh, phantom, decider>>
    BY <1>8 DEF StopTerms, Sweep, object, own
  <2>3. caller' \in {"idle", "wait"}
    BY <1>8 DEF StopTerms, Sweep, Calls
  <2>4. Born(proc)' /\ Born(target)' /\ Born(fresh)'
    BY <1>0, <2>1, <2>2, LaterLife DEF Born
  <2> QED
    BY <2>2, <2>3, <2>4
<1>9. CASE StopWaits
  <2>1. UNCHANGED <<proc, target, fresh, phantom, decider>> /\ caller' = "join"
    BY <1>9 DEF StopWaits, object, own
  <2>2. \A p \in Pid : life'[p] = life[p]
                         \/ (life[p] \in {"alive", "terming"} /\ life'[p] = "dead")
    BY <1>9 DEF StopWaits, IsAlive, kernel, TypeOK
  <2>3. Born(proc)' /\ Born(target)' /\ Born(fresh)'
    BY <1>0, <2>1, <2>2, LaterLife DEF Born
  <2>4. ~phantom => ~IsAlive(target)'
    BY <1>9, <2>1 DEF StopWaits, IsAlive, kernel, TypeOK
  <2> QED
    BY <2>1, <2>3, <2>4 DEF IsAlive
<1>10. CASE StopJoins
  BY <1>10 DEF StopJoins, own, kernel, Born, IsAlive
<1>11. CASE StopClears
  <2>1. proc' = None /\ target' = None /\ phantom' = FALSE /\ caller' = "idle"
    BY <1>11 DEF StopClears
  <2>2. UNCHANGED <<fresh, life>>
    BY <1>11 DEF StopClears, own, kernel
  <2> QED
    BY <2>1, <2>2 DEF Born, None
<1>12. CASE Reopen
  <2>1. UNCHANGED <<target, life>> /\ fresh' = None /\ decider' = "off" /\ caller' = "idle"
    BY <1>12 DEF Reopen, Calls, kernel
  <2>2. proc' = None \/ IsAlive(proc')
    BY <1>12 DEF Reopen
  <2> QED
    BY <2>1, <2>2 DEF Born, IsAlive, None
<1>13. CASE \E p \in Pid : Waiter(p)
  BY <1>13, <1>1 DEF Waiter, WaiterBegins, WaiterReports, object, kernel
<1>14. CASE \E p \in Pid : Exits(p)
  <2>1. \A p \in Pid : life'[p] = life[p]
                         \/ (life[p] \in {"alive", "terming"} /\ life'[p] = "dead")
    BY <1>14 DEF Exits, IsAlive, TypeOK
  <2>2. UNCHANGED <<proc, target, fresh, phantom, decider, caller>>
    BY <1>14 DEF Exits, object, own
  <2>3. /\ Born(proc)' /\ Born(target)' /\ Born(fresh)'
        /\ ~IsAlive(target) => ~IsAlive(target)'
    BY <1>0, <2>1, <2>2, LaterLife DEF Born, IsAlive
  <2> QED
    BY <2>2, <2>3
<1>15. CASE Decider
  <2>0. ~phantom
    BY <1>15 DEF Decider, DeciderChecks, DeciderGets, DeciderDecides,
        DeciderApplies, DeciderSleeps, DeciderSpawns, DeciderAdopts, DeciderMarks,
        DeciderAt
  <2>1. ASSUME UNCHANGED <<target, life, caller>>, phantom' = FALSE,
               proc' \in {proc, fresh, None}, fresh' \in {fresh, None}
        PROVE  Child'
    BY <2>0, <2>1 DEF Born, IsAlive, None
  <2>2. CASE DeciderChecks \/ DeciderGets \/ DeciderDecides
    BY <2>0, <2>1, <2>2 DEF DeciderChecks, DeciderGets, DeciderDecides, object,
        kernel, TypeOK
  <2>3. CASE DeciderApplies \/ DeciderSleeps
    BY <2>0, <2>1, <2>3 DEF DeciderApplies, DeciderSleeps, kernel, TypeOK
  <2>4. CASE DeciderAdopts \/ DeciderMarks
    BY <2>0, <2>1, <2>4 DEF DeciderAdopts, DeciderMarks, kernel, TypeOK
  <2>5. CASE DeciderSpawns
    <3>1. UNCHANGED <<proc, target, phantom, caller>> /\ phantom' = FALSE
      BY <2>0, <2>5 DEF DeciderSpawns, TypeOK
    <3>2. CASE \E p \in Pid : Spawned(p) /\ fresh' = p
      <4>1. PICK p \in Pid : Spawned(p) /\ fresh' = p
        BY <3>2
      <4>2. /\ Born(proc)' /\ Born(target)' /\ Born(fresh)'
            /\ IsAlive(target)' = IsAlive(target)
        BY <1>0, <3>1, <4>1, SpawnedIsNew DEF Born, IsAlive
      <4> QED
        BY <2>0, <3>1, <4>2
    <3>3. CASE UNCHANGED <<life, fresh>>
      BY <2>0, <2>1, <3>1, <3>3
    <3> QED
      BY <2>5, <3>2, <3>3 DEF DeciderSpawns
  <2> QED
    BY <1>15, <2>2, <2>3, <2>4, <2>5 DEF Decider
<1>16. CASE Readiness
  BY <1>16, <1>1 DEF Readiness, ReadinessChecks, ReadinessProbes, ReadinessMarks,
      object, kernel
<1>17. CASE UNCHANGED vars
  BY <1>17, <1>1 DEF vars, object, own, kernel
<1> QED
  BY <1>3, <1>4, <1>5, <1>6, <1>7, <1>8, <1>9, <1>10, <1>11, <1>12, <1>13, <1>14, <1>15,
     <1>16, <1>17
  DEF Next, Enter, Proceed

-----------------------------------------------------------------------------
(* Theorems                                                                *)

LEMMA InitIInv == Init => IInv
<1> SUFFICES ASSUME Init PROVE IInv
  OBVIOUS
<1> USE SupervisorAssumption
<1>1. script \in Seq(Call)
  BY DEF Init
<1>2. Shape
  <2>1. /\ caller = "idle" /\ target = None /\ state = "stopped" /\ proc = None
        /\ phantom = FALSE /\ count = 0 /\ stopEvent = FALSE /\ events = <<>>
        /\ threads = None /\ decider = "off" /\ decision = "none" /\ fresh = None
        /\ readiness = "off"
    BY DEF Init
  <2>2. file \in [state : ProgramState, pid : Pid \cup {None}, count : Nat]
    BY DEF Init, ProgramState
  <2>3. /\ waiter \in [Pid -> {"none", "new", "waiting", "done"}]
        /\ watched \in [Pid -> Pid \cup {None}]
        /\ life \in [Pid -> {"unborn", "alive", "terming", "dead"}]
        /\ code \in [Pid -> Exit] /\ foreign \subseteq Pid
        /\ Watching
    BY DEF Init, Exit, Watching
  <2>4. events \in Seq(Exit \cup {"other"}) /\ phantom \in BOOLEAN /\ stopEvent \in BOOLEAN
    BY <2>1, EmptySeq
  <2>5. TypeOK
    BY <1>1, <2>1, <2>2, <2>3, <2>4 DEF TypeOK, ProgramState
  <2> QED
    BY <2>3, <2>5 DEF Shape
<1>3. Budget
  BY DEF Init, Budget, RetriesBounded, RetryLeft, FileInBudget
<1>4. Child
  BY DEF Init, Child, RefersToBorn, Born, PhantomAlone, StopEndsChild, None
<1> QED
  BY <1>2, <1>3, <1>4 DEF IInv

\* The invariant holds in every reachable state.
LEMMA Invariance == Spec => []IInv
<1>1. IInv /\ [Next]_vars => IInv'
  BY ShapeStep, BudgetStep, ChildStep DEF IInv, Shape
<1> QED
  BY InitIInv, <1>1, PTL DEF Spec

\* Every variable of the supervisor keeps its shape, whatever the callers do.
THEOREM TypeCorrect == Spec => []TypeOK
<1>1. IInv => TypeOK
  BY DEF IInv, Shape
<1> QED
  BY Invariance, <1>1, PTL

\* The decider never retries more often than startretries, for every script of calls,
\* CLI restarts included.
THEOREM RetryBudget == Spec => []RetriesBounded
<1>1. IInv => RetriesBounded
  BY DEF IInv, Budget
<1> QED
  BY Invariance, <1>1, PTL

\* A child that stop is called for is dead when stop joins the threads, whatever the
\* decider and the kernel do meanwhile.
THEOREM ChildEnds == Spec => []StopEndsChild
<1>1. IInv => StopEndsChild
  BY DEF IInv, Child
<1> QED
  BY Invariance, <1>1, PTL

-----------------------------------------------------------------------------
(* Nothing is spawned after stop                                           *)

\* An empty thread list means no decider, and a start in progress has a process to
\* make the threads for; once stop has joined, the list stays empty until then.
Joined ==
  /\ threads = None => decider = "off"
  /\ caller \in {"mark", "threads"} => target # None
  /\ stopEvent /\ caller \in {"idle", "clear", "mark", "threads"} => threads = None

LEMMA JoinedStep ==
  ASSUME TypeOK, Joined, [Next]_vars
  PROVE  Joined'
<1>1. ASSUME UNCHANGED <<caller, target, stopEvent, threads>>, decider = "off" => decider' = "off"
      PROVE  Joined'
  BY <1>1 DEF Joined
<1>2. CASE StartSpawns
  <2>1. /\ caller = "idle" /\ caller' = "mark" /\ target' \in Pid
        /\ UNCHANGED <<stopEvent, threads, decider>>
    BY <1>2 DEF StartSpawns, Calls, own
  <2> QED
    BY <2>1, SupervisorAssumption DEF Joined, Pid, None
<1>3. CASE StartRefused \/ Sweep
  BY <1>1, <1>3 DEF StartRefused, Sweep, object, own
<1>4. CASE StopCalled
  BY <1>4 DEF StopCalled, Calls, Joined, own
<1>5. CASE Reopen
  BY <1>5 DEF Reopen, Calls, Joined
<1>6. CASE StartMarks
  BY <1>6 DEF StartMarks, Joined, own
<1>7. CASE StartThreads
  <2>1. caller = "threads" /\ caller' = "idle" /\ target # None
    BY <1>7 DEF StartThreads, Joined
  <2>2. CASE threads # None /\ UNCHANGED <<stopEvent, threads, decider>>
    BY <2>1, <2>2 DEF Joined
  <2>3. CASE threads' = target /\ stopEvent' = FALSE
    BY <2>1, <2>3 DEF Joined
  <2> QED
    BY <1>7, <2>2, <2>3 DEF StartThreads
<1>8. CASE StopMarks \/ StopTerms \/ StopWaits
  <2>1. /\ caller' \in {"term", "wait", "join"}
        /\ UNCHANGED <<stopEvent, threads, decider>>
    BY <1>8 DEF StopMarks, StopTerms, StopWaits, object, own
  <2> QED
    BY <2>1 DEF Joined
<1>9. CASE StopJoins
  BY <1>9 DEF StopJoins, ThreadsEnded, Joined, own
<1>10. CASE StopClears
  BY <1>10 DEF StopClears, Joined, own
<1>11. CASE \E p \in Pid : Waiter(p) \/ Exits(p)
  BY <1>1, <1>11 DEF Waiter, WaiterBegins, WaiterReports, Exits, object, own
<1>12. CASE Decider
  <2>1. decider # "off" /\ UNCHANGED <<caller, target, stopEvent, threads>>
    BY <1>12 DEF Decider, DeciderChecks, DeciderGets, DeciderDecides, DeciderApplies,
       DeciderSleeps, DeciderSpawns, DeciderAdopts, DeciderMarks, DeciderAt, object
  <2> QED
    BY <1>1, <2>1
<1>13. CASE Readiness
  BY <1>1, <1>13 DEF Readiness, ReadinessChecks, ReadinessProbes, ReadinessMarks, object
<1>14. CASE UNCHANGED vars
  BY <1>1, <1>14 DEF vars, object, own
<1> QED
  BY <1>2, <1>3, <1>4, <1>5, <1>6, <1>7, <1>8, <1>9, <1>10, <1>11, <1>12, <1>13, <1>14
  DEF Next, Enter, Proceed

\* Once stop has joined its threads only a call to start spawns a kernel process
\* (stop, _join_threads, _sleep_with_stop), for every script of calls.
THEOREM StoppedStaysStopped == Spec => NoSpawnAfterStop
<1>1. TypeOK /\ Joined /\ [Next]_vars
        => [stopEvent /\ caller \in {"clear", "idle"} /\ caller' # "mark"
              => \A p \in Pid : life[p] = "unborn" => life'[p] = "unborn"]_vars
  <2> SUFFICES ASSUME TypeOK, Joined, [Next]_vars,
                      stopEvent, caller \in {"clear", "idle"}, caller' # "mark",
                      NEW p \in Pid, life[p] = "unborn"
               PROVE  life'[p] = "unborn"
    OBVIOUS
  <2>1. decider = "off"
    BY DEF Joined
  <2>2. ~Decider
    BY <2>1 DEF Decider, DeciderChecks, DeciderGets, DeciderDecides, DeciderApplies,
       DeciderSleeps, DeciderSpawns, DeciderAdopts, DeciderMarks, DeciderAt
  <2>3. CASE Enter
    BY <2>3 DEF Enter, StartSpawns, StartRefused, StopCalled, Sweep, Reopen, kernel, TypeOK
  <2>4. CASE Proceed
    BY <2>4 DEF Proceed, StartMarks, StartThreads, StopMarks, StopTerms, StopWaits,
       StopJoins, StopClears, kernel, TypeOK
  <2>5. CASE \E q \in Pid : Waiter(q) \/ Exits(q)
    BY <2>5 DEF Waiter, WaiterBegins, WaiterReports, Exits, IsAlive, kernel, TypeOK
  <2>6. CASE Readiness
    BY <2>6 DEF Readiness, ReadinessChecks, ReadinessProbes, ReadinessMarks, kernel
  <2>7. CASE UNCHANGED vars
    BY <2>7 DEF vars, kernel
  <2> QED
    BY <2>2, <2>3, <2>4, <2>5, <2>6, <2>7 DEF Next
<1>2. Init => Joined
  BY DEF Init, Joined
<1>3. IInv => TypeOK
  BY DEF IInv, Shape
<1> QED
  BY <1>1, <1>2, <1>3, JoinedStep, Invariance, PTL DEF Spec, NoSpawnAfterStop

-----------------------------------------------------------------------------
(* One kernel process                                                      *)

Starts == {"start", "cli_start"}

\* How lca-ops uses the supervisor: at most one start in the life of an object, be it
\* that of a restart or one behind the check for a live kernel.
OneStart(calls) ==
  \A i, j \in 1..Len(calls) : i < j /\ calls[i] \in Starts /\ calls[j] \in Starts =>
    \E k \in i..j : calls[k] = "reopen"

UsedProperly == \A calls \in Scripts : OneStart(calls)

\* Who may cause the next spawn: a start whose process has no threads yet, a respawn
\* whose process has no waiter yet, a decider that acts on a death, a waiter that
\* will tell one, a death that has been told.
Starting   == caller \in {"mark", "threads"}
Respawned  == decider \in {"adopt", "mark"}
Deciding   == decider \in {"decide", "apply", "sleep", "spawn"}
Watches(w) == waiter[w] \in {"new", "waiting"}
NoneTold   == \A i \in 1..Len(events) : events[i] = "other"

Open == Starting \/ Respawned \/ Deciding \/ (\E w \in Pid : Watches(w)) \/ ~NoneTold

OneTold ==
  \A i, j \in 1..Len(events) : events[i] # "other" /\ events[j] # "other" => i = j

\* This CLI process has spawned a kernel.
OwnBorn == \E p \in Pid \ foreign : life[p] # "unborn"

\* What an earlier CLI process left has been spawned.
ForeignBorn == \A p \in foreign : life[p] # "unborn"

\* At most one of them at a time.
Exclusive ==
  /\ Starting => ~Respawned /\ ~Deciding
  /\ Starting \/ Respawned \/ Deciding => NoneTold /\ \A w \in Pid : ~Watches(w)
  /\ \A w \in Pid : Watches(w) => NoneTold
  /\ \A w1, w2 \in Pid : Watches(w1) /\ Watches(w2) => w1 = w2
  /\ OneTold

\* The child that may be alive is the one it is about.
Concerns ==
  /\ Starting => Children \subseteq {target} /\ proc = target
  /\ Respawned => Children \subseteq {fresh}
  /\ decider = "mark" => proc \in {fresh, None}
  /\ Deciding \/ ~NoneTold => Children = {}
  /\ \A w \in Pid : /\ Watches(w) => Children \subseteq {w}
                    /\ waiter[w] = "new" => proc \in {w, None}
                    /\ waiter[w] = "waiting" => watched[w] = w

Sole == OneChild /\ Exclusive /\ Concerns /\ (Open => OwnBorn)

\* The calls still to come: once this CLI process has spawned a kernel, it makes no
\* other start.
Remaining ==
  /\ OneStart(script)
  /\ OwnBorn => \A j \in 1..Len(script) : script[j] \in Starts =>
                  \E k \in 1..j : script[k] = "reopen"

\* _emit of an event nobody acts on tells no death, that of an exit code tells one.
LEMMA EmittedTells ==
  ASSUME NEW q \in Seq(Exit \cup {"other"}), NEW e \in Exit \cup {"other"}
  PROVE  LET new == Emitted(q, e) IN
         /\ Len(q) \in Nat /\ Len(new) \in {Len(q), Len(q) + 1}
         /\ \A i \in 1..Len(q) : new[i] = q[i]
         /\ Len(new) = Len(q) + 1 => new[Len(q) + 1] = e
<1>1. Len(q) \in Nat
  BY LenProperties
<1>2. /\ Len(Append(q, e)) = Len(q) + 1 /\ Append(q, e)[Len(q) + 1] = e
      /\ \A i \in 1..Len(q) : Append(q, e)[i] = q[i]
  BY AppendProperties
<1> QED
  BY <1>1, <1>2 DEF Emitted

LEMMA Unmoved ==
  ASSUME TypeOK, events' \in {events, Emitted(events, "other")}
  PROVE  (NoneTold' <=> NoneTold) /\ (OneTold => OneTold')
<1> DEFINE q == events
<1>1. q \in Seq(Exit \cup {"other"})
  BY DEF TypeOK
<1>2. CASE events' = q
  BY <1>2 DEF NoneTold, OneTold
<1>3. CASE events' = Emitted(q, "other")
  <2>1. /\ Len(q) \in Nat /\ Len(events') \in {Len(q), Len(q) + 1}
        /\ \A i \in 1..Len(q) : events'[i] = q[i]
        /\ Len(events') = Len(q) + 1 => events'[Len(q) + 1] = "other"
    BY <1>1, <1>3, EmittedTells
  <2>2. \A i \in 1..Len(events') : events'[i] = "other" \/ (i \in 1..Len(q) /\ events'[i] = q[i])
    BY <2>1
  <2>3. \A i \in 1..Len(q) : i \in 1..Len(events')
    BY <2>1
  <2>4. NoneTold' <=> NoneTold
    BY <2>1, <2>2, <2>3 DEF NoneTold
  <2>5. OneTold => OneTold'
    BY <2>2 DEF OneTold
  <2> QED
    BY <2>4, <2>5
<1> QED
  BY <1>2, <1>3

LEMMA ToldOne ==
  ASSUME TypeOK, NoneTold, NEW e \in Exit, events' = Emitted(events, e)
  PROVE  OneTold'
<1> DEFINE q == events
<1>1. q \in Seq(Exit \cup {"other"})
  BY DEF TypeOK
<1>2. /\ Len(q) \in Nat /\ Len(events') \in {Len(q), Len(q) + 1}
      /\ \A i \in 1..Len(q) : events'[i] = q[i]
  BY <1>1, EmittedTells
<1>3. \A i \in 1..Len(events') : events'[i] = "other" \/ i = Len(q) + 1
  BY <1>2 DEF NoneTold
<1> QED
  BY <1>3 DEF OneTold

LEMMA Taken ==
  ASSUME TypeOK, OneTold, events # <<>>, events' = Tail(events)
  PROVE  /\ OneTold' /\ (NoneTold => NoneTold')
         /\ Head(events) # "other" => ~NoneTold /\ NoneTold'
         /\ Head(events) = "other" => (NoneTold' => NoneTold)
<1> DEFINE q == events
<1>1. q \in Seq(Exit \cup {"other"}) /\ q # <<>>
  BY DEF TypeOK
<1>2. /\ Len(q) \in Nat /\ Len(q) # 0 /\ Len(events') = Len(q) - 1 /\ Head(q) = q[1]
      /\ \A i \in 1..Len(events') : events'[i] = q[i + 1]
  BY <1>1, HeadTailProperties, EmptySeq, LenProperties
<1>3. 1 \in 1..Len(q) /\ \A i \in 1..Len(events') : i + 1 \in 1..Len(q) /\ i + 1 # 1
  BY <1>2
<1>4. \A i \in 1..Len(q) : i # 1 => i - 1 \in 1..Len(events') /\ q[i] = events'[i - 1]
  <2>1. ASSUME NEW i \in 1..Len(q), i # 1
        PROVE  i - 1 \in 1..Len(events') /\ (i - 1) + 1 = i
    BY <1>2, <2>1
  <2> QED
    BY <1>2, <2>1
<1>5. OneTold'
  <2> SUFFICES ASSUME NEW i \in 1..Len(events'), NEW j \in 1..Len(events'),
                      events'[i] # "other", events'[j] # "other"
               PROVE  i = j
    BY DEF OneTold
  <2>1. i + 1 = j + 1
    BY <1>2, <1>3 DEF OneTold
  <2> QED
    BY <1>2, <2>1
<1>6. NoneTold => NoneTold'
  BY <1>2, <1>3 DEF NoneTold
<1>7. Head(events) # "other" => ~NoneTold /\ NoneTold'
  <2> SUFFICES ASSUME Head(events) # "other" PROVE ~NoneTold /\ NoneTold'
    OBVIOUS
  <2>1. ~NoneTold
    BY <1>2, <1>3 DEF NoneTold
  <2>2. \A i \in 1..Len(events') : events'[i] = "other"
    BY <1>2, <1>3 DEF OneTold
  <2> QED
    BY <2>1, <2>2 DEF NoneTold
<1>8. Head(events) = "other" => (NoneTold' => NoneTold)
  BY <1>2, <1>4 DEF NoneTold
<1> QED
  BY <1>5, <1>6, <1>7, <1>8

\* A step that opens nothing and spawns nothing.
LEMMA SoleKept ==
  ASSUME TypeOK, Sole,
         \A p \in Pid : /\ life'[p] # "unborn" <=> life[p] # "unborn"
                        /\ life'[p] \in {"alive", "terming"} => life[p] \in {"alive", "terming"},
         foreign' = foreign,
         Starting' => Starting /\ UNCHANGED <<target, proc>>,
         Respawned' => Respawned /\ fresh' = fresh,
         decider' = "mark" => proc' \in {fresh', None},
         Deciding' => Deciding,
         NoneTold => NoneTold', OneTold',
         \A w \in Pid : /\ Watches(w)' => Watches(w)
                        /\ waiter'[w] = "new" => proc' \in {w, None}
                        /\ waiter'[w] = "waiting" => watched'[w] = w
  PROVE  Sole' /\ (Open' => Open)
<1>1. Children' \subseteq Children
  BY DEF Children, Live, IsAlive
<1>2. OneChild'
  BY <1>1 DEF Sole, OneChild
<1>3. Exclusive'
  BY DEF Sole, Exclusive
<1>4. Concerns'
  BY <1>1 DEF Sole, Concerns
<1>5. Open' => Open
  BY DEF Open
<1>6. OwnBorn => OwnBorn'
  BY DEF OwnBorn
<1> QED
  BY <1>2, <1>3, <1>4, <1>5, <1>6 DEF Sole

\* A call is made that opens nothing, and is not the end of the CLI process.
LEMMA CallsRemain ==
  ASSUME TypeOK, Remaining, script # <<>>, script' = Tail(script),
         OwnBorn' => OwnBorn /\ Head(script) # "reopen"
  PROVE  Remaining'
<1>1. /\ Len(script) \in Nat /\ Len(script) # 0 /\ Len(script') = Len(script) - 1
      /\ Head(script) = script[1]
      /\ \A i \in 1..Len(script') : script'[i] = script[i + 1]
  BY HeadTailProperties, EmptySeq, LenProperties DEF TypeOK
<1>2. \A i \in 1..Len(script') : i + 1 \in 1..Len(script) /\ i \in Nat
  BY <1>1
<1>3. ASSUME NEW i \in 1..Len(script'), NEW j \in 1..Len(script'), i < j,
             script'[i] \in Starts, script'[j] \in Starts
      PROVE  \E k \in i..j : script'[k] = "reopen"
  <2>1. i + 1 < j + 1 /\ script[i + 1] \in Starts /\ script[j + 1] \in Starts
    BY <1>1, <1>2, <1>3
  <2>2. \E k \in (i + 1)..(j + 1) : script[k] = "reopen"
    BY <1>2, <2>1 DEF Remaining, OneStart
  <2>3. PICK k \in (i + 1)..(j + 1) : script[k] = "reopen"
    BY <2>2
  <2>4. k - 1 \in i..j /\ k - 1 \in 1..Len(script') /\ (k - 1) + 1 = k
    BY <1>2, <2>3
  <2>5. script'[k - 1] = "reopen"
    BY <1>1, <2>3, <2>4
  <2> QED
    BY <2>4, <2>5
<1>4. OneStart(script')
  BY <1>3 DEF OneStart
<1>5. ASSUME OwnBorn', NEW j \in 1..Len(script'), script'[j] \in Starts
      PROVE  \E k \in 1..j : script'[k] = "reopen"
  <2>1. \E k \in 1..(j + 1) : script[k] = "reopen"
    BY <1>1, <1>2, <1>5 DEF Remaining
  <2>2. PICK k \in 1..(j + 1) : script[k] = "reopen"
    BY <2>1
  <2>3. k # 1
    BY <1>1, <1>5, <2>2
  <2>4. k - 1 \in 1..j /\ k - 1 \in 1..Len(script') /\ (k - 1) + 1 = k
    BY <1>2, <2>2, <2>3
  <2>5. script'[k - 1] = "reopen"
    BY <1>1, <2>2, <2>4
  <2> QED
    BY <2>4, <2>5
<1> QED
  BY <1>4, <1>5 DEF Remaining

\* The kernel's and the threads' steps leave the calls to come alone.
LEMMA ScriptRemains ==
  ASSUME Remaining, script' = script, OwnBorn' => OwnBorn
  PROVE  Remaining'
BY DEF Remaining

\* A start finds nothing under way and no child alive.
LEMMA StartFindsNone ==
  ASSUME TypeOK, Sole, Remaining, Calls(Starts)
  PROVE  ~Open /\ Children = {}
<1>1. /\ script # <<>> /\ Head(script) = script[1] /\ 1 \in 1..Len(script)
      /\ Head(script) \in Starts
  BY HeadTailProperties, EmptySeq, LenProperties DEF Calls, TypeOK
<1>2. ~OwnBorn
  BY <1>1 DEF Remaining, Starts
<1>3. ~Open
  BY <1>2 DEF Sole
<1> QED
  BY <1>2, <1>3 DEF OwnBorn, Children, Live, IsAlive

LEMMA StartOpens ==
  ASSUME TypeOK, ForeignBorn, Sole, Remaining, StartSpawns
  PROVE  Sole' /\ Remaining'
<1>f. foreign' = foreign
  BY DEF StartSpawns
<1> USE <1>f
<1>1. PICK p \in Pid : Spawned(p) /\ proc' = p /\ target' = p
  BY DEF StartSpawns
<1>2. /\ Calls(Starts) /\ caller' = "mark" /\ script' = Tail(script)
      /\ UNCHANGED <<events, waiter, watched, decider, fresh>>
  BY DEF StartSpawns, Starts, own
<1>3. ~Open /\ Children = {}
  BY <1>2, StartFindsNone
<1>4. life' = [life EXCEPT ![p] = "alive"] /\ life'[p] = "alive"
  BY <1>1 DEF Spawned, TypeOK
<1>5. Children' \subseteq {p} /\ OwnBorn'
  <2>1. p \notin foreign
    BY <1>1 DEF Spawned, ForeignBorn
  <2> QED
    BY <1>3, <1>4, <2>1 DEF Children, Live, IsAlive, TypeOK, OwnBorn
<1>6. Starting' /\ ~Respawned' /\ ~Deciding' /\ NoneTold' /\ \A w \in Pid : ~Watches(w)'
  BY <1>2, <1>3 DEF Open, Starting, Respawned, Deciding, Watches, NoneTold
<1>7. Sole'
  <2>1. OneChild'
    BY <1>5 DEF OneChild
  <2>2. Exclusive'
    BY <1>2, <1>6 DEF Exclusive, Sole, OneTold
  <2>3. Concerns'
    BY <1>1, <1>5, <1>6 DEF Concerns, Watches, Respawned
  <2> QED
    BY <1>5, <2>1, <2>2, <2>3 DEF Sole
<1>8. /\ Len(script) \in Nat /\ Len(script) # 0 /\ Len(script') = Len(script) - 1
      /\ script[1] \in Starts
      /\ \A i \in 1..Len(script') : script'[i] = script[i + 1]
  BY <1>2, HeadTailProperties, EmptySeq, LenProperties DEF Calls, TypeOK
<1>9. \A j \in 1..Len(script') : j + 1 \in 1..Len(script) /\ 1 < j + 1 /\ 1 \in 1..Len(script)
  BY <1>8
<1>10. ASSUME NEW j \in 1..Len(script'), script'[j] \in Starts
       PROVE  \E k \in 1..j : script'[k] = "reopen"
  <2>1. \E k \in 1..(j + 1) : script[k] = "reopen"
    BY <1>8, <1>9, <1>10 DEF Remaining, OneStart
  <2>2. PICK k \in 1..(j + 1) : script[k] = "reopen"
    BY <2>1
  <2>3. k # 1
    BY <1>8, <2>2 DEF Starts
  <2>4. k - 1 \in 1..j /\ k - 1 \in 1..Len(script') /\ (k - 1) + 1 = k
    BY <1>9, <2>2, <2>3
  <2>5. script'[k - 1] = "reopen"
    BY <1>8, <2>2, <2>4
  <2> QED
    BY <2>4, <2>5
<1>11. OneStart(script')
  <2> SUFFICES ASSUME NEW i \in 1..Len(script'), NEW j \in 1..Len(script'), i < j,
                      script'[i] \in Starts, script'[j] \in Starts
               PROVE  \E k \in i..j : script'[k] = "reopen"
    BY DEF OneStart
  <2>1. i + 1 < j + 1 /\ script[i + 1] \in Starts /\ script[j + 1] \in Starts
    BY <1>8, <1>9
  <2>2. \E k \in (i + 1)..(j + 1) : script[k] = "reopen"
    BY <1>9, <2>1 DEF Remaining, OneStart
  <2>3. PICK k \in (i + 1)..(j + 1) : script[k] = "reopen"
    BY <2>2
  <2>4. k - 1 \in i..j /\ k - 1 \in 1..Len(script') /\ (k - 1) + 1 = k
    BY <1>9, <2>3
  <2>5. script'[k - 1] = "reopen"
    BY <1>8, <2>3, <2>4
  <2> QED
    BY <2>4, <2>5
<1>12. Remaining'
  BY <1>10, <1>11 DEF Remaining, Starts
<1> QED
  BY <1>7, <1>12

\* The steps of the calling thread after a call is made, of the kernel processes and
\* of the readiness thread: none but StartThreads moves what is under way.
LEMMA ThreadsTakeOver ==
  ASSUME TypeOK, Sole, StartThreads
  PROVE  Sole' /\ (Open' => Open)
<1>f. foreign' = foreign
  BY DEF StartThreads, kernel
<1> USE <1>f
<1>1. /\ Starting /\ caller' = "idle" /\ UNCHANGED <<proc, events, watched, fresh, kernel>>
  BY DEF StartThreads, Starting
<1>2. NoneTold' /\ OneTold' /\ ~Respawned /\ ~Deciding /\ \A w \in Pid : ~Watches(w)
  BY <1>1 DEF Sole, Exclusive, NoneTold, OneTold
<1>3. Children \subseteq {target} /\ proc = target /\ Children' = Children
  BY <1>1 DEF Sole, Concerns, Children, Live, IsAlive, kernel
<1>4. OneChild' /\ OwnBorn' /\ Open /\ ~Starting'
  BY <1>1, <1>3 DEF Sole, OneChild, OwnBorn, Open, Starting, kernel
<1>5. CASE UNCHANGED <<waiter, decider>>
  <2>1. ~Respawned' /\ ~Deciding' /\ \A w \in Pid : ~Watches(w)'
    BY <1>2, <1>5 DEF Respawned, Deciding, Watches
  <2> QED
    BY <1>2, <1>4, <2>1 DEF Sole, Exclusive, Concerns, Watches, Respawned, Open
<1>6. CASE waiter' = [waiter EXCEPT ![target] = "new"] /\ decider' = "check"
  <2>1. waiter \in [Pid -> {"none", "new", "waiting", "done"}]
    BY DEF TypeOK
  <2>2. \A w \in Pid : waiter'[w] \in {"new", "waiting"} => w = target /\ waiter'[w] = "new"
    BY <1>2, <1>6, <2>1 DEF Watches
  <2>3. ~Respawned' /\ ~Deciding' /\ decider' # "mark"
    BY <1>6 DEF Respawned, Deciding
  <2>4. Exclusive'
    BY <1>2, <1>4, <2>2, <2>3 DEF Exclusive, Watches
  <2>5. Concerns'
    BY <1>1, <1>2, <1>3, <1>4, <2>2, <2>3 DEF Concerns, Watches
  <2> QED
    BY <1>4, <2>4, <2>5 DEF Sole
<1> QED
  BY <1>5, <1>6 DEF StartThreads

LEMMA ProceedSole ==
  ASSUME TypeOK, Sole, Proceed
  PROVE  Sole' /\ (Open' => Open)
<1>f. foreign' = foreign
  BY DEF Proceed, StartMarks, StartThreads, StopMarks, StopTerms, StopWaits, StopJoins,
     StopClears, kernel
<1> USE <1>f
<1>1. CASE StartMarks \/ StopMarks
  <2>1. /\ events' = Emitted(events, "other")
        /\ UNCHANGED <<target, proc, waiter, watched, decider, fresh, life>>
        /\ Starting' => Starting
    BY <1>1 DEF StartMarks, StopMarks, Transition, own, kernel, Starting
  <2>2. (NoneTold => NoneTold') /\ OneTold'
    BY <2>1, Unmoved DEF Sole, Exclusive
  <2> QED
    BY <2>1, <2>2, SoleKept DEF Sole, Concerns, Respawned, Deciding, Watches
<1>2. CASE StartThreads
  BY <1>2, ThreadsTakeOver
<1>3. CASE StopTerms \/ StopWaits \/ StopJoins
  <2>1. /\ UNCHANGED <<target, proc, events, waiter, watched, decider, fresh>>
        /\ ~Starting'
    BY <1>3 DEF StopTerms, StopWaits, StopJoins, object, own, Starting
  <2>2. \A p \in Pid : /\ life'[p] # "unborn" <=> life[p] # "unborn"
                       /\ life'[p] \in {"alive", "terming"} => life[p] \in {"alive", "terming"}
    BY <1>3 DEF StopTerms, StopWaits, StopJoins, kernel, TypeOK, IsAlive
  <2>3. (NoneTold => NoneTold') /\ OneTold'
    BY <2>1 DEF Sole, Exclusive, NoneTold, OneTold
  <2> QED
    BY <2>1, <2>2, <2>3, SoleKept DEF Sole, Concerns, Respawned, Deciding, Watches
<1>4. CASE StopClears
  <2>1. /\ events' = Emitted(events, "other") /\ proc' = None
        /\ UNCHANGED <<waiter, watched, decider, fresh, life>>
        /\ ~Starting'
    BY <1>4 DEF StopClears, Transition, own, kernel, Starting
  <2>2. (NoneTold => NoneTold') /\ OneTold'
    BY <2>1, Unmoved DEF Sole, Exclusive
  <2> QED
    BY <2>1, <2>2, SoleKept DEF Sole, Concerns, Respawned, Deciding, Watches
<1> QED
  BY <1>1, <1>2, <1>3, <1>4 DEF Proceed

\* A call that is made leaves what is under way alone, or starts a kernel, or ends
\* the CLI process with its threads.
LEMMA EnterSole ==
  ASSUME TypeOK, ForeignBorn, Sole, Remaining, Enter
  PROVE  Sole' /\ Remaining'
<1>1. CASE StartSpawns
  BY <1>1, StartOpens
<1>2. CASE StartRefused \/ StopCalled \/ Sweep
  <2>1. /\ caller = "idle" /\ script # <<>> /\ script' = Tail(script)
        /\ Head(script) # "reopen"
        /\ UNCHANGED <<proc, waiter, watched, decider, fresh>> /\ ~Starting'
        /\ events' \in {events, Emitted(events, "other")}
    BY <1>2 DEF StartRefused, StopCalled, Sweep, Calls, Transition, object, own, Starting
  <2>f. foreign' = foreign
    BY <1>2 DEF StartRefused, StopCalled, Sweep, kernel
  <2>2. \A p \in Pid : /\ life'[p] # "unborn" <=> life[p] # "unborn"
                       /\ life'[p] \in {"alive", "terming"} => life[p] \in {"alive", "terming"}
    BY <1>2 DEF StartRefused, StopCalled, Sweep, kernel, TypeOK
  <2>3. (NoneTold => NoneTold') /\ OneTold'
    BY <2>1, Unmoved DEF Sole, Exclusive
  <2>4. Sole'
    BY <2>f, <2>1, <2>2, <2>3, SoleKept DEF Sole, Concerns, Respawned, Deciding, Watches
  <2>5. OwnBorn' => OwnBorn
    BY <2>f, <2>2 DEF OwnBorn
  <2> QED
    BY <2>1, <2>4, <2>5, CallsRemain
<1>3. CASE Reopen
  <2>1. /\ caller' = "idle" /\ script # <<>> /\ script' = Tail(script) /\ events' = <<>>
        /\ decider' = "off" /\ life' = life /\ \A w \in Pid : waiter'[w] = "none"
        /\ foreign' = {p \in Pid : life[p] # "unborn"}
    BY <1>3 DEF Reopen, Calls
  <2>2. ~Starting' /\ ~Respawned' /\ ~Deciding' /\ \A w \in Pid : ~Watches(w)'
    BY <2>1 DEF Starting, Respawned, Deciding, Watches
  <2>3. NoneTold' /\ OneTold'
    BY <2>1, EmptySeq DEF NoneTold, OneTold
  <2>4. ~OwnBorn' /\ Children' = {}
    BY <2>1 DEF OwnBorn, Children, Live, IsAlive
  <2>5. Sole'
    BY <2>1, <2>2, <2>3, <2>4 DEF Sole, OneChild, Exclusive, Concerns, Watches, Open
  <2> QED
    BY <2>1, <2>4, <2>5, CallsRemain
<1> QED
  BY <1>1, <1>2, <1>3 DEF Enter

LEMMA WaiterSole ==
  ASSUME TypeOK, Sole, NEW w \in Pid, Waiter(w)
  PROVE  Sole' /\ (Open' => Open)
<1>f. foreign' = foreign
  BY DEF Waiter, WaiterBegins, WaiterReports, kernel
<1> USE <1>f
<1>0. /\ waiter \in [Pid -> {"none", "new", "waiting", "done"}]
      /\ watched \in [Pid -> Pid \cup {None}]
  BY DEF TypeOK
<1>1. CASE WaiterBegins(w)
  <2>1. /\ waiter[w] = "new" /\ watched' = [watched EXCEPT ![w] = proc]
        /\ waiter' = [waiter EXCEPT ![w] = IF proc = None THEN "done" ELSE "waiting"]
        /\ UNCHANGED <<caller, target, proc, events, decider, fresh, life>>
    BY <1>1 DEF WaiterBegins, object, kernel
  <2>2. proc \in {w, None}
    BY <2>1 DEF Sole, Concerns
  <2>3. \A v \in Pid : /\ Watches(v)' => Watches(v)
                       /\ waiter'[v] = "new" => proc' \in {v, None}
                       /\ waiter'[v] = "waiting" => watched'[v] = v
    BY <1>0, <2>1, <2>2 DEF Sole, Concerns, Watches
  <2>4. (NoneTold => NoneTold') /\ OneTold'
    BY <2>1 DEF Sole, Exclusive, NoneTold, OneTold
  <2> QED
    BY <2>1, <2>3, <2>4, SoleKept DEF Sole, Concerns, Starting, Respawned, Deciding
<1>2. CASE WaiterReports(w)
  <2>1. /\ waiter[w] = "waiting" /\ life[watched[w]] = "dead"
        /\ events' = Emitted(events, code[watched[w]])
        /\ waiter' = [waiter EXCEPT ![w] = "done"]
        /\ UNCHANGED <<caller, target, proc, watched, decider, fresh, life>>
    BY <1>2 DEF WaiterReports, kernel
  <2>2. Watches(w) /\ watched[w] = w /\ Children \subseteq {w}
    BY <2>1 DEF Sole, Concerns, Watches
  <2>3. NoneTold /\ ~Starting /\ ~Respawned /\ ~Deciding
    BY <2>2 DEF Sole, Exclusive
  <2>4. Children' = {}
    BY <2>1, <2>2 DEF Children, Live, IsAlive
  <2>5. code[watched[w]] \in Exit
    BY <2>2 DEF TypeOK
  <2>6. OneTold'
    BY <2>1, <2>3, <2>5, ToldOne
  <2>7. ~Starting' /\ ~Respawned' /\ ~Deciding'
    BY <2>1, <2>3 DEF Starting, Respawned, Deciding
  <2>8. \A v \in Pid : ~Watches(v)'
    BY <1>0, <2>1, <2>2 DEF Sole, Exclusive, Watches
  <2>9. OneChild' /\ OwnBorn'
    <3>1. OwnBorn
      BY <2>2 DEF Sole, Open
    <3> QED
      BY <2>1, <2>4, <3>1 DEF OneChild, OwnBorn
  <2> QED
    BY <2>2, <2>4, <2>6, <2>7, <2>8, <2>9 DEF Sole, Exclusive, Concerns, Watches, Open, Respawned
<1> QED
  BY <1>1, <1>2 DEF Waiter

LEMMA DeciderSole ==
  ASSUME TypeOK, ForeignBorn, Sole, Decider
  PROVE  Sole' /\ (Open' => Open)
<1>f. foreign' = foreign
  BY DEF Decider, DeciderChecks, DeciderGets, DeciderDecides, DeciderApplies,
     DeciderSleeps, DeciderSpawns, DeciderAdopts, DeciderMarks, kernel
<1> USE <1>f
<1>1. CASE DeciderChecks \/ DeciderDecides
  <2>1. /\ UNCHANGED <<caller, target, proc, events, waiter, watched, fresh, life>>
        /\ ~Respawned' /\ (Deciding' => Deciding)
    BY <1>1 DEF DeciderChecks, DeciderDecides, DeciderAt, object, kernel, Respawned, Deciding
  <2>2. (NoneTold => NoneTold') /\ OneTold'
    BY <2>1 DEF Sole, Exclusive, NoneTold, OneTold
  <2> QED
    BY <2>1, <2>2, SoleKept DEF Sole, Concerns, Starting, Respawned, Watches
<1>2. CASE DeciderGets
  <2>1. /\ decider = "get" /\ decider' \in {"check", "decide"}
        /\ UNCHANGED <<caller, target, proc, waiter, watched, fresh, life>>
    BY <1>2 DEF DeciderGets, DeciderAt, kernel
  <2>2. ~Respawned' /\ ~Deciding /\ ~Respawned /\ (Starting' <=> Starting)
    BY <2>1 DEF Respawned, Deciding, Starting
  <2>3. CASE decider' = "check"
    <3>1. \/ UNCHANGED events
          \/ events # <<>> /\ events' = Tail(events)
      BY <1>2, <2>3 DEF DeciderGets, DeciderAt
    <3>2. (NoneTold => NoneTold') /\ OneTold'
      BY <3>1, Taken DEF Sole, Exclusive, NoneTold, OneTold
    <3> QED
      BY <2>1, <2>2, <2>3, <3>2, SoleKept DEF Sole, Concerns, Deciding, Watches
  <2>4. CASE decider' = "decide"
    <3>1. events # <<>> /\ events' = Tail(events) /\ Head(events) # "other"
      BY <1>2, <2>4 DEF DeciderGets, DeciderAt
    <3>2. ~NoneTold /\ NoneTold' /\ OneTold'
      BY <3>1, Taken DEF Sole, Exclusive
    <3>3. Children = {} /\ Children' = Children
      BY <2>1, <3>2 DEF Sole, Concerns, Children, Live, IsAlive
    <3>4. ~Starting' /\ \A w \in Pid : ~Watches(w)'
      BY <2>1, <2>2, <3>2 DEF Sole, Exclusive, Watches
    <3>5. OneChild' /\ OwnBorn' /\ Open
      BY <2>1, <3>2, <3>3 DEF Sole, OneChild, OwnBorn, Open
    <3> QED
      BY <2>2, <2>4, <3>2, <3>3, <3>4, <3>5 DEF Sole, Exclusive, Concerns, Watches
  <2> QED
    BY <2>1, <2>3, <2>4
<1>3. CASE DeciderApplies \/ DeciderSleeps
  <2>1. /\ Deciding /\ decider' \in {"check", "sleep", "spawn"}
        /\ UNCHANGED <<caller, target, waiter, watched, fresh, life>>
        /\ events' \in {events, Emitted(events, "other")}
    BY <1>3 DEF DeciderApplies, DeciderSleeps, DeciderAt, Transition, kernel, Deciding
  <2>2. (NoneTold => NoneTold') /\ OneTold'
    BY <2>1, Unmoved DEF Sole, Exclusive
  <2>3. ~Starting /\ ~Starting' /\ ~Respawned' /\ decider' # "mark"
    BY <2>1 DEF Sole, Exclusive, Starting, Respawned
  <2>4. \A w \in Pid : ~Watches(w) /\ ~Watches(w)'
    BY <2>1 DEF Sole, Exclusive, Watches
  <2> QED
    BY <2>1, <2>2, <2>3, <2>4, SoleKept DEF Watches
<1>4. CASE DeciderSpawns
  <2>1. /\ decider = "spawn" /\ decider' \in {"adopt", "check"}
        /\ UNCHANGED <<caller, target, proc, waiter, watched>>
        /\ events' \in {events, Emitted(events, "other")}
    BY <1>4 DEF DeciderSpawns, DeciderAt, Transition
  <2>2. Deciding /\ ~Deciding' /\ Children = {} /\ NoneTold /\ OneTold /\ Open
    BY <2>1 DEF Sole, Exclusive, Concerns, Deciding, Open
  <2>3. NoneTold' /\ OneTold'
    BY <2>1, <2>2, Unmoved
  <2>4. ~Starting /\ ~Starting' /\ \A w \in Pid : ~Watches(w) /\ ~Watches(w)'
    BY <2>1, <2>2 DEF Sole, Exclusive, Starting, Watches
  <2>5. CASE decider' = "check" /\ life' = life
    <3>1. ~Respawned' /\ decider' # "mark"
      BY <2>5 DEF Respawned
    <3> QED
      BY <2>2, <2>3, <2>4, <2>5, <3>1, SoleKept DEF Watches
  <2>6. CASE decider' = "adopt" /\ \E p \in Pid : Spawned(p) /\ fresh' = p
    <3>1. PICK p \in Pid : Spawned(p) /\ fresh' = p
      BY <2>6
    <3>2. life' = [life EXCEPT ![p] = "alive"] /\ life'[p] = "alive"
      BY <3>1 DEF Spawned, TypeOK
    <3>3. Children' \subseteq {p} /\ OwnBorn'
      <4>1. p \notin foreign
        BY <3>1 DEF Spawned, ForeignBorn
      <4> QED
        BY <2>2, <3>2, <4>1 DEF Children, Live, IsAlive, TypeOK, OwnBorn
    <3>4. OneChild'
      BY <3>3 DEF OneChild
    <3> QED
      BY <2>2, <2>3, <2>4, <2>6, <3>1, <3>3, <3>4 DEF Sole, Exclusive, Concerns, Watches
  <2> QED
    BY <1>4, <2>5, <2>6 DEF DeciderSpawns, DeciderAt
<1>5. CASE DeciderAdopts
  <2>1. /\ decider = "adopt" /\ decider' = "mark" /\ proc' = fresh /\ Respawned
        /\ UNCHANGED <<caller, target, events, waiter, watched, fresh, life>>
    BY <1>5 DEF DeciderAdopts, DeciderAt, kernel, Respawned
  <2>2. ~Starting /\ ~Starting' /\ ~Deciding' /\ \A w \in Pid : ~Watches(w) /\ ~Watches(w)'
    BY <2>1 DEF Sole, Exclusive, Starting, Watches, Deciding
  <2>3. (NoneTold => NoneTold') /\ OneTold'
    BY <2>1 DEF Sole, Exclusive, NoneTold, OneTold
  <2> QED
    BY <2>1, <2>2, <2>3, SoleKept DEF Watches
<1>6. CASE DeciderMarks
  <2>1. /\ decider = "mark" /\ decider' = "check" /\ Respawned
        /\ waiter' = [waiter EXCEPT ![fresh] = "new"]
        /\ UNCHANGED <<caller, target, proc, watched, life>>
        /\ events' = Emitted(events, "other")
    BY <1>6 DEF DeciderMarks, DeciderAt, Transition, kernel, Respawned
  <2>2. /\ ~Starting /\ NoneTold /\ OneTold /\ \A w \in Pid : ~Watches(w)
        /\ Children \subseteq {fresh} /\ proc \in {fresh, None} /\ Open /\ OwnBorn
    BY <2>1 DEF Sole, Exclusive, Concerns, Open
  <2>3. NoneTold' /\ OneTold'
    BY <2>1, <2>2, Unmoved
  <2>4. ~Starting' /\ ~Respawned' /\ ~Deciding' /\ decider' # "mark"
    BY <2>1, <2>2 DEF Starting, Respawned, Deciding
  <2>5. \A w \in Pid : waiter'[w] \in {"new", "waiting"} => w = fresh /\ waiter'[w] = "new"
    <3>1. waiter \in [Pid -> {"none", "new", "waiting", "done"}]
      BY DEF TypeOK
    <3> QED
      BY <2>1, <2>2, <3>1 DEF Watches
  <2>6. Children' = Children /\ OwnBorn' /\ OneChild'
    BY <2>1, <2>2 DEF Children, Live, IsAlive, OwnBorn, OneChild
  <2>7. Exclusive'
    BY <2>3, <2>4, <2>5 DEF Exclusive, Watches
  <2>8. Concerns'
    BY <2>1, <2>2, <2>3, <2>4, <2>5, <2>6 DEF Concerns, Watches
  <2> QED
    BY <2>2, <2>6, <2>7, <2>8 DEF Sole
<1> QED
  BY <1>1, <1>2, <1>3, <1>4, <1>5, <1>6 DEF Decider

\* A process stays spawned, and only the end of the CLI process disowns any.
LEMMA ForeignStep ==
  ASSUME TypeOK, ForeignBorn, [Next]_vars
  PROVE  ForeignBorn'
<1>1. ASSUME NEW p \in Pid, life[p] # "unborn"
      PROVE  life'[p] # "unborn"
  <2>1. CASE Enter
    BY <1>1, <2>1 DEF Enter, StartSpawns, Spawned, StartRefused, StopCalled, Sweep, Reopen,
       kernel, TypeOK
  <2>2. CASE Proceed
    BY <1>1, <2>2 DEF Proceed, StartMarks, StartThreads, StopMarks, StopTerms, StopWaits,
       StopJoins, StopClears, kernel, TypeOK
  <2>3. CASE \E q \in Pid : Waiter(q) \/ Exits(q)
    BY <1>1, <2>3 DEF Waiter, WaiterBegins, WaiterReports, Exits, kernel, TypeOK
  <2>4. CASE Decider
    BY <1>1, <2>4 DEF Decider, DeciderChecks, DeciderGets, DeciderDecides, DeciderApplies,
       DeciderSleeps, DeciderSpawns, Spawned, DeciderAdopts, DeciderMarks, kernel, TypeOK
  <2>5. CASE Readiness
    BY <1>1, <2>5 DEF Readiness, ReadinessChecks, ReadinessProbes, ReadinessMarks, kernel
  <2>6. CASE UNCHANGED vars
    BY <1>1, <2>6 DEF vars, kernel
  <2> QED
    BY <2>1, <2>2, <2>3, <2>4, <2>5, <2>6 DEF Next
<1>2. foreign' = foreign \/ foreign' = {p \in Pid : life[p] # "unborn"}
  <2>1. CASE Enter
    BY <2>1 DEF Enter, StartSpawns, StartRefused, StopCalled, Sweep, Reopen, kernel
  <2>2. CASE Proceed
    BY <2>2 DEF Proceed, StartMarks, StartThreads, StopMarks, StopTerms, StopWaits,
       StopJoins, StopClears, kernel
  <2>3. CASE \E q \in Pid : Waiter(q) \/ Exits(q)
    BY <2>3 DEF Waiter, WaiterBegins, WaiterReports, Exits, kernel
  <2>4. CASE Decider
    BY <2>4 DEF Decider, DeciderChecks, DeciderGets, DeciderDecides, DeciderApplies,
       DeciderSleeps, DeciderSpawns, DeciderAdopts, DeciderMarks, kernel
  <2>5. CASE Readiness
    BY <2>5 DEF Readiness, ReadinessChecks, ReadinessProbes, ReadinessMarks, kernel
  <2>6. CASE UNCHANGED vars
    BY <2>6 DEF vars, kernel
  <2> QED
    BY <2>1, <2>2, <2>3, <2>4, <2>5, <2>6 DEF Next
<1>3. foreign \subseteq Pid
  BY DEF TypeOK
<1> QED
  BY <1>1, <1>2, <1>3 DEF ForeignBorn

\* What the decider, a waiter or a starter has under way is the only thing that can
\* spawn a kernel, and by then the last one is dead.
LEMMA OneStep ==
  ASSUME TypeOK, ForeignBorn, Sole, Remaining, [Next]_vars
  PROVE  Sole' /\ Remaining'
<1>1. CASE Enter
  BY <1>1, EnterSole
<1>2. CASE Proceed
  <2>1. script' = script /\ (OwnBorn' => OwnBorn)
    BY <1>2 DEF Proceed, StartMarks, StartThreads, StopMarks, StopTerms, StopWaits,
       StopJoins, StopClears, kernel, OwnBorn, TypeOK, IsAlive
  <2> QED
    BY <1>2, <2>1, ProceedSole, ScriptRemains
<1>3. ASSUME NEW p \in Pid, Waiter(p)
      PROVE  Sole' /\ Remaining'
  <2>1. script' = script /\ (OwnBorn' => OwnBorn)
    BY <1>3 DEF Waiter, WaiterBegins, WaiterReports, kernel, OwnBorn
  <2> QED
    BY <1>3, <2>1, WaiterSole, ScriptRemains
<1>4. CASE Decider
  <2>1. script' = script /\ (OwnBorn' => OwnBorn)
    <3>1. CASE DeciderSpawns
      BY <3>1 DEF DeciderSpawns, DeciderAt, Sole, Open, Deciding
    <3>2. CASE ~DeciderSpawns
      BY <1>4, <3>2 DEF Decider, DeciderChecks, DeciderGets, DeciderDecides, DeciderApplies,
         DeciderSleeps, DeciderAdopts, DeciderMarks, kernel, OwnBorn
    <3> QED
      BY <3>1, <3>2
  <2> QED
    BY <1>4, <2>1, DeciderSole, ScriptRemains
<1>5. ASSUME UNCHANGED <<script, caller, target, proc, waiter, watched, decider, fresh,
                         foreign>>,
             events' \in {events, Emitted(events, "other")},
             \A p \in Pid : /\ life'[p] # "unborn" <=> life[p] # "unborn"
                            /\ life'[p] \in {"alive", "terming"} => life[p] \in {"alive", "terming"}
      PROVE  Sole' /\ Remaining'
  <2>1. (NoneTold => NoneTold') /\ OneTold'
    BY <1>5, Unmoved DEF Sole, Exclusive
  <2>2. Sole' /\ (Open' => Open)
    BY <1>5, <2>1, SoleKept DEF Sole, Concerns, Starting, Respawned, Deciding, Watches
  <2>3. OwnBorn' => OwnBorn
    BY <1>5 DEF OwnBorn
  <2> QED
    BY <1>5, <2>2, <2>3, ScriptRemains
<1>6. ASSUME NEW p \in Pid, Exits(p)
      PROVE  Sole' /\ Remaining'
  BY <1>5, <1>6 DEF Exits, IsAlive, object, own, TypeOK
<1>7. CASE Readiness
  BY <1>5, <1>7 DEF Readiness, ReadinessChecks, ReadinessProbes, ReadinessMarks, Transition,
     object, kernel
<1>8. CASE UNCHANGED vars
  BY <1>5, <1>8 DEF vars, object, own, kernel
<1> QED
  BY <1>1, <1>2, <1>3, <1>4, <1>6, <1>7, <1>8 DEF Next

\* One kernel process at a time among the children of a CLI process (KernelSupervisor:
\* "One supervised LCA kernel subprocess"), for every script that starts an object at
\* most once, restarts of an adopted kernel included: a retry follows a death, whatever
\* stop, the sweep, the waiters and the decider do meanwhile.
THEOREM OneChildAtATime == UsedProperly /\ Spec => []OneChild
<1>1. UsedProperly /\ Init => ForeignBorn /\ Sole /\ Remaining
  <2> SUFFICES ASSUME UsedProperly, Init PROVE ForeignBorn /\ Sole /\ Remaining
    OBVIOUS
  <2>0. ForeignBorn
    BY DEF Init, ForeignBorn
  <2>1. /\ ~Starting /\ ~Respawned /\ ~Deciding /\ Children = {} /\ ~OwnBorn
        /\ \A w \in Pid : waiter[w] = "none"
        /\ decider = "off"
    BY DEF Init, Starting, Respawned, Deciding, Children, Live, IsAlive, OwnBorn
  <2>2. NoneTold /\ OneTold
    BY EmptySeq DEF Init, NoneTold, OneTold
  <2>3. ~Open
    BY <2>1, <2>2 DEF Open, Watches
  <2>4. Exclusive /\ Concerns /\ OneChild
    BY <2>1, <2>2 DEF Exclusive, Concerns, OneChild, Watches
  <2>5. OneStart(script)
    BY DEF UsedProperly, Init
  <2> QED
    BY <2>0, <2>1, <2>3, <2>4, <2>5 DEF Sole, Remaining
<1>2. IInv => TypeOK
  BY DEF IInv, Shape
<1>3. Sole => OneChild
  BY DEF Sole
<1> QED
  BY <1>1, <1>2, <1>3, OneStep, ForeignStep, Invariance, PTL DEF Spec
=============================================================================
