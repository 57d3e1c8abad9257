-------------------------- MODULE KernelSupervisor --------------------------
(***************************************************************************)
(* The local kernel supervisor of lca-ops: one KernelSupervisor object in  *)
(* a CLI process, the thread that calls it, the waiter threads, the        *)
(* decider thread and the readiness thread, and the kernel processes it    *)
(* spawns.  A kernel process outlives the CLI process; the next one finds  *)
(* it through the state file, as a _PhantomProc it can signal but not wait *)
(* for.                                                                    *)
(*                                                                         *)
(* Kernel processes are numbered in the order they are spawned, 0 stands   *)
(* for None.  The waiter thread started for the spawn of p is waiter p.    *)
(***************************************************************************)
EXTENDS Integers, Sequences

CONSTANTS
  Scripts,       \* sequences of calls a user of the supervisor makes
  MaxSpawns,     \* bound: kernel processes spawned
  StartRetries,  \* ProgramConfig.startretries
  AutoRestart,   \* ProgramConfig.autorestart
  SpawnMayFail   \* Popen may raise OSError

\* "cli_start" is start behind the check for a live kernel; "sweep" the SIGTERM
\* sent to every live kernel after stop; "reopen" the end of the CLI process and
\* the begin of the next one.
Call == {"start", "cli_start", "stop", "sweep", "reopen"}

ASSUME SupervisorAssumption ==
  /\ Scripts \subseteq Seq(Call)
  /\ MaxSpawns \in Nat /\ StartRetries \in Nat
  /\ AutoRestart \in BOOLEAN /\ SpawnMayFail \in BOOLEAN

Pid  == 1..MaxSpawns
None == 0

ProgramState == {"stopped", "starting", "running", "backoff", "fatal", "stopping"}
Exit         == {"clean", "error"}

VARIABLES
  script,     \* calls still to make
  caller,     \* where the calling thread is in start or stop
  target,     \* the process start spawned, or stop is stopping
  state,      \* _state
  proc,       \* _proc
  phantom,    \* _proc is a _PhantomProc
  count,      \* _restart_count
  stopEvent,  \* _stop_event is set
  events,     \* _events: an exit code for "died", "other" for the rest
  threads,    \* _threads: the first waiter in the list, None: an empty list
  file,       \* the state file
  waiter,     \* where each waiter thread is
  watched,    \* the process each waiter thread waits for
  decider,    \* where the decider thread is
  decision,   \* the outcome of decide_restart it applies
  fresh,      \* the process it spawned last
  readiness,  \* where the readiness thread is
  life,       \* each kernel process; "terming": it has been sent SIGTERM
  code,       \* how each kernel process exited
  foreign     \* the processes whose parent, an earlier CLI process, has ended

object == <<state, proc, phantom, count, stopEvent, events, threads, file>>
own    == <<waiter, watched, decider, decision, fresh, readiness>>
kernel == <<life, code, foreign>>
vars   == <<script, caller, target, object, own, kernel>>

Init ==
  /\ script \in Scripts
  /\ caller = "idle" /\ target = None
  /\ state = "stopped" /\ proc = None /\ phantom = FALSE /\ count = 0
  /\ stopEvent = FALSE /\ events = <<>> /\ threads = None
  /\ file = [state |-> "stopped", pid |-> None, count |-> 0]
  /\ waiter = [p \in Pid |-> "none"] /\ watched = [p \in Pid |-> None]
  /\ decider = "off" /\ decision = "none" /\ fresh = None
  /\ readiness = "off"
  /\ life = [p \in Pid |-> "unborn"] /\ code = [p \in Pid |-> "clean"]
  /\ foreign = {}

-----------------------------------------------------------------------------
(* Building blocks                                                         *)

IsAlive(p) == p \in Pid /\ life[p] \in {"alive", "terming"}
Live       == {p \in Pid : IsAlive(p)}
Children   == Live \ foreign

\* _emit.  Events nobody acts on are told from deaths only, and a row of them
\* counts once: the decider drops them one by one and looks at the stop event.
Emitted(queue, e) ==
  IF e = "other" /\ queue # <<>> /\ queue[Len(queue)] = "other"
  THEN queue ELSE Append(queue, e)

\* Mutant: the event kind is taken for the state.
TransitionToKind(new, p) ==
  /\ state' = IF new = "starting" THEN "spawned" ELSE new
  /\ file' = [state |-> new, pid |-> p, count |-> count]
  /\ events' = Emitted(events, "other")

\* _transition: the state, the snapshot in the state file, the event.
Transition(new, p) ==
  /\ state' = new
  /\ file' = [state |-> new, pid |-> p, count |-> count]
  /\ events' = Emitted(events, "other")

\* Popen returns process p.
Spawned(p) ==
  /\ life[p] = "unborn" /\ \A q \in 1..(p - 1) : life[q] # "unborn"
  /\ life' = [life EXCEPT ![p] = "alive"]

\* Mutant: one retry too many.
DecideRestartOneMore(exit, userStopped) ==
  IF userStopped THEN "stopped"
  ELSE IF exit = "clean" /\ ~AutoRestart THEN "stopped"
  ELSE IF count > StartRetries THEN "fatal" ELSE "backoff"

\* decide_restart
DecideRestart(exit, userStopped) ==
  IF userStopped THEN "stopped"
  ELSE IF exit = "clean" /\ ~AutoRestart THEN "stopped"
  ELSE IF count >= StartRetries THEN "fatal" ELSE "backoff"

-----------------------------------------------------------------------------
(* start                                                                   *)

Calls(kinds) == caller = "idle" /\ script # <<>> /\ Head(script) \in kinds
MayStart ==
  /\ state \notin {"running", "starting"}
  /\ Head(script) = "cli_start" => Live = {}

\* start up to the assignment of _proc.
StartSpawns ==
  /\ Calls({"start", "cli_start"}) /\ MayStart
  /\ \E p \in Pid : Spawned(p) /\ proc' = p /\ target' = p
  /\ phantom' = FALSE
  /\ script' = Tail(script)
  /\ caller' = "mark"
  /\ UNCHANGED <<state, count, stopEvent, events, threads, file, own, code, foreign>>

\* The program is up, or the CLI found a live kernel; or Popen raised.
StartRefused ==
  /\ Calls({"start", "cli_start"})
  /\ \/ ~MayStart /\ UNCHANGED <<state, file, events>>
     \/ MayStart /\ SpawnMayFail /\ Transition("fatal", proc)
  /\ script' = Tail(script)
  /\ UNCHANGED <<caller, target, proc, phantom, count, stopEvent, threads, own, kernel>>

StartMarks ==
  /\ caller = "mark"
  /\ Transition("starting", proc)
  /\ caller' = "threads"
  /\ UNCHANGED <<script, target, proc, phantom, count, stopEvent, threads, own, kernel>>

\* _spawn_threads: nothing when the list is not empty.
StartThreads ==
  /\ caller = "threads"
  /\ \/ threads # None /\ UNCHANGED <<stopEvent, threads, waiter, decider, readiness>>
     \/ /\ threads = None
        /\ threads' = target
        /\ stopEvent' = FALSE
        /\ waiter' = [waiter EXCEPT ![target] = "new"]
        /\ decider' = "check"
        /\ readiness' = "check"
  /\ caller' = "idle"
  /\ target' = None
  /\ UNCHANGED <<script, state, proc, phantom, count, events, file, watched,
                 decision, fresh, kernel>>

-----------------------------------------------------------------------------
(* stop                                                                    *)

\* stop: nothing to do without a process, else capture it and set the event.
StopCalled ==
  /\ Calls({"stop"})
  /\ script' = Tail(script)
  /\ \/ proc = None /\ UNCHANGED <<caller, target, stopEvent>>
     \/ proc # None /\ caller' = "stopping" /\ target' = proc /\ stopEvent' = TRUE
  /\ UNCHANGED <<state, proc, phantom, count, events, threads, file, own, kernel>>

StopMarks ==
  /\ caller = "stopping"
  /\ Transition("stopping", proc)
  /\ caller' = "term"
  /\ UNCHANGED <<script, target, proc, phantom, count, stopEvent, threads, own, kernel>>

StopTerms ==
  /\ caller = "term"
  /\ life' = [life EXCEPT ![target] = IF @ = "alive" THEN "terming" ELSE @]
  /\ caller' = "wait"
  /\ UNCHANGED <<script, target, object, own, code, foreign>>

\* Mutant: a process that ignores SIGTERM is left alone.
StopWaitsNoKill ==
  /\ caller = "wait"
  /\ caller' = "join"
  /\ UNCHANGED <<script, target, object, own, kernel>>

\* Mutant: the wait has no deadline.
StopWaitsForever ==
  /\ caller = "wait"
  /\ phantom \/ ~IsAlive(target)
  /\ caller' = "join"
  /\ UNCHANGED <<script, target, object, own, kernel>>

\* wait: a child has exited, or is killed when the deadline passes.  A phantom is
\* no child of this process: waitpid fails and wait returns at once.
StopWaits ==
  /\ caller = "wait"
  /\ \/ (phantom \/ ~IsAlive(target)) /\ UNCHANGED kernel
     \/ /\ ~phantom /\ IsAlive(target)
        /\ life' = [life EXCEPT ![target] = "dead"]
        /\ code' = [code EXCEPT ![target] = "error"]
        /\ UNCHANGED foreign
  /\ caller' = "join"
  /\ UNCHANGED <<script, target, object, own>>

\* Mutant: stop does not wait for its threads.
ThreadsEndedAnyway == TRUE

\* Every thread in the list has ended.
ThreadsEnded ==
  threads # None => decider = "off" /\ readiness = "off" /\ waiter[threads] = "done"

\* _join_threads; its time limit is longer than any wait of a thread.
StopJoins ==
  /\ caller = "join"
  /\ ThreadsEnded
  /\ threads' = None
  /\ caller' = "clear"
  /\ UNCHANGED <<script, target, state, proc, phantom, count, stopEvent, events, file,
                 own, kernel>>

StopClears ==
  /\ caller = "clear"
  /\ proc' = None
  /\ phantom' = FALSE
  /\ Transition("stopped", None)
  /\ caller' = "idle"
  /\ target' = None
  /\ UNCHANGED <<script, count, stopEvent, threads, own, kernel>>

-----------------------------------------------------------------------------
(* The CLI                                                                 *)

\* _kill_orphans
Sweep ==
  /\ Calls({"sweep"})
  /\ script' = Tail(script)
  /\ life' = [p \in Pid |-> IF life[p] = "alive" THEN "terming" ELSE life[p]]
  /\ UNCHANGED <<caller, target, object, own, code, foreign>>

\* The CLI process exits, its daemon threads with it; the next one builds its
\* supervisor from the state file if the process named there is alive.
Reopen ==
  LET found == IsAlive(file.pid) IN
  /\ Calls({"reopen"})
  /\ script' = Tail(script)
  /\ state' = IF found THEN file.state ELSE "stopped"
  /\ proc' = IF found THEN file.pid ELSE None
  /\ phantom' = found
  /\ count' = IF found THEN file.count ELSE 0
  /\ file' = IF found THEN file ELSE [state |-> "stopped", pid |-> None, count |-> 0]
  /\ stopEvent' = FALSE /\ events' = <<>> /\ threads' = None
  /\ waiter' = [p \in Pid |-> "none"] /\ watched' = [p \in Pid |-> None]
  /\ decider' = "off" /\ decision' = "none" /\ fresh' = None /\ readiness' = "off"
  /\ foreign' = {p \in Pid : life[p] # "unborn"}
  /\ UNCHANGED <<caller, target, life, code>>

-----------------------------------------------------------------------------
(* The waiter threads                                                      *)

\* _waiter_loop reads _proc when the thread begins.
WaiterBegins(w) ==
  /\ waiter[w] = "new"
  /\ waiter' = [waiter EXCEPT ![w] = IF proc = None THEN "done" ELSE "waiting"]
  /\ watched' = [watched EXCEPT ![w] = proc]
  /\ UNCHANGED <<script, caller, target, object, decider, decision, fresh, readiness,
                 kernel>>

\* proc.wait returns.
WaiterReports(w) ==
  /\ waiter[w] = "waiting" /\ life[watched[w]] = "dead"
  /\ events' = Emitted(events, code[watched[w]])
  /\ waiter' = [waiter EXCEPT ![w] = "done"]
  /\ UNCHANGED <<script, caller, target, state, proc, phantom, count, stopEvent,
                 threads, file, watched, decider, decision, fresh, readiness, kernel>>

-----------------------------------------------------------------------------
(* The decider thread                                                      *)

DeciderAt(here, there) == decider = here /\ decider' = there

DeciderChecks ==
  /\ DeciderAt("check", IF stopEvent THEN "off" ELSE "get")
  /\ UNCHANGED <<script, caller, target, object, waiter, watched, decision, fresh,
                 readiness, kernel>>

\* Mutant: every event is taken for a death, one without an exit code for an error.
DeciderGetsAny ==
  /\ \/ /\ events = <<>> /\ stopEvent
        /\ DeciderAt("get", "check") /\ UNCHANGED <<events, decision>>
     \/ /\ events # <<>>
        /\ DeciderAt("get", "decide") /\ events' = Tail(events)
        /\ decision' = IF Head(events) = "other" THEN "error" ELSE Head(events)
  /\ UNCHANGED <<script, caller, target, state, proc, phantom, count, stopEvent,
                 threads, file, waiter, watched, fresh, readiness, kernel>>

\* The event at the head of the queue; nothing within the time limit.
DeciderGets ==
  /\ \/ /\ events = <<>> /\ stopEvent
        /\ DeciderAt("get", "check") /\ UNCHANGED <<events, decision>>
     \/ /\ events # <<>> /\ Head(events) = "other"
        /\ DeciderAt("get", "check") /\ events' = Tail(events) /\ UNCHANGED decision
     \/ /\ events # <<>> /\ Head(events) # "other"
        /\ DeciderAt("get", "decide") /\ events' = Tail(events)
        /\ decision' = Head(events)
  /\ UNCHANGED <<script, caller, target, state, proc, phantom, count, stopEvent,
                 threads, file, waiter, watched, fresh, readiness, kernel>>

DeciderDecides ==
  /\ DeciderAt("decide", "apply")
  /\ decision' = DecideRestart(decision, stopEvent)
  /\ UNCHANGED <<script, caller, target, object, waiter, watched, fresh, readiness,
                 kernel>>

\* _apply_decision up to the sleep.
DeciderApplies ==
  /\ \/ /\ decision \in {"stopped", "fatal"}
        /\ proc' = None /\ phantom' = FALSE
        /\ DeciderAt("apply", "check")
        /\ Transition(decision, None)
     \/ /\ decision = "backoff"
        /\ DeciderAt("apply", "sleep")
        /\ Transition(decision, proc)
        /\ UNCHANGED <<proc, phantom>>
  /\ decision' = "none"
  /\ UNCHANGED <<script, caller, target, count, stopEvent, threads, waiter, watched,
                 fresh, readiness, kernel>>

\* _sleep_with_stop: the stop event ends it; else the retry is counted.
DeciderSleeps ==
  /\ \/ stopEvent /\ DeciderAt("sleep", "check") /\ UNCHANGED <<count, events>>
     \/ /\ ~stopEvent /\ DeciderAt("sleep", "spawn")
        /\ count' = count + 1 /\ events' = Emitted(events, "other")
  /\ UNCHANGED <<script, caller, target, state, proc, phantom, stopEvent, threads, file,
                 waiter, watched, decision, fresh, readiness, kernel>>

\* _respawn up to the return of Popen.
DeciderSpawns ==
  /\ \/ \E p \in Pid : /\ Spawned(p) /\ fresh' = p
                       /\ DeciderAt("spawn", "adopt")
                       /\ UNCHANGED <<state, file, events>>
     \/ /\ SpawnMayFail /\ DeciderAt("spawn", "check")
        /\ Transition("fatal", proc) /\ UNCHANGED <<life, fresh>>
  /\ UNCHANGED <<script, caller, target, proc, phantom, count, stopEvent, threads,
                 waiter, watched, decision, readiness, code, foreign>>

DeciderAdopts ==
  /\ DeciderAt("adopt", "mark")
  /\ proc' = fresh /\ phantom' = FALSE
  /\ UNCHANGED <<script, caller, target, state, count, stopEvent, events, threads, file,
                 waiter, watched, decision, fresh, readiness, kernel>>

\* Mutant: the new process has no waiter.
DeciderMarksOnly ==
  /\ DeciderAt("mark", "check")
  /\ Transition("starting", proc)
  /\ fresh' = None
  /\ UNCHANGED <<script, caller, target, proc, phantom, count, stopEvent, threads,
                 waiter, watched, decision, readiness, kernel>>

\* The end of _respawn: STARTING, and a waiter for the new process.
DeciderMarks ==
  /\ DeciderAt("mark", "check")
  /\ Transition("starting", proc)
  /\ waiter' = [waiter EXCEPT ![fresh] = "new"]
  /\ fresh' = None
  /\ UNCHANGED <<script, caller, target, proc, phantom, count, stopEvent, threads,
                 watched, decision, readiness, kernel>>

-----------------------------------------------------------------------------
(* The readiness thread                                                    *)

ReadinessAt(here, there) == readiness = here /\ readiness' = there

ReadinessChecks ==
  /\ \/ stopEvent /\ ReadinessAt("check", "off")
     \/ ~stopEvent /\ state = "starting" /\ ReadinessAt("check", "probe")
  /\ UNCHANGED <<script, caller, target, object, waiter, watched, decider, decision,
                 fresh, kernel>>

\* Any process listening on the port answers the probe.
ReadinessProbes ==
  /\ \/ Live # {} /\ ReadinessAt("probe", "mark")
     \/ ReadinessAt("probe", "check")
  /\ UNCHANGED <<script, caller, target, object, waiter, watched, decider, decision,
                 fresh, kernel>>

ReadinessMarks ==
  /\ ReadinessAt("mark", "check")
  /\ Transition("running", proc)
  /\ UNCHANGED <<script, caller, target, proc, phantom, count, stopEvent, threads,
                 waiter, watched, decider, decision, fresh, kernel>>

-----------------------------------------------------------------------------
(* The kernel processes                                                    *)

Exits(p) ==
  /\ IsAlive(p)
  /\ life' = [life EXCEPT ![p] = "dead"]
  /\ \E e \in Exit : code' = [code EXCEPT ![p] = e]
  /\ UNCHANGED <<script, caller, target, object, own, foreign>>

-----------------------------------------------------------------------------
Enter == StartSpawns \/ StartRefused \/ StopCalled \/ Sweep \/ Reopen

\* The rest of a call once it is made.
Proceed == \/ StartMarks \/ StartThreads
           \/ StopMarks \/ StopTerms \/ StopWaits \/ StopJoins \/ StopClears

Waiter(w) == WaiterBegins(w) \/ WaiterReports(w)

Decider == \/ DeciderChecks \/ DeciderGets \/ DeciderDecides \/ DeciderApplies
           \/ DeciderSleeps \/ DeciderSpawns \/ DeciderAdopts \/ DeciderMarks

Readiness == ReadinessChecks \/ ReadinessProbes \/ ReadinessMarks

Next ==
  \/ Enter \/ Proceed
  \/ \E p \in Pid : Waiter(p) \/ Exits(p)
  \/ Decider \/ Readiness

Spec == Init /\ [][Next]_vars

\* Threads are scheduled, waits have time limits; nobody has to make a call and
\* no kernel process has to exit.
Fairness ==
  /\ WF_vars(Proceed)
  /\ \A p \in Pid : WF_vars(Waiter(p))
  /\ WF_vars(Decider)
  /\ WF_vars(Readiness)

FairSpec == Spec /\ Fairness
-----------------------------------------------------------------------------
(* Properties                                                              *)

\* Every variable has the shape of the field it stands for; the queue only holds
\* what _emit puts there and the state file always names a ProgramState.
TypeOK ==
  /\ script \in Seq(Call)
  /\ caller \in {"idle", "mark", "threads", "stopping", "term", "wait", "join", "clear"}
  /\ target \in Pid \cup {None}
  /\ state \in ProgramState
  /\ proc \in Pid \cup {None}
  /\ phantom \in BOOLEAN
  /\ count \in Nat
  /\ stopEvent \in BOOLEAN
  /\ events \in Seq(Exit \cup {"other"})
  /\ threads \in Pid \cup {None}
  /\ file \in [state : ProgramState, pid : Pid \cup {None}, count : Nat]
  /\ waiter \in [Pid -> {"none", "new", "waiting", "done"}]
  /\ watched \in [Pid -> Pid \cup {None}]
  /\ decider \in {"off", "check", "get", "decide", "apply", "sleep", "spawn", "adopt",
                   "mark"}
  /\ decision \in Exit \cup {"none", "stopped", "fatal", "backoff"}
  /\ fresh \in Pid \cup {None}
  /\ readiness \in {"off", "check", "probe", "mark"}
  /\ life \in [Pid -> {"unborn", "alive", "terming", "dead"}]
  /\ code \in [Pid -> Exit]
  /\ foreign \subseteq Pid

\* One kernel process at a time among those this CLI process spawned (KernelSupervisor:
\* "One supervised LCA kernel subprocess"): a retry follows a death.  An adopted one
\* may outlive the stop of a restart and run beside the next.
OneChild == \A p, q \in Children : p = q

\* The decider never retries more often than startretries (decide_restart, rule 3).
RetriesBounded == count <= StartRetries

\* When stop has joined its threads, the child it was called for is dead: SIGKILL
\* follows SIGTERM when the deadline passes.
StopEndsChild == caller \in {"join", "clear"} /\ ~phantom => ~IsAlive(target)

\* Once stop has joined its threads no thread of the supervisor spawns a kernel
\* process: only a call to start does (stop, _sleep_with_stop, decide_restart rule 1).
NoSpawnAfterStop ==
  [][ stopEvent /\ caller \in {"clear", "idle"} /\ caller' # "mark"
      => \A p \in Pid : life[p] = "unborn" => life'[p] = "unborn" ]_vars

\* The death of a supervised child is acted upon: the supervisor retries or gives up,
\* or stop is called, or the CLI process ends (waiter, decider).  A readiness mark
\* that comes late may still hide the outcome afterwards.
DeathIsHandled ==
  \A p \in Pid :
    ( /\ proc = p /\ ~phantom /\ life[p] = "dead" /\ waiter[p] # "done"
      /\ state \in {"starting", "running"} )
    ~> (proc # p \/ phantom \/ state \in {"backoff", "fatal", "stopped"} \/ stopEvent)

\* A call to stop returns, even when the kernel ignores SIGTERM.
StopReturns == caller = "stopping" ~> caller = "idle"

-----------------------------------------------------------------------------
(* The inductive invariant                                                 *)

\* A waiter that blocks in proc.wait has a process to wait for.
Watching == \A w \in Pid : waiter[w] = "waiting" => watched[w] \in Pid

\* A retry that has been decided on has not been counted yet.
RetryLeft ==
  decider = "sleep" \/ (decider = "apply" /\ decision = "backoff") => count < StartRetries

\* What the state file remembers is within the budget as well.
FileInBudget == file.count <= StartRetries

\* A process somebody refers to has been spawned.
Born(p) == p # None => life[p] # "unborn"
RefersToBorn == Born(proc) /\ Born(target) /\ Born(fresh)

\* A phantom has no threads: they ended with the CLI process that spawned it.
PhantomAlone == phantom => decider = "off" /\ caller \notin {"mark", "threads"}

Shape  == TypeOK /\ Watching
Budget == RetriesBounded /\ RetryLeft /\ FileInBudget
Child  == RefersToBorn /\ PhantomAlone /\ StopEndsChild

\* The parts are inductive one after the other; together they give the retry budget
\* and the end of the child that stop was called for.
IInv == Shape /\ Budget /\ Child
=============================================================================
