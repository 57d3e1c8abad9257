----------------------- MODULE RunLifecycleProperties -----------------------
(***************************************************************************)
(* What the carrier promises about a run, stated over RunLifecycle.        *)
(***************************************************************************)
EXTENDS RunLifecycle

\* Every variable has the shape of the object it stands for; a session always
\* names a real question and a run's journal.json carries an outcome of the
\* JournalMetadata vocabulary (read/runs/live.py).
TypeOK ==
  /\ status \in [Session -> Status]
  /\ cancelReq \in [Session -> BOOLEAN]
  /\ cur \in [Session -> Task \cup {NoTask}]
  /\ ask \in [Session -> 0..MaxAsks]
  /\ cache \in [Session -> {"none", "unnamed", "named"}]
  /\ keys \in [Session -> SUBSET (Clients \X Ask)]
  /\ stamped \in [Session -> BOOLEAN]
  /\ closed \in [Session -> BOOLEAN]
  /\ pc \in [Session -> [Worker -> Control]]
  /\ cancelling \in [Session -> SUBSET Task]
  /\ absorbed \in [Session -> SUBSET Task]
  /\ index \subseteq Session
  /\ lease \in [Keys -> Runs \cup {NoRun}]
  /\ bundle \in [Runs -> 0..MaxAsks]
  /\ artifact \in [Runs -> {"none", "paused", "completed", "failed", "stopped"}]
  /\ restoring \in [Runs -> 0..MaxAsks]
  /\ raised \in [Runs -> 0..MaxAsks]
  /\ accepted \in [Runs -> SUBSET (Clients \X Ask)]
  /\ crashes \in 0..MaxCrashes

-----------------------------------------------------------------------------
(* Helpers                                                                 *)

\* Task t of session s is going to run the agent loop, or runs it.
Drives(s, t) == pc[s][t] \in {"ready", "drive"} /\ NotCancelled(s, t)

\* No worker of the session has a step left.
Quiet(s) == \A w \in Worker : pc[s][w] \notin Live

-----------------------------------------------------------------------------
(* Safety                                                                  *)

\* At most one task drives the agent loop of a run, across its execute task,
\* its resume tasks and every session rebuilt for it (schedule_run: "the sole
\* carrier for asynchronous execution"; the resume_approval gate; the recovery
\* lock).  A task a cancellation is about to reach no longer counts.
SoleDriver ==
  \A s1, s2 \in Session : s1[1] = s2[1] =>
    \A t1, t2 \in Task : Drives(s1, t1) /\ Drives(s2, t2)
                           => s1 = s2 /\ t1 = t2

\* A session that reads pending or running has a current task that will start
\* or runs: no status without a driver (cancel, resume_approval, execute).
NoOrphanRun ==
  \A s \in Session : status[s] \in InFlight => cur[s] \in Task /\ Drives(s, cur[s])

\* terminalize is entered by one worker of a session, and by none after the
\* session is closed: cancel terminalizes only what no task will terminalize.
TerminalizedOnce ==
  \A s \in Session :
    /\ \A w1, w2 \in Worker : {pc[s][w1], pc[s][w2]} \subseteq {"final", "closing"}
                                => w1 = w2
    /\ closed[s] => \A w \in Worker : pc[s][w] \notin {"ready", "drive", "final", "closing"}

\* A run that completed or failed, and has no step left, has been closed: its
\* hub is shut, its lease released and its artifacts are on disk (terminalize).
EndedRunIsClosed ==
  \A s \in Session : status[s] \in {"completed", "failed"} /\ Quiet(s) => closed[s]

\* Once cancellation is requested the run never ends as completed or failed
\* (derive_terminal_status), even if the driver absorbed the CancelledError.
CancelWins ==
  \A s \in Session : cancelReq[s] => status[s] \notin {"completed", "failed"}

\* When a pause has settled and its question can be named, the question the
\* session waits on is the one a kernel restart would bring back -- unless an
\* evicted session of the run is still in memory and may write its own bundle.
SettledPauseHasBundle ==
  \A s \in Session :
    ( /\ status[s] = "waiting_input" /\ cache[s] = "named" /\ Quiet(s)
      /\ \A x \in Session : x[1] = s[1] /\ x # s => status[x] \in {"absent", "lost"} )
    => bundle[s[1]] = ask[s]

\* Two runs of one request fingerprint are never both in flight before their
\* first question, unless a rebuilt session took the fingerprint's lease.
SingleFlight ==
  \A r1, r2 \in Runs :
    ( /\ r1 # r2 /\ DedupKey[r1] = DedupKey[r2]
      /\ \A r \in {r1, r2} : status[<<r, 0>>] \in InFlight /\ raised[r] = 0 )
    => \E s \in Session : /\ s[2] > 0 /\ status[s] # "absent"
                          /\ DedupKey[s[1]] = DedupKey[r1]

-----------------------------------------------------------------------------
(* What a step may never do                                                *)

\* A session in a terminal status stays in it while the kernel lives.
TerminalIsFinal ==
  [][\A s \in Session :
       status[s] \in Terminal => status'[s] \in {status[s], "lost"}]_vars

\* A question resumes a session at most once, however many front ends answer it, late
\* or under other keys, and whatever the task of the first answer has come to since
\* (resume_approval: the waiting_input gate; a run that asks again asks a new question).
AnsweredOnce ==
  [][\A s \in Session, a \in Ask :
       (pc[s][a] # "ready" /\ pc'[s][a] = "ready") => pc[s][a] = "idle"]_vars

\* The step starts a task that resumes run r at question a.
Resumes(r, a) == \E s \in Session : s[1] = r /\ pc[s][a] # "ready" /\ pc'[s][a] = "ready"

\* An answer resumes the run only at the question its sender was shown: of two
\* answers competing for a question, the loser never resumes the run.
LoserIsRejected ==
  [][\A r \in Runs, a \in Ask : Resumes(r, a) =>
       \A k \in accepted'[r] \ accepted[r] : k[2] = a]_vars

-----------------------------------------------------------------------------
(* The abstract specification                                              *)

SessionsOf(r) == {s \in Session : s[1] = r}

\* What a run is to its front ends, from the sessions built for it.
RunState(r) ==
  IF \E s \in SessionsOf(r) : status[s] \in InFlight THEN "working"
  ELSE IF \E s \in SessionsOf(r) : status[s] = "waiting_input" THEN "waiting"
  ELSE IF \A s \in SessionsOf(r) : status[s] = "absent" THEN "none"
  ELSE "over"

\* The tasks that run, or are about to run, its agent loop.
RunCarriers(r) == {c \in Session \X Task : c[1][1] = r /\ Drives(c[1], c[2])}

Ownership == INSTANCE RunOwnership
  WITH state <- [r \in Runs |-> RunState(r)],
       carriers <- [r \in Runs |-> RunCarriers(r)],
       Carrier <- Session \X Task

\* A run in flight has one carrier, any other none, and it changes hands only over
\* a question, through every interleaving of answers, cancellations, evictions and
\* restarts (schedule_run, resume_approval, cancel, restore_waiting_run).
OwnedByOne == Ownership!Spec

-----------------------------------------------------------------------------
(* Liveness                                                                *)

\* A run in flight eventually asks, ends, or dies with the kernel.
InFlightSettles ==
  \A s \in Session : status[s] \in InFlight ~> status[s] \notin InFlight

\* A run that entered terminalize is eventually closed, or dies with the kernel.
EndedRunCloses ==
  \A s \in Session : stamped[s] ~> (closed[s] \/ status[s] = "lost")

-----------------------------------------------------------------------------
(* The inductive invariant                                                 *)

\* Task t of session s is before its first step or in the driver.
AtWork(s, t) == pc[s][t] \in {"ready", "drive"}

\* Whoever works for a session is its current task; a worker in the terminal
\* hook has stamped a terminal status, and nobody works beside it.
Placed ==
  \A s \in Session :
    /\ \A t \in Task : AtWork(s, t) =>
         cur[s] = t /\ status[s] \in InFlight \cup {"canceled"}
    /\ \A w \in Worker : pc[s][w] = "final" => status[s] \in Terminal
    /\ \A t \in Task, w \in Worker : ~(AtWork(s, t) /\ pc[s][w] = "final")

\* The session has still to come to question t, or waits on it.
ToCome(s, t) == t > ask[s] \/ (t = ask[s] /\ status[s] = "waiting_input")

\* No session, file or recovery names a question its run has not asked.
AskedBefore ==
  /\ \A s \in Session : ask[s] <= raised[s[1]]
  /\ \A r \in Runs : restoring[r] <= raised[r] /\ bundle[r] <= raised[r]

\* What keeps a session in flight manned: its current task is at work and no
\* cancellation is on its way to it, because a cancellation marks the session
\* first and the task of a question that is still to come is untouched.
MannedAt(s) ==
  /\ status[s] \in InFlight => cur[s] \in Task /\ AtWork(s, cur[s])
  /\ cur[s] \in cancelling[s] => status[s] = "canceled"
  /\ \A t \in Ask : ToCome(s, t) => pc[s][t] = "idle" /\ t \notin cancelling[s]
  /\ status[s] = "waiting_input" => ask[s] # 0
  /\ status[s] = "absent" =>
       /\ ask[s] = 0 /\ cancelling[s] = {}
       /\ \A w \in Worker : pc[s][w] = "idle"

Manned == AskedBefore /\ \A s \in Session : MannedAt(s)

\* Cancellation marks the session before it reaches a task.
Marked ==
  \A s \in Session :
    /\ absorbed[s] = {}
    /\ cancelling[s] # {} => status[s] = "canceled"

\* A session is in flight exactly when its current task drives it.
Owned ==
  \A s \in Session :
    /\ \A t \in Task : Drives(s, t) => status[s] \in InFlight
    /\ status[s] \in InFlight => cur[s] \in Task /\ Drives(s, cur[s])

\* What is not over is indexed; a run has one indexed session, none while one
\* is being rebuilt; a run that was never created has left no trace.
Single ==
  /\ \A s \in Session : status[s] \in InFlight \cup {"waiting_input"} => s \in index
  /\ \A s1, s2 \in index : s1[1] = s2[1] => s1 = s2
  /\ \A s \in index : restoring[s[1]] = 0
  /\ \A s \in Session : status[<<s[1], 0>>] = "absent" =>
       /\ bundle[s[1]] = 0 /\ restoring[s[1]] = 0
       /\ s \notin index
       /\ \A w \in Worker : pc[s][w] = "idle"

\* The part that is inductive whatever the disk and the drivers do.
Safe == TypeOK /\ Placed

\* It and Manned need no assumption, and no orphan is left.
SafeManned == Safe /\ Manned

\* With CancelledError never absorbed: who drives a run, who is indexed for it and
\* what a cancellation has marked agree in every state the carrier reaches.
IInv == Safe /\ Marked /\ Owned /\ Single
=============================================================================
