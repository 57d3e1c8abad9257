---------------------------- MODULE RunLifecycle ----------------------------
(***************************************************************************)
(* The life of a run in the HTTP carrier: RunLifecycleCoordinator,         *)
(* RunTerminalCoordinator, RegistryRunCommands, RunSessionIndex and the    *)
(* resume-bundle recovery.  One asyncio event loop runs the request        *)
(* handlers, one task per execution and one task per accepted answer, so   *)
(* an action is the code between two suspension points of one of them.     *)
(*                                                                         *)
(* A session <<r, n>> is one RunSession object of run r: n = 0 is the one  *)
(* the create handler builds, n > 0 the n-th one rebuilt from the run's    *)
(* resume bundle.  The questions a run asks are numbered 1, 2, ...; the    *)
(* task that resumes a session with the answer to question a is task a,    *)
(* the task that executes it is task 0, and Closer is the cancel handler   *)
(* when it terminalizes the session itself.                                *)
(***************************************************************************)
EXTENDS Integers, FiniteSets

CONSTANTS
  Runs,         \* run ids
  Keys,         \* fingerprints of requests (run_dedup_key)
  DedupKey,     \* the fingerprint of each run's request
  Clients,      \* front ends that may post an answer to the same run
  KeyOf,        \* the idempotency key of the answer a client gives to a question,
                \* named by one of the answers that carry it
  MaxAsks,      \* bound: questions a run asks
  MaxRestores,  \* bound: sessions rebuilt per run
  MaxCrashes,   \* bound: kernel restarts
  MaxTerminal,  \* RunSessionIndex.max_terminal
  Faults,       \* "bundle", "flush": a disk write that may fail; "swallow": a
                \* driver that absorbs the CancelledError it is sent
  NoRun         \* no run holds the lease

ASSUME RunAssumption ==
  /\ DedupKey \in [Runs -> Keys]
  /\ NoRun \notin Runs
  /\ MaxAsks \in Nat /\ MaxRestores \in Nat /\ MaxCrashes \in Nat
  /\ MaxTerminal \in Nat
  /\ Faults \subseteq {"bundle", "flush", "swallow"}

\* The resume handler makes the key of run, tool call and parent message: answers of
\* two front ends, or to two questions, may carry the same one.
ASSUME KeyAssumption ==
  KeyOf \in [Clients \X (1..MaxAsks) -> Clients \X (1..MaxAsks)]

Session == Runs \X (0..MaxRestores)
Ask     == 1..MaxAsks
Execute == 0
Task    == 0..MaxAsks
Closer  == -1
NoTask  == -2
Worker  == Task \cup {Closer}

InFlight == {"pending", "running"}
Terminal == {"completed", "failed", "canceled"}
\* "absent": not built yet; "lost": it was in the memory of a killed kernel.
Status   == InFlight \cup Terminal \cup {"waiting_input", "absent", "lost"}

\* Where a worker is suspended: before its first step, in the loop driver, in
\* persist_waiting_projection, in the run finalizers, in the terminal
\* projection and export flush; "killed" unwound without finishing the hook.
Live    == {"ready", "drive", "pause", "final", "closing"}
Control == Live \cup {"idle", "done", "killed"}

VARIABLES
  status,      \* RunSession.status
  cancelReq,   \* RunSession.cancel_requested
  cur,         \* RunSession.task
  ask,         \* RunSession.approval_request: the question last asked
  cache,       \* snapshot and runnable: "none", "unnamed" (the request has no
               \* approval_id) or "named"
  keys,        \* RunSession.accepted_answer_keys
  stamped,     \* RunSession.closed_at is not None
  closed,      \* RunSession._closed
  pc,          \* where each worker of a session is
  cancelling,  \* tasks a CancelledError is about to reach
  absorbed,    \* tasks that absorbed one: task.cancelling() stays above 0
  index,       \* RunSessionIndex._sessions
  lease,       \* RunSessionIndex._inflight_by_key
  bundle,      \* question in resume_bundle.json on disk, 0: no file
  artifact,    \* outcome in journal.json on disk
  restoring,   \* bundle held under the run's recovery lock, 0: lock free
  raised,      \* questions the run has asked so far
  accepted,    \* every <<client, question>> an answer was accepted from
  crashes      \* kernel restarts so far

memory   == <<status, cancelReq, cur, ask, cache, keys, stamped, closed, pc,
              cancelling, absorbed, index, lease, restoring>>
disk     == <<bundle, artifact>>
history  == <<raised, accepted, crashes>>
vars     == <<memory, disk, history>>

Init ==
  /\ status     = [s \in Session |-> "absent"]
  /\ cancelReq  = [s \in Session |-> FALSE]
  /\ cur        = [s \in Session |-> NoTask]
  /\ ask        = [s \in Session |-> 0]
  /\ cache      = [s \in Session |-> "none"]
  /\ keys       = [s \in Session |-> {}]
  /\ stamped    = [s \in Session |-> FALSE]
  /\ closed     = [s \in Session |-> FALSE]
  /\ pc         = [s \in Session |-> [w \in Worker |-> "idle"]]
  /\ cancelling = [s \in Session |-> {}]
  /\ absorbed   = [s \in Session |-> {}]
  /\ index      = {}
  /\ lease      = [k \in Keys |-> NoRun]
  /\ bundle     = [r \in Runs |-> 0]
  /\ artifact   = [r \in Runs |-> "none"]
  /\ restoring  = [r \in Runs |-> 0]
  /\ raised     = [r \in Runs |-> 0]
  /\ accepted   = [r \in Runs |-> {}]
  /\ crashes    = 0

-----------------------------------------------------------------------------
(* RunSessionIndex                                                         *)

\* The lease table after the runs in rs gave up their lease (clear_inflight).
Released(rs) == [k \in Keys |-> IF lease[k] \in rs THEN NoRun ELSE lease[k]]

RunsOf(S) == {s[1] : s \in S}
Indexed(r) == {s \in index : s[1] = r}

\* The session sets one prune may leave: sessions past their retention time go,
\* then the oldest beyond max_terminal, unstamped ones (sort key 0.0) first.
\* Time is abstracted: any stamped terminal session may have expired.
PruneResults ==
  LET terminal == {s \in index : status[s] \in Terminal}
      Overflow(kept) == {d \in SUBSET kept :
        /\ Cardinality(d) = IF Cardinality(kept) > MaxTerminal
                            THEN Cardinality(kept) - MaxTerminal ELSE 0
        /\ \A x \in d, y \in kept \ d : stamped[x] => stamped[y]}
  IN UNION {{index \ (expired \cup d) : d \in Overflow(terminal \ expired)} :
              expired \in SUBSET {s \in terminal : stamped[s]}}

\* Mutant: only a run already executing counts as a duplicate.
CoalescibleRunningOnly(k, S) ==
  \E s \in S : s[1] = Released(RunsOf(index \ S))[k] /\ status[s] = "running"

\* find_inflight_run on the index S after a prune.
Coalescible(k, S) ==
  \E s \in S : s[1] = Released(RunsOf(index \ S))[k] /\ status[s] \in InFlight

-----------------------------------------------------------------------------
(* Building blocks                                                         *)

Suspended(s, w, where) == pc[s][w] = where
Goto(s, w, where) == pc' = [pc EXCEPT ![s][w] = where]
NotCancelled(s, w) == w \notin cancelling[s]
\* task_cancelled: cancellation pending or delivered
TaskCancelled(s, w) == w \in cancelling[s] \cup absorbed[s]

\* Mutant: cancel leaves the status to the task it cancels.
RequestCancelFlagOnly(s) ==
  /\ cancelReq' = [cancelReq EXCEPT ![s] = TRUE]
  /\ UNCHANGED status

\* cancel marks the session before it touches the task.
RequestCancel(s) ==
  /\ status' = [status EXCEPT ![s] = "canceled"]
  /\ cancelReq' = [cancelReq EXCEPT ![s] = TRUE]

\* The done callback schedule_run leaves on the execute task.
MarkCancelled(s, t) ==
  IF t = Execute /\ TaskCancelled(s, t)
  THEN RequestCancel(s)
  ELSE UNCHANGED <<status, cancelReq>>

\* Mutant: only what the worker itself sees of the cancellation counts.
DerivedStatusOwnTask(s, w, success) ==
  IF w \in cancelling[s] THEN "canceled"
  ELSE IF success THEN "completed" ELSE "failed"

\* derive_terminal_status: a requested cancellation outranks the outcome.
DerivedStatus(s, w, success) ==
  IF cancelReq[s] \/ TaskCancelled(s, cur[s]) \/ TaskCancelled(s, w)
  THEN "canceled"
  ELSE IF success THEN "completed" ELSE "failed"

\* terminalize up to its first await, the run finalizers.
EnterTerminal(s, w, outcome) ==
  /\ status' = [status EXCEPT ![s] = outcome]
  /\ cancelReq' = [cancelReq EXCEPT ![s] = @ \/ outcome = "canceled"]
  /\ stamped' = [stamped EXCEPT ![s] = TRUE]
  /\ Goto(s, w, "final")

-----------------------------------------------------------------------------
(* Creating and executing a run                                            *)

\* create_and_dispatch finds no duplicate: build, index, schedule.
Create(r) ==
  LET s == <<r, 0>> IN
  /\ status[s] = "absent"
  /\ \E S \in PruneResults :
       /\ ~Coalescible(DedupKey[r], S)
       /\ index' = S \cup {s}
       /\ lease' = [Released(RunsOf(index \ S)) EXCEPT ![DedupKey[r]] = r]
  /\ status' = [status EXCEPT ![s] = "pending"]
  /\ cur' = [cur EXCEPT ![s] = Execute]
  /\ Goto(s, Execute, "ready")
  /\ UNCHANGED <<cancelReq, ask, cache, keys, stamped, closed, cancelling, absorbed,
                 restoring, disk, history>>

\* create_and_dispatch answers with the run already in flight.
Coalesce(k) ==
  /\ \E S \in PruneResults :
       /\ Coalescible(k, S)
       /\ index' = S
       /\ lease' = Released(RunsOf(index \ S))
  /\ UNCHANGED <<status, cancelReq, cur, ask, cache, keys, stamped, closed, pc,
                 cancelling, absorbed, restoring, disk, history>>

\* The execute task's first step.
Start(s) ==
  /\ Suspended(s, Execute, "ready") /\ NotCancelled(s, Execute)
  /\ s \in index
  /\ status' = [status EXCEPT ![s] = "running"]
  /\ Goto(s, Execute, "drive")
  /\ UNCHANGED <<cancelReq, cur, ask, cache, keys, stamped, closed, cancelling, absorbed,
                 index, lease, restoring, disk, history>>

\* The first step of the task that carries the answer to question a.
Resume(s, a) ==
  /\ Suspended(s, a, "ready") /\ NotCancelled(s, a)
  /\ status' = [status EXCEPT ![s] = "running"]
  /\ Goto(s, a, "drive")
  /\ UNCHANGED <<cancelReq, cur, ask, cache, keys, stamped, closed, cancelling, absorbed,
                 index, lease, restoring, disk, history>>

\* The driver returns with a question.  A resumed run is marked paused here, an
\* executed one only when the pause is settled.
DriverAsks(s, t, c) ==
  LET a == raised[s[1]] + 1 IN
  /\ Suspended(s, t, "drive") /\ NotCancelled(s, t)
  /\ a \in Ask
  /\ status' = [status EXCEPT ![s] = "waiting_input"]
  /\ ask' = [ask EXCEPT ![s] = a]
  /\ cache' = [cache EXCEPT ![s] = c]
  /\ raised' = [raised EXCEPT ![s[1]] = a]
  /\ lease' = IF t = Execute THEN lease ELSE Released({s[1]})
  /\ Goto(s, t, "pause")
  /\ UNCHANGED <<cancelReq, cur, keys, stamped, closed, cancelling, absorbed, index,
                 restoring, disk, accepted, crashes>>

\* The driver returns a conclusion, or raises: record the failure, terminalize.
DriverEnds(s, t, success) ==
  /\ Suspended(s, t, "drive") /\ NotCancelled(s, t)
  /\ EnterTerminal(s, t, DerivedStatus(s, t, success))
  /\ UNCHANGED <<cur, ask, cache, keys, closed, cancelling, absorbed, index, lease,
                 restoring, disk, history>>

\* CancelledError reaches the driver's await: mark, then terminalize.
DriverCancelled(s, t) ==
  /\ Suspended(s, t, "drive") /\ ~NotCancelled(s, t)
  /\ EnterTerminal(s, t, "canceled")
  /\ UNCHANGED <<cur, ask, cache, keys, closed, cancelling, absorbed, index, lease,
                 restoring, disk, history>>

\* CancelledError reaches an await whose code suppresses it: the driver goes on.
DriverAbsorbs(s, t) ==
  /\ "swallow" \in Faults
  /\ Suspended(s, t, "drive") /\ ~NotCancelled(s, t)
  /\ cancelling' = [cancelling EXCEPT ![s] = @ \ {t}]
  /\ absorbed' = [absorbed EXCEPT ![s] = @ \cup {t}]
  /\ UNCHANGED <<status, cancelReq, cur, ask, cache, keys, stamped, closed, pc,
                 index, lease, restoring, disk, history>>

\* CancelledError reaches a task before its first step or in the waiting
\* projection: neither place has a handler, the task just ends.
TaskKilled(s, t) ==
  /\ pc[s][t] \in {"ready", "pause"} /\ ~NotCancelled(s, t)
  /\ MarkCancelled(s, t)
  /\ Goto(s, t, "killed")
  /\ UNCHANGED <<cur, ask, cache, keys, stamped, closed, cancelling, absorbed, index,
                 lease, restoring, disk, history>>

\* Mutant: a bundle that exists is taken to be current.
WriteBundleOnce(s) ==
  \/ cache[s] = "named" /\ bundle[s[1]] = 0 /\ bundle' = [bundle EXCEPT ![s[1]] = ask[s]]
  \/ (cache[s] # "named" \/ bundle[s[1]] # 0) /\ UNCHANGED bundle

\* write_resume_bundle, best-effort, from what the session holds by now.
WriteBundle(s) ==
  \/ cache[s] = "named" /\ bundle' = [bundle EXCEPT ![s[1]] = ask[s]]
  \/ (cache[s] # "named" \/ "bundle" \in Faults) /\ UNCHANGED bundle

\* The rest of _finish_or_pause: bundle, paused artifacts, release the lease;
\* then the task is done.
PauseSettles(s, t) ==
  LET r == s[1] IN
  /\ Suspended(s, t, "pause") /\ NotCancelled(s, t)
  /\ WriteBundle(s)
  /\ \/ s[2] = 0 /\ artifact' = [artifact EXCEPT ![r] = "paused"]
     \/ (s[2] # 0 \/ "flush" \in Faults) /\ UNCHANGED artifact
  /\ lease' = Released({r})
  /\ MarkCancelled(s, t)
  /\ Goto(s, t, "done")
  /\ UNCHANGED <<cur, ask, cache, keys, stamped, closed,
                 cancelling, absorbed, index, restoring, history>>

-----------------------------------------------------------------------------
(* Terminalizing                                                           *)

\* Mutant: the status value is written as it is.
JournalOutcomeRaw(st) == st

\* journal_outcome_from_session
JournalOutcome(st) == IF st = "canceled" THEN "stopped"
                      ELSE IF st = "waiting_input" THEN "paused" ELSE st

\* terminalize after the finalizers: release the lease, prune, materialize.  A
\* failed flush raises out of the hook; a rebuilt session has nothing to flush.
Materialize(s, w) ==
  LET r == s[1] IN
  /\ Suspended(s, w, "final")
  /\ \E S \in PruneResults :
       /\ index' = S
       /\ lease' = Released(RunsOf(index \ S) \cup RunsOf(Indexed(r)))
  /\ \/ /\ s[2] = 0
        /\ artifact' = [artifact EXCEPT ![r] = JournalOutcome(status[s])]
        /\ Goto(s, w, "closing")
     \/ /\ s[2] # 0
        /\ Goto(s, w, "closing")
        /\ UNCHANGED artifact
     \/ /\ s[2] = 0 /\ "flush" \in Faults
        /\ Goto(s, w, "killed")
        /\ UNCHANGED artifact
  /\ UNCHANGED <<status, cancelReq, cur, ask, cache, keys, stamped, closed,
                 cancelling, absorbed, restoring, bundle, history>>

\* Mutant: a session with nothing to flush is not closed.
CloseUnlessRebuilt(s, w) ==
  /\ Suspended(s, w, "closing")
  /\ closed' = [closed EXCEPT ![s] = s[2] = 0]
  /\ MarkCancelled(s, w)
  /\ Goto(s, w, "done")
  /\ UNCHANGED <<cur, ask, cache, keys, stamped, cancelling, absorbed, index, lease,
                 restoring, disk, history>>

\* The terminal projection and the export flush are over: session.close.
Close(s, w) ==
  /\ Suspended(s, w, "closing")
  /\ closed' = [closed EXCEPT ![s] = TRUE]
  /\ MarkCancelled(s, w)
  /\ Goto(s, w, "done")
  /\ UNCHANGED <<cur, ask, cache, keys, stamped, cancelling, absorbed, index, lease,
                 restoring, disk, history>>

-----------------------------------------------------------------------------
(* Commands                                                                *)

CurLive(s) == cur[s] \in Task /\ pc[s][cur[s]] \in Live

\* Mutant: cancel terminalizes without waiting for the task to unwind.
CancelWithoutAwait(s) ==
  /\ s \in index
  /\ status[s] \notin Terminal
  /\ ~closed[s]
  /\ EnterTerminal(s, Closer, "canceled")
  /\ cancelling' = IF CurLive(s) THEN [cancelling EXCEPT ![s] = @ \cup {cur[s]}]
                   ELSE cancelling
  /\ UNCHANGED <<cur, ask, cache, keys, closed, absorbed, index, lease,
                 restoring, disk, history>>

\* cancel: a no-op on a terminal run; cancels a live task, else terminalizes.
Cancel(s) ==
  /\ s \in index
  /\ status[s] \notin Terminal
  /\ \/ /\ CurLive(s)
        /\ RequestCancel(s)
        /\ cancelling' = [cancelling EXCEPT ![s] = @ \cup {cur[s]}]
        /\ UNCHANGED <<stamped, pc>>
     \/ /\ ~CurLive(s)
        /\ ~closed[s]
        /\ EnterTerminal(s, Closer, "canceled")
        /\ UNCHANGED cancelling
  /\ UNCHANGED <<cur, ask, cache, keys, closed, absorbed, index, lease,
                 restoring, disk, history>>

\* Mutant: any session that still has a runnable may be resumed.
MayResumeAnyStatus(s) == cache[s] # "none"

\* An answer whose idempotency key is recorded is a replay.
Recorded(s, k) == k \in keys[s]
\* The gates an answer that is no replay must pass.
MayResume(s) == status[s] = "waiting_input" /\ cache[s] # "none"

\* resume_approval accepts the answer client c gives to question a it was shown.
\* Which question is pending is not compared with a; an answer whose key is recorded
\* is told "resumed" and changes nothing, be it a replay or not.
Answer(s, c, a) ==
  /\ s \in index
  /\ a \in 1..raised[s[1]]
  /\ ~Recorded(s, KeyOf[<<c, a>>])
  /\ MayResume(s)
  /\ status' = [status EXCEPT ![s] = "running"]
  /\ keys' = [keys EXCEPT ![s] = @ \cup {KeyOf[<<c, a>>]}]
  /\ accepted' = [accepted EXCEPT ![s[1]] = @ \cup {<<c, a>>}]
  /\ cur' = [cur EXCEPT ![s] = ask[s]]
  /\ Goto(s, ask[s], "ready")
  /\ UNCHANGED <<cancelReq, ask, cache, stamped, closed, cancelling, absorbed, index,
                 lease, restoring, disk, raised, crashes>>

-----------------------------------------------------------------------------
(* Restarts and recovery                                                   *)

\* restore_waiting_run up to the first await under the recovery lock.
RestoreBegin(r) ==
  /\ Indexed(r) = {}
  /\ bundle[r] # 0
  /\ restoring[r] = 0
  /\ restoring' = [restoring EXCEPT ![r] = bundle[r]]
  /\ UNCHANGED <<status, cancelReq, cur, ask, cache, keys, stamped, closed, pc,
                 cancelling, absorbed, index, lease, disk, history>>

\* The session is rebuilt and indexed; its answer keys start empty.
RestoreEnd(r, n) ==
  LET s == <<r, n>> IN
  /\ restoring[r] # 0
  /\ status[s] = "absent"
  /\ n > 0 /\ (n > 1 => status[<<r, n - 1>>] # "absent")
  /\ status' = [status EXCEPT ![s] = "waiting_input"]
  /\ ask' = [ask EXCEPT ![s] = restoring[r]]
  /\ cache' = [cache EXCEPT ![s] = "named"]
  /\ index' = index \cup {s}
  /\ lease' = [lease EXCEPT ![DedupKey[r]] = r]
  /\ restoring' = [restoring EXCEPT ![r] = 0]
  /\ UNCHANGED <<cancelReq, cur, keys, stamped, closed, pc, cancelling, absorbed, disk,
                 history>>

\* The rebuild raised: the lock is released and nothing is indexed.
RestoreFails(r) ==
  /\ restoring[r] # 0
  /\ restoring' = [restoring EXCEPT ![r] = 0]
  /\ UNCHANGED <<status, cancelReq, cur, ask, cache, keys, stamped, closed, pc,
                 cancelling, absorbed, index, lease, disk, history>>

\* The kernel process dies: only the files survive.
Crash ==
  /\ crashes < MaxCrashes
  /\ crashes' = crashes + 1
  /\ status' = [s \in Session |->
                  IF status[s] = "absent" THEN "absent" ELSE "lost"]
  /\ pc' = [s \in Session |-> [w \in Worker |-> "idle"]]
  /\ cur' = [s \in Session |-> NoTask]
  /\ cancelling' = [s \in Session |-> {}]
  /\ absorbed' = [s \in Session |-> {}]
  /\ index' = {}
  /\ lease' = [k \in Keys |-> NoRun]
  /\ restoring' = [r \in Runs |-> 0]
  /\ UNCHANGED <<cancelReq, ask, cache, keys, stamped, closed, disk, raised,
                 accepted>>

-----------------------------------------------------------------------------
Requests ==
  \/ \E r \in Runs : Create(r) \/ RestoreBegin(r)
  \/ \E k \in Keys : Coalesce(k)
  \/ \E s \in Session : Cancel(s)
  \/ \E s \in Session, c \in Clients, a \in Ask : Answer(s, c, a)

Driver(s, t) ==
  \/ \E c \in {"none", "unnamed", "named"} : DriverAsks(s, t, c)
  \/ \E success \in BOOLEAN : DriverEnds(s, t, success)
  \/ DriverCancelled(s, t) \/ DriverAbsorbs(s, t)

\* The steps an event loop that keeps running takes by itself.
Loop(s) ==
  \/ Start(s)
  \/ \E a \in Ask : Resume(s, a)
  \/ \E t \in Task : TaskKilled(s, t) \/ PauseSettles(s, t)
  \/ \E w \in Worker : Materialize(s, w) \/ Close(s, w)

Recovery(r) == RestoreFails(r) \/ \E n \in 1..MaxRestores : RestoreEnd(r, n)

Next ==
  \/ Requests
  \/ \E s \in Session : Loop(s)
  \/ \E s \in Session, t \in Task : Driver(s, t)
  \/ \E r \in Runs : Recovery(r)
  \/ Crash

Spec == Init /\ [][Next]_vars

\* The event loop runs ready tasks, awaits on the database, finalizers and
\* exporters end, and a driver stops at its step budget and its timeouts.
Fairness ==
  /\ \A s \in Session : WF_vars(Loop(s))
  /\ \A s \in Session, t \in Task : WF_vars(Driver(s, t))
  /\ \A r \in Runs : WF_vars(Recovery(r))

FairSpec == Spec /\ Fairness
=============================================================================
