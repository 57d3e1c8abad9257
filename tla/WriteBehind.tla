---------------------------- MODULE WriteBehind ----------------------------
(***************************************************************************)
(* How the events of a run reach <run_id>.spine.jsonl: Session.append      *)
(* calls SpineFileSink, which puts them in the run's WriteBehindBuffer; a  *)
(* timer thread or an explicit flush writes them in batches; the end of    *)
(* the run disposes of the buffer, and a session rebuilt for the same run  *)
(* gets another one for the same file.                                     *)
(*                                                                         *)
(* Appending, flushing and disposing happen on the thread of the event     *)
(* loop, the owner: each call returns before the next begins.  The timers  *)
(* of a buffer run on threads of their own.  An action is what is done     *)
(* under the buffer's lock, or one batch written to the file.              *)
(***************************************************************************)
EXTENDS Integers, Sequences

CONSTANTS
  MaxBuffers,  \* bound: buffers the registry makes for the run
  MaxTimers,   \* bound: timer threads alive at a time
  MaxEvents,   \* bound: events appended to the sessions of the run
  MaxFails     \* bound: writes the disk refuses

ASSUME WriteBehindAssumption ==
  /\ MaxBuffers \in Nat \ {0} /\ MaxTimers \in Nat \ {0}
  /\ MaxEvents \in Nat /\ MaxFails \in Nat

Buffer == 1..MaxBuffers
Timer  == 1..MaxTimers
Event  == 1..MaxEvents
None   == 0

VARIABLES
  committed,  \* events appended so far: the events are 1..committed
  current,    \* the registry's entry for the run, None: it has none
  made,       \* buffers made so far
  pending,    \* _pending: events, oldest first
  active,     \* _active_write
  paused,     \* _paused
  closed,     \* _closed of the buffer
  shut,       \* _closed of its sink
  ref,        \* _timer: the timer to cancel, or None
  timer,      \* a timer thread: where it is, its buffer, the batch it writes
  owner,      \* the event loop in a flush or a dispose: the same
  file,       \* the lines of the spine file
  vouched,    \* events appended before the last flush that reported success
  fails       \* writes refused so far

session == <<committed, vouched>>
buffer  == <<current, made, pending, active, paused, closed, shut, ref>>
disk    == <<file, fails>>
vars    == <<session, buffer, timer, owner, disk>>

TimerPlace == {"off", "armed", "fired", "write", "wrote", "failed", "notify", "rearm"}
OwnerPlace == {"idle", "flush", "drain", "flushFailed", "drainFailed", "close"}

NoTimer == [at |-> "off", of |-> None, batch |-> <<>>]
Idle    == [at |-> "idle", of |-> None, batch |-> <<>>]

Init ==
  /\ committed = 0 /\ vouched = 0
  /\ current = None /\ made = 0
  /\ pending = [b \in Buffer |-> <<>>]
  /\ active = [b \in Buffer |-> FALSE]
  /\ paused = [b \in Buffer |-> FALSE]
  /\ closed = [b \in Buffer |-> FALSE]
  /\ shut = [b \in Buffer |-> FALSE]
  /\ ref = [b \in Buffer |-> None]
  /\ timer = [t \in Timer |-> NoTimer]
  /\ owner = Idle
  /\ file = <<>> /\ fails = 0

-----------------------------------------------------------------------------
(* Parts of the operations                                                 *)

\* The thread a new timer gets: the first that is free, all being alike.
NewTimer == {t \in Timer : timer[t].at = "off" /\ \A u \in 1..(t - 1) : timer[u].at # "off"}

\* _arm_timer: a new timer thread, the one to cancel from now on.
Arm(b, t) ==
  /\ timer' = [timer EXCEPT ![t] = [at |-> "armed", of |-> b, batch |-> <<>>]]
  /\ ref' = [ref EXCEPT ![b] = t]

\* What cancelling timer c leaves of the threads: nothing changes for one that
\* has fired already.
Cancelled(c) ==
  [t \in Timer |-> IF t = c /\ timer[t].at = "armed" THEN NoTimer ELSE timer[t]]
\* Mutant: the cancelled timer is remembered.
CancelTimerKept(b) == timer' = Cancelled(ref[b]) /\ UNCHANGED ref
\* _cancel_timer
CancelTimer(b) == timer' = Cancelled(ref[b]) /\ ref' = [ref EXCEPT ![b] = None]

\* append_batch returns.
Written(b, batch) == ~shut[b] /\ file' = file \o batch /\ UNCHANGED fails

\* append_batch raises: the file is closed, or the disk refuses the write, the
\* flush (nothing is added) or the fsync (the lines are there).
Refused(b, batch) ==
  \/ shut[b] /\ UNCHANGED disk
  \/ /\ ~shut[b] /\ fails < MaxFails
     /\ fails' = fails + 1
     /\ file' \in {file, file \o batch}

-----------------------------------------------------------------------------
(* The event loop                                                          *)

\* Session.append up to enqueue; without an entry the registry makes a buffer.
\* An event that finds the buffer empty, no timer writing and no pause arms one.
Enqueue ==
  LET b == IF current = None THEN made + 1 ELSE current IN
  /\ owner = Idle /\ committed < MaxEvents
  /\ current # None \/ made < MaxBuffers
  /\ current' = b
  /\ made' = IF current = None THEN b ELSE made
  /\ committed' = committed + 1
  /\ pending' = [pending EXCEPT ![b] = Append(@, committed + 1)]
  /\ IF pending[b] = <<>> /\ ~active[b] /\ ~paused[b]
     THEN \E t \in NewTimer : Arm(b, t)
     ELSE UNCHANGED <<timer, ref>>
  /\ UNCHANGED <<vouched, active, paused, closed, shut, owner, disk>>

\* flush, up to its write; with nothing pending it reports success at once.
Flush ==
  /\ owner = Idle /\ current # None
  /\ CancelTimer(current)
  /\ paused' = [paused EXCEPT ![current] = FALSE]
  /\ pending' = [pending EXCEPT ![current] = <<>>]
  /\ IF pending[current] = <<>>
     THEN vouched' = committed /\ UNCHANGED owner
     ELSE /\ owner' = [at |-> "flush", of |-> current, batch |-> pending[current]]
          /\ UNCHANGED vouched
  /\ UNCHANGED <<committed, current, made, active, closed, shut, disk>>

\* The run's session is closed: the registry forgets the buffer, which takes no
\* more events and drains what is pending.
Dispose ==
  /\ owner = Idle /\ current # None
  /\ current' = None
  /\ CancelTimer(current)
  /\ closed' = [closed EXCEPT ![current] = TRUE]
  /\ pending' = [pending EXCEPT ![current] = <<>>]
  /\ owner' = [at |-> IF pending[current] = <<>> THEN "close" ELSE "drain",
               of |-> current, batch |-> pending[current]]
  /\ UNCHANGED <<session, made, active, paused, shut, disk>>

OwnerWrites ==
  /\ owner.at \in {"flush", "drain"}
  /\ Written(owner.of, owner.batch)
  /\ IF owner.at = "flush"
     THEN owner' = Idle /\ vouched' = committed
     ELSE owner' = [at |-> "close", of |-> owner.of, batch |-> <<>>] /\ UNCHANGED vouched
  /\ UNCHANGED <<committed, buffer, timer>>

OwnerRefused ==
  /\ owner.at \in {"flush", "drain"}
  /\ Refused(owner.of, owner.batch)
  /\ owner' = [owner EXCEPT !.at = IF @ = "flush" THEN "flushFailed" ELSE "drainFailed"]
  /\ UNCHANGED <<session, buffer, timer>>

\* Mutant: a failed flush reports success.
ReportedAnyway == vouched' = committed
\* The exception reaches the caller: Session.flush reports FlushResult(ok=False),
\* unbind_run_event_session suppresses it and the sink stays open.
Reported == UNCHANGED vouched

\* _write_batch puts the batch back in front of what came in the meantime.
OwnerPutsBack ==
  /\ owner.at \in {"flushFailed", "drainFailed"}
  /\ pending' = [pending EXCEPT ![owner.of] = owner.batch \o @]
  /\ owner' = Idle
  /\ Reported
  /\ UNCHANGED <<committed, current, made, active, paused, closed, shut, ref, timer, disk>>

CloseSink ==
  /\ owner.at = "close"
  /\ shut' = [shut EXCEPT ![owner.of] = TRUE]
  /\ owner' = Idle
  /\ UNCHANGED <<session, current, made, pending, active, paused, closed, ref, timer, disk>>

-----------------------------------------------------------------------------
(* Timer threads                                                           *)

\* Timer t is at `from' and goes on to `to'.
Goes(t, from, to) ==
  /\ timer[t].at = from
  /\ timer' = [timer EXCEPT ![t].at = to]

\* The window is over; from now on the timer cannot be cancelled.
Fires(t) ==
  /\ Goes(t, "armed", "fired")
  /\ UNCHANGED <<session, buffer, owner, disk>>

\* Mutant: the batch is copied, _pending is not emptied.
TakesCopy(t) ==
  LET b == timer[t].of IN
  /\ timer[t].at = "fired" /\ ~active[b] /\ ~paused[b] /\ pending[b] # <<>>
  /\ ref' = [ref EXCEPT ![b] = None]
  /\ timer' = [timer EXCEPT ![t].at = "write", ![t].batch = pending[b]]
  /\ active' = [active EXCEPT ![b] = TRUE]
  /\ UNCHANGED <<session, current, made, pending, paused, closed, shut, owner, disk>>

\* _on_timer_fired takes the batch, unless another write or a pause forbids it.
Takes(t) ==
  LET b == timer[t].of IN
  /\ timer[t].at = "fired"
  /\ ref' = [ref EXCEPT ![b] = None]
  /\ IF active[b] \/ paused[b] \/ pending[b] = <<>>
     THEN /\ timer' = [timer EXCEPT ![t] = NoTimer]
          /\ UNCHANGED <<pending, active>>
     ELSE /\ timer' = [timer EXCEPT ![t].at = "write", ![t].batch = pending[b]]
          /\ active' = [active EXCEPT ![b] = TRUE]
          /\ pending' = [pending EXCEPT ![b] = <<>>]
  /\ UNCHANGED <<session, current, made, paused, closed, shut, owner, disk>>

TimerWrites(t) ==
  /\ timer[t].at = "write"
  /\ Written(timer[t].of, timer[t].batch)
  /\ timer' = [timer EXCEPT ![t].at = "wrote", ![t].batch = <<>>]
  /\ UNCHANGED <<session, buffer, owner>>

TimerRefused(t) ==
  /\ Goes(t, "write", "failed")
  /\ Refused(timer[t].of, timer[t].batch)
  /\ UNCHANGED <<session, buffer, owner>>

\* Mutant: what came in during the write is forgotten.
RetainedAlone(batch, since) == batch
\* A failed batch goes in front of the events that came in during the write.
Retained(batch, since) == batch \o since

\* The failure handler puts the batch back and pauses the timers.
TimerPutsBack(t) ==
  LET b == timer[t].of IN
  /\ timer[t].at = "failed"
  /\ timer' = [timer EXCEPT ![t].at = "notify", ![t].batch = <<>>]
  /\ pending' = [pending EXCEPT ![b] = Retained(timer[t].batch, @)]
  /\ active' = [active EXCEPT ![b] = FALSE]
  /\ paused' = [paused EXCEPT ![b] = TRUE]
  /\ UNCHANGED <<session, current, made, closed, shut, ref, owner, disk>>

\* The finally clause; after a failure, once on_failure has returned.
Releases(t) ==
  /\ timer[t].at \in {"wrote", "notify"}
  /\ timer' = [timer EXCEPT ![t] =
                 IF @.at = "wrote" THEN [@ EXCEPT !.at = "rearm"] ELSE NoTimer]
  /\ active' = [active EXCEPT ![timer[t].of] = FALSE]
  /\ UNCHANGED <<session, current, made, pending, paused, closed, shut, ref, owner, disk>>

\* Mutant: the events that came in during the write wait for the next one.
WindowOverNever(b) == FALSE
\* Events came in during the write and nothing forbids another window.
WindowOver(b) == pending[b] # <<>> /\ ~paused[b]

\* After a successful write.
Rearms(t) ==
  LET b == timer[t].of IN
  /\ timer[t].at = "rearm"
  /\ IF WindowOver(b)
     THEN Arm(b, t)
     ELSE timer' = [timer EXCEPT ![t] = NoTimer] /\ UNCHANGED ref
  /\ UNCHANGED <<session, current, made, pending, active, paused, closed, shut, owner, disk>>

-----------------------------------------------------------------------------
Proceed == OwnerWrites \/ OwnerRefused \/ OwnerPutsBack \/ CloseSink
Owner == Enqueue \/ Flush \/ Dispose \/ Proceed

Thread(t) ==
  \/ Fires(t) \/ Takes(t) \/ TimerWrites(t) \/ TimerRefused(t)
  \/ TimerPutsBack(t) \/ Releases(t) \/ Rearms(t)

Next == Owner \/ \E t \in Timer : Thread(t)

Spec == Init /\ [][Next]_vars

\* A call in progress goes on and the timer threads are scheduled.  Nobody has
\* to append, to flush or to close the session.
FairSpec == Spec /\ WF_vars(Proceed) /\ \A t \in Timer : WF_vars(Thread(t))

-----------------------------------------------------------------------------
(* Properties                                                              *)

Has(s, n) == \E i \in 1..Len(s) : s[i] = n

OnDisk(n) == Has(file, n)
\* A timer thread has the event in its hands.
WithTimer(n) == \E t \in Timer : Has(timer[t].batch, n)
\* A timer thread could not write the event; it waits for the next flush.
SetBack(n) == \E b \in Buffer : paused[b] /\ Has(pending[b], n)
\* A buffer that takes no more events has it; no flush reaches it any more.
Abandoned(n) == \E b \in Buffer : closed[b] /\ Has(pending[b], n)

\* The timer a buffer would cancel is one of its own that has not run yet.
OwnTimer ==
  \A b \in Buffer : ref[b] # None =>
    timer[ref[b]].of = b /\ timer[ref[b]].at \in {"armed", "fired"}

\* What the fields hold; _timer is never left pointing at a timer that is done
\* (write_behind.py: _arm_timer, _cancel_timer, _on_timer_fired).
TypeOK ==
  /\ committed \in 0..MaxEvents /\ vouched \in 0..committed
  /\ current \in 0..made /\ made \in 0..MaxBuffers
  /\ pending \in [Buffer -> Seq(Event)]
  /\ active \in [Buffer -> BOOLEAN] /\ paused \in [Buffer -> BOOLEAN]
  /\ closed \in [Buffer -> BOOLEAN] /\ shut \in [Buffer -> BOOLEAN]
  /\ timer \in [Timer -> [at : TimerPlace, of : 0..MaxBuffers, batch : Seq(Event)]]
  /\ ref \in [Buffer -> 0..MaxTimers]
  /\ OwnTimer
  /\ owner \in [at : OwnerPlace, of : 0..MaxBuffers, batch : Seq(Event)]
  /\ file \in Seq(Event)
  /\ fails \in 0..MaxFails

\* No event is dropped, whatever the disk and the threads do: it is on disk, in
\* the hands of a writer, or pending (write_behind.py:7, 16: a failed write
\* puts the events back; REQUIRED events are never dropped).
KeptUntilWritten ==
  \A n \in 1..committed :
    \/ OnDisk(n) \/ WithTimer(n) \/ Has(owner.batch, n)
    \/ \E b \in Buffer : Has(pending[b], n)

\* As long as the disk refused nothing, no event has two lines in the file: a
\* batch is in one pair of hands at a time, whether a timer, a flush, a dispose or
\* a buffer made later for the same run takes it (write_behind.py: flush,
\* _on_timer_fired, _write_batch).  An fsync that fails after the write may repeat.
WrittenOnce ==
  fails = 0 => \A i, j \in 1..Len(file) : file[i] = file[j] => i = j

\* A flush that reports success leaves no event behind but those a timer thread
\* holds, or lost to the disk during the flush, and those of a closed session
\* (checkpoint_policy.py:18-20: the next step must not run otherwise).
CheckpointHolds ==
  [][vouched' # vouched =>
       \A n \in 1..vouched' :
         OnDisk(n)' \/ WithTimer(n)' \/ SetBack(n)' \/ Abandoned(n)']_vars

\* An explicit flush returns when everything is on disk (write_behind.py:163-165).
FlushIsBarrier == \A n \in 1..vouched : OnDisk(n)

\* As long as the disk refuses nothing, an event reaches it without anybody
\* flushing, unless its session is closed first (write_behind.py:5-6).
EventuallyWritten ==
  \A n \in Event : n <= committed ~> (OnDisk(n) \/ Abandoned(n) \/ fails > 0)
=============================================================================
