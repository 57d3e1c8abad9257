---------------------------- MODULE RunOwnership ----------------------------
(***************************************************************************)
(* What the HTTP carrier promises about a run, whatever sessions, tasks    *)
(* and restarts it takes: a run is worked on by exactly one carrier while  *)
(* it is in flight and by none otherwise, and the work changes hands only  *)
(* over a question and its answer.  RunLifecycle implements this.          *)
(***************************************************************************)
CONSTANTS
  Runs,    \* run ids
  Carrier  \* what may run the agent loop of a run

VARIABLES
  state,    \* "none" before it is created, "working", "waiting" for an answer,
            \* "over": ended, or its session died with the kernel
  carriers  \* who runs its agent loop

vars == <<state, carriers>>

Init ==
  /\ state = [r \in Runs |-> "none"]
  /\ carriers = [r \in Runs |-> {}]

Becomes(r, new, who) ==
  /\ state' = [state EXCEPT ![r] = new]
  /\ carriers' = [carriers EXCEPT ![r] = who]

\* The request is taken up.
Begin(r) == state[r] = "none" /\ \E c \in Carrier : Becomes(r, "working", {c})

\* The carrier stops with a question.
Ask(r) == state[r] = "working" /\ Becomes(r, "waiting", {})

\* An answer hands the run to a carrier.
Answer(r) == state[r] = "waiting" /\ \E c \in Carrier : Becomes(r, "working", {c})

\* The run concludes, fails or is canceled.
End(r) == state[r] \in {"working", "waiting"} /\ Becomes(r, "over", {})

\* A paused run is rebuilt from its resume bundle.
Rebuild(r) == state[r] = "over" /\ Becomes(r, "waiting", {})

\* The kernel process dies.
Crash ==
  /\ state' = [r \in Runs |-> IF state[r] = "none" THEN "none" ELSE "over"]
  /\ carriers' = [r \in Runs |-> {}]

Next ==
  \/ \E r \in Runs : Begin(r) \/ Ask(r) \/ Answer(r) \/ End(r) \/ Rebuild(r)
  \/ Crash

Spec == Init /\ [][Next]_vars
=============================================================================
