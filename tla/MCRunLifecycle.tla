--------------------------- MODULE MCRunLifecycle ---------------------------
(* Small instances of RunLifecycle for TLC.                                *)
EXTENDS RunLifecycleProperties, TLC

\* Every run carries the same request: the runs compete for one lease.
SameRequest == [r \in Runs |-> CHOOSE k \in Keys : TRUE]

\* Every answer has a key of its own.
OwnKeys == [k \in Clients \X Ask |-> k]

\* One front end answers through the resume handler, about the same tool and without a
\* parent message: its answers carry one key.  The others choose theirs.
OneSharesKey ==
  LET resumer == CHOOSE c \in Clients : TRUE IN
  [k \in Clients \X Ask |-> IF k[1] = resumer THEN <<resumer, 1>> ELSE k]

\* Runs that carry the same request are interchangeable.
RunSymmetry == Permutations(Runs)
=============================================================================
