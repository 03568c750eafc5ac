----------------------------- MODULE LogLines -----------------------------
(***************************************************************************)
(* What the two readers of pod logs have in common (remote/k8s/backend.py,  *)
(* stream and _poll_ranks).  A line is its time, in units of which Grain    *)
(* make a second; lines are named by their place in their log.  A pod's     *)
(* clock does not go back.                                                  *)
(***************************************************************************)
EXTENDS Integers, Sequences

CONSTANTS
    MaxLines,     \* bound: lines in the log, or in all logs together
    MaxTime,      \* bound: the last time a line may bear
    Grain,        \* units in a second
    LostForGood   \* LOST_FOR_GOOD

ASSUME LogAssumption ==
    /\ MaxLines \in Nat /\ MaxTime \in Nat
    /\ Grain \in Nat \ {0} /\ LostForGood \in Nat \ {0}

VARIABLES
    pc,         \* where the reader is
    lost_since  \* the age of lost_since, None when it is None

None == -1

\* What --since-time keeps of a time.
Second(t) == t \div Grain
=============================================================================
