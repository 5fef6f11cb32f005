--------------------------- MODULE MCBatchAuction ---------------------------
(* Instances of BatchAuction for TLC. *)
EXTENDS BatchAuction, TLC

CONSTANT MaxLapses              \* bound: orders that expire

\* Orders differ in nothing but their uid, and an order whose request has not
\* begun in nothing at all: it is enough to let the requests begin in the order
\* of the uids.  Orders is a set of numbers here.
Listed == \A o, p \in Orders : o < p /\ started[p] # 0 => started[o] \in 1..(started[p] - 1)

ListedNext ==
    /\ Next
    /\ Listed'
    /\ Cardinality(lapsed') <= MaxLapses

ListedSpec == Init /\ [][ListedNext]_vars

\* Fairness is of the timers alone, and neither condition stops a timer.
ListedFairSpec ==
    /\ ListedSpec
    /\ \A t \in Timers : WF_vars(TimerStep(t)) /\ WF_vars(Restart(t))

\* Instances do not differ either.  Used by the run of two servers.
Symmetry == Permutations(Timers)
=============================================================================
