---------------------------- MODULE RoundAuction ----------------------------
(***************************************************************************)
(* What BullSwap promises of its orders, without tables, statements and    *)
(* failures: an order waits, is withdrawn, or is drawn into a round; a     *)
(* round is filled at most once, all its trades together; an order is      *)
(* traded in one round at most.  A round that is not filled may give its   *)
(* orders back.                                                            *)
(*                                                                         *)
(* One thing is weaker than one would like, because the code is: a round   *)
(* may trade an order that was withdrawn (see CancelledNeverTraded).       *)
(***************************************************************************)
EXTENDS Naturals

CONSTANT Orders

VARIABLES
    waiting,            \* orders that wait for a round
    withdrawn,          \* cancelled or expired before they were drawn
    round,              \* the round an order was drawn into, 0 if none
    fills               \* the rounds that were filled, with their trades

vars == <<waiting, withdrawn, round, fills>>

Init ==
    /\ waiting = {}
    /\ withdrawn = {}
    /\ round = [o \in Orders |-> 0]
    /\ fills = {}

Filled(r) == \E f \in fills : f.batch = r

Traded == UNION {f.trades : f \in fills}

Enter(o) ==
    /\ o \notin waiting \cup withdrawn
    /\ round[o] = 0
    /\ waiting' = waiting \cup {o}
    /\ UNCHANGED <<withdrawn, round, fills>>

\* One order is cancelled, or several expire.
Withdraw ==
    /\ waiting' \subseteq waiting
    /\ withdrawn' = withdrawn \cup (waiting \ waiting')
    /\ UNCHANGED <<round, fills>>

\* Waiting orders are drawn, all into one round that is not filled yet.
Draw ==
    /\ waiting' \subseteq waiting
    /\ \E r \in {round'[o] : o \in waiting \ waiting'} :
          /\ r # 0
          /\ ~Filled(r)
          /\ round' = [o \in Orders |->
                          IF o \in waiting \ waiting' THEN r ELSE round[o]]
    /\ UNCHANGED <<withdrawn, fills>>

\* A round that was not filled gives orders back.  The documentation promises
\* it; the code never does (see OpenIsEligible).
Return ==
    /\ waiting \subseteq waiting'
    /\ \A o \in waiting' \ waiting : round[o] # 0 /\ ~Filled(round[o])
    /\ round' = [o \in Orders |->
                    IF o \in waiting' \ waiting THEN 0 ELSE round[o]]
    /\ UNCHANGED <<withdrawn, fills>>

\* The trades of a round: of its own orders, or of orders withdrawn meanwhile,
\* and none that was traded before.
Fill ==
    /\ \E f \in fills' :
          /\ ~Filled(f.batch)
          /\ f.trades # {}
          /\ f.trades \cap Traded = {}
          /\ \A o \in f.trades : round[o] = f.batch \/ o \in withdrawn
          /\ fills' = fills \cup {f}
    /\ UNCHANGED <<waiting, withdrawn, round>>

Next ==
    \/ Withdraw
    \/ \E o \in Orders : Enter(o)
    \/ Draw
    \/ Return
    \/ Fill

Spec == Init /\ [][Next]_vars
=============================================================================
