---------------------------- MODULE Competition ----------------------------
(***************************************************************************)
(* The solver competition of one server: SolverCompetition.run over the    *)
(* solvers that startup read from the table solvers.                       *)
(*                                                                         *)
(* The solvers run in parallel and return in any order.  Each of them asks *)
(* the clock for itself and iterates over hash maps of its own, so equal   *)
(* solvers may return different solutions.                                 *)
(***************************************************************************)
EXTENDS Naturals

CONSTANTS
    Orders,
    Solvers,            \* the active ones, numbered in the order of their names
    Scores              \* the total surpluses a solution may have

VARIABLES
    roster,             \* solver_ids: the solvers read at startup
    results             \* what the solvers that returned have returned

NoResults == [s \in {} |-> {}]

\* A solver that returns Err has no trades.
Result == [trades : SUBSET Orders, score : Scores \cup {0}]
NoSolution == [trades |-> {}, score |-> 0]

TypeOK ==
    /\ roster \subseteq Solvers
    /\ DOMAIN results \subseteq roster
    /\ \A s \in DOMAIN results : results[s] \in Result

Init ==
    /\ roster \in {Solvers, {}}
    /\ results = NoResults

\* find_active, once in the life of a server: the active rows, or none if the
\* query fails (unwrap_or_default).
FindActive ==
    /\ roster' \in {Solvers, {}}
    /\ results' = NoResults

Record(s, result) ==
    results' = [r \in DOMAIN results \cup {s} |-> IF r = s THEN result ELSE results[r]]

\* Mutant: every registered solver runs, active or not.
ReturnAny(s, solutions) ==
    /\ s \in Solvers \ DOMAIN results
    /\ \/ \E trades \in solutions, score \in Scores :
             Record(s, [trades |-> trades, score |-> score])
       \/ Record(s, NoSolution)
    /\ UNCHANGED roster

\* solver.solve(orders, batch_id) returns: one of the solutions, or an error.
Return(s, solutions) ==
    /\ s \in roster \ DOMAIN results
    /\ \/ \E trades \in solutions, score \in Scores :
             Record(s, [trades |-> trades, score |-> score])
       \/ Record(s, NoSolution)
    /\ UNCHANGED roster

Finished == DOMAIN results = roster

Solved == {s \in DOMAIN results : results[s].trades # {}}

\* Mutant: the first solution, whatever its score.
FirstSolved(s) == s \in Solved /\ \A r \in Solved : s <= r

\* max_by: the last one among equal scores.
Winner(s) ==
    /\ s \in Solved
    /\ \A r \in Solved : \/ results[r].score < results[s].score
                         \/ results[r].score = results[s].score /\ r <= s

\* Mutant: the results are collected into an Option<Vec<_>>.
AnyFailed == Solved # DOMAIN results \/ Solved = {}

\* The results that are errors are skipped; there is no winner without others.
NoWinner == Solved = {}

\* close_and_solve is done with the results, or left by an error.
Forget ==
    /\ results' = NoResults
    /\ UNCHANGED roster
=============================================================================
