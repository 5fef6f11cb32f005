--------------------------- MODULE MCNaiveSolver ---------------------------
(* Instances of NaiveSolver for TLC. *)
EXTENDS NaiveSolver

\* NaiveSolver does not tell two orders apart by their name, so of the books
\* that differ in the names alone it is enough to check the one whose orders
\* are listed by this number.  Batch is a set of numbers here.
Number(d) == ((d.sell * 10 + d.buy) * 1000 + d.give) * 1000 + d.want

Listed == \A i, j \in Batch : i < j => Number(book[i]) <= Number(book[j])

ListedInit == Init /\ Listed

ListedSpec == ListedInit /\ [][Next]_vars /\ WF_vars(Step)
=============================================================================
