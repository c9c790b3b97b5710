--------------------------- MODULE MCComputation ---------------------------
(* Small graphs for the nodes of MaximumCutComputation to search. *)
EXTENDS MaximumCutComputation

\* Four paths: three vertices and an arc.
MCSmallMatrix == <<<<0, 0, 0>>, <<0, 0, 0>>, <<0, 1, 0>>>>

\* Five paths: three vertices, and two arcs from the last one.
MCMatrix == <<<<0, 0, 0>>, <<0, 0, 0>>, <<1, 1, 0>>>>

\* Eight paths, of which one in the middle has the largest sum.
MCCutMatrix == <<<<0, 5, 0, 0>>, <<0, 0, 0, 0>>, <<0, 0, 0, 0>>, <<1, 0, 2, 0>>>>

\* Eight paths: enough to divide a share twice.
MCBigMatrix ==
  [i \in 1 .. 6 |-> [j \in 1 .. 6 |-> IF i = 6 /\ j < 3 THEN 1 ELSE 0]]

\* The job of every run.
MCChildren == [p \in SimplePath |-> Longer(p)]

ASSUME JobAssumptionOfRuns == JobIsSearch

=============================================================================
