----------------------- MODULE MaximumCutComputation -----------------------
(* The distributed computation of a maximum cut: the nodes of Computation   *)
(* share out the search of MaximumCut.                                      *)
EXTENDS Computation, MaximumCut

\* The job is the search: Computation starts with the paths of PopulateStates() and
\* pushes the longer paths of the one it pops.
JobIsSearch ==
  /\ Path \subseteq Seq(Vertex)
  /\ Roots = PopulateStates
  /\ \A p \in Path : Children[p] = Longer(p)

\* The number that a node prints in the end, its _bestFound, is the weight of the
\* largest cut of the graph with a path through one side.
PrintsLargestCut ==
  \A n \in Node : pc[n] = "done" => BestMax(comp[n].bestFound) = LargestCut

=============================================================================
