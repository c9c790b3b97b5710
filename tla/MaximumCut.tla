----------------------------- MODULE MaximumCut -----------------------------
(***************************************************************************)
(* The job of the computation: a Matrix and the search of class MaximumCut *)
(* in it.  A state of the search is a simple path of the graph, a sequence *)
(* of vertices from 0; exploring it makes the paths that are one vertex    *)
(* longer, and rates the vertices of the path as one side of a cut.        *)
(***************************************************************************)
EXTENDS Integers, SequencesExt, FiniteSetsExt

CONSTANT Matrix  \* its rows: the weights of the arcs from each vertex, from 0 to 255

\* A matrix is square; compute() refuses one without rows.
ASSUME MatrixAssumption ==
  /\ Matrix \in Seq(Seq(0 .. 255)) /\ Matrix # <<>>
  /\ \A i \in DOMAIN Matrix : Len(Matrix[i]) = Len(Matrix)

Vertex == 0 .. Len(Matrix) - 1
Weight(i, j) == Matrix[i + 1][j + 1]

GetNeigh(item) == {i \in Vertex : Weight(item, i) > 0}

PopulateStates == [i \in 1 .. Len(Matrix) |-> <<i - 1>>]

\* The order in which a set of the code is read.
Ascending(S) ==
  CHOOSE order \in SetToSeqs(S) : \A i, j \in 1 .. Cardinality(S) : i < j => order[i] < order[j]

\* What compute() pushes when it has popped the path.
Longer(current) ==
  LET new == Ascending(GetNeigh(Last(current)) \ ToSet(current))
  IN  [k \in DOMAIN new |-> Append(current, new[k])]

SumOfLast(current) ==  \* mutant: only the last vertex is looked at
  MapThenSumSet(LAMBDA j : Weight(Last(current), j), Vertex \ ToSet(current))

\* The weights of the arcs that leave the set.  (The 32 bits of the code hold those of
\* any matrix with fewer than 4000 rows.)
Sum(current) ==
  MapThenSumSet(LAMBDA t : MapThenSumSet(LAMBDA j : Weight(t, j), Vertex \ ToSet(current)),
                ToSet(current))

\* _bestMax when these paths have been explored.
BestMax(paths) == Max({0} \cup {Sum(p) : p \in paths})

\* The paths that may be on a stack, by their length.
PathsOfLength[n \in 1 .. Len(Matrix)] ==
  IF n = 1 THEN ToSet(PopulateStates)
  ELSE UNION {ToSet(Longer(p)) : p \in PathsOfLength[n - 1]}
SimplePath == UNION {PathsOfLength[n] : n \in 1 .. Len(Matrix)}

-----------------------------------------------------------------------------
(* What is looked for *)

\* A set of vertices that some path visits, each once.
OnePath(W) ==
  \E order \in SetToSeqs(W) :
    \A k \in 1 .. Len(order) - 1 : Weight(order[k], order[k + 1]) > 0

\* The largest sum of arcs that leave such a set.
LargestCut ==
  LET leaving(W) == {arc \in W \X (Vertex \ W) : Weight(arc[1], arc[2]) > 0}
      cut(W) == MapThenSumSet(LAMBDA arc : Weight(arc[1], arc[2]), leaving(W))
  IN  Max({cut(W) : W \in {V \in (SUBSET Vertex) \ {{}} : OnePath(V)}})

=============================================================================
