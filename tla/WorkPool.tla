------------------------------ MODULE WorkPool ------------------------------
(***************************************************************************)
(* What the distributed computation promises as a whole: a pool of paths,  *)
(* out of which only paths that the search has reached are explored, and   *)
(* none is ever taken back; a node prints its result once, and only when   *)
(* everything the search reaches has been explored and is accounted for.   *)
(* Who explores what, and how the nodes come to know, is left open; module *)
(* Computation shows that the messages of class Computation implement it.  *)
(***************************************************************************)
EXTENDS SequencesExt

CONSTANTS Node,     \* network ids
          Path,     \* the states of the search
          Roots,    \* where it starts
          Children  \* where it goes from a path

VARIABLES explored, \* the paths whose cut has been computed by some node
          printed   \* the results a node has printed: what they are the best of

vars == <<explored, printed>>

\* What the search reaches in one step when the paths of S have been explored.
Reached(S) == ToSet(Roots) \cup UNION {ToSet(Children[p]) : p \in S}

Init ==
  /\ explored = {}
  /\ printed = [n \in Node |-> <<>>]

\* Some paths are explored, each reached from a root or from another path.
Explore(S) ==
  /\ S # {} /\ S \cap explored = {} /\ S \subseteq Reached(explored \cup S)
  /\ explored' = explored \cup S
  /\ printed' = printed

\* A node prints its result when nothing is left to explore.
Finish(n) ==
  /\ printed[n] = <<>> /\ Reached(explored) \subseteq explored
  /\ printed' = [printed EXCEPT ![n] = <<explored>>]
  /\ explored' = explored

Next == (\E S \in SUBSET Path : Explore(S)) \/ (\E n \in Node : Finish(n))

Spec == Init /\ [][Next]_vars

=============================================================================
