----------------------------- MODULE Leadership -----------------------------
(***************************************************************************)
(* What the election promises to the nodes of a network whose connections  *)
(* all stay: one node takes office, once, and every other node turns from  *)
(* knowing no leader to following that one, for good.  Module Election     *)
(* shows that the messages of class NetworkManager implement this.         *)
(***************************************************************************)
CONSTANTS Node,   \* network ids
          NoNode  \* the empty id

VARIABLES follows, \* whom each node takes for the leader
          leads    \* the nodes that act as the leader

vars == <<follows, leads>>

Init ==
  /\ follows = [n \in Node |-> NoNode]
  /\ leads = {}

\* The first and only node takes office.
TakeOffice(n) ==
  /\ leads = {} /\ follows[n] = NoNode
  /\ leads' = {n}
  /\ follows' = [follows EXCEPT ![n] = n]

\* A node hears of the leader.
Follow(n) ==
  /\ follows[n] = NoNode
  /\ \E l \in leads : follows' = [follows EXCEPT ![n] = l]
  /\ leads' = leads

Next == \E n \in Node : TakeOffice(n) \/ Follow(n)

Spec == Init /\ [][Next]_vars

=============================================================================
