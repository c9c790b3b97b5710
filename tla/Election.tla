------------------------------ MODULE Election ------------------------------
(***************************************************************************)
(* The election of a leader by class NetworkManager: the messages          *)
(* ELECTION, ELECTED and KNOWN_LEADER, the periodic Step() of its main     *)
(* loop, and what connecting to and losing a node do to the leader.        *)
(*                                                                         *)
(* A handler runs in the receiver thread of one connection, Step() in the  *)
(* thread of the main loop, and no lock protects _leaderId, _leader and    *)
(* _lostLeader: what they test and every assignment to one of these        *)
(* variables is a step of its own, and the steps of different threads of a *)
(* node interleave.                                                        *)
(*                                                                         *)
(* Timeouts (500 ms between the ELECTION messages of a node, 10 s before a *)
(* lonely node leads) may expire at any time.  _electionParticipant is     *)
(* left out: no line of the code sets it to true.                          *)
(***************************************************************************)
EXTENDS Integers, SequencesExt

CONSTANTS Node,        \* network ids, which the code orders as strings
          Late,        \* nodes not connected to anybody at first
          Crashable,   \* nodes that may crash
          MaxInFlight, \* bound: messages in flight when Step() adds one
          NoNode       \* the empty id

ASSUME NodeAssumption == Node \subseteq Nat /\ IsFiniteSet(Node)
ASSUME NoNodeAssumption == NoNode \notin Nat
ASSUME NetworkAssumption ==
  Late \subseteq Node /\ Crashable \subseteq Node /\ MaxInFlight \in Nat

VARIABLES clients,     \* the keys of _clientConnections
          leaderId,    \* _leaderId
          leads,       \* _leader: the nodes for which IsLeader() is true
          lostLeader,  \* _lostLeader: the nodes where it is true
          crashed,     \* the nodes that are no more
          chan,        \* messages sent from one node to another, not yet handled
          pc,          \* the assignment each thread of a node makes next
          crossed      \* nodes whose threads have interleaved; not in the code

vars == <<clients, leaderId, leads, lostLeader, crashed, chan, pc, crossed>>
network == <<clients, crashed, chan>>

Message == [type : {"ELECTION", "ELECTED", "KNOWN_LEADER"}, id : Node]
Election(n)    == [type |-> "ELECTION", id |-> n]
Elected(n)     == [type |-> "ELECTED", id |-> n]
KnownLeader(n) == [type |-> "KNOWN_LEADER", id |-> n]

\* Thread m of node n is the receiver thread of its connection to m, and thread n
\* that of its main loop.  What a thread does next:
\*   wait                  nothing, until there is a message or Step() is called
\*   elected, named        OnElectionMessage(): set _leaderId, set _leader
\*   told                  OnElectedMessage(), OnKnownLeaderMessage(): reset _leader
\*   alone, leading        Step() without other nodes: set _leader, set _leaderId
\*   lost, reset, clear    Step(): reset _leader, reset _lostLeader, clear _leaderId
Place == {"wait", "elected", "named", "told", "alone", "leading", "lost", "reset", "clear"}

TypeOK ==
  /\ clients \in [Node -> SUBSET Node]
  /\ leaderId \in [Node -> Node \cup {NoNode}]
  /\ leads \in SUBSET Node
  /\ lostLeader \in SUBSET Node
  /\ crashed \in SUBSET Node
  /\ chan \in [Node -> [Node -> Seq(Message)]]
  /\ pc \in [Node -> [Node -> Place]]
  /\ crossed \in SUBSET Node

Living == Node \ crashed

NextWithoutWrap(S, n) ==  \* mutant: no way back to smaller ids
  IF \E m \in S : m > n THEN CHOOSE m \in S : m > n /\ \A k \in S : k > n => m <= k
                        ELSE n

\* GetNextId(n): the least larger id, or else the largest smaller one (which the
\* code calls "least").
NextAmong(S, n) ==
  IF \E m \in S : m > n THEN CHOOSE m \in S : m > n /\ \A k \in S : k > n => m <= k
                        ELSE CHOOSE m \in S : m < n /\ \A k \in S : k < n => k <= m

NextId(n) == NextAmong(clients[n], n)

\* SendMsg(): nothing happens without a connection to the destination.
Sent(n, to, msg, channels) ==
  IF to \in clients[n] /\ to \notin crashed
  THEN [channels EXCEPT ![n][to] = Append(@, msg)]
  ELSE channels

InFlight == MapThenSumSet(LAMBDA e : Len(chan[e[1]][e[2]]), Node \X Node)

-----------------------------------------------------------------------------
(* The threads of a node *)

At(n, t, place) == n \in Living /\ pc[n][t] = place
Goto(n, t, place) == pc' = [pc EXCEPT ![n][t] = place]

\* Thread t of n begins a handler, perhaps in the middle of another thread's.
Midway(n, t) == \E u \in Node \ {t} : pc[n][u] # "wait"
Begin(n, t) == crossed' = IF Midway(n, t) THEN crossed \cup {n} ELSE crossed

\* Step(): a node without a leader starts an election...
StartElection(n) ==
  /\ At(n, n, "wait") /\ leaderId[n] = NoNode /\ clients[n] # {}
  /\ InFlight <= MaxInFlight
  /\ chan' = Sent(n, NextId(n), Election(n), chan)
  /\ UNCHANGED <<clients, leaderId, leads, lostLeader, crashed, pc, crossed>>

\* ... or decides to lead itself when it has nobody to ask...
DecideAlone(n) ==
  /\ At(n, n, "wait") /\ leaderId[n] = NoNode /\ clients[n] = {}
  /\ Begin(n, n) /\ Goto(n, n, "alone")
  /\ UNCHANGED <<leaderId, leads, lostLeader, network>>

\* ... which it does first, and then says.
LeadAlone(n) ==
  /\ At(n, n, "alone") /\ Goto(n, n, "leading")
  /\ leads' = leads \cup {n}
  /\ UNCHANGED <<leaderId, lostLeader, network, crossed>>

NameAlone(n) ==
  /\ At(n, n, "leading") /\ Goto(n, n, "wait")
  /\ leaderId' = [leaderId EXCEPT ![n] = n]
  /\ UNCHANGED <<leads, lostLeader, network, crossed>>

\* Step(): the leader was lost, and there is no other connection to it.
FindLeaderLost(n) ==
  /\ At(n, n, "wait") /\ n \in lostLeader /\ leaderId[n] \notin clients[n]
  /\ Begin(n, n) /\ Goto(n, n, "lost")
  /\ UNCHANGED <<leaderId, leads, lostLeader, network>>

StopLeading(n) ==
  /\ At(n, n, "lost") /\ Goto(n, n, "reset")
  /\ leads' = leads \ {n}
  /\ UNCHANGED <<leaderId, lostLeader, network, crossed>>

ResetLostNever(n) ==  \* mutant: _lostLeader not reset
  /\ At(n, n, "reset") /\ Goto(n, n, "clear")
  /\ UNCHANGED <<leaderId, leads, lostLeader, network, crossed>>

ResetLost(n) ==
  /\ At(n, n, "reset") /\ Goto(n, n, "clear")
  /\ lostLeader' = lostLeader \ {n}
  /\ UNCHANGED <<leaderId, leads, network, crossed>>

ForgetLeader(n) ==
  /\ At(n, n, "clear") /\ Goto(n, n, "wait")
  /\ leaderId' = [leaderId EXCEPT ![n] = NoNode]
  /\ UNCHANGED <<leads, lostLeader, network, crossed>>

\* The first message from m to n is taken.
Taken(n, m) == [chan EXCEPT ![m][n] = Tail(@)]

Arrives(n, m, type) ==
  n # m /\ At(n, m, "wait") /\ chan[m][n] # <<>> /\ Head(chan[m][n]).type = type

Smaller(id, n) == IF id < n THEN id ELSE n  \* mutant: comparison turned around
Larger(id, n) == IF id > n THEN id ELSE n

\* OnElectionMessage(): a node with a leader answers who it is; one without
\* passes the larger of the two ids on, or finds itself elected...
OnElection(n, m) ==
  LET id == Head(chan[m][n]).id
  IN  /\ Arrives(n, m, "ELECTION")
      /\ \/ /\ leaderId[n] # NoNode
            /\ chan' = Sent(n, m, KnownLeader(leaderId[n]), Taken(n, m))
            /\ UNCHANGED <<pc, crossed>>
         \/ /\ leaderId[n] = NoNode /\ id # n
            /\ chan' = Sent(n, NextId(n), Election(Larger(id, n)), Taken(n, m))
            /\ UNCHANGED <<pc, crossed>>
         \/ /\ leaderId[n] = NoNode /\ id = n
            /\ chan' = Taken(n, m)
            /\ Begin(n, m) /\ Goto(n, m, "elected")
      /\ UNCHANGED <<clients, leaderId, leads, lostLeader, crashed>>

\* ... which it says first...
NameItself(n, m) ==
  /\ n # m /\ At(n, m, "elected") /\ Goto(n, m, "named")
  /\ leaderId' = [leaderId EXCEPT ![n] = n]
  /\ UNCHANGED <<leads, lostLeader, network, crossed>>

AnnounceItself(n, m) ==  \* mutant: _leader not set
  /\ n # m /\ At(n, m, "named") /\ Goto(n, m, "wait")
  /\ chan' = Sent(n, NextId(n), Elected(n), chan)
  /\ UNCHANGED <<clients, leaderId, leads, lostLeader, crashed, crossed>>

\* ... then does, and tells its neighbour.
TakeLead(n, m) ==
  /\ n # m /\ At(n, m, "named") /\ Goto(n, m, "wait")
  /\ leads' = leads \cup {n}
  /\ chan' = Sent(n, NextId(n), Elected(n), chan)
  /\ UNCHANGED <<clients, leaderId, lostLeader, crashed, crossed>>

OnLeaderNewsFrom(n, m) ==  \* mutant: the sender taken for the leader
  /\ Arrives(n, m, "ELECTED") \/ Arrives(n, m, "KNOWN_LEADER")
  /\ chan' = Taken(n, m)
  /\ leaderId' = [leaderId EXCEPT ![n] = m]
  /\ Begin(n, m) /\ Goto(n, m, "told")
  /\ UNCHANGED <<clients, leads, lostLeader, crashed>>

\* OnElectedMessage() and OnKnownLeaderMessage(): believe the sender, unless it
\* speaks of this node...
OnLeaderNews(n, m) ==
  LET id == Head(chan[m][n]).id
  IN  /\ Arrives(n, m, "ELECTED") \/ Arrives(n, m, "KNOWN_LEADER")
      /\ chan' = Taken(n, m)
      /\ \/ id = n /\ UNCHANGED <<leaderId, pc, crossed>>
         \/ /\ id # n /\ leaderId' = [leaderId EXCEPT ![n] = id]
            /\ Begin(n, m) /\ Goto(n, m, "told")
      /\ UNCHANGED <<clients, leads, lostLeader, crashed>>

\* ... and stop leading.
FollowLeader(n, m) ==
  /\ n # m /\ At(n, m, "told") /\ Goto(n, m, "wait")
  /\ leads' = leads \ {n}
  /\ UNCHANGED <<leaderId, lostLeader, network, crossed>>

-----------------------------------------------------------------------------
(* Connections *)

GreetingAnyway(n) == <<KnownLeader(leaderId[n])>>  \* mutant: _leaderId.empty() not checked

\* A node that has just started makes a connection: it discovers the others long
\* before it may lead alone.  ReceiverLoop() of each side sends the leader it knows.
Greeting(n) == IF leaderId[n] = NoNode THEN <<>> ELSE <<KnownLeader(leaderId[n])>>

Connect(i, j) ==
  /\ i \in Late \ leads /\ pc[i][i] = "wait" /\ i # j /\ {i, j} \subseteq Living
  /\ j \notin clients[i] /\ i \notin clients[j]
  /\ clients' = [clients EXCEPT ![i] = @ \cup {j}, ![j] = @ \cup {i}]
  /\ chan' = [chan EXCEPT ![i][j] = Greeting(i), ![j][i] = Greeting(j)]
  /\ UNCHANGED <<leaderId, leads, lostLeader, crashed, pc, crossed>>

Crash(n) ==
  /\ n \in Crashable \cap Living
  /\ crashed' = crashed \cup {n}
  /\ chan' = [i \in Node |-> [chan[i] EXCEPT ![n] = <<>>]]
  /\ UNCHANGED <<clients, leaderId, leads, lostLeader, pc, crossed>>

\* DiscardClient(): the connection of n to m is found closed, and its receiver thread
\* is joined first.
DiscardClient(n, m) ==
  /\ n # m /\ At(n, m, "wait") /\ m \in crashed /\ m \in clients[n]
  /\ clients' = [clients EXCEPT ![n] = @ \ {m}]
  /\ lostLeader' = IF leaderId[n] = m THEN lostLeader \cup {n} ELSE lostLeader
  /\ chan' = [chan EXCEPT ![m][n] = <<>>]
  /\ Begin(n, m)
  /\ UNCHANGED <<leaderId, leads, crashed, pc>>

\* DiscardClient() of the second of two connections between n and m: the first one
\* stays, and yet the leader counts as lost.
DiscardSecond(n, m) ==
  /\ n # m /\ {n, m} \subseteq Living /\ m \in clients[n] /\ leaderId[n] = m
  /\ lostLeader' = lostLeader \cup {n}
  /\ crossed' = IF \E t \in Node : pc[n][t] # "wait" THEN crossed \cup {n} ELSE crossed
  /\ UNCHANGED <<leaderId, leads, network, pc>>

-----------------------------------------------------------------------------

Init ==
  /\ clients = [n \in Node |-> IF n \in Late THEN {} ELSE Node \ (Late \cup {n})]
  /\ leaderId = [n \in Node |-> NoNode]
  /\ leads = {}
  /\ lostLeader = {}
  /\ crashed = {}
  /\ chan = [i \in Node |-> [j \in Node |-> <<>>]]
  /\ pc = [n \in Node |-> [t \in Node |-> "wait"]]
  /\ crossed = {}

Step(n) ==
  \/ StartElection(n)
  \/ DecideAlone(n) \/ LeadAlone(n) \/ NameAlone(n)
  \/ FindLeaderLost(n) \/ StopLeading(n) \/ ResetLost(n) \/ ForgetLeader(n)

Receive(n, m) ==
  \/ OnElection(n, m) \/ NameItself(n, m) \/ TakeLead(n, m)
  \/ OnLeaderNews(n, m) \/ FollowLeader(n, m)
  \/ DiscardClient(n, m)

Next ==
  \/ \E n \in Node : Step(n)
  \/ \E n, m \in Node : Receive(n, m) \/ DiscardSecond(n, m)
  \/ \E i, j \in Node : Connect(i, j)
  \/ \E n \in Node : Crash(n)

\* Step() is called every 100 ms, every receiver thread reads on.
Fairness ==
  \A n \in Node : WF_vars(Step(n)) /\ \A m \in Node : WF_vars(Receive(n, m))

Spec == Init /\ [][Next]_vars /\ Fairness

-----------------------------------------------------------------------------

Highest == CHOOSE n \in Node : \A m \in Node : m <= n

\* Among nodes that are all connected and stay so, nobody but the node with the
\* highest id ever leads, is announced as the leader or is taken for it: passing
\* the larger id on in a ring that is none (GetNextId() of the highest id is its
\* neighbour) elects nobody else, whoever starts elections and when.
OnlyHighestLeads ==
  /\ leads \subseteq {Highest}
  /\ \A n \in Node : leaderId[n] \in {Highest, NoNode}

\* A node is in office from the moment it has named itself until it stops leading;
\* it leads one assignment later, or earlier if it names itself last.
InOffice ==
  {n \in Node : \/ n \in leads /\ pc[n][n] # "leading"
                \/ \E t \in Node : pc[n][t] = "named"}

\* Among such nodes, whoever is taken for the leader leads, or will with the next
\* assignment of one of its threads, whatever the others do in between.
FollowsALeader ==
  \A n \in Node : leaderId[n] # NoNode => leaderId[n] \in InOffice

\* What the election promises, module Leadership: among such nodes one node takes
\* office, never two, and no node that follows it ever turns to another one or
\* forgets it.
Office == INSTANCE Leadership WITH follows <- leaderId, leads <- InOffice

ImplementsLeadership == Office!Spec

\* Whatever connections are made and lost, and however late the news of other leaders
\* come: when no thread of a node is between two assignments, the node leads iff it
\* takes itself for the leader, and has lost no leader but one it follows, so that it
\* never deposes itself.  Only threads of the node that came in between each other's
\* assignments, which no lock prevents, can have left it otherwise.
DisagreesOnlyByCrossing ==
  \A n \in Living \ crossed :
    (\A t \in Node : pc[n][t] = "wait")
      => /\ n \in leads <=> leaderId[n] = n
         /\ n \in lostLeader => leaderId[n] \notin {n, NoNode}

\* In the end all living nodes follow the same living node, and that node knows
\* that it leads.
Agreement ==
  <>[](\E l \in leads \cap Living : \A n \in Living : leaderId[n] = l)

=============================================================================
