---------------------------- MODULE Computation ----------------------------
(***************************************************************************)
(* The distributed computation of ParLib: class Computation, on every node *)
(* of the network, with the StackAssignment it shares and the stack of its *)
(* MaximumCut.                                                             *)
(*                                                                         *)
(* A leader explores a little, deals its stack to the nodes it knows, and  *)
(* then watches the assignment table: it has working nodes divide their    *)
(* stack with idle ones, gives the work of vanished nodes to idle ones and *)
(* ends the computation when nobody works any more.  Every node runs       *)
(* ComputationLoop(): a leader or a non-leader step, one call of           *)
(* compute(), and all messages that have arrived.                          *)
(*                                                                         *)
(* Abstractions                                                            *)
(*   - A state of the search, a simple path of the graph, is an element of *)
(*     Path; exploring it pushes the paths Children[p].                    *)
(*   - The best cut found is kept as the set of the paths it is the best   *)
(*     of: the maximum in the code is a function of this set, and taking   *)
(*     the maximum of two bests is the union of the sets.                  *)
(*   - A TCP connection and the receiver's queue _messages are one FIFO    *)
(*     channel: a message arrives when it is handled.                      *)
(*   - Who is connected and who leads is NetworkManager's business: here   *)
(*     connections and leadership change nondeterministically.             *)
(***************************************************************************)
EXTENDS ParallelStack

CONSTANTS Node,        \* network ids, which the code orders as strings
          Path,        \* the states of the search
          Roots,       \* what PopulateStates() pushes
          Children,    \* what compute() pushes after popping a path
          LoopCycles,  \* loopCycles of compute(): 10 in the code
          InitSteps,   \* compute steps before the first division: 5 in the code
          Leader,      \* the nodes that lead when the computations start
          Late,        \* nodes that are not yet connected to anybody
          Crashable,   \* nodes that may crash
          TailLoss,    \* whether a crash loses the last messages it has sent
          Timing,      \* assumed of the delays, see Timely and ChecksMayRun
          MaxInFlight, \* bound: messages in flight when a node sends more
          NoEntry      \* not a stack

ASSUME NodeAssumption == Node \subseteq Nat /\ IsFiniteSet(Node)
ASSUME JobAssumption == Roots \in Seq(Path) /\ Children \in [Path -> Seq(Path)]
ASSUME StepsAssumption == LoopCycles \in Nat /\ InitSteps \in Nat
ASSUME NetworkAssumption ==
  /\ Leader \subseteq Node /\ Late \subseteq Node /\ Crashable \subseteq Node
  /\ TailLoss \in BOOLEAN
  /\ Timing \in {"async", "gated", "rounds"}
  /\ MaxInFlight \in Nat
ASSUME NoEntryAssumption == NoEntry \notin Seq(Path)

\* A StackAssignment maps some of the nodes to stacks; NoEntry stands for a key
\* its map does not have.  A null pointer _currAssignment is the assignment
\* without entries (a table that exists has an entry for its own node, see
\* OwnEntry).
Assignment == [Node -> Seq(Path) \cup {NoEntry}]
NoAssignment == [c \in Node |-> NoEntry]

Message ==
  [type : {"STACK_ASSIGNMENT"}, assign : Assignment]
    \cup [type : {"ASSIGNMENT_FINISHED"}, best : SUBSET Path]
    \cup [type : {"DIVIDE_WITH"}, with : Node]
    \cup [type : {"TERMINATE"}]

StackAssignmentMsg(a) == [type |-> "STACK_ASSIGNMENT", assign |-> a]
FinishedMsg(best)     == [type |-> "ASSIGNMENT_FINISHED", best |-> best]
DivideWithMsg(c)      == [type |-> "DIVIDE_WITH", with |-> c]
TerminateMsg          == [type |-> "TERMINATE"]

VARIABLES comp,      \* each node's Computation and the stack of its MaximumCut
          pc,        \* where each node's computation thread is
          fuel,      \* states compute() may still explore before it returns
          dealTo,    \* InitLeaderStep()'s clients, captured before exploring
          main,      \* where each node's main() is, once it has started the computation
          clients,   \* NetworkManager::GetClients() of each node
          leader,    \* the nodes whose IsLeader() is true
          chan       \* messages sent from one node to another, not yet handled

vars == <<comp, pc, fuel, dealTo, main, clients, leader, chan>>

\* _state, _maximumCut's stack and _bestMax, _bestFound, *_currAssignment.
\* "Aborted" is a process killed by a null pointer.
State == {"Initial", "Computing", "Waiting", "Finished", "Aborted"}

LocalState == [state : State, states : Seq(Path), bestMax : SUBSET Path,
               bestFound : SUBSET Path, curr : Assignment]

\* off: StartComputation() not yet called; init: in InitLeaderStep(); compute:
\* in compute(); loop: between compute() and the next step, reading messages;
\* done: the loop has ended; dead: the process has crashed.
PC == {"off", "init", "compute", "loop", "done", "dead"}

\* polls: main() calls HasFinished() every 100 ms; quits: it was true; joins: in
\* Terminate(), waiting for the loop to end.
MainPlace == {"polls", "quits", "joins"}

TypeOK ==
  /\ comp \in [Node -> LocalState]
  /\ pc \in [Node -> PC]
  /\ fuel \in [Node -> Nat]
  /\ dealTo \in [Node -> SUBSET Node]
  /\ main \in [Node -> MainPlace]
  /\ clients \in [Node -> SUBSET Node]
  /\ leader \in SUBSET Node
  /\ chan \in [Node -> [Node -> Seq(Message)]]

Gone(n) == pc[n] \in {"done", "dead"}

Quiet == \A i, j \in Node : chan[i][j] = <<>>

-----------------------------------------------------------------------------
(* StackAssignment *)

\* GetClients()
Entries(a) == {c \in Node : a[c] # NoEntry}

\* GetAssignment(c): operator[] of a map, an empty stack for a new key...
Job(a, c) == IF a[c] = NoEntry THEN <<>> ELSE a[c]

\* ... for which it makes an entry; clear() empties the entry it returns.
WithEntry(a, c)  == [a EXCEPT ![c] = Job(a, c)]
WithoutJob(a, c) == [a EXCEPT ![c] = <<>>]

UpdateByReplacing(a, b) == b  \* mutant: the assignment replaces the table
Update(a, b) == [c \in Node |-> IF b[c] = NoEntry THEN a[c] ELSE b[c]]

\* Remove() of every client in S whose stack is empty.
RemoveIdle(a, S) ==
  [c \in Node |-> IF c \in S /\ a[c] = <<>> THEN NoEntry ELSE a[c]]

-----------------------------------------------------------------------------
(* The handlers, as functions of the node's local state l.  A handler that *)
(* also sends returns its effect: the new local state and the messages it  *)
(* sends to each node, in their order.                                     *)

Nothing == [j \in Node |-> <<>>]

Effect(l, out) == [local |-> l, out |-> out]

OnAssignmentOffByOne(n, l, a) ==  \* mutant: size() > 1
  LET table == Update(l.curr, a)
  IN  IF l.state = "Computing"
      THEN [l EXCEPT !.curr = table]
      ELSE [l EXCEPT !.curr = IF l.curr = NoAssignment THEN WithEntry(table, n)
                                                       ELSE table,
                     !.states = Job(a, n),
                     !.state = IF Len(Job(a, n)) > 1 THEN "Computing" ELSE "Waiting"]

\* OnAssignment(): a node that computes keeps computing what it has, and its own
\* share in the assignment is only written to the table; any other node takes it.
OnAssignment(n, l, a) ==
  LET table == Update(l.curr, a)
  IN  IF l.state = "Computing"
      THEN [l EXCEPT !.curr = table]
      ELSE [l EXCEPT !.curr = IF l.curr = NoAssignment THEN WithEntry(table, n)
                                                       ELSE table,
                     !.states = Job(a, n),
                     !.state = IF Job(a, n) = <<>> THEN "Waiting" ELSE "Computing"]

OnAssignmentFinishedLast(l, c, best) ==  \* mutant: no comparison with _bestFound
  IF l.curr = NoAssignment
  THEN [l EXCEPT !.state = "Aborted"]
  ELSE [l EXCEPT !.bestFound = best, !.curr = WithoutJob(@, c)]

\* OnAssignmentFinished(): reads *_currAssignment unchecked.
OnAssignmentFinished(l, c, best) ==
  IF l.curr = NoAssignment
  THEN [l EXCEPT !.state = "Aborted"]
  ELSE [l EXCEPT !.bestFound = @ \cup best, !.curr = WithoutJob(@, c)]

OnTerminate(l) == [l EXCEPT !.state = "Finished"]

HalvesSwapped(n, l, c) ==  \* mutant: each half to the other node
  [NoAssignment EXCEPT ![n] = Given(l.states), ![c] = Kept(l.states)]

\* OnDivideWith(): nothing to do without work; otherwise the two halves are an
\* assignment, broadcast before the node takes its own half.
Halves(n, l, c) ==
  [NoAssignment EXCEPT ![n] = Kept(l.states), ![c] = Given(l.states)]

OnDivideWith(n, l, c) ==
  IF l.states = <<>>
  THEN Effect(l, Nothing)
  ELSE Effect(OnAssignment(n, [l EXCEPT !.states = Kept(@)], Halves(n, l, c)),
              [j \in Node |-> <<StackAssignmentMsg(Halves(n, l, c))>>])

\* One pass of the loop in MaximumCut::compute().
Explore(l) ==
  [l EXCEPT !.states = Front(@) \o Children[Last(@)],
            !.bestMax = @ \cup {Last(l.states)}]

AnnounceToOthers(n, e) ==  \* mutant: own job not cleared
  IF e.local.state # "Computing"
  THEN e
  ELSE Effect([e.local EXCEPT !.state = "Waiting"],
              [j \in Node |-> Append(e.out[j], FinishedMsg(e.local.bestMax))])

\* ComputeStep() after compute() has found the stack empty.
AnnounceIfComputing(n, e) ==
  IF e.local.state # "Computing"
  THEN e
  ELSE Effect([OnAssignmentFinished(e.local, n, e.local.bestMax)
                 EXCEPT !.state = "Waiting"],
              [j \in Node |-> Append(e.out[j], FinishedMsg(e.local.bestMax))])

ClearDisconnectedAndSelf(n, l) ==  \* mutant: own id not a known client
  [l EXCEPT !.curr = RemoveIdle(@, Node \ clients[n])]

\* ClearDisconnected()
ClearDisconnected(n, l) ==
  [l EXCEPT !.curr = RemoveIdle(@, Node \ (clients[n] \cup {n}))]

\* The order of std::set<std::string>: how many elements of S precede x, and
\* the first k elements of S.
Rank(S, x) == Cardinality({y \in S : y < x})
First(S, k) == {x \in S : Rank(S, x) < k}
SameRank(S, x, T) == CHOOSE y \in T : Rank(T, y) = Rank(S, x)

-----------------------------------------------------------------------------
(* CheckAssignments(): the sets of clients it computes from the table l.curr *)
(* and the connections of node n.                                            *)

KnownClients(n)           == clients[n] \cup {n}
NewClients(n, l)          == KnownClients(n) \ Entries(l.curr)
Idle(l)                   == {c \in Node : l.curr[c] = <<>>}
DisconnectedClients(n, l) == (Entries(l.curr) \ KnownClients(n)) \ Idle(l)
NeedJobClients(n, l)      == NewClients(n, l) \cup (Idle(l) \cap KnownClients(n))
WorkingClients(n, l)      == KnownClients(n) \ NeedJobClients(n, l)

OneJobLeft(n, l) ==  \* mutant: size() <= 1
  Cardinality(WorkingClients(n, l)) <= 1 /\ DisconnectedClients(n, l) = {}

NoJobsLeft(n, l) == WorkingClients(n, l) = {} /\ DisconnectedClients(n, l) = {}

HeirsNever(n, l) == {}  \* mutant: no job is given again

\* "Give jobs from disconnected clients": the i-th node that needs a job, in the
\* order of their ids, gets the job of the i-th disconnected one.
HeirsOf(n, l) ==
  First(NeedJobClients(n, l), Cardinality(DisconnectedClients(n, l)))
GiversOf(n, l) ==
  First(DisconnectedClients(n, l), Cardinality(NeedJobClients(n, l)))

Regiven(n, l) ==
  [c \in Node |->
     IF c \in HeirsOf(n, l)
     THEN l.curr[SameRank(NeedJobClients(n, l), c, DisconnectedClients(n, l))]
     ELSE IF c \in GiversOf(n, l) THEN <<>> ELSE NoEntry]

\* The last loop: the i-th working client is told to divide its stack with the
\* i-th of the nodes that still need a job.
LeftOver(n, l) == NeedJobClients(n, l) \ HeirsOf(n, l)
Dividers(n, l) == First(WorkingClients(n, l), Cardinality(LeftOver(n, l)))
DivideWith(n, l, w) == SameRank(WorkingClients(n, l), w, LeftOver(n, l))

\* The table after each of the three changes CheckAssignments() makes to it.
Cleared(n, l) == ClearDisconnected(n, l)

AfterEnd(n, l) == IF NoJobsLeft(n, l) THEN OnTerminate(Cleared(n, l)) ELSE Cleared(n, l)

AfterRegiving(n, l) ==
  IF HeirsOf(n, l) = {} THEN AfterEnd(n, l)
                        ELSE OnAssignment(n, AfterEnd(n, l), Regiven(n, l))

OwnDivision(n, l) ==
  IF n \in Dividers(n, l)
  THEN OnDivideWith(n, AfterRegiving(n, l), DivideWith(n, l, n))
  ELSE Effect(AfterRegiving(n, l), Nothing)

\* The assignment of the given jobs is sent after OnAssignment() has taken it: by
\* then a leader that does not compute has put an entry of its own into it.
RegivenMsg(n, l) ==
  StackAssignmentMsg(IF l.state = "Computing" THEN Regiven(n, l)
                                              ELSE WithEntry(Regiven(n, l), n))

MessagesIf(condition, msg) == IF condition THEN <<msg>> ELSE <<>>

\* The messages for node j, in the order CheckAssignments() sends them.
CheckMessages(n, l, sync, j) ==
  LET table  == StackAssignmentMsg(Cleared(n, l).curr)
      divide == DivideWithMsg(DivideWith(n, l, j))
  IN  MessagesIf(sync, table)
        \o MessagesIf(j \in NewClients(n, l), table)
        \o MessagesIf(NoJobsLeft(n, l), TerminateMsg)
        \o MessagesIf(HeirsOf(n, l) # {}, RegivenMsg(n, l))
        \o MessagesIf(j \in Dividers(n, l) /\ j < n, divide)
        \o OwnDivision(n, l).out[j]
        \o MessagesIf(j \in Dividers(n, l) /\ j > n, divide)

\* CheckAssignments(), with sync the outcome of rand() % 6 == 0.  Without a table
\* every known client is new, and is sent *_currAssignment.
CheckAssignments(n, l, sync) ==
  IF l.curr = NoAssignment
  THEN Effect([l EXCEPT !.state = "Aborted"], Nothing)
  ELSE Effect(OwnDivision(n, l).local,
              [j \in Node |-> CheckMessages(n, l, sync, j)])

\* NonLeaderStep() without ClearDisconnected(), which has the 150 ms gate.
NonLeaderStep(l) ==
  IF l.state = "Initial" THEN [l EXCEPT !.state = "Waiting"] ELSE l

-----------------------------------------------------------------------------
(* Steps of the processes *)

\* Node n sends out: to the nodes it is connected to that can still receive.
Sent(n, out, channels) ==
  [channels EXCEPT ![n] =
     [j \in Node |-> IF j \in clients[n] /\ ~Gone(j)
                     THEN channels[n][j] \o out[j]
                     ELSE channels[n][j]]]

\* Nobody reads what was sent to n any more.
Unread(n) == [i \in Node |-> [chan[i] EXCEPT ![n] = <<>>]]

Abort(n, l) ==
  /\ comp' = [comp EXCEPT ![n] = l]
  /\ pc' = [pc EXCEPT ![n] = "dead"]
  /\ chan' = Unread(n)
  /\ UNCHANGED <<fuel, dealTo, main, clients, leader>>

\* compute() with left states to go, and what ComputeStep() does when it returns
\* TRUE; e is what the thread did before, in the same step.
ComputeStep(n, e, left) ==
  LET found == AnnounceIfComputing(n, e)
  IN  IF e.local.states = <<>>
      THEN /\ comp' = [comp EXCEPT ![n] = found.local]
           /\ chan' = Sent(n, found.out, chan)
           /\ pc' = [pc EXCEPT ![n] = "loop"]
           /\ fuel' = [fuel EXCEPT ![n] = 0]
           /\ UNCHANGED <<dealTo, main, clients, leader>>
      ELSE /\ comp' = [comp EXCEPT ![n] = Explore(e.local)]
           /\ chan' = Sent(n, e.out, chan)
           /\ pc' = [pc EXCEPT ![n] = IF left = 1 THEN "loop" ELSE "compute"]
           /\ fuel' = [fuel EXCEPT ![n] = left - 1]
           /\ UNCHANGED <<dealTo, main, clients, leader>>

\* main() calls StartComputation() once GetClientCount() >= 1.
StartComputation(n) ==
  /\ pc[n] = "off" /\ clients[n] # {}
  /\ pc' = [pc EXCEPT ![n] = "loop"]
  /\ UNCHANGED <<comp, fuel, dealTo, main, clients, leader, chan>>

\* LeaderStep() in state Initial calls InitLeaderStep(), which takes the list of
\* clients first...
BeginInit(n) ==
  /\ pc[n] = "loop" /\ n \in leader /\ comp[n].state = "Initial"
  /\ comp' = [comp EXCEPT ![n].state = "Waiting", ![n].states = @ \o Roots]
  /\ dealTo' = [dealTo EXCEPT ![n] = clients[n]]
  /\ fuel' = [fuel EXCEPT ![n] = InitSteps * (LoopCycles + 1)]
  /\ pc' = [pc EXCEPT ![n] = "init"]
  /\ UNCHANGED <<main, clients, leader, chan>>

ExploreFirstAll(n) ==  \* mutant: not bounded by i < 5
  /\ pc[n] = "init" /\ comp[n].states # <<>>
  /\ comp' = [comp EXCEPT ![n] = Explore(@)]
  /\ fuel' = [fuel EXCEPT ![n] = @ - 1]
  /\ UNCHANGED <<pc, dealTo, main, clients, leader, chan>>

\* ... then explores in some calls of ComputeStep() (announcing nothing: it does
\* not compute yet)...
ExploreFirst(n) ==
  /\ pc[n] = "init" /\ fuel[n] > 0 /\ comp[n].states # <<>>
  /\ comp' = [comp EXCEPT ![n] = Explore(@)]
  /\ fuel' = [fuel EXCEPT ![n] = @ - 1]
  /\ UNCHANGED <<pc, dealTo, main, clients, leader, chan>>

\* ... and deals the stack to the clients, in any order (they come out of an
\* unordered_map), and to itself, which it has pushed at the end of the list.
DealtJobs(n, position) ==
  LET pars == GetParallelStacks(comp[n].states, Cardinality(dealTo[n]) + 1)
  IN  [c \in Node |-> IF c = n THEN pars[Cardinality(dealTo[n]) + 1]
                    ELSE IF c \in dealTo[n] THEN pars[position[c]]
                    ELSE NoEntry]

DivideInit(n) ==
  /\ pc[n] = "init" /\ (fuel[n] = 0 \/ comp[n].states = <<>>)
  /\ \E position \in [dealTo[n] -> 1 .. Cardinality(dealTo[n])] :
       /\ \A c, d \in dealTo[n] : position[c] = position[d] => c = d
       /\ LET jobs == DealtJobs(n, position)
          IN  ComputeStep(n,
                Effect(OnAssignment(n, comp[n], jobs),
                       [j \in Node |-> MessagesIf(j \in dealTo[n], StackAssignmentMsg(jobs))]),
                LoopCycles + 1)

\* One iteration of ComputationLoop() up to ReadMessages(); the loop runs until
\* the state is Finished.
MayIterate(n) ==
  /\ pc[n] = "loop" /\ comp[n].state # "Finished"
  /\ n \in leader => comp[n].state # "Initial"

\* The iteration of a node that last looked at its table less than 150 ms ago.
Iterate(n) ==
  /\ MayIterate(n)
  /\ ComputeStep(n, Effect(IF n \in leader THEN comp[n] ELSE NonLeaderStep(comp[n]),
                           Nothing),
                 LoopCycles + 1)

IterateAndClear(n) ==
  /\ MayIterate(n) /\ n \notin leader
  /\ ComputeStep(n, Effect(ClearDisconnected(n, NonLeaderStep(comp[n])), Nothing),
                 LoopCycles + 1)

IterateAndCheck(n, sync) ==
  /\ MayIterate(n) /\ n \in leader
  /\ LET e == CheckAssignments(n, comp[n], sync)
     IN  IF e.local.state = "Aborted" THEN Abort(n, e.local)
                                      ELSE ComputeStep(n, e, LoopCycles + 1)

ContinueCompute(n) ==
  /\ pc[n] = "compute"
  /\ ComputeStep(n, Effect(comp[n], Nothing), fuel[n])

\* OnMessage(), for a message from node m.
Handle(n, m, msg) ==
  CASE msg.type = "STACK_ASSIGNMENT" ->
         Effect(OnAssignment(n, comp[n], msg.assign), Nothing)
    [] msg.type = "ASSIGNMENT_FINISHED" ->
         Effect(OnAssignmentFinished(comp[n], m, msg.best), Nothing)
    [] msg.type = "DIVIDE_WITH" ->
         OnDivideWith(n, comp[n], msg.with)
    [] msg.type = "TERMINATE" ->
         Effect(OnTerminate(comp[n]), Nothing)

ReadMessage(n, m) ==
  /\ pc[n] = "loop" /\ chan[m][n] # <<>>
  /\ LET e == Handle(n, m, Head(chan[m][n]))
     IN  IF e.local.state = "Aborted"
         THEN Abort(n, e.local)
         ELSE /\ comp' = [comp EXCEPT ![n] = e.local]
              /\ chan' = Sent(n, e.out, [chan EXCEPT ![m][n] = Tail(@)])
              /\ UNCHANGED <<pc, fuel, dealTo, main, clients, leader>>

\* main() finds that the computation HasFinished()...
SeeFinished(n) ==
  /\ main[n] = "polls" /\ ~Gone(n) /\ comp[n].state = "Finished"
  /\ main' = [main EXCEPT ![n] = "quits"]
  /\ UNCHANGED <<comp, pc, fuel, dealTo, clients, leader, chan>>

\* ... and calls Terminate(), whatever the computation thread has read since.
Terminate(n) ==
  /\ main[n] = "quits" /\ ~Gone(n)
  /\ main' = [main EXCEPT ![n] = "joins"]
  /\ comp' = [comp EXCEPT ![n].state = "Finished"]
  /\ UNCHANGED <<pc, fuel, dealTo, clients, leader, chan>>

\* The loop ends after reading messages, main() joins its thread, and the process ends.
EndLoop(n) ==
  /\ pc[n] = "loop" /\ comp[n].state = "Finished"
  /\ pc' = [pc EXCEPT ![n] = "done"]
  /\ main' = [main EXCEPT ![n] = "joins"]
  /\ chan' = Unread(n)
  /\ UNCHANGED <<comp, fuel, dealTo, clients, leader>>

-----------------------------------------------------------------------------
(* The network around the computation: what NetworkManager, the connections *)
(* and the machines do to it.                                               *)

\* A node that lost its leader, or never had one, is elected.
Elect(n) ==
  /\ ~Gone(n) /\ (clients[n] # {} \/ pc[n] # "off")
  /\ \A m \in leader : Gone(m) /\ m \notin clients[n]
  /\ leader' = {n}
  /\ UNCHANGED <<comp, pc, fuel, dealTo, main, clients, chan>>

Connect(i, j) ==
  /\ i # j /\ i \in Late /\ j \notin clients[i] /\ ~Gone(i) /\ ~Gone(j)
  /\ clients' = [clients EXCEPT ![i] = @ \cup {j}, ![j] = @ \cup {i}]
  /\ UNCHANGED <<comp, pc, fuel, dealTo, main, leader, chan>>

Crash(n) ==
  /\ n \in Crashable /\ ~Gone(n)
  /\ pc' = [pc EXCEPT ![n] = "dead"]
  /\ chan' = Unread(n)
  /\ UNCHANGED <<comp, fuel, dealTo, main, clients, leader>>

\* What a dead node had sent and TCP had not delivered is lost.
LoseLast(n, j) ==
  /\ TailLoss /\ pc[n] = "dead" /\ chan[n][j] # <<>>
  /\ chan' = [chan EXCEPT ![n][j] = Front(@)]
  /\ UNCHANGED <<comp, pc, fuel, dealTo, main, clients, leader>>

\* The receiver thread of j finds the connection to n closed.
Disconnect(j, n) ==
  /\ Gone(n) /\ n \in clients[j]
  /\ clients' = [clients EXCEPT ![j] = @ \ {n}]
  /\ UNCHANGED <<comp, pc, fuel, dealTo, main, leader, chan>>

\* Every process has ended, or waits in main() for another one to connect.
AllStopped ==
  /\ \A n \in Node : Gone(n) \/ (pc[n] = "off" /\ clients[n] = {})
  /\ UNCHANGED vars

-----------------------------------------------------------------------------

InitLocal == [state |-> "Initial", states |-> <<>>, bestMax |-> {},
              bestFound |-> {}, curr |-> NoAssignment]

Init ==
  /\ comp = [n \in Node |-> InitLocal]
  /\ pc = [n \in Node |-> "off"]
  /\ fuel = [n \in Node |-> 0]
  /\ dealTo = [n \in Node |-> {}]
  /\ main = [n \in Node |-> "polls"]
  /\ clients = [n \in Node |-> IF n \in Late THEN {} ELSE Node \ (Late \cup {n})]
  /\ leader = Leader
  /\ chan = [i \in Node |-> [j \in Node |-> <<>>]]

\* What a run assumes of the delays, and bounds.  The loop of the code does not wait
\* for messages: it looks at the table when 150 ms have gone by since it last did.
\* "async": a message may take as long as it likes.  "gated": 150 ms are enough, so
\* that what is sent is handled before a node looks at its table again.  "rounds":
\* messages are also handled, and compute() of every node has returned, before the
\* next iteration of any node.
MaySend(n) == \A j \in Node : Len(chan[n][j]) <= MaxInFlight

Timely(n) ==
  /\ MaySend(n)
  /\ Timing = "rounds" => Quiet /\ \A m \in Node : pc[m] # "compute"

ChecksMayRun == Timing \in {"gated", "rounds"} => Quiet

\* One iteration, under these assumptions.
Loop(n) ==
  \/ Timely(n) /\ Iterate(n)
  \/ Timely(n) /\ ChecksMayRun /\ IterateAndClear(n)
  \/ \E sync \in BOOLEAN : Timely(n) /\ ChecksMayRun /\ IterateAndCheck(n, sync)

\* Messages are read at any time; one that makes the node send only within the bound.
Read(n) ==
  \E m \in Node :
    /\ ReadMessage(n, m)
    /\ Head(chan[m][n]).type = "DIVIDE_WITH" => MaySend(n)

Process(n) ==
  \/ StartComputation(n)
  \/ BeginInit(n)
  \/ ExploreFirst(n)
  \/ DivideInit(n)
  \/ Loop(n)
  \/ ContinueCompute(n)
  \/ Read(n)
  \/ SeeFinished(n) \/ Terminate(n) \/ EndLoop(n)

Network ==
  \/ \E n \in Node : Elect(n)
  \/ \E i, j \in Node : Connect(i, j)
  \/ \E n \in Node : Crash(n)
  \/ \E n, j \in Node : LoseLast(n, j)
  \/ \E n, j \in Node : Disconnect(j, n)

Next == (\E n \in Node : Process(n)) \/ Network \/ AllStopped

Spec == Init /\ [][Next]_vars

\* What a thread does without waiting for anything.
Advance(n) ==
  \/ StartComputation(n)
  \/ BeginInit(n) \/ ExploreFirst(n) \/ DivideInit(n)
  \/ ContinueCompute(n)
  \/ SeeFinished(n) \/ Terminate(n) \/ EndLoop(n)

\* The computation thread of a living node keeps running and reads what it was
\* sent; every node gets its turn again and again however busy the others are; a
\* leader looks at its table again and again, and rand() % 6 is 0 again and again.
Fairness ==
  \A n \in Node :
    /\ WF_vars(Advance(n))
    /\ WF_vars(Read(n))
    /\ SF_vars(Loop(n))
    /\ SF_vars(Timely(n) /\ ChecksMayRun /\ IterateAndCheck(n, TRUE))
    /\ WF_vars(Elect(n))
    /\ WF_vars(\E m \in Node : Disconnect(n, m))

FairSpec == Spec /\ Fairness

-----------------------------------------------------------------------------
(* Properties *)

\* All the paths the search visits from p on: those in every set that has p and,
\* with a path, all that exploring it pushes.
Subtree ==
  [p \in Path |->
     {q \in Path : \A C \in SUBSET Path :
                     p \in C /\ (\A x \in C : ToSet(Children[x]) \subseteq C) => q \in C}]

WorkIn(stack) == UNION {Subtree[p] : p \in ToSet(stack)}
WholeJob == WorkIn(Roots)

Living == {n \in Node : ~Gone(n)}
Explored == UNION {comp[n].bestMax : n \in Node}
OnStacks == UNION {WorkIn(comp[n].states) : n \in Living}
Messages(m, n) == ToSet(chan[m][n])
InTransit ==
  UNION {UNION {WorkIn(Job(msg.assign, n)) :
                  msg \in {x \in Messages(m, n) : x.type = "STACK_ASSIGNMENT"}} :
           m \in Node, n \in Node}

BestsTo(n) ==
  UNION {UNION {msg.best : msg \in {x \in Messages(m, n) : x.type = "ASSIGNMENT_FINISHED"}} :
           m \in Node}

\* The leader has dealt the job.
Dealt == \E n \in Node : pc[n] # "init" /\ comp[n].curr # NoAssignment

\* A node that waits has nothing left to explore, so that OnAssignment(), which
\* overwrites the stack of a node that does not compute, destroys no work.
IdleHasNoWork ==
  \A n \in Living : pc[n] # "init" /\ comp[n].state \in {"Initial", "Waiting"}
                      => comp[n].states = <<>>

\* A node that computes has a table, and a table always has the entry of its own
\* node: ClearDisconnected() and CheckAssignments() never remove it, so a leader
\* never takes itself for a new client that must be sent the table.
OwnEntry ==
  \A n \in Node :
    /\ comp[n].state = "Computing" => comp[n].curr # NoAssignment
    /\ comp[n].curr # NoAssignment => comp[n].curr[n] # NoEntry

\* What is left behind when node n is handed the message: by a node that computes its
\* own share in an assignment, which OnAssignment() ignores, and by one that was told
\* to finish what is still on its stack, which OnAssignment() overwrites.
DroppedBy(n, msg) ==
  IF msg.type # "STACK_ASSIGNMENT"       THEN {}
  ELSE IF comp[n].state = "Computing"    THEN WorkIn(Job(msg.assign, n))
  ELSE IF comp[n].state = "Finished"     THEN WorkIn(comp[n].states)
  ELSE {}

\* What is left behind in this step
Dropped ==
  {p \in Path :
     \E n, m \in Node : /\ chan[m][n] # <<>> /\ chan'[m][n] = Tail(chan[m][n])
                        /\ p \in DroppedBy(n, Head(chan[m][n]))}

\* While every node runs, the only work that can vanish is what OnAssignment() leaves
\* behind at a node that computes or has been told to finish.  Dividing, announcing,
\* clearing and re-giving jobs lose nothing by themselves.
OnlyBusyNodesDropWork ==
  [][Dealt /\ Living' = Node
       => Explored \cup OnStacks \cup InTransit
            \subseteq (Explored \cup OnStacks \cup InTransit)' \cup Dropped]_vars

\* Whatever the delays, a best that some node knows is known to every node, or under
\* way to it: nobody loses one when it takes another in, nobody passes on what it was
\* told, and still all nodes know the same whenever no message is under way.
EveryBestArrives ==
  \A m \in Node, n \in Living : comp[m].bestFound \subseteq comp[n].bestFound \cup BestsTo(n)

\* Without crashes: whenever no message is under way every path has been explored
\* or is on the stack of a living node.
NothingLost == Quiet /\ Dealt => WholeJob \subseteq Explored \cup OnStacks

\* With nodes that join late, whose share may be sent by a node that does not know
\* them yet: whenever no message is under way, what is neither explored nor on a
\* stack is at least in the table of the leader, to be given or sent again.
NothingForgotten ==
  Quiet /\ Dealt =>
    \A n \in leader \cap Living :
      WholeJob \subseteq
        Explored \cup OnStacks \cup UNION {WorkIn(Job(comp[n].curr, c)) : c \in Node}

\* "only when no left over job is present we can end the computation"
EndsWithoutLeftOver ==
  \A n \in leader : comp[n].state = "Finished" => WholeJob \subseteq Explored

\* What the computation promises, module WorkPool: nothing but what the search
\* reaches is explored, nothing explored is ever taken back (a best that a message
\* overwrites would be), and a node ends only when everything has been explored by
\* somebody and its own result accounts for all of it.
Pool == INSTANCE WorkPool WITH
  explored <- Explored,
  printed <- [n \in Node |-> IF pc[n] = "done" THEN <<comp[n].bestFound>> ELSE <<>>]

ImplementsWorkPool == Pool!Spec

\* Every process ends, or has crashed: the computation terminates, and the
\* TERMINATE of the leader reaches everybody.
EveryoneEnds == <>(Living = {})

=============================================================================
