# ParLib: a verification development

ParLib computes a maximum cut on a set of machines: every machine runs the same
program, the programs find and connect to each other, elect a leader, and the
leader deals the search to all of them. This directory holds TLA+ models of the
program in `src/ParLib`, configurations that check them with TLC, and proofs
that TLAPS checks. It has no specification of its own to be checked against:
the reference is the code, with its comments and log messages (the repository
has no documentation and no tests).

Contents: [the system](#the-system) · [plan](#plan) · [modules](#modules) ·
[runs](#runs) · [what the runs found](#what-the-runs-found) ·
[proofs](#proofs) · [not modelled](#not-modelled)

## The system

| Component | State | Operations | Talks to |
|---|---|---|---|
| `Computation` | `_state`, `_currAssignment`, `_bestFound`, `_lastAssignCheck`, the queue `_messages` | one thread: leader or non-leader step, one `compute()`, then all queued messages | the network manager (broadcast, send, list of clients, am I the leader), `MaximumCut` |
| `StackAssignment` | the table: node id → stack of the job the node was given | `Update`, `Remove`, `GetAssignment` (which makes an entry), `GetClients` | one copy on every node, sent whole or in part |
| `ParallelStack` | a vector of search states | `push`, `pop`, `assignData`, `giveInterleaved`; the loop of `GetParallelStacks()` over them | `Computation`, `MaximumCut` |
| `MaximumCut` | its stack, `_bestMax` | `PopulateStates()`, `compute()`: up to `loopCycles` + 1 states | `Matrix` |
| `NetworkManager`, election | `_leaderId`, `_leader`, `_lostLeader` | `Step()` every 100 ms; ELECTION, ELECTED, KNOWN_LEADER | every receiver thread, `Computation` (through `IsLeader()`) |
| `NetworkManager`, connections | `_clientConnections`, `_finishingClients`, two locks, two threads | add or discard a client, clean up, keep alive, discover, terminate | `ClientConnection`, `ServerConnection` |
| `ClientConnection` | socket, id of the other side, time it was last heard of | handshake, receiver loop, send, clean up | `NetworkManager` |
| `ServerConnection` | listening socket | accept loop | `ClientConnection` |
| `Message`, `MessageFactory`, streams | none | framing and encoding | `TCPSocket` |
| `TCPSocket`, `AddrIterator`, `Matrix`, `Common`, `Main` | | sockets, addresses, input, logging, start and stop | |

Threads of a process: the main thread, which starts, discovers, waits and shuts
down; the computation; the network manager's main loop and its keep-alive loop;
the accept loop; and one receiver per connection. Messages of the computation go
through the queue `_messages` and are handled by the computation's thread only;
those of the election are handled by the receiver threads, which write `_leaderId`,
`_leader` and `_lostLeader` without a lock, as the main loop of the manager does. All of
them send over the same sockets.

A process opens a server, scans the subnet once, and from each server it finds
makes a connection; the two ends shake hands, decide which of two connections
between them stays, and greet each other with the leader. As soon as it has one
connection, it starts to compute. When it is told to finish, it shuts down while
the others may still go on.

What is hard in this program is that every node decides on its own copy of the
table, while the copies are updated by broadcasts that are not ordered with
respect to each other, and while connections come and go:

* **Work must not vanish.** A handler overwrites a stack; a message carries a
  share that exists nowhere else; a busy node ignores what it is given.
* **The end must be the end.** The leader ends the computation by its table,
  and prints the best it has heard of.
* **Everybody must stop.** A node keeps running until it is told, and its shutdown
  joins threads that are busy with its connections.
* **One leader**, which everybody follows, whoever starts, joins or crashes, and
  whichever threads of a node come between the assignments of each other.
* **One connection** between two nodes, one name for each, and nobody who is
  overlooked by the only scan.
* **Messages stay whole** on a socket that several threads write to in parts.
* **No null table** (the code does not ensure this one, see below), no job for a node that does not exist, no share missing.

`PROJECT.json` lists the hazards one by one, at their lines.

## Plan

1. *(done)* The division of stacks, the computation with its network around it,
   the election, the connections; their runs; type correctness and the
   invariants of single nodes as theorems.
2. *(done)* What the parts promise: a pool of work that the computation
   implements, an office that the election implements, a channel that the framing
   implements. The job itself, a graph and its cuts. Discovery, framing and
   encoding, shutdown. The election's refinement and the safety of the discovery
   as theorems.
3. *Senders and a lock*: `FindClient()` followed by `SendMsg()` while another
   thread is in `CleanUp()`; `_lock` as a lock of its own; a broadcast that holds
   it while a full socket blocks. An abstract registry that `Connections`
   implements and `Election` and `Computation` assume.
4. *More proofs*. *(done)* `GetParallelStacks` and its loop, for any stack and
   number of clients; with any delays of messages, what becomes of the work of all nodes
   (`OnlyBusyNodesDropWork`, `NothingLost`), of the results (`EveryBestArrives`) and of
   the largest cut when the computation comes to rest; that two
   nodes keep the connection they agreed on (`AgreementIsKept`); that a connection is
   a channel (`ImplementsChannel`, `InitialComesFirst`);
   that the search visits the simple paths of any graph, and that the best of their
   sums is the largest cut. *(to do)* The work of a late node (`NothingForgotten`).
5. *Finer steps*. *(done)* `_leaderId` and `_leader` as unlocked variables, written by
   several threads one at a time; `Terminate()` of the computation. *(to do)* The test
   and the answer of an ELECTION as two steps.

## Modules

| Module | Models | Uses, or implements |
|---|---|---|
| `ParallelStack`, `ParallelStacksLoop` | `giveInterleaved()`, `GetParallelStacks()` | the loop returns what the operator says |
| `MaximumCut` | `Matrix` and `MaximumCut` | |
| `Computation` | the computation threads of all nodes | `ParallelStack`; implements `WorkPool` |
| `MaximumCutComputation`, `MCComputation` | the computation with the search as its job | `Computation` and `MaximumCut` |
| `Election` | the election of all nodes | implements `Leadership` |
| `Connections`, `MCConnections` | receiver threads, registry, cleaning up, shutdown | |
| `Discovery`, `MCDiscovery` | start-up, servers, scan | |
| `ByteStreams` | the two streams, the encoding of the table | |
| `Frames`, `MCFrames` | messages over a socket | `ByteStreams`; implements `Channel` |
| `ParallelStackProofs`, `ParallelStacksLoopProofs`, `ComputationProofs`, `ComputationResultsProofs`, `ElectionProofs`, `ConnectionsProofs`, `DiscoveryProofs`, `FramesProofs` | theorems and their lemmas | |

`Channel` is what `Computation` and `Election` take for a connection, and the
outcome of `Connections` is the `Connect` of `Discovery`, `Election` and
`Computation`.

### ParallelStack and ParallelStacksLoop

A stack is a sequence whose last element is the top. `giveInterleaved()` is
dealing to two players; the repeated halving of `GetParallelStacks()` deals to
`count` of them, and the operator `GetParallelStacks` says so in closed form:
the loop ends in the middle of a round in which the stacks have every
`round`-th element. `ParallelStacksLoop` is the loop as written, with its two
vectors that share their stacks by pointer, one step per iteration, and is
checked and proved to return exactly that. The computation uses the operator.

### Computation

| Model | Code |
|---|---|
| `comp[n].state`, `.states`, `.bestMax`, `.bestFound`, `.curr` | `_state`, the stack and `_bestMax` of `_maximumCut`, `_bestFound`, `_currAssignment` |
| `pc[n]`, `fuel[n]` | where the thread is, and the rest of `loopCycles` |
| `dealTo[n]` | the list of clients `InitLeaderStep()` takes before it explores |
| `chan[m][n]` | the connection from `m` to `n` and the queue `_messages` |
| `clients`, `leader` | `GetClients()` and `IsLeader()` |
| `StartComputation` | `main()` before the computation |
| `main[n]`, `SeeFinished`, `Terminate` | `main()` during it: `HasFinished()` every 100 ms, then `Terminate()`, which sets `_state` whatever has happened since |
| `EndLoop` | the end of `ComputationLoop()`, and of the process |
| `BeginInit`, `ExploreFirst`, `DivideInit` | `InitLeaderStep()`: list of clients; the five `ComputeStep()`s; division, broadcast, and the `ComputeStep()` that follows |
| `Iterate`, `IterateAndClear`, `IterateAndCheck` | one turn of `ComputationLoop()`: within the 150 ms gate; with `ClearDisconnected()`; with `CheckAssignments()` |
| `ContinueCompute` | the rest of the loop in `compute()`, one state a step |
| `Read`, `ReadMessage` with `Handle` | `OnMessage()` and the four handlers |
| `Elect`, `Connect`, `Disconnect`, `Crash`, `LoseLast` | what happens around it |

A handler is a function from a node's local state to a local state and the
messages it sends; `CheckAssignments()` is put together from its paragraphs, and
its messages are listed in the order in which they are sent to each node. The
loops that shrink two sorted sets together become "the i-th gets the job of the
i-th" (`Rank`, `First`, `SameRank`).

Abstractions, each of which loses nothing the properties speak of:

* A search state is a simple path of the graph. Here it is a member of `Path`
  with the paths `Children[p]` that exploring it pushes; the tree is a constant.
  `MaximumCutComputation` says which one the program has (`JobIsSearch`), and
  `MCComputation` makes it from a graph with module `MaximumCut`.
* The value of the best cut is replaced by the set of the paths it is the best
  of. A maximum over explored paths is that of the set, and the code only takes
  maxima: `best > _bestFound` is union. `PrintsLargestCut` goes back to the number.
* A null `_currAssignment` is the table without entries. `OwnEntry` shows that a
  table that exists is never empty. Dereferencing the null pointer kills the
  process (`Aborted`).
* A message arrives when it is handled. The code reads all that has arrived at
  the end of a turn; reading fewer is a message that has not arrived yet.
* `rand() % 6 == 0` may be true or false at any look at the table.

The actions have the guards of the code and no others. What a run assumes of the delays,
and its bounds, is added where they are put together (`Loop`, `Read`), by the constant
`Timing`: `"async"` assumes nothing; `"gated"`, that a message is handled within the
150 ms that lie between two looks at the table, which is what the code relies on; and
`"rounds"` also lets a node start its next turn of the loop only when nothing is under way
and nobody is in `compute()`. The last one is stronger than anything the code does, and
makes the model of three nodes small enough to follow it from dealing to the end: no
message crosses a turn, and only one node explores at a time. What is checked with it
(`Rounds`, `Crash`, `Late`) is said of such executions and no others; `Async`, `LostWork`
and all theorems about the computation are for any delays.

`WorkPool` is what all nodes promise together: two variables, the paths explored
so far and the results printed. Paths are explored only if the search reaches
them, an explored path is never taken back, and a node prints only when everything
that is reached has been explored, a result that accounts for all of it. Dividing,
sending, re-giving and announcing are stutters. `Computation` implements it in
`Rounds` with the union of all `bestMax` and the `bestFound` of those that are done.

### MaximumCut

`getNeigh()`, `sum()`, `PopulateStates()` and the step of `compute()` over a
matrix of weights. `LargestCut` says what is looked for without the search: the
largest sum of arcs leaving a set of vertices that some path visits once each.
That is what the program computes; a set that no simple path visits is never
looked at, so it need not be the maximum cut of the graph.

`MaximumCutComputation` puts `Computation` and `MaximumCut` together: the roots are
what `PopulateStates()` pushes, the children of a path are its `Longer` ones, and
`PrintsLargestCut` compares the number a node prints with `LargestCut`. TLC checks
`JobIsSearch` as an assumption in every run of `MCComputation`.

### Election

A handler runs in the receiver thread of one connection, `Step()` in the main loop of the
manager, and no lock keeps them apart. So every assignment to `_leaderId`, `_leader` and
`_lostLeader` is a step of its own, and `pc[n][t]` says which one thread `t` of node `n`
makes next:

| Model | Code |
|---|---|
| `OnElection`, `NameItself`, `TakeLead` | `OnElectionMessage()`: its tests and answer; line 97; line 98 and the ELECTED |
| `OnLeaderNews`, `FollowLeader` | `OnElectedMessage()`, `OnKnownLeaderMessage()`: lines 119 and 132; lines 120 and 133 |
| `StartElection`, `DecideAlone`, `LeadAlone`, `NameAlone` | the first half of `Step()`: the tests; lines 156 and 157 |
| `FindLeaderLost`, `StopLeading`, `ResetLost`, `ForgetLeader` | the second half: the tests; lines 171 to 173 |
| `DiscardClient`, `DiscardSecond` | `DiscardClient()` for a connection that has failed, and for one of two connections between the same nodes: the code marks the leader as lost although the other connection stays |
| `crossed` | history: nodes of which a thread began between the assignments of another |

Timeouts may expire at any time: `StartElection` needs no clock. `_electionParticipant`
is left out since nothing ever sets it to true. `GetNextId()` is translated as it stands:
its variable `least` holds the largest of the smaller ids, so the "ring" leads
from the highest node back to its neighbour. The two halves of `Step()` need no order: a
node of which the first half finds a leader that is not set has not lost one, unless
threads have crossed. What is still one step: the test of `_leaderId` with the answer to
an ELECTION, and the comparison with the assignment to `_lostLeader` in `DiscardClient()`.

`Leadership` is what nodes promise whose connections stay: one of them takes
office, once, and each of the others turns once from nobody to that one.
`Election` implements it by `_leaderId` and by who is in office (`InOffice`): a node takes
office with line 97, one assignment before `_leader` says so. Messages are stutters.

### Connections

| Model | Code |
|---|---|
| an end `<<c, "client">>` or `<<c, "server">>` | a `ClientConnection` made by `AddFoundServers()` or `AcceptLoop()` |
| `recv[e]` | where its receiver thread is, `"ended"` when it can be joined |
| `sock[e]` | `_socket`: open, closed by `CleanUp()`, or reset |
| `registry[n][m]` | `_clientConnections` of `n` at the id of `m` |
| `finishing[n]` | `_finishingClients` |
| `cleaner[n]` | who holds `_finishingLock` in `CleanFinishingClients()` |
| `Handshake`, `AddOrDiscardClient`, `TakeMessage`, `LoopEnds`, `RegisterFinishingClient` | `ReceiverLoop()` |
| `EnterCleaning`, `CloseSocket`, `JoinAndDiscard`, `LeaveCleaning` | `CleanFinishingClients()`, with `CleanUp()` for each on the list |

A thread that cleans up keeps the lock while it waits for another thread to
end, and that is what may deadlock; what happens under `_lock` is short and is
one step. `RegisterFinishingClient()` takes the lock twice, first to clean up
and then to register, and others may come between. A call that finds the list
empty is left out except on the way to registering. The second `CleanUp()` of
the destructor is the `Without` in `LeaveCleaning`.

`main[n]` is the main thread in `Terminate()`: clean up, stop the server, join the
two threads, then `DisconnectClients()`, and both once more. It begins at any
time after the node's own discovery, while its receivers and the other node go
on. A node that terminates does not wait for its receivers. They see that their
socket fails when the other side closes it, or after 10 s, and until then the
process is gone; `Exit` ends them and closes the sockets. Its guard says that no
receiver is in the middle of a call of the network manager when main() resets
it: main() has slept for 800 ms by then. (A message that arrives between line 77
of `Main.cpp` and the exit would be handled through a null `GNetworkManager`,
`ClientConnection.cpp:40`; that window is left out.)

An end sees that its socket fails when the other end has closed it or the
connection is broken. It times out when the other side does not keep the
connection, because only registered connections get keep-alive messages, every
100 ms; `Silent` says so, and it assumes that the handshake of the other side
does not take the 10 seconds of the timeout.

### Discovery

| Model | Code |
|---|---|
| `pc[n]`, `port[n]` | the main thread, and the port of `InitServer()` |
| `Bind`, `Listen`, `StartServer` | the constructor: `bind()` and `listen()` are two steps, as other processes of the host may come between |
| `next[n]`, `tries[n]`, `scanPort[n]` | the iterator of addresses and the two loops of `DiscoverAll()` |
| `Probe` | `connect()` with `CheckForServer()`; a server is missed when its answer takes more than 5 ms, and when `connect()` succeeds at once, as the code then closes the socket (`TCPSocket.cpp:311`) |
| `found[n]`, `clients[n]` | `foundSockets`, and the connections made of them |
| `NetworkId(n)` | the first local address within the subnet, and the port |
| `StartComputation` | the loop "Waiting for at least 1 other clients" |

Addresses are numbers below `AddrSpace`; shifting `bits` to the right is dividing
by `SubnetSize`. `NextAddr` keeps `tries` as it is counted: with 16 for
`maxTries`, 17 addresses are scanned. `DiscoverAll()` logs that all of the subnet will be
(`NetworkManager.cpp:191`), which is right of a subnet of up to 17 hosts and of no larger
one: of the 256 hosts of an 8-bit subnet 239 are never tried. `ScansSubnet` states the
promise where the tries suffice for it. A second process on a host gets the next port, and the
ninth one a port nobody scans.

### ByteStreams, Frames and Channel

`ByteStreams` has a Put and a Next operator for each kind of value; numbers are in
two's complement, the least significant byte first. Numbers may wrap and strings
end at their first zero, as in the code.

`Frames` is one direction of a connection, byte by byte: three threads of the
sender (its receiver thread with the handshake and the greeting, the keep-alive
thread, the computation), `_lock` of the connection and `_sendLock` of the socket,
at most `Capacity` bytes under way, and the receiver thread of the other side.
Every call of `send()` and `recv()` takes as many bytes as it likes. A call that
times out leaves a message cut short: the sender's socket has failed and will be
closed, but `Send()` does not look at `_error`, so other threads may put their
messages behind the torn one until then.

`Channel` promises that messages come out whole, once each and in order. `Frames`
implements it up to the first message that is cut short; what follows that
one is garbage that the other side may take for messages until the connection
is closed. `Delivered` decodes what was read, so that the encoding is part of it.

## Runs

| Run | Question | Bounds |
|---|---|---|
| `ParallelStacksLoop` | does the loop divide without loss, fairly, as the operator says, and does it end | stacks of 0–12 states, 1–9 stacks: every way to stop in a round of 1, 2, 4 or 8 |
| `Async` | with any delays: are waiting nodes empty, do tables keep the own entry, what is the only way to lose work, and does every result get to everybody | 2 nodes, 5 paths, 1 message to a node in flight before another is sent |
| `Rounds` | the whole protocol: does it implement the pool of work, end, and print the largest cut, with nothing lost on the way and nothing left over at the end | 3 nodes, 8 paths of a graph with 4 vertices and 3 arcs |
| `Crash` | one worker crashes at any point, with the last of its messages lost: is nothing overwritten, do the others end | 3 nodes, 4 paths |
| `Late` | a node connects at any time, to the others one after the other: is its share in somebody's table at least | 3 nodes, 5 paths |
| `Election` | does the highest of all lead, once and for all, and does everybody agree in the end | 4 nodes, up to 3 messages in flight |
| `ElectionChurn` | with a late and a crashing node: do `_leader`, `_leaderId` and `_lostLeader` agree, and what is the only way in which they come to disagree | 3 nodes; a node starts an election when no message is in flight |
| `Connections` | do two nodes that connect to each other keep the same connection, and is every other one cleaned up | 2 nodes, 2 connections, each of which may break at any time |
| `Shutdown` | does a node get through `Terminate()` at any time, and do the others forget it | 2 nodes, 2 connections, one node stops |
| `Discovery` | does everybody get a name of its own and meet somebody; is the scan complete | 3 nodes on 2 hosts, a subnet of 2 addresses and 2 tries, 2 of 3 ports scanned, a port in use by another program, one node that probes may miss |
| `Frames` | do messages come out of a shared socket as they went in, and do they all arrive | bytes of 8 values, ints of 2 bytes, 2 bytes under way, 3 threads with up to 2 messages each, timeouts anywhere |
| `LostWork` | the disagreement below | 2 nodes, 8 paths |

Why this is enough to be interesting: with three nodes a divider, a receiver and
a bystander that only updates its table are different nodes; the paths that are
left after one or two explored ones make a share that is divided again when the
first node runs dry; the leader is the highest node (1 in `Async`) and both orders
of ids between leader and divider occur. In the graph of `Rounds` the largest sum
is that of one path in the middle, so a best that is lost or not announced shows.
`LoopCycles` is 0 or 1 instead of 10 and `InitSteps` 1 instead of 5, so that a
slice of the search is as small as the jobs. `MaxInFlight` bounds when a node may
*add* messages, never what it may do with those it has. Nodes are not symmetric
(ids are ordered), so no symmetry is used. The channel bound and the finite job
make every model finite. In `Connections` two nodes are what a tie-break is about,
and with both ends of two connections a node has two receivers and the keep-alive
thread, which may all want to clean up. Its locks are per node; a third node would
add threads that wait in the same place. `Shutdown` also passes when both nodes
stop. In `Discovery` a second process of a host binds the port of the first one,
gets one that is not scanned when the other program is there, and the probes of
different hosts interleave with both. In `Frames` any part of a message may take
several calls, and a header or a body may end in the middle of one.

`TypeOK` is checked once for `Computation` and `Election`, and proved for them,
`Connections` and `Discovery`. The other invariants are written so that a single misplaced
statement breaks them; for each property of each run there is a mutant of a
definition (marked `mutant` in the modules), a bug someone could write, under
which TLC reports that property: dropping the last state of an odd stack, sending
the halves to each other's nodes, stopping at the last address, replacing
the table instead of updating it, registering before cleaning up, sending without
the lock, ignoring the result of `listen()`.

### Fairness

`FairSpec` says: the thread of a living node runs on and reads what it was sent
(weak fairness of `Advance` and `Read`: nothing blocks it); every node
gets its turn of the loop infinitely often when it can have it infinitely often,
and a leader looks at its table infinitely often and with `rand() % 6 == 0`
infinitely often (strong fairness: the gate is a clock, and in `"rounds"` a turn
is possible only while nothing is in flight); a node without a leader elects one,
and a closed connection is noticed (the receivers' timeouts). `Election` assumes
weak fairness of each node's `Step()` and of every receiver thread.

`Connections` assumes that some thread takes a step as long as one can
(`WF_vars(Run)`); breaking and messages are not part of it. As no behaviour has
infinitely many such steps, this means that every thread runs on until it ends
or is blocked for ever. Threads that come by when there is nothing to clean up
are not modelled, so the assumption about the mutex is that they do not keep the
others from it for ever.

The same fairness drives `Shutdown`: the main thread is one of the threads. When a
computation finishes is left open, so `Terminate` is not fair.

`Discovery` assumes that the main thread of a process that has been started runs
on, and that the connection to a server that was found is made, as module
`Connections` shows. `Frames` assumes that a `Send()` that has begun goes on while
there is room in the socket and that the receiver thread reads; nobody has to
begin a message, and timeouts may come at any time.

There is no liveness in `Async`, because without an assumption on the delays the
computation need not end: a table that crosses an ASSIGNMENT_FINISHED revives the
finished job, the node that takes it up shares it with the leader, and the same can
happen again, in every turn. TLC finds such a loop for `EveryoneEnds` under `FairSpec` with
the constants of `Async`, with `Timing = "async"` and with `"gated"`. In the program only
chance ends it.

Deadlock is checked in the runs of `Computation` and `ParallelStacksLoop`;
`AllStopped` and `Stop` are the states in which they may stop. An election may
really stop, and its configurations say so.

## What the runs found

**A share can be lost** (`LostWork`, `Computation.cpp:421`). A node that
computes ignores its own share of an assignment. With messages that take
longer than the gate, the leader asks a second time for a division, or sends
an old table; the node that has just become busy ignores the new share, it is
in no table after the node announces that it has finished, and the leader
ends the computation without it, although "only when no left over job is
present we can end the computation" (line 250). With messages that never cross a turn of
the loop the comment is right (`Rounds` checks `EndsWithoutLeftOver`), and with two nodes
and messages that are handled within the gate as well; with three nodes that is not
enough, since an ASSIGNMENT_FINISHED and a table of the leader may cross. While nobody
crashes or comes late, what `OnAssignment()` leaves behind at a node that is computing or has been
told to finish is the only work that can vanish, with any delays, which is
proved as well.

Other behaviours met on the way. They are recorded as hazards; where constants are
given, the property named is violated under them.

* *A leader elected too late has no table* (`Computation.cpp:242`). `main()` starts
  the computation as soon as another node is connected. If no leader is elected
  yet, the first turn of the loop leaves the state Initial; elected after that,
  the node skips `InitLeaderStep()` and dereferences the table it does not have.
  (`Rounds.cfg` with `Node = {1, 2}` and `Leader = {}` reaches a node that is
  `"Aborted"`.)
* *A dead leader is believed again* (`NetworkManager.cpp:79-83`, `:132`). A node
  that has forgotten the dead leader asks for an election; one that has not
  noticed yet answers KNOWN_LEADER. The first believes it, has no connection left
  whose loss could tell it otherwise, and nobody is elected any more.
  (`Election.cfg` with `Node = {1, 2, 3}`, `Crashable = {3}`, `MaxInFlight = 2`:
  `Agreement`.)
* *Messages that cross a turn of the loop.* The channels from the leader and from
  a fast third node are not ordered with respect to each other, so
  ASSIGNMENT_FINISHED may arrive before the first table and write through a null
  pointer (`Computation.cpp:450`); a table sent before the leader has heard of the
  end of a job makes an idle node explore the job again, and may do so again and
  again. Hence no property says that nothing is explored twice, that the leader's table
  is right or that no null table is met: the code does not ensure any of these. With
  `"gated"` and two nodes `NothingLost` and `EndsWithoutLeftOver` hold (`Async.cfg` with
  that timing and `LoopCycles = 1`); with three nodes they fail (`Rounds.cfg` with
  `"gated"`).
* *Back from the end* (`Computation.cpp:426`). An assignment that is read after TERMINATE,
  or after the leader has ended the computation, makes the node compute once more; if
  `main()` has seen `HasFinished()` before, `Terminate()` ends it with work on its stack.
* *Two leaders* (`NetworkManager.cpp:97-98`, `:132-133`).
  A node that elects itself in one receiver thread and hears of another leader in a second
  one may end with `_leader` true and `_leaderId` naming the other: both lead, and both
  would deal the job. `ElectionChurn` finds it when the property does not except nodes of
  which threads have crossed, in a network that a third node joins.
* *Fewer hosts scanned than logged* (`NetworkManager.cpp:191`), see
  [Discovery](#discovery).
* *A late node.* It is not known to every divider, so its share waits for the
  leader's next synchronisation: `NothingForgotten` holds, but of the
  properties of `Rounds` with `Late = {1}` neither `NothingLost` nor `ImplementsWorkPool`
  nor `EveryoneEnds`. With a crash *and* a late node, or a
  broadcast cut off by a crash, even that is not enough.
* *A job so small* that `InitLeaderStep()` explores all of it ends with the result
  0, since nobody computes and nobody announces. One that leaves no more states than
  there are clients gives the leader, which comes last, an empty share: it never
  computes, and the best of what it explored before the division is never announced.
  (`Rounds.cfg` with `InitSteps = 3`: `PrintsLargestCut`.) All of the job is
  explored in both cases, and only the result is wrong.
* *The office.* A leader elected after a crash, still in the state Initial, deals
  the whole job again; a node told that it is itself the leader ignores the
  answer and starts elections for ever; two leaders whose networks are joined
  depose each other.
* *Names.* A host without an address in the subnet has the empty address in its
  name, so two such hosts have the same names, and refuse each other's connections.

## Proofs

All theorems hold for every value of the constants under the assumptions the
modules name: nodes are a finite set of numbers (`NodeAssumption`; the ids are
strings, of which only the order is used), exploring a path pushes a sequence of
paths (`JobAssumption`), steps and bounds are natural numbers, `NoEntry` is not a
stack and `NoNode` is not a node. What else a theorem assumes is in its statement:

* `WorkIsPassedOn`: `Late = {}`, every node is connected to all others from the
  start. A node that is not known to a divider is not sent its half.
* `BestsArrive`, `NoJobIsLost` and `CutIsKnownAtRest`: `Late = {}` as well, and for
  results `TailLoss = FALSE`, that what a node has announced before it dies arrives. There
  is no assumption on the delays. What can go wrong is a hypothesis on steps
  instead, `[][~LosesWork]_vars` for `NoJobIsLost`, `[][~Loses]_vars` for `CutIsKnownAtRest`. A step
  `LosesWork` when a share that `OnAssignment()` leaves behind is the last copy of it: not
  explored, on no stack, not under way to anybody. A share left behind by a node that got
  it twice, or that was explored in the meantime, does no harm and is not excluded.
  `Loses` adds that the leader deals itself an empty share (*a job so small*), and that a
  node which was told to finish goes back to work (line 426). Run `LostWork` and the
  list above show that each of the three happens in the program.
* `SearchIsATree`, `SearchVisitsPaths` and `CutIsKnownAtRest` assume `JobIsSearch`,
  which is what the program does, and `MatrixAssumption`: a square matrix of bytes with
  at least one row (`compute()` exits without one).
* The theorems about the discovery: `NoWrap`, the iterator does not run past the last
  address of all before it has been asked `maxTries` + 1 times. They are for any
  hosts, addresses, ports, foreign programs and nodes that probes may miss.
* The theorems about the framing: `EncodingAssumption` of `Frames`, that what the
  factory encodes is read back as it was. This holds as long as numbers and lengths
  fit into their bytes and no name contains a zero, but decoding is a fold over bytes,
  and what a fold computes for every input cannot be proved here. TLC evaluates the
  assumption for the messages of run `Frames`.

| Theorem | Says |
|---|---|
| `TypesAreKept` | `Spec => []TypeOK` of the computation: in particular the ranks in `CheckAssignments()` always name nodes and `InitLeaderStep()` has a stack for every client |
| `OwnEntryIsKept` | a node that computes has a table with its own entry |
| `WaitingNodesAreEmpty` | a waiting node's stack is empty, so an assignment destroys no work of it |
| `WorkIsPassedOn` | whatever the delays, while all nodes run, the only work that vanishes from the stacks and messages is what `OnAssignment()` leaves behind at a busy or finished node |
| `NoJobIsLost` | whatever the delays: if that is never the last copy, all of the job is explored or on a stack whenever no message is under way |
| `BestsArrive` | whatever the delays, a best that one node knows is known to all that run, or under way to them |
| `CutIsKnownAtRest` | whatever the delays, for any graph, nodes and slices: when the computation comes to rest every node knows the largest cut, or one of the three things has happened that `Loses` names |
| `OnlyReachedIsExplored`, `ResultsAreReal` | whatever the delays, crashes and late nodes: only what the search reaches is explored, and every result is the best of explored paths |
| `SearchIsATree`, `SearchVisitsPaths` | the search of any graph is a tree, and visits its simple paths, each of them and nothing else |
| `BestOfPathsIsLargest` | the best sum over all simple paths is the largest cut with a path through one side |
| `TypeCorrect`, `OnlyCrossingDisagrees` | type correctness of the election; with any connections, crashes and interleavings of threads, a node leads iff it names itself, and never deposes itself, unless its threads have crossed |
| `HighestLeads`, `LeaderIsFollowed` | among nodes that stay connected only the highest leads, and whoever is followed is in office, whatever threads cross |
| `ElectionImplementsLeadership` | among such nodes the election implements `Leadership`: `Spec => Office!Spec` |
| `NodesMeet`, `NamesTellApart`, `ScanIsComplete`, `Typed` | two nodes that have looked for each other have met; nodes that listen have different names; all ports of a subnet that the tries suffice for are probed, and none outside of a subnet; type correctness of the discovery |
| `EntriesStayUsable`, `EntriesStayWatched`, `TypesHold` | no registered connection has a reset socket; each has a receiver that will see to its end or is on the list; type correctness of the connections |
| `AgreementStays` | two nodes that keep the larger one's connection keep it until it breaks or one of them stops |
| `FramesImplementChannel`, `HandshakeComesFirst`, `TypeCorrect` | the framing implements `Channel`: `Spec => FIFO!Spec`, so the messages before one that is cut short come out whole, once and in order; the first that comes out is the one of the handshake; type correctness of the framing |
| `GiveInterleavedSplits`, `GetParallelStacksDivides`, `SharesForAll` | one halving, and the division of any stack into any number of parts, keep every element exactly once; no part is empty when there are states for all |
| `NeverLoses`, `LoopReturnsDealtStacks`, `SharesAreFair` | the loop of `GetParallelStacks()` holds every element once in each of its iterations, returns what the operator says, and shares differ by a factor of two and one element at most |

*Computation.* `OwnEntry` and `IdleHasNoWork` are about single nodes, and so is
the inductive invariant `IInv`: types, `Owns` (own entry), `IdleEmpty` unless the
node is in `InitLeaderStep()` or gone, and that `compute()` runs only with states
to go. The exemption is necessary: between `BeginInit` and `DivideInit` a leader
is Waiting with a full stack, and only because it reads no message then nothing
is lost. Handlers are functions of a local state, so there is one lemma per
handler ("whatever it is called with, what it returns owns its entry and is not
idle with work"), and `NodeStep` turns a change of one node into a step of
`IInv`. `CheckAssignments()` needs the order of nodes: `RankOrder` and `RankOnto`
show that ranks count a set without gaps, so the i-th element of one set has a
counterpart in another that is long enough.

*Division.* A part of a division is a hand: every `stride`-th element from some
place. Halving one gives two with twice the stride (`HalvedHand`), so in the middle
of a round the parts are `StacksAt(s, round, index)`, some of which have been halved
in this round and some not yet. That these divide the stack (`StacksAtDivide`) is
arithmetic of residues; that the loop stops at one of them is in the invariant of
the loop (`Making`); and the operator is the one at the power of two below `count`
(`LastRoundOf`, `NoPowerBetween`).

*Work, with any delays.* `Subtree` is the least set closed under `Children`, so no
induction is needed for what one step does: exploring a path leaves it and the
subtrees of its children (`ExploreWork`), halving and dividing leave the union
(`HalvesWork`, `DivisionWork`). A handler `Passes` work when all that was on the
stack is explored, still there, or in an assignment to another node, under that
node's name. It then arrives because `NetInv` holds: each node is connected to all
that are not gone (`Linked`), nobody is asked to divide with itself
(`OthersDivide`: the one half would overwrite the other), and `InitLeaderStep()`
deals to others from a waiting node (`LocalsRight`). Reading a share puts it on the
stack, which is empty before (`IInv`) unless the node computes or has finished.

So a step may lose only what `OnAssignment()` leaves behind, `Dropped`.

*The job.* `JobKept` says that the job, once it has been started, is within what is explored, on
stacks and under way; before, nobody has a table (`NothingYet`). Each step that
loses nothing keeps it, by `WorkIsPassedOn`, and when no message is under way that is
`NothingLost`.

*Results.* A node's result changes when it stops computing or is told of another's. In
the first case it announces to everybody, in the second it need not, because the one that
knew has announced, or heard it from one that has: `AnnouncesOwn`, that what a node has sent
is in its own result, and `EveryBestArrives` are inductive together. No handler makes a
result smaller and none sends one but `AnnounceIfComputing()` (`CheckMessagesSilent`, `Silent`).

*At rest.* When nobody works and nothing is under way all stacks are empty (`IdleHasNoWork`),
so by `JobKept` the whole job is explored; a node that waits has counted what it has
explored (`Counted`: it announced when it stopped, or it has never computed), and by
`BestsArrive` all others have heard of it. What was explored are the simple paths, and the
best of their sums is the largest cut. `Counted` is what a leader breaks that deals itself
nothing, and a node that goes back to work after TERMINATE.

*The largest cut.* What a path reaches begins with it, so paths of one length that
differ reach nothing in common: the search is a tree. It visits simple paths only,
because `compute()` appends only neighbours that are not on the path; it visits all of
them, because the longest beginning of a path that is visited can be made longer
(`PathGoesOn`), which replaces an induction on the length. `Matrix::sum()` adds up by
row what `LargestCut` adds up over arcs (`GridTotal`), for which the order in which a
fold takes the elements must not matter (`TotalTake`): here induction over finite sets
is done by hand, with a smallest counterexample (`LeastSet`). The sets of vertices a
simple path visits are those that can be put in an order that follows arcs
(`SidesArePaths`); so both maxima are of the same numbers.

*Election.* `SelfInv` says of each node whose threads have not crossed where it stands: either
all its threads wait, and the three variables agree (`Agreed`), or one thread is amid a
handler and they are what its place says (`Amid`). A thread that begins while another is
not waiting puts the node into `crossed`, so no assumption is needed. For a static network
`StaticInv` adds what messages may carry (`MayCarry`): an ELECTION the highest id, or the
sender's own one on its way to a larger neighbour; an ELECTED or KNOWN_LEADER only the
highest id, and only when that node is in office. It is inductive because a
node passes the larger of two ids on, and the only node whose next one is
smaller is the highest. It also says what threads amid a handler are about to do
(`Settling`): threads of the highest node make it lead, those of others make them follow,
in whatever order, and that is why crossing does no harm there. The refinement
follows: a step that makes a node take office is `TakeOffice`,
since only the highest may and it is not in office before; a step that makes a node
follow is `Follow`, since what it hears is the highest and that node is in office already.

*Discovery.* `NamesAreDistinct` follows from `PortsAreDistinct`, which holds because
`listen()` checks a port once more, and from `AddressAssumption`, that no two hosts
share an address of the subnet. `PairsMeet` is inductive together with these and
`ScanInv`: a node that does not listen yet has probed nothing (`BeforeScan`), so when
the second of two nodes probes the port of the first one, both listen; and whoever
answers there is that node. `ScanInv` also relates the counter of tries to
`_stateAddr`: what has been probed is all ports of the addresses before the current
one (`Block`), and the ports of that one before `scanPort`.

*Connections.* The two properties are inductive together with three facts about
single threads: who cleans up is in a call of `CleanFinishingClients()` of its
own node, a socket is reset only after its receiver has ended, a node's entries
are its own ends. Resetting a socket follows on erasing its entry; clearing the
list is harmless because all its sockets are reset by then, so that no entry is
on it. `Moves` treats all steps of a receiver that only move it on. Agreement needs
`AInv` on top: listed ends have ended, a socket is open until its receiver ends, and
an end that its node keeps while the other node has not decided yet, or keeps the
other end, stays in its loop (`UnrefusedStay`). So nobody lists or erases it; and of
the connections of two nodes only the larger one's is `Preferred`, so that nothing
takes its place.

*Framing.* The bytes on a connection are numbered from the answer to the probe on. The
inductive invariant says that there are four values which explain the state: `pos`,
where each message ends; `ideal`, the bytes there would be if no message were cut
short; `edge`, how many of them have been sent; and `base`, how many the reader had
taken when it began the part it waits for. What a thread has left to send goes on at
the edge (`Writing`), what is in the reader's buffer and on the wire are the bytes
behind `base` (`UnderWay`), and the reader stands where a message or its data begins
(`Reading`), so a header it takes is one that was sent. After a message was cut short
the bytes up to `edge` are still explained, and nothing is claimed of those behind: the
reader may take them for anything, which the channel allows. But until the connection
is registered only one thread sends, and it stops (`Handshake`, `Exact`); so the
message of the handshake is whole before anything can go wrong behind it. A step
is a `Send` of `Channel` when a message is begun and none was cut short before it, a
`Deliver` when the reader takes a message that was sent whole, and a stutter otherwise.

*Model-checked only*: everything under fairness (`EveryoneEnds`, `Agreement`,
`EveryoneGetsAStack`, `OneConnection`, `BrokenIsForgotten`, `StoppedIsForgotten`,
`NobodyIsLeftWaiting`, `EverythingArrives`), which is out of the prover's reach.
Of the computation also `PrintsLargestCut`, `EndsWithoutLeftOver` and
`ImplementsWorkPool`, which the code keeps only with delays that it does not ensure
(`CutIsKnownAtRest` is what holds with any), and `NothingForgotten`. That is about a node
that comes late, for which `JobKept` does not hold: such a node may read an
announcement before its first table and abort, it may be disconnected from one node and
not from another, and its job may be given again while it still works on it. An
invariant for it has to say which of several copies of a share counts. That encoding and
decoding in `ByteStreams` are inverse for every input is an induction over data, which is out of the prover's reach;
`SimplePath`, which is recursive, only gives TLC the paths of a graph and is in no theorem.

## Not modelled

* The system calls of sockets but for what is said above, `select()`, timeouts as
  clocks, and the whole Windows build (which scans without a limit of tries).
* Reading and copying a `Matrix`, its memory, and sums of more than 32 bits, for
  which a matrix would need some 4000 rows. `get()` and `sum()` are modelled.
* Logging, sleeping, the clock, and the text of addresses (`Common`).
* `_lock` as a lock: what is done under it is one step, also a broadcast, although
  a full socket may block it for up to 10 s; and a `SendMsg()` to one node, which
  keeps a reference from `FindClient()` whose socket may be reset meanwhile
  (`ClientConnection.cpp:134`).
* The construction of the network manager, whose threads start before its last members have values:
  undefined behaviour for which the models have no states. The accesses of threads to
  `_leaderId`, `_leader` and `_lostLeader` are data races as well, and modelled as
  assignments in some order; a string that is torn by two of them is not.
* One module with everything: the composition is by what modules promise each
  other (`Channel`, `Leadership`, the `Connect` actions).
* `giveTopHalf()`, `giveTopQuarter()`, `BlockingQueue::Pop()`, `DataMessage`,
  `AddrRangeIterator` and the states `Terminating` and `_returnedStacks`, which
  nobody uses.
