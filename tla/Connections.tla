----------------------------- MODULE Connections -----------------------------
(***************************************************************************)
(* The connections between the nodes: the receiver threads of class        *)
(* ClientConnection, from the handshake to the end of their loop, and what *)
(* class NetworkManager keeps of them: _clientConnections and the list     *)
(* _finishingClients of the connections to be cleaned up.                  *)
(*                                                                         *)
(* Two nodes that discover each other open a connection each, and both     *)
(* ends of both decide on their own which one to keep.  Whichever thread   *)
(* enters CleanFinishingClients() cleans up after those that have ended,   *)
(* holding _finishingLock all the while.  What is done under _lock alone   *)
(* is one step.  A node whose computation has finished calls Terminate()   *)
(* from its main thread, while the other threads and nodes go on.          *)
(***************************************************************************)
EXTENDS Integers, SequencesExt

CONSTANTS Node,       \* network ids, which the code orders as strings
          Conn,       \* the connections DiscoverAll() of the nodes makes
          Breakable,  \* connections that may break, or time out when they start
          Stoppable,  \* nodes whose computation may finish
          KeepAlive,  \* the keep-alive thread of a node
          Main,       \* its main thread
          NoEnd       \* no connection, and no thread

ASSUME NodeAssumption == Node \subseteq Nat /\ IsFiniteSet(Node)
ASSUME ConnAssumption ==
  Conn \subseteq [from : Node, to : Node] /\ Breakable \subseteq Conn /\ Stoppable \subseteq Node

\* Each end of a connection is a ClientConnection, with a receiver thread.
End == Conn \X {"client", "server"}

ASSUME NamesAssumption ==
  /\ NoEnd \notin End /\ KeepAlive \notin End \cup {NoEnd}
  /\ Main \notin End \cup {NoEnd, KeepAlive}

Client(c) == <<c, "client">>
Server(c) == <<c, "server">>
Other(e) == IF e[2] = "client" THEN Server(e[1]) ELSE Client(e[1])
Owner(e) == IF e[2] = "client" THEN e[1].from ELSE e[1].to
Peer(e)  == Owner(Other(e))

VARIABLES recv,       \* where the receiver thread of each end is
          sock,       \* _socket of each end
          sent,       \* the ends that have sent their id in the handshake
          registry,   \* _clientConnections: what a node keeps for another one
          finishing,  \* _finishingClients
          cleaner,    \* the thread that holds _finishingLock to clean up
          broken,     \* connections of which no message gets through any more
          main        \* where the main thread is in Terminate()

vars == <<recv, sock, sent, registry, finishing, cleaner, broken, main>>

\* In their order: not connected; the two halves of the handshake; before
\* AddOrDiscardClient(); in the loop, waiting for a message or handling one; on the
\* way out, before and after RegisterFinishingClient() has cleaned up others; and
\* registered, from where the thread ends without taking a lock.
Receiver == {"none", "send", "receive", "add", "loop", "message", "leave", "register",
             "ended"}

\* In their order: before Terminate(); its calls of CleanFinishingClients(), StopServer()
\* and join(); DisconnectClients(), which cleans up and clears the registry; cleaning up
\* and clearing once more; returned; and the process has exited.
MainPlace == {"running", "clean", "listener", "threads", "cleanAgain", "clear", "cleanLast",
              "clearLast", "returned", "gone"}
AfterCleaning == [clean |-> "listener", cleanAgain |-> "clear", cleanLast |-> "clearLast"]

TypeOK ==
  /\ recv \in [End -> Receiver]
  /\ sock \in [End -> {"open", "closed", "null"}]
  /\ sent \in SUBSET End
  /\ registry \in [Node -> [Node -> End \cup {NoEnd}]]
  /\ finishing \in [Node -> Seq(End)]
  /\ cleaner \in [Node -> End \cup {KeepAlive, Main, NoEnd}]
  /\ broken \in SUBSET Conn
  /\ main \in [Node -> MainPlace]

\* The other side does not answer any more.
Dead(e) == e[1] \in broken \/ sock[Other(e)] # "open"

\* Nobody sends keep-alive messages on it: both ends have decided, and the other
\* side keeps another connection, or none.
Silent(e) ==
  /\ recv[Other(e)] \notin {"none", "send", "receive", "add"}
  /\ registry[Peer(e)][Owner(e)] # Other(e)

Goto(e, place) == recv' = [recv EXCEPT ![e] = place]

-----------------------------------------------------------------------------
(* The receiver thread of an end *)

\* Until StopServer() has joined the AcceptLoop().
Listens(n) == main[n] \in {"running", "clean", "listener"}

\* AcceptLoop() starts the receiver of a server's end...
Accept(c) ==
  /\ recv[Server(c)] = "none" /\ main[c.from] = "running" /\ Listens(c.to)
  /\ Goto(Server(c), "receive")
  /\ UNCHANGED <<sock, sent, registry, finishing, cleaner, broken, main>>

\* ... and AddFoundServers(), after the discovery, the one of the client's end.
AddFoundServer(c) ==
  /\ recv[Client(c)] = "none" /\ recv[Server(c)] # "none"
  /\ Goto(Client(c), "send")
  /\ UNCHANGED <<sock, sent, registry, finishing, cleaner, broken, main>>

\* The client sends its id first and the server answers.
HandshakeSend(e) ==
  /\ recv[e] = "send"
  /\ Goto(e, IF e[2] = "client" THEN "receive" ELSE "add")
  /\ sent' = sent \cup {e}
  /\ UNCHANGED <<sock, registry, finishing, cleaner, broken, main>>

HandshakeRecv(e) ==
  /\ recv[e] = "receive" /\ Other(e) \in sent
  /\ Goto(e, IF e[2] = "client" THEN "add" ELSE "send")
  /\ UNCHANGED <<sock, sent, registry, finishing, cleaner, broken, main>>

HandshakeFails(e) ==
  /\ \/ recv[e] = "send" /\ Dead(e)
     \/ recv[e] = "receive" /\ (e[1] \in broken \/ (Dead(e) /\ Other(e) \notin sent))
  /\ Goto(e, "leave")
  /\ UNCHANGED <<sock, sent, registry, finishing, cleaner, broken, main>>

PrefersClients(e) == e[2] = "client"  \* mutant: always the own connection

\* When there are two, the one that the node with the larger id has opened stays.
Preferred(e) == (Peer(e) < Owner(e)) = (e[2] = "client")

\* AddOrDiscardClient()
Accepts(e) ==
  Peer(e) # Owner(e) /\ (registry[Owner(e)][Peer(e)] = NoEnd \/ Preferred(e))

AddOrDiscardClient(e) ==
  /\ recv[e] = "add"
  /\ Goto(e, IF Accepts(e) THEN "loop" ELSE "leave")
  /\ registry' = IF Accepts(e) THEN [registry EXCEPT ![Owner(e)][Peer(e)] = e]
                               ELSE registry
  /\ UNCHANGED <<sock, sent, finishing, cleaner, broken, main>>

\* OnMessage() of the NetworkManager starts with CleanFinishingClients().  Whether
\* there is a message is left open.
TakeMessage(e) ==
  /\ recv[e] = "loop" /\ finishing[Owner(e)] # <<>>
  /\ Goto(e, "message")
  /\ UNCHANGED <<sock, sent, registry, finishing, cleaner, broken, main>>

LoopEndsUnregistered(e) ==  \* mutant: thread ends without RegisterFinishingClient()
  /\ recv[e] = "loop" /\ (Dead(e) \/ Silent(e))
  /\ Goto(e, "ended")
  /\ UNCHANGED <<sock, sent, registry, finishing, cleaner, broken, main>>

RegistersFirst(e) ==  \* mutant: RegisterFinishingClient() registers, then cleans up
  /\ recv[e] = "loop" /\ (Dead(e) \/ Silent(e)) /\ cleaner[Owner(e)] = NoEnd
  /\ Goto(e, "leave")
  /\ finishing' = [finishing EXCEPT ![Owner(e)] = Append(@, e)]
  /\ UNCHANGED <<sock, sent, registry, cleaner, broken, main>>

\* The socket has failed, or has timed out.
LoopEnds(e) ==
  /\ recv[e] = "loop" /\ (Dead(e) \/ Silent(e))
  /\ Goto(e, "leave")
  /\ UNCHANGED <<sock, sent, registry, finishing, cleaner, broken, main>>

\* RegisterFinishingClient(), after it has cleaned up others.
RegisterFinishingClient(e) ==
  /\ recv[e] = "register" /\ cleaner[Owner(e)] = NoEnd
  /\ finishing' = [finishing EXCEPT ![Owner(e)] = Append(@, e)]
  /\ Goto(e, "ended")
  /\ UNCHANGED <<sock, sent, registry, cleaner, broken, main>>

-----------------------------------------------------------------------------
(* CleanFinishingClients(), by any thread of node n *)

EnterCleaning(n, t) ==
  /\ cleaner[n] = NoEnd
  /\ \/ t = KeepAlive /\ finishing[n] # <<>>
        /\ main[n] \in {"running", "clean", "listener", "threads"}
     \/ t = Main /\ main[n] \in DOMAIN AfterCleaning
     \/ t \in End /\ Owner(t) = n /\ recv[t] \in {"message", "leave"}
  /\ cleaner' = [cleaner EXCEPT ![n] = t]
  /\ UNCHANGED <<recv, sock, sent, registry, finishing, broken, main>>

\* CleanUp() is called for the first on the list with which it has not finished.
Cleaning(n, e) ==
  /\ cleaner[n] # NoEnd
  /\ \E i \in DOMAIN finishing[n] :
       /\ e = finishing[n][i] /\ sock[e] # "null"
       /\ \A j \in 1 .. i - 1 : sock[finishing[n][j]] = "null"

CloseSocket(n, e) ==
  /\ Cleaning(n, e) /\ sock[e] = "open"
  /\ sock' = [sock EXCEPT ![e] = "closed"]
  /\ UNCHANGED <<recv, sent, registry, finishing, cleaner, broken, main>>

WithoutPeers(S) ==  \* mutant: erases whatever connection has the id
  [n \in Node |-> [m \in Node |->
     IF \E e \in S : Owner(e) = n /\ Peer(e) = m THEN NoEnd ELSE registry[n][m]]]

\* DiscardClient() of the ends in S: nothing happens to another connection with
\* the same id.  (What it does to _lostLeader is in module Election.)
Without(S) ==
  [n \in Node |-> [m \in Node |-> IF registry[n][m] \in S THEN NoEnd ELSE registry[n][m]]]

JoinOnly(n, e) ==  \* mutant: DiscardClient() left to the destructor
  /\ Cleaning(n, e) /\ sock[e] = "closed" /\ recv[e] = "ended"
  /\ sock' = [sock EXCEPT ![e] = "null"]
  /\ UNCHANGED <<recv, sent, registry, finishing, cleaner, broken, main>>

\* The rest of CleanUp(), once the thread can be joined.
JoinAndDiscard(n, e) ==
  /\ Cleaning(n, e) /\ sock[e] = "closed" /\ recv[e] = "ended"
  /\ registry' = Without({e})
  /\ sock' = [sock EXCEPT ![e] = "null"]
  /\ UNCHANGED <<recv, sent, finishing, cleaner, broken, main>>

\* The list is cleared, the destructors call CleanUp() once more, and the thread
\* goes on with what it was doing.
LeaveCleaning(n) ==
  LET t == cleaner[n]
  IN  /\ t # NoEnd /\ \A e \in ToSet(finishing[n]) : sock[e] = "null"
      /\ finishing' = [finishing EXCEPT ![n] = <<>>]
      /\ registry' = Without(ToSet(finishing[n]))
      /\ recv' = IF t \notin End THEN recv
                 ELSE [recv EXCEPT ![t] = IF @ = "message" THEN "loop" ELSE "register"]
      /\ main' = IF t = Main THEN [main EXCEPT ![n] = AfterCleaning[@]] ELSE main
      /\ cleaner' = [cleaner EXCEPT ![n] = NoEnd]
      /\ UNCHANGED <<sock, sent, broken>>

-----------------------------------------------------------------------------
(* The main thread *)

\* main() calls Terminate(), some time after DiscoverAll() has returned.  When the
\* computation has finished is left open.
Terminate(n) ==
  /\ main[n] = "running" /\ n \in Stoppable
  /\ \A c \in Conn : c.from = n /\ recv[Server(c)] # "none" => recv[Client(c)] # "none"
  /\ main' = [main EXCEPT ![n] = "clean"]
  /\ UNCHANGED <<recv, sock, sent, registry, finishing, cleaner, broken>>

StopServer(n) ==
  /\ main[n] = "listener"
  /\ main' = [main EXCEPT ![n] = "threads"]
  /\ UNCHANGED <<recv, sock, sent, registry, finishing, cleaner, broken>>

\* The keep-alive thread, and the main loop, which never cleans up.
JoinThreads(n) ==
  /\ main[n] = "threads" /\ cleaner[n] # KeepAlive
  /\ main' = [main EXCEPT ![n] = "cleanAgain"]
  /\ UNCHANGED <<recv, sock, sent, registry, finishing, cleaner, broken>>

ClearConnections(n) ==
  /\ main[n] \in {"clear", "clearLast"}
  /\ main' = [main EXCEPT ![n] = IF @ = "clear" THEN "cleanLast" ELSE "returned"]
  /\ registry' = [registry EXCEPT ![n] = [m \in Node |-> NoEnd]]
  /\ UNCHANGED <<recv, sock, sent, finishing, cleaner, broken>>

\* main() resets GNetworkManager and returns, 800 ms after everything was joined.  No
\* receiver is in a call of the NetworkManager by then, but for one that waits for a
\* message.  The process takes its threads and sockets with it.
Exit(n) ==
  /\ main[n] = "returned" /\ cleaner[n] = NoEnd
  /\ \A e \in End : Owner(e) = n => recv[e] \in {"none", "receive", "loop", "ended"}
  /\ main' = [main EXCEPT ![n] = "gone"]
  /\ registry' = [registry EXCEPT ![n] = [m \in Node |-> NoEnd]]
  /\ finishing' = [finishing EXCEPT ![n] = <<>>]
  /\ recv' = [e \in End |-> IF Owner(e) = n THEN "ended" ELSE recv[e]]
  /\ sock' = [e \in End |-> IF Owner(e) = n /\ sock[e] = "open" THEN "closed" ELSE sock[e]]
  /\ UNCHANGED <<sent, cleaner, broken>>

-----------------------------------------------------------------------------

\* The network.
Break(c) ==
  /\ c \in Breakable \ broken
  /\ broken' = broken \cup {c}
  /\ UNCHANGED <<recv, sock, sent, registry, finishing, cleaner, main>>

Init ==
  /\ recv = [e \in End |-> "none"]
  /\ sock = [e \in End |-> "open"]
  /\ sent = {}
  /\ registry = [n \in Node |-> [m \in Node |-> NoEnd]]
  /\ finishing = [n \in Node |-> <<>>]
  /\ cleaner = [n \in Node |-> NoEnd]
  /\ broken = {}
  /\ main = [n \in Node |-> "running"]

Connect(c) == Accept(c) \/ AddFoundServer(c)

Handshake(e) == HandshakeSend(e) \/ HandshakeRecv(e) \/ HandshakeFails(e)

\* What the receiver thread of e does without a message.
Receive(e) ==
  Handshake(e) \/ AddOrDiscardClient(e) \/ LoopEnds(e) \/ RegisterFinishingClient(e)

Clean(n) ==
  \/ \E t \in End \cup {KeepAlive, Main} : EnterCleaning(n, t)
  \/ \E e \in End : CloseSocket(n, e) \/ JoinAndDiscard(n, e)
  \/ LeaveCleaning(n)

Stop(n) == StopServer(n) \/ JoinThreads(n) \/ ClearConnections(n) \/ Exit(n)

Run ==
  \/ \E c \in Conn : Connect(c)
  \/ \E e \in End : Receive(e)
  \/ \E n \in Node : Clean(n) \/ Stop(n)

Next ==
  \/ Run
  \/ \E c \in Conn : Break(c)
  \/ \E e \in End : TakeMessage(e)
  \/ \E n \in Node : Terminate(n)

\* Every thread runs on.  There is no behaviour in which the threads take steps for
\* ever: each connection is made and cleaned up once, and a list that is empty is
\* not cleaned again and again.  So no thread can be left behind by the others.
Fairness == WF_vars(Run)

Spec == Init /\ [][Next]_vars /\ Fairness

-----------------------------------------------------------------------------

\* What is broadcast under _lock finds a socket that is not null, and no entry of
\* the registry holds the last reference to a connection that is done with: clearing
\* or replacing an entry under _lock runs no destructor, which would take _lock again.
EntriesAreUsable ==
  \A n, m \in Node : registry[n][m] # NoEnd => sock[registry[n][m]] # "null"

\* A connection is not forgotten for good while it is in the registry: its receiver
\* is in its loop, is leaving it, or is on the list of those to be cleaned up.
EntriesAreWatched ==
  \A n, m \in Node : LET e == registry[n][m]
                     IN  e # NoEnd => \/ recv[e] \in {"loop", "message", "leave", "register"}
                                      \/ e \in ToSet(finishing[n])

\* The connection two nodes should keep when each has opened one.
KeptBy(i, j) ==
  LET c == [from |-> i, to |-> j]
  IN  /\ c \in Conn \ broken
      /\ registry[i][j] = Client(c) /\ registry[j][i] = Server(c)

\* Once both nodes keep the connection opened by the larger one they never give it
\* up, whatever becomes of the other connection, unless it breaks or one of them stops.
AgreementIsKept ==
  [][\A i, j \in Node :
       /\ i > j /\ KeptBy(i, j)
       /\ [from |-> i, to |-> j] \notin broken' /\ {main'[i], main'[j]} = {"running"}
       => KeptBy(i, j)']_vars

\* Any two nodes of which one has found the other keep the same connection in the
\* end, each its own end of it, unless a node stops or a connection breaks that is the
\* one opened by the larger node, or the only one.
Agreed ==
  \A c \in Conn : c.from # c.to =>
    LET e == registry[c.from][c.to]
    IN  e # NoEnd /\ registry[c.to][c.from] = Other(e)

MayMatter(c) == c.from > c.to \/ [from |-> c.to, to |-> c.from] \notin Conn

OneConnection ==
  \/ <>(\E c \in broken : MayMatter(c))
  \/ <>(\E n \in Node : main[n] # "running")
  \/ <>[]Agreed

\* A connection that broke is discarded by both of its nodes: the threads that
\* clean up never wait for each other for ever.
BrokenIsForgotten ==
  \A c \in Breakable :
    c \in broken ~> \A n, m \in Node : registry[n][m] \notin {Client(c), Server(c)}

\* A node that has finished gets through Terminate(), and when it is gone the others
\* discard their connections to it.
StoppedIsForgotten ==
  \A n \in Stoppable :
    main[n] # "running" ~> main[n] = "gone" /\ \A m \in Node : registry[m][n] = NoEnd

=============================================================================
