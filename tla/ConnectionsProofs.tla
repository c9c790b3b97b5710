-------------------------- MODULE ConnectionsProofs --------------------------
(***************************************************************************)
(* Proofs about module Connections, for any nodes and any connections      *)
(* between them.                                                           *)
(***************************************************************************)
EXTENDS Connections, TLAPS

-----------------------------------------------------------------------------
(* Facts about ends and lists *)

\* Who holds which end.
LEMMA Ends ==
  ASSUME NEW e \in End
  PROVE  /\ Owner(e) \in Node /\ Peer(e) \in Node /\ Other(e) \in End
         /\ e # NoEnd /\ e # KeepAlive /\ e # Main
<1>1. PICK c \in Conn, side \in {"client", "server"} : e = <<c, side>>
  BY DEF End
<1>2. c.from \in Node /\ c.to \in Node
  BY ConnAssumption
<1>3. Other(e) \in End
  BY <1>1 DEF Other, Client, Server, End
<1>4. Owner(e) \in Node /\ Peer(e) \in Node
  BY <1>1, <1>2 DEF Owner, Peer, Other, Client, Server
<1> QED BY <1>3, <1>4, NamesAssumption

\* Where the main thread is after it has cleaned up.
LEMMA PlacesAfterCleaning ==
  \A place \in DOMAIN AfterCleaning : AfterCleaning[place] \in MainPlace
BY DEF AfterCleaning, MainPlace

\* Appending to a list adds one member to it.
LEMMA AppendToSet ==
  ASSUME NEW S, NEW s \in Seq(S), NEW e \in S
  PROVE  ToSet(Append(s, e)) = ToSet(s) \cup {e}
<1>1. /\ Len(Append(s, e)) = Len(s) + 1
      /\ \A i \in 1 .. Len(s) : Append(s, e)[i] = s[i]
      /\ Append(s, e)[Len(s) + 1] = e
  OBVIOUS
<1>2. DOMAIN s = 1 .. Len(s) /\ DOMAIN Append(s, e) = 1 .. Len(s) + 1
  BY <1>1
<1>3. Len(s) \in Nat
  OBVIOUS
<1> QED BY <1>1, <1>2, <1>3 DEF ToSet

\* The members of a list of ends are ends.
LEMMA MembersAreEnds ==
  ASSUME NEW s \in Seq(End)
  PROVE  ToSet(s) \subseteq End
BY DEF ToSet

\* What DiscardClient() leaves of the registry was there before.
LEMMA WithoutFewer ==
  ASSUME TypeOK, NEW S
  PROVE  /\ Without(S) \in [Node -> [Node -> End \cup {NoEnd}]]
         /\ \A n, m \in Node : Without(S)[n][m] # NoEnd =>
              Without(S)[n][m] = registry[n][m] /\ registry[n][m] \notin S
BY DEF TypeOK, Without

-----------------------------------------------------------------------------
(* The inductive invariant *)

\* A thread that cleans up is in a call of CleanFinishingClients(), and cleans up
\* for its own node.
CleanersAreInCall ==
  \A n \in Node :
    /\ cleaner[n] \in End =>
         Owner(cleaner[n]) = n /\ recv[cleaner[n]] \in {"message", "leave"}
    /\ cleaner[n] = Main => main[n] \in DOMAIN AfterCleaning

\* CleanUp() resets the socket only of a receiver that has ended.
ResetAfterEnd == \A e \in End : sock[e] = "null" => recv[e] = "ended"

\* A node has entries for its own ends only.
EntriesAreOwn ==
  \A n, m \in Node : registry[n][m] # NoEnd => Owner(registry[n][m]) = n

IInv ==
  /\ TypeOK
  /\ CleanersAreInCall
  /\ ResetAfterEnd
  /\ EntriesAreOwn
  /\ EntriesAreUsable
  /\ EntriesAreWatched

LEMMA IInvInit == Init => IInv
<1> SUFFICES ASSUME Init PROVE IInv
  OBVIOUS
<1>1. TypeOK
  BY DEF Init, TypeOK, Receiver, MainPlace
<1>2. \A n \in Node : cleaner[n] \notin End /\ cleaner[n] # Main
  BY NamesAssumption DEF Init
<1> QED BY <1>1, <1>2 DEF Init, IInv, CleanersAreInCall, ResetAfterEnd, EntriesAreOwn,
                          EntriesAreUsable, EntriesAreWatched

\* A receiver moves on, while it does not clean up and has not ended, and only its
\* place changes and what has been sent: nothing is lost if it is still on the way.
LEMMA Moves ==
  ASSUME IInv, NEW e \in End, NEW place \in Receiver, Goto(e, place),
         \A n \in Node : cleaner[n] # e,
         recv[e] # "ended",
         recv[e] \in {"loop", "message", "leave", "register"} =>
           place \in {"loop", "message", "leave", "register"},
         sent' \in SUBSET End,
         UNCHANGED <<sock, registry, finishing, cleaner, broken, main>>
  PROVE  IInv'
<1> USE DEF IInv, Goto
<1>1. TypeOK'
  BY DEF TypeOK
<1>2. CleanersAreInCall'
  BY DEF CleanersAreInCall, TypeOK
<1>3. ResetAfterEnd'
  BY DEF ResetAfterEnd, TypeOK
<1>4. EntriesAreOwn' /\ EntriesAreUsable'
  BY DEF EntriesAreOwn, EntriesAreUsable
<1>5. EntriesAreWatched'
  BY DEF EntriesAreWatched, TypeOK
<1> QED BY <1>1, <1>2, <1>3, <1>4, <1>5

\* A receiver that is not in a call of CleanFinishingClients() does not clean up.
LEMMA NoCleaner ==
  ASSUME IInv, NEW e \in End, recv[e] \notin {"message", "leave"}
  PROVE  \A n \in Node : cleaner[n] # e
BY DEF IInv, CleanersAreInCall

-----------------------------------------------------------------------------
(* The steps of a receiver thread *)

\* Connecting and the handshake: the receiver has not been added yet.
LEMMA ConnectStep ==
  ASSUME IInv, NEW c \in Conn, Connect(c)
  PROVE  IInv'
<1>1. PICK e \in End : /\ recv[e] = "none"
                       /\ Goto(e, "receive") \/ Goto(e, "send")
                       /\ UNCHANGED <<sock, sent, registry, finishing, cleaner, broken, main>>
  BY DEF Connect, Accept, AddFoundServer, End, Client, Server
<1>2. sent' \in SUBSET End
  BY <1>1 DEF IInv, TypeOK
<1> QED BY <1>1, <1>2, NoCleaner, Moves DEF Receiver

LEMMA HandshakeStep ==
  ASSUME IInv, NEW e \in End, Handshake(e)
  PROVE  IInv'
<1>1. PICK place \in {"receive", "add", "send", "leave"} :
        /\ recv[e] \in {"send", "receive"} /\ Goto(e, place)
        /\ sent' \in {sent, sent \cup {e}}
        /\ UNCHANGED <<sock, registry, finishing, cleaner, broken, main>>
  BY DEF Handshake, HandshakeSend, HandshakeRecv, HandshakeFails
<1>2. sent' \in SUBSET End
  BY <1>1 DEF IInv, TypeOK
<1> QED BY <1>1, <1>2, NoCleaner, Moves DEF Receiver

\* The loop of a receiver.
LEMMA LoopStep ==
  ASSUME IInv, NEW e \in End, TakeMessage(e) \/ LoopEnds(e)
  PROVE  IInv'
<1>1. PICK place \in {"message", "leave"} :
        /\ recv[e] = "loop" /\ Goto(e, place)
        /\ UNCHANGED <<sock, sent, registry, finishing, cleaner, broken, main>>
  BY DEF TakeMessage, LoopEnds
<1>2. sent' \in SUBSET End
  BY <1>1 DEF IInv, TypeOK
<1> QED BY <1>1, <1>2, NoCleaner, Moves DEF Receiver

\* A connection that is added has a socket, and its receiver enters the loop.
LEMMA AddStep ==
  ASSUME IInv, NEW e \in End, AddOrDiscardClient(e)
  PROVE  IInv'
<1>1. CASE ~ Accepts(e)
  <2>1. sent' \in SUBSET End
    BY DEF AddOrDiscardClient, IInv, TypeOK
  <2> QED BY <1>1, <2>1, NoCleaner, Moves DEF AddOrDiscardClient, Receiver
<1>2. CASE Accepts(e)
  <2>1. /\ recv[e] = "add" /\ recv' = [recv EXCEPT ![e] = "loop"]
        /\ registry' = [registry EXCEPT ![Owner(e)][Peer(e)] = e]
        /\ UNCHANGED <<sock, sent, finishing, cleaner, broken, main>>
    BY <1>2 DEF AddOrDiscardClient, Goto
  <2>2. Owner(e) \in Node /\ Peer(e) \in Node /\ e # NoEnd
    BY Ends
  <2>3. \A n, m \in Node : registry'[n][m] =
          IF n = Owner(e) /\ m = Peer(e) THEN e ELSE registry[n][m]
    BY <2>1, <2>2 DEF IInv, TypeOK
  <2>4. \A x \in End : recv'[x] = IF x = e THEN "loop" ELSE recv[x]
    BY <2>1 DEF IInv, TypeOK
  <2>5. \A n, m \in Node : registry[n][m] \in End \cup {NoEnd}
    BY DEF IInv, TypeOK
  <2>6. TypeOK'
    BY <2>1, <2>2 DEF IInv, TypeOK, Receiver
  <2>7. CleanersAreInCall' /\ ResetAfterEnd'
    BY <2>1, <2>4 DEF IInv, CleanersAreInCall, ResetAfterEnd
  <2>8. EntriesAreOwn' /\ EntriesAreUsable'
    BY <2>1, <2>3 DEF IInv, EntriesAreOwn, EntriesAreUsable, ResetAfterEnd
  <2>9. EntriesAreWatched'
    BY <2>1, <2>3, <2>4, <2>5 DEF IInv, EntriesAreWatched
  <2> QED BY <2>6, <2>7, <2>8, <2>9 DEF IInv
<1> QED BY <1>1, <1>2

\* A receiver that leaves is on the list before it ends.
LEMMA RegisterStep ==
  ASSUME IInv, NEW e \in End, RegisterFinishingClient(e)
  PROVE  IInv'
<1>1. /\ recv[e] = "register" /\ recv' = [recv EXCEPT ![e] = "ended"]
      /\ finishing' = [finishing EXCEPT ![Owner(e)] = Append(@, e)]
      /\ UNCHANGED <<sock, sent, registry, cleaner, broken, main>>
  BY DEF RegisterFinishingClient, Goto
<1>2. Owner(e) \in Node
  BY Ends
<1>3. \A n \in Node : finishing[n] \in Seq(End)
  BY DEF IInv, TypeOK
<1>4. \A n \in Node : ToSet(finishing'[n]) =
        IF n = Owner(e) THEN ToSet(finishing[n]) \cup {e} ELSE ToSet(finishing[n])
  <2> TAKE n \in Node
  <2>1. CASE n = Owner(e)
    <3>1. finishing'[n] = Append(finishing[n], e)
      BY <1>1, <1>2, <2>1 DEF IInv, TypeOK
    <3> QED BY <1>3, <2>1, <3>1, AppendToSet
  <2>2. CASE n # Owner(e)
    BY <1>1, <2>2 DEF IInv, TypeOK
  <2> QED BY <2>1, <2>2
<1>5. \A x \in End : recv'[x] = IF x = e THEN "ended" ELSE recv[x]
  BY <1>1 DEF IInv, TypeOK
<1>6. \A n, m \in Node : registry[n][m] \in End \cup {NoEnd}
  BY DEF IInv, TypeOK
<1>7. TypeOK'
  <2>1. Append(finishing[Owner(e)], e) \in Seq(End)
    BY <1>2, <1>3
  <2> QED BY <1>1, <2>1 DEF IInv, TypeOK, Receiver
<1>8. CleanersAreInCall' /\ ResetAfterEnd'
  BY <1>1, <1>5 DEF IInv, CleanersAreInCall, ResetAfterEnd
<1>9. EntriesAreOwn' /\ EntriesAreUsable'
  BY <1>1 DEF IInv, EntriesAreOwn, EntriesAreUsable
<1>10. EntriesAreWatched'
  <2> SUFFICES ASSUME NEW n \in Node, NEW m \in Node, registry[n][m] # NoEnd
               PROVE  \/ recv'[registry[n][m]] \in {"loop", "message", "leave", "register"}
                      \/ registry[n][m] \in ToSet(finishing'[n])
    BY <1>1 DEF EntriesAreWatched
  <2> DEFINE x == registry[n][m]
  <2>1. /\ x \in End /\ Owner(x) = n
        /\ \/ recv[x] \in {"loop", "message", "leave", "register"}
           \/ x \in ToSet(finishing[n])
    BY <1>6 DEF IInv, EntriesAreOwn, EntriesAreWatched
  <2> HIDE DEF x
  <2>2. CASE x = e
    BY <1>4, <2>1, <2>2 DEF x
  <2>3. CASE x # e
    BY <1>4, <1>5, <2>1, <2>3 DEF x
  <2> QED BY <2>2, <2>3
<1> QED BY <1>7, <1>8, <1>9, <1>10 DEF IInv

-----------------------------------------------------------------------------
(* The steps of CleanFinishingClients() *)

\* Taking the lock, and closing a socket, change nothing the invariant is about.
LEMMA EnterStep ==
  ASSUME IInv, NEW n \in Node, NEW t \in End \cup {KeepAlive, Main}, EnterCleaning(n, t)
  PROVE  IInv'
<1>1. /\ cleaner' = [cleaner EXCEPT ![n] = t]
      /\ t = Main => main[n] \in DOMAIN AfterCleaning
      /\ t \in {KeepAlive, Main} \/ (Owner(t) = n /\ recv[t] \in {"message", "leave"})
      /\ UNCHANGED <<recv, sock, sent, registry, finishing, broken, main>>
  BY NamesAssumption, Ends DEF EnterCleaning
<1>2. TypeOK'
  BY <1>1 DEF IInv, TypeOK
<1>3. CleanersAreInCall'
  <2>1. \A x \in Node : cleaner'[x] = IF x = n THEN t ELSE cleaner[x]
    BY <1>1 DEF IInv, TypeOK
  <2>2. t \in End => t # Main /\ t # KeepAlive
    BY Ends
  <2>3. t \in {KeepAlive, Main} => t \notin End
    BY NamesAssumption
  <2> QED BY <1>1, <2>1, <2>2, <2>3 DEF IInv, CleanersAreInCall
<1> QED BY <1>1, <1>2, <1>3 DEF IInv, ResetAfterEnd, EntriesAreOwn, EntriesAreUsable,
                               EntriesAreWatched

LEMMA CloseStep ==
  ASSUME IInv, NEW n \in Node, NEW e \in End, CloseSocket(n, e)
  PROVE  IInv'
<1>1. /\ sock' = [sock EXCEPT ![e] = "closed"]
      /\ UNCHANGED <<recv, sent, registry, finishing, cleaner, broken, main>>
  BY DEF CloseSocket
<1>2. TypeOK' /\ \A x \in End : sock'[x] = IF x = e THEN "closed" ELSE sock[x]
  BY <1>1 DEF IInv, TypeOK
<1>3. \A x \in Node, y \in Node : registry[x][y] \in End \cup {NoEnd}
  BY DEF IInv, TypeOK
<1> QED BY <1>1, <1>2, <1>3 DEF IInv, CleanersAreInCall, ResetAfterEnd, EntriesAreOwn,
                               EntriesAreUsable, EntriesAreWatched

\* A connection whose socket is reset has just been taken out of the registry.
LEMMA JoinStep ==
  ASSUME IInv, NEW n \in Node, NEW e \in End, JoinAndDiscard(n, e)
  PROVE  IInv'
<1>1. /\ recv[e] = "ended"
      /\ registry' = Without({e}) /\ sock' = [sock EXCEPT ![e] = "null"]
      /\ UNCHANGED <<recv, sent, finishing, cleaner, broken, main>>
  BY DEF JoinAndDiscard
<1>2. /\ registry' \in [Node -> [Node -> End \cup {NoEnd}]]
      /\ \A x, y \in Node : registry'[x][y] # NoEnd =>
           registry'[x][y] = registry[x][y] /\ registry[x][y] # e
  BY <1>1, WithoutFewer DEF IInv
<1>3. \A x \in End : sock'[x] = IF x = e THEN "null" ELSE sock[x]
  BY <1>1 DEF IInv, TypeOK
<1>4. TypeOK'
  BY <1>1, <1>2 DEF IInv, TypeOK
<1>5. CleanersAreInCall' /\ ResetAfterEnd'
  BY <1>1, <1>3 DEF IInv, CleanersAreInCall, ResetAfterEnd
<1>6. EntriesAreOwn'
  BY <1>2 DEF IInv, EntriesAreOwn
<1>7. EntriesAreWatched'
  <2>1. recv' = recv /\ finishing' = finishing
    BY <1>1
  <2>2. EntriesAreWatched
    BY DEF IInv
  <2> QED BY <1>2, <2>1, <2>2 DEF EntriesAreWatched
<1>8. EntriesAreUsable'
  <2>1. \A x, y \in Node : registry'[x][y] # NoEnd => registry'[x][y] \in End
    BY <1>2
  <2> QED BY <1>2, <1>3, <2>1 DEF IInv, EntriesAreUsable
<1> QED BY <1>4, <1>5, <1>6, <1>7, <1>8 DEF IInv

\* The list is cleared of connections that are not in the registry any more, and the
\* thread that has cleaned up is on its way again.
LEMMA LeaveStep ==
  ASSUME IInv, NEW n \in Node, LeaveCleaning(n)
  PROVE  IInv'
<1> DEFINE t == cleaner[n]
<1>1. /\ t # NoEnd
      /\ \A e \in ToSet(finishing[n]) : sock[e] = "null"
      /\ finishing' = [finishing EXCEPT ![n] = <<>>]
      /\ registry' = Without(ToSet(finishing[n]))
      /\ recv' = IF t \notin End THEN recv
                 ELSE [recv EXCEPT ![t] = IF @ = "message" THEN "loop" ELSE "register"]
      /\ main' = IF t = Main THEN [main EXCEPT ![n] = AfterCleaning[@]] ELSE main
      /\ cleaner' = [cleaner EXCEPT ![n] = NoEnd]
      /\ UNCHANGED <<sock, sent, broken>>
  BY DEF LeaveCleaning
<1>2. /\ registry' \in [Node -> [Node -> End \cup {NoEnd}]]
      /\ \A x, y \in Node : registry'[x][y] # NoEnd =>
           registry'[x][y] = registry[x][y] /\ registry[x][y] \notin ToSet(finishing[n])
  BY <1>1, WithoutFewer DEF IInv
<1>3. t \in End \cup {KeepAlive, Main} /\ (t \in End => recv[t] \in {"message", "leave"} /\ Owner(t) = n)
      /\ (t = Main => main[n] \in DOMAIN AfterCleaning)
  BY <1>1 DEF IInv, TypeOK, CleanersAreInCall
<1>4. /\ recv' \in [End -> Receiver]
      /\ \A x \in End : \/ recv'[x] = recv[x]
                        \/ x = t /\ recv'[x] \in {"loop", "register"}
  BY <1>1, <1>3 DEF IInv, TypeOK, Receiver
<1>5. \A x \in Node : /\ cleaner'[x] = IF x = n THEN NoEnd ELSE cleaner[x]
                      /\ finishing'[x] = IF x = n THEN <<>> ELSE finishing[x]
  BY <1>1 DEF IInv, TypeOK
<1>6. TypeOK'
  <2>1. <<>> \in Seq(End)
    OBVIOUS
  <2>2. main' \in [Node -> MainPlace]
    BY <1>1, <1>3, PlacesAfterCleaning DEF IInv, TypeOK
  <2> QED BY <1>1, <1>2, <1>4, <2>1, <2>2 DEF IInv, TypeOK
<1>7. CleanersAreInCall'
  <2>1. NoEnd \notin End /\ NoEnd # Main
    BY NamesAssumption
  <2>2. \A x \in Node : x # n => main'[x] = main[x]
    BY <1>1 DEF IInv, TypeOK
  <2> QED BY <1>3, <1>4, <1>5, <2>1, <2>2 DEF IInv, CleanersAreInCall
<1>8. ResetAfterEnd'
  BY <1>1, <1>3, <1>4 DEF IInv, ResetAfterEnd
<1>9. EntriesAreOwn' /\ EntriesAreUsable'
  <2>1. sock' = sock
    BY <1>1
  <2> QED BY <1>2, <2>1 DEF IInv, EntriesAreOwn, EntriesAreUsable
<1>10. EntriesAreWatched'
  <2> SUFFICES ASSUME NEW x \in Node, NEW y \in Node, registry'[x][y] # NoEnd
               PROVE  \/ recv'[registry'[x][y]] \in {"loop", "message", "leave", "register"}
                      \/ registry'[x][y] \in ToSet(finishing'[x])
    BY DEF EntriesAreWatched
  <2> DEFINE e == registry[x][y]
  <2>1. /\ registry'[x][y] = e /\ e \in End /\ e \notin ToSet(finishing[n])
        /\ \/ recv[e] \in {"loop", "message", "leave", "register"}
           \/ e \in ToSet(finishing[x])
    BY <1>2 DEF IInv, EntriesAreWatched
  <2> HIDE DEF e
  <2>2. recv[e] \in {"loop", "message", "leave", "register"} =>
          recv'[e] \in {"loop", "message", "leave", "register"}
    BY <1>4, <2>1
  <2>3. e \in ToSet(finishing[x]) => e \in ToSet(finishing'[x])
    BY <1>5, <2>1
  <2> QED BY <2>1, <2>2, <2>3
<1> QED BY <1>6, <1>7, <1>8, <1>9, <1>10 DEF IInv

-----------------------------------------------------------------------------
(* The steps of the main thread *)

\* Terminate() goes on, and may clear the registry.
LEMMA MainStep ==
  ASSUME IInv, NEW n \in Node,
         Terminate(n) \/ StopServer(n) \/ JoinThreads(n) \/ ClearConnections(n)
  PROVE  IInv'
<1>1. PICK place \in MainPlace : main' = [main EXCEPT ![n] = place]
  BY DEF Terminate, StopServer, JoinThreads, ClearConnections, MainPlace
<1>2. /\ registry' \in {registry, [registry EXCEPT ![n] = [m \in Node |-> NoEnd]]}
      /\ UNCHANGED <<recv, sock, sent, finishing, cleaner, broken>>
  BY DEF Terminate, StopServer, JoinThreads, ClearConnections
<1>3. /\ registry' \in [Node -> [Node -> End \cup {NoEnd}]]
      /\ \A x, y \in Node : registry'[x][y] # NoEnd => registry'[x][y] = registry[x][y]
  <2>1. CASE registry' = registry
    BY <2>1 DEF IInv, TypeOK
  <2>2. CASE registry' = [registry EXCEPT ![n] = [m \in Node |-> NoEnd]]
    <3>1. \A x, y \in Node : registry'[x][y] = IF x = n THEN NoEnd ELSE registry[x][y]
      BY <2>2 DEF IInv, TypeOK
    <3>2. registry' \in [Node -> [Node -> End \cup {NoEnd}]]
      BY <2>2 DEF IInv, TypeOK
    <3> QED BY <3>1, <3>2
  <2> QED BY <1>2, <2>1, <2>2
<1>4. TypeOK'
  BY <1>1, <1>2, <1>3 DEF IInv, TypeOK
<1>5. CleanersAreInCall'
  <2>1. cleaner[n] # Main \/ main'[n] = main[n]
    BY DEF IInv, CleanersAreInCall, Terminate, StopServer, JoinThreads, ClearConnections,
           AfterCleaning
  <2>2. \A x \in Node : x # n => main'[x] = main[x]
    BY <1>1 DEF IInv, TypeOK
  <2> QED BY <1>2, <2>1, <2>2 DEF IInv, CleanersAreInCall
<1> QED BY <1>2, <1>3, <1>4, <1>5 DEF IInv, ResetAfterEnd, EntriesAreOwn, EntriesAreUsable,
                                      EntriesAreWatched

\* A process that exits takes its own threads and sockets with it, and its registry.
LEMMA ExitStep ==
  ASSUME IInv, NEW n \in Node, Exit(n)
  PROVE  IInv'
<1>1. /\ main' = [main EXCEPT ![n] = "gone"] /\ cleaner[n] = NoEnd
      /\ registry' = [registry EXCEPT ![n] = [m \in Node |-> NoEnd]]
      /\ finishing' = [finishing EXCEPT ![n] = <<>>]
      /\ recv' = [e \in End |-> IF Owner(e) = n THEN "ended" ELSE recv[e]]
      /\ sock' = [e \in End |-> IF Owner(e) = n /\ sock[e] = "open" THEN "closed" ELSE sock[e]]
      /\ UNCHANGED <<sent, cleaner, broken>>
  BY DEF Exit
<1>2. \A x, y \in Node : registry'[x][y] = IF x = n THEN NoEnd ELSE registry[x][y]
  BY <1>1 DEF IInv, TypeOK
<1>3. \A x \in Node : x # n => finishing'[x] = finishing[x]
  BY <1>1 DEF IInv, TypeOK
<1>4. \A x, y \in Node : registry[x][y] # NoEnd =>
        registry[x][y] \in End /\ Owner(registry[x][y]) = x
  BY DEF IInv, TypeOK, EntriesAreOwn
<1>5. TypeOK'
  <2>1. <<>> \in Seq(End) /\ "gone" \in MainPlace /\ "ended" \in Receiver
    BY DEF MainPlace, Receiver
  <2> QED BY <1>1, <2>1 DEF IInv, TypeOK
<1>6. CleanersAreInCall'
  <2>1. NoEnd \notin End /\ NoEnd # Main
    BY NamesAssumption
  <2>2. \A x \in Node : x # n => main'[x] = main[x]
    BY <1>1 DEF IInv, TypeOK
  <2> QED BY <1>1, <2>1, <2>2 DEF IInv, TypeOK, CleanersAreInCall
<1>7. ResetAfterEnd'
  BY <1>1 DEF IInv, ResetAfterEnd
<1>8. EntriesAreOwn' /\ EntriesAreUsable'
  BY <1>1, <1>2, <1>4 DEF IInv, EntriesAreOwn, EntriesAreUsable
<1>9. EntriesAreWatched'
  BY <1>1, <1>2, <1>3, <1>4 DEF IInv, EntriesAreWatched
<1> QED BY <1>5, <1>6, <1>7, <1>8, <1>9 DEF IInv

-----------------------------------------------------------------------------

LEMMA IInvStep == IInv /\ [Next]_vars => IInv'
<1> SUFFICES ASSUME IInv, [Next]_vars PROVE IInv'
  OBVIOUS
<1>1. ASSUME NEW c \in Conn, Connect(c) PROVE IInv'
  BY <1>1, ConnectStep
<1>2. ASSUME NEW e \in End, Receive(e) \/ TakeMessage(e) PROVE IInv'
  BY <1>2, HandshakeStep, AddStep, LoopStep, RegisterStep DEF Receive
<1>3. ASSUME NEW n \in Node, Clean(n) PROVE IInv'
  BY <1>3, EnterStep, CloseStep, JoinStep, LeaveStep DEF Clean
<1>4. ASSUME NEW c \in Conn, Break(c) PROVE IInv'
  BY <1>4, ConnAssumption DEF Break, IInv, TypeOK, CleanersAreInCall, ResetAfterEnd,
       EntriesAreOwn, EntriesAreUsable, EntriesAreWatched
<1>5. ASSUME NEW n \in Node, Terminate(n) \/ Stop(n) PROVE IInv'
  BY <1>5, MainStep, ExitStep DEF Stop
<1>6. CASE UNCHANGED vars
  BY <1>6 DEF vars, IInv, TypeOK, CleanersAreInCall, ResetAfterEnd, EntriesAreOwn,
       EntriesAreUsable, EntriesAreWatched
<1> QED BY <1>1, <1>2, <1>3, <1>4, <1>5, <1>6 DEF Next, Run

-----------------------------------------------------------------------------
(* Agreement *)

\* Only receivers that have ended are on a list.
ListedHaveEnded == \A n \in Node : \A e \in ToSet(finishing[n]) : recv[e] = "ended"

\* A socket is open as long as its receiver runs.
OpenUntilEnded == \A e \in End : recv[e] # "ended" => sock[e] = "open"

\* Where a receiver is before it has called AddOrDiscardClient().
Early == {"none", "send", "receive", "add"}

\* A connection works, one end keeps it and the other end has not refused it ...
Unrefused(e) ==
  /\ e[1] \notin broken /\ main[Owner(e)] = "running" /\ main[Peer(e)] = "running"
  /\ registry[Owner(e)][Peer(e)] = e
  /\ recv[Other(e)] \in Early \/ registry[Peer(e)][Owner(e)] = Other(e)

\* ... so that its receiver stays in the loop.
UnrefusedStay == \A e \in End : Unrefused(e) => recv[e] \in {"loop", "message"}

AInv == ListedHaveEnded /\ OpenUntilEnded /\ UnrefusedStay

\* The other end of an end's other end, and who owns it.
LEMMA Others ==
  ASSUME NEW e \in End
  PROVE  /\ Other(Other(e)) = e /\ Other(e)[1] = e[1]
         /\ Owner(Other(e)) = Peer(e) /\ Peer(Other(e)) = Owner(e)
<1>1. PICK c \in Conn, side \in {"client", "server"} : e = <<c, side>>
  BY DEF End
<1>2. Other(Other(e)) = e /\ Other(e)[1] = e[1]
  BY <1>1 DEF Other, Client, Server
<1> QED BY <1>2 DEF Peer

LEMMA AInvInit == Init => AInv
<1> SUFFICES ASSUME Init PROVE AInv
  OBVIOUS
<1>1. ListedHaveEnded /\ OpenUntilEnded
  BY DEF Init, ListedHaveEnded, OpenUntilEnded, ToSet
<1>2. UnrefusedStay
  BY Ends DEF Init, UnrefusedStay, Unrefused
<1> QED BY <1>1, <1>2 DEF AInv

\* The receiver of one end moves on, and does not end.
LEMMA ReceiverMoves ==
  ASSUME IInv, AInv, NEW e \in End, NEW place \in Receiver \ {"ended"}, Goto(e, place),
         recv[e] # "ended",
         UNCHANGED <<sock, registry, finishing, cleaner, broken, main>>,
         place \in Early => recv[e] \in Early,
         recv[e] \in {"loop", "message"} => place \in {"loop", "message"} \/ ~Unrefused(e)
  PROVE  AInv'
<1>1. \A x \in End : recv'[x] = IF x = e THEN place ELSE recv[x]
  BY DEF IInv, TypeOK, Goto
<1>2. ListedHaveEnded'
  <2>1. \A n \in Node : finishing[n] \in Seq(End)
    BY DEF IInv, TypeOK
  <2>2. \A n \in Node : ToSet(finishing[n]) \subseteq End
    BY <2>1, MembersAreEnds
  <2> QED BY <1>1, <2>2 DEF AInv, ListedHaveEnded
<1>3. OpenUntilEnded'
  BY <1>1 DEF AInv, OpenUntilEnded
<1>4. ASSUME NEW x \in End, Unrefused(x)'
      PROVE  recv'[x] \in {"loop", "message"}
  <2>1. Other(x) \in End
    BY Ends
  <2>2. recv'[Other(x)] \in Early => recv[Other(x)] \in Early
    BY <1>1, <2>1
  <2>3. Unrefused(x)
    BY <1>4, <2>2 DEF Unrefused
  <2>4. recv[x] \in {"loop", "message"}
    BY <2>3 DEF AInv, UnrefusedStay
  <2> QED BY <1>1, <2>3, <2>4
<1> QED BY <1>2, <1>3, <1>4 DEF AInv, UnrefusedStay

\* Connecting and the handshake.
LEMMA ConnectAgrees ==
  ASSUME IInv, AInv, NEW c \in Conn, Connect(c)
  PROVE  AInv'
<1>1. PICK e \in End : /\ recv[e] = "none"
                       /\ Goto(e, "receive") \/ Goto(e, "send")
                       /\ UNCHANGED <<sock, sent, registry, finishing, cleaner, broken, main>>
  BY DEF Connect, Accept, AddFoundServer, End, Client, Server
<1> QED BY <1>1, ReceiverMoves DEF Early, Receiver

LEMMA HandshakeAgrees ==
  ASSUME IInv, AInv, NEW e \in End, Handshake(e)
  PROVE  AInv'
<1>1. PICK place \in {"receive", "add", "send", "leave"} :
        /\ recv[e] \in {"send", "receive"} /\ Goto(e, place)
        /\ UNCHANGED <<sock, registry, finishing, cleaner, broken, main>>
  BY DEF Handshake, HandshakeSend, HandshakeRecv, HandshakeFails
<1> QED BY <1>1, ReceiverMoves DEF Early, Receiver

\* A receiver leaves its loop when the other end is dead or silent: then the other
\* end does not keep the connection.
LEMMA LoopAgrees ==
  ASSUME IInv, AInv, NEW e \in End, TakeMessage(e) \/ LoopEnds(e)
  PROVE  AInv'
<1>1. CASE TakeMessage(e)
  BY <1>1, ReceiverMoves DEF TakeMessage, Early, Receiver
<1>2. CASE LoopEnds(e)
  <2>1. /\ recv[e] = "loop"
        /\ Dead(e) \/ Silent(e)
        /\ Goto(e, "leave")
        /\ UNCHANGED <<sock, registry, finishing, cleaner, broken, main>>
    BY <1>2 DEF LoopEnds
  <2>2. ~Unrefused(e)
    <3> SUFFICES ASSUME Unrefused(e)
                 PROVE  FALSE
      OBVIOUS
    <3>1. ~Silent(e)
      BY DEF Unrefused, Silent, Early
    <3>2. sock[Other(e)] # "open" /\ Other(e) \in End
      BY <1>2, <3>1, Ends DEF LoopEnds, Dead, Unrefused
    <3>3. recv[Other(e)] = "ended"
      BY <3>2 DEF AInv, OpenUntilEnded
    <3>4. Unrefused(Other(e))
      BY <3>3, Others DEF Unrefused, Early
    <3> QED BY <3>2, <3>3, <3>4 DEF AInv, UnrefusedStay
  <2> QED BY <1>2, <2>2, ReceiverMoves DEF LoopEnds, Early, Receiver
<1> QED BY <1>1, <1>2

\* An entry is of an end whose receiver has entered its loop.
LEMMA EntriesAreLate ==
  ASSUME IInv, AInv, NEW n \in Node, NEW m \in Node, registry[n][m] # NoEnd
  PROVE  recv[registry[n][m]] \notin Early
BY DEF IInv, EntriesAreWatched, AInv, ListedHaveEnded, Early

\* AddOrDiscardClient() takes the place of other connections only.
LEMMA AddAgrees ==
  ASSUME IInv, AInv, NEW e \in End, AddOrDiscardClient(e)
  PROVE  AInv'
<1>0. Owner(e) \in Node /\ Peer(e) \in Node /\ e # NoEnd /\ recv[e] = "add"
  BY Ends DEF AddOrDiscardClient
<1>1. CASE ~Accepts(e)
  BY <1>0, <1>1, ReceiverMoves DEF AddOrDiscardClient, Early, Receiver
<1>2. CASE Accepts(e)
  <2>1. /\ Goto(e, "loop") /\ registry' = [registry EXCEPT ![Owner(e)][Peer(e)] = e]
        /\ UNCHANGED <<sock, sent, finishing, cleaner, broken, main>>
    BY <1>2 DEF AddOrDiscardClient
  <2>2. \A x \in End : recv'[x] = IF x = e THEN "loop" ELSE recv[x]
    BY <2>1 DEF IInv, TypeOK, Goto
  <2>3. \A n, m \in Node : registry'[n][m] =
          IF n = Owner(e) /\ m = Peer(e) THEN e ELSE registry[n][m]
    BY <1>0, <2>1 DEF IInv, TypeOK
  <2>4. ListedHaveEnded'
    <3>1. \A n \in Node : finishing[n] \in Seq(End)
      BY DEF IInv, TypeOK
    <3>2. \A n \in Node : ToSet(finishing[n]) \subseteq End
      BY <3>1, MembersAreEnds
    <3> QED BY <1>0, <2>1, <2>2, <3>2 DEF AInv, ListedHaveEnded
  <2>5. OpenUntilEnded'
    BY <1>0, <2>1, <2>2 DEF AInv, OpenUntilEnded
  <2>6. ASSUME NEW x \in End, Unrefused(x)'
        PROVE  recv'[x] \in {"loop", "message"}
    <3>1. CASE x = e
      BY <2>2, <3>1
    <3>2. CASE x # e
      <4>1. Other(x) \in End /\ Owner(x) \in Node /\ Peer(x) \in Node
        BY Ends
      <4>2. registry[Owner(x)][Peer(x)] = x
        BY <2>3, <2>6, <3>2, <4>1 DEF Unrefused
      <4>3. recv[Other(x)] \in Early \/ registry[Peer(x)][Owner(x)] = Other(x)
        BY <1>0, <2>2, <2>3, <2>6, <4>1 DEF Unrefused, Early
      <4>4. Unrefused(x)
        BY <2>1, <2>6, <4>2, <4>3 DEF Unrefused
      <4> QED BY <2>2, <3>2, <4>4 DEF AInv, UnrefusedStay
    <3> QED BY <3>1, <3>2
  <2> QED BY <2>4, <2>5, <2>6 DEF AInv, UnrefusedStay
<1> QED BY <1>1, <1>2

\* A receiver that registers has been on its way out.
LEMMA RegisterAgrees ==
  ASSUME IInv, AInv, NEW e \in End, RegisterFinishingClient(e)
  PROVE  AInv'
<1>1. /\ recv[e] = "register" /\ recv' = [recv EXCEPT ![e] = "ended"]
      /\ finishing' = [finishing EXCEPT ![Owner(e)] = Append(@, e)]
      /\ UNCHANGED <<sock, sent, registry, cleaner, broken, main>>
  BY DEF RegisterFinishingClient, Goto
<1>2. Owner(e) \in Node
  BY Ends
<1>3. \A n \in Node : finishing[n] \in Seq(End)
  BY DEF IInv, TypeOK
<1>4. \A n \in Node : ToSet(finishing[n]) \subseteq End
  BY <1>3, MembersAreEnds
<1>5. \A n \in Node : ToSet(finishing'[n]) \subseteq ToSet(finishing[n]) \cup {e}
  <2> TAKE n \in Node
  <2>1. CASE n = Owner(e)
    <3>1. finishing'[n] = Append(finishing[n], e)
      BY <1>1, <1>2, <2>1 DEF IInv, TypeOK
    <3> QED BY <1>3, <3>1, AppendToSet
  <2>2. CASE n # Owner(e)
    BY <1>1, <2>2 DEF IInv, TypeOK
  <2> QED BY <2>1, <2>2
<1>6. \A x \in End : recv'[x] = IF x = e THEN "ended" ELSE recv[x]
  BY <1>1 DEF IInv, TypeOK
<1>7. ListedHaveEnded'
  BY <1>4, <1>5, <1>6 DEF AInv, ListedHaveEnded
<1>8. OpenUntilEnded'
  BY <1>1, <1>6 DEF AInv, OpenUntilEnded
<1>9. ASSUME NEW x \in End, Unrefused(x)'
      PROVE  recv'[x] \in {"loop", "message"}
  <2>1. Other(x) \in End
    BY Ends
  <2>2. Unrefused(x)
    BY <1>1, <1>6, <1>9, <2>1 DEF Unrefused, Early
  <2>3. recv[x] \in {"loop", "message"}
    BY <2>2 DEF AInv, UnrefusedStay
  <2> QED BY <1>1, <1>6, <2>3
<1> QED BY <1>7, <1>8, <1>9 DEF AInv, UnrefusedStay

\* Steps that give nothing but entries and lists away.
LEMMA FewerAgree ==
  ASSUME IInv, AInv, UNCHANGED <<recv>>, OpenUntilEnded', broken \subseteq broken',
         \A n \in Node : main'[n] = "running" => main[n] = "running",
         \A n \in Node : ToSet(finishing'[n]) \subseteq ToSet(finishing[n]),
         \A n, m \in Node : registry'[n][m] \in {registry[n][m], NoEnd}
  PROVE  AInv'
<1>1. ListedHaveEnded'
  BY DEF AInv, ListedHaveEnded
<1>2. ASSUME NEW x \in End, Unrefused(x)'
      PROVE  Unrefused(x)
  <2>1. Other(x) \in End /\ Owner(x) \in Node /\ Peer(x) \in Node /\ x # NoEnd /\ Other(x) # NoEnd
    BY Ends
  <2> QED BY <1>2, <2>1 DEF Unrefused
<1>3. UnrefusedStay'
  BY <1>2 DEF AInv, UnrefusedStay
<1> QED BY <1>1, <1>3 DEF AInv

\* Cleaning up.
LEMMA CleanAgrees ==
  ASSUME IInv, AInv, NEW n \in Node, Clean(n)
  PROVE  AInv'
<1>0. \A x \in Node : finishing[x] \in Seq(End) /\ ToSet(finishing[x]) \subseteq End
  <2>1. \A x \in Node : finishing[x] \in Seq(End)
    BY DEF IInv, TypeOK
  <2> QED BY <2>1, MembersAreEnds
<1>1. CASE \E t \in End \cup {KeepAlive, Main} : EnterCleaning(n, t)
  BY <1>1, FewerAgree DEF EnterCleaning, AInv, OpenUntilEnded
<1>2. ASSUME NEW e \in End, CloseSocket(n, e)
      PROVE  AInv'
  <2>1. e \in ToSet(finishing[n]) /\ sock' = [sock EXCEPT ![e] = "closed"]
        /\ UNCHANGED <<recv, sent, registry, finishing, cleaner, broken, main>>
    BY <1>2 DEF CloseSocket, Cleaning, ToSet
  <2>2. recv[e] = "ended"
    BY <2>1 DEF AInv, ListedHaveEnded
  <2>3. OpenUntilEnded'
    BY <2>1, <2>2 DEF AInv, OpenUntilEnded, IInv, TypeOK
  <2> QED BY <2>1, <2>3, FewerAgree
<1>3. ASSUME NEW e \in End, JoinAndDiscard(n, e)
      PROVE  AInv'
  <2>1. /\ recv[e] = "ended" /\ sock' = [sock EXCEPT ![e] = "null"] /\ registry' = Without({e})
        /\ UNCHANGED <<recv, sent, finishing, cleaner, broken, main>>
    BY <1>3 DEF JoinAndDiscard
  <2>2. \A x, y \in Node : registry'[x][y] \in {registry[x][y], NoEnd}
    BY <2>1 DEF Without
  <2>3. OpenUntilEnded'
    BY <2>1 DEF AInv, OpenUntilEnded, IInv, TypeOK
  <2> QED BY <2>1, <2>2, <2>3, FewerAgree
<1>4. CASE LeaveCleaning(n)
  <2> DEFINE t == cleaner[n]
  <2>1. /\ t # NoEnd
        /\ finishing' = [finishing EXCEPT ![n] = <<>>]
        /\ registry' = Without(ToSet(finishing[n]))
        /\ recv' = IF t \notin End THEN recv
                   ELSE [recv EXCEPT ![t] = IF @ = "message" THEN "loop" ELSE "register"]
        /\ main' = IF t = Main THEN [main EXCEPT ![n] = AfterCleaning[@]] ELSE main
        /\ UNCHANGED <<sock, sent, broken>>
    BY <1>4 DEF LeaveCleaning
  <2>2. \A x, y \in Node : registry'[x][y] \in {registry[x][y], NoEnd}
    BY <2>1 DEF Without
  <2>3. \A x \in Node : ToSet(finishing'[x]) \subseteq ToSet(finishing[x])
    <3>1. ToSet(<<>>) = {}
      BY DEF ToSet
    <3>2. \A x \in Node : finishing'[x] = IF x = n THEN <<>> ELSE finishing[x]
      BY <2>1 DEF IInv, TypeOK
    <3> QED BY <3>1, <3>2
  <2>4. \A x \in Node : main'[x] = "running" => main[x] = "running"
    <3>1. \A x \in DOMAIN AfterCleaning : AfterCleaning[x] # "running"
      BY DEF AfterCleaning
    <3>2. t = Main => main[n] \in DOMAIN AfterCleaning
      BY DEF IInv, CleanersAreInCall
    <3> QED BY <2>1, <3>1, <3>2 DEF IInv, TypeOK
  <2>5. \A x \in End : \/ recv'[x] = recv[x]
                       \/ recv[x] = "message" /\ recv'[x] = "loop"
                       \/ recv[x] = "leave" /\ recv'[x] = "register"
    <3>1. t \in End => recv[t] \in {"message", "leave"}
      BY DEF IInv, CleanersAreInCall
    <3> HIDE DEF t
    <3> QED BY <2>1, <3>1 DEF IInv, TypeOK
  <2>6. ListedHaveEnded'
    BY <1>0, <2>3, <2>5 DEF AInv, ListedHaveEnded
  <2>7. OpenUntilEnded'
    BY <2>1, <2>5 DEF AInv, OpenUntilEnded
  <2>8. ASSUME NEW x \in End, Unrefused(x)'
        PROVE  recv'[x] \in {"loop", "message"}
    <3>1. /\ Other(x) \in End /\ Owner(x) \in Node /\ Peer(x) \in Node
          /\ x # NoEnd /\ Other(x) # NoEnd
      BY Ends
    <3>2. registry[Owner(x)][Peer(x)] = x
      BY <2>2, <2>8, <3>1 DEF Unrefused
    <3>3. recv[Other(x)] \in Early \/ registry[Peer(x)][Owner(x)] = Other(x)
      <4>1. recv'[Other(x)] \in Early => recv[Other(x)] \in Early
        BY <2>5, <3>1 DEF Early
      <4>2. registry'[Peer(x)][Owner(x)] \in {registry[Peer(x)][Owner(x)], NoEnd}
        BY <2>2, <3>1
      <4> QED BY <2>8, <3>1, <4>1, <4>2 DEF Unrefused
    <3>4. Unrefused(x)
      BY <2>1, <2>4, <2>8, <3>1, <3>2, <3>3 DEF Unrefused
    <3> QED BY <2>5, <3>4 DEF AInv, UnrefusedStay
  <2> QED BY <2>6, <2>7, <2>8 DEF AInv, UnrefusedStay
<1> QED BY <1>1, <1>2, <1>3, <1>4 DEF Clean

\* Stopping.
LEMMA StopAgrees ==
  ASSUME IInv, AInv, NEW n \in Node, Terminate(n) \/ Stop(n)
  PROVE  AInv'
<1>1. CASE Terminate(n) \/ StopServer(n) \/ JoinThreads(n) \/ ClearConnections(n)
  <2>1. PICK place \in MainPlace \ {"running"} : main' = [main EXCEPT ![n] = place]
    BY <1>1 DEF Terminate, StopServer, JoinThreads, ClearConnections, MainPlace
  <2>2. /\ registry' \in {registry, [registry EXCEPT ![n] = [m \in Node |-> NoEnd]]}
        /\ UNCHANGED <<recv, sock, sent, finishing, cleaner, broken>>
    BY <1>1 DEF Terminate, StopServer, JoinThreads, ClearConnections
  <2>3. \A x \in Node : main'[x] = "running" => main[x] = "running"
    BY <2>1 DEF IInv, TypeOK
  <2>4. \A x, y \in Node : registry'[x][y] \in {registry[x][y], NoEnd}
    <3>1. CASE registry' = [registry EXCEPT ![n] = [m \in Node |-> NoEnd]]
      <4>1. \A x, y \in Node : registry'[x][y] = IF x = n THEN NoEnd ELSE registry[x][y]
        BY <3>1 DEF IInv, TypeOK
      <4> QED BY <4>1
    <3> QED BY <2>2, <3>1
  <2> QED BY <2>2, <2>3, <2>4, FewerAgree DEF AInv, OpenUntilEnded
<1>2. CASE Exit(n)
  <2>1. /\ main' = [main EXCEPT ![n] = "gone"]
        /\ registry' = [registry EXCEPT ![n] = [m \in Node |-> NoEnd]]
        /\ finishing' = [finishing EXCEPT ![n] = <<>>]
        /\ recv' = [e \in End |-> IF Owner(e) = n THEN "ended" ELSE recv[e]]
        /\ sock' = [e \in End |-> IF Owner(e) = n /\ sock[e] = "open" THEN "closed" ELSE sock[e]]
        /\ UNCHANGED <<sent, cleaner, broken>>
    BY <1>2 DEF Exit
  <2>2. \A x, y \in Node : registry'[x][y] = IF x = n THEN NoEnd ELSE registry[x][y]
    BY <2>1 DEF IInv, TypeOK
  <2>3. \A x \in Node : main'[x] = IF x = n THEN "gone" ELSE main[x]
    BY <2>1 DEF IInv, TypeOK
  <2>4. ListedHaveEnded'
    <3>1. ToSet(<<>>) = {}
      BY DEF ToSet
    <3>2. \A x \in Node : finishing[x] \in Seq(End) /\ finishing'[x] = IF x = n THEN <<>> ELSE finishing[x]
      BY <2>1 DEF IInv, TypeOK
    <3>3. \A x \in Node : ToSet(finishing[x]) \subseteq End
      BY <3>2, MembersAreEnds
    <3>4. \A e \in End : recv[e] = "ended" => recv'[e] = "ended"
      BY <2>1
    <3> QED BY <3>1, <3>2, <3>3, <3>4 DEF AInv, ListedHaveEnded
  <2>5. OpenUntilEnded'
    BY <2>1 DEF AInv, OpenUntilEnded
  <2>6. ASSUME NEW x \in End, Unrefused(x)'
        PROVE  recv'[x] \in {"loop", "message"}
    <3>1. Other(x) \in End /\ Owner(x) \in Node /\ Peer(x) \in Node /\ Owner(Other(x)) = Peer(x)
      BY Ends, Others
    <3>2. Owner(x) # n /\ Peer(x) # n
      BY <2>3, <2>6, <3>1 DEF Unrefused
    <3>3. recv'[x] = recv[x] /\ recv'[Other(x)] = recv[Other(x)]
      BY <2>1, <3>1, <3>2
    <3>4. Unrefused(x)
      BY <2>1, <2>2, <2>3, <2>6, <3>1, <3>2, <3>3 DEF Unrefused
    <3> QED BY <3>3, <3>4 DEF AInv, UnrefusedStay
  <2> QED BY <2>4, <2>5, <2>6 DEF AInv, UnrefusedStay
<1> QED BY <1>1, <1>2 DEF Stop

LEMMA AInvStep == IInv /\ AInv /\ [Next]_vars => AInv'
<1> SUFFICES ASSUME IInv, AInv, [Next]_vars PROVE AInv'
  OBVIOUS
<1>1. ASSUME NEW c \in Conn, Connect(c) PROVE AInv'
  BY <1>1, ConnectAgrees
<1>2. ASSUME NEW e \in End, Receive(e) \/ TakeMessage(e) PROVE AInv'
  BY <1>2, HandshakeAgrees, AddAgrees, LoopAgrees, RegisterAgrees DEF Receive
<1>3. ASSUME NEW n \in Node, Clean(n) PROVE AInv'
  BY <1>3, CleanAgrees
<1>4. ASSUME NEW c \in Conn, Break(c) PROVE AInv'
  BY <1>4, FewerAgree DEF Break, AInv, OpenUntilEnded
<1>5. ASSUME NEW n \in Node, Terminate(n) \/ Stop(n) PROVE AInv'
  BY <1>5, StopAgrees
<1>6. CASE UNCHANGED vars
  BY <1>6, FewerAgree DEF vars, AInv, OpenUntilEnded
<1> QED BY <1>1, <1>2, <1>3, <1>4, <1>5, <1>6 DEF Next, Run

\* Of the ends that belong to two nodes only those of the connection the larger one
\* has opened are preferred.
LEMMA OnlyOnePreferred ==
  ASSUME NEW i \in Node, NEW j \in Node, i > j, NEW e \in End, Preferred(e)
  PROVE  /\ Owner(e) = i /\ Peer(e) = j => e = Client([from |-> i, to |-> j])
         /\ Owner(e) = j /\ Peer(e) = i => e = Server([from |-> i, to |-> j])
<1>1. PICK c \in Conn, side \in {"client", "server"} : e = <<c, side>>
  BY DEF End
<1>2. c \in [from : Node, to : Node] /\ i \in Nat /\ j \in Nat
  BY ConnAssumption, NodeAssumption
<1>3. c = [from |-> c.from, to |-> c.to]
  BY <1>2
<1>4. CASE side = "client"
  <2>1. Owner(e) = c.from /\ Peer(e) = c.to /\ e[2] = "client"
    BY <1>1, <1>4 DEF Owner, Peer, Other, Server
  <2>2. c.to < c.from
    BY <2>1 DEF Preferred
  <2> QED BY <1>1, <1>2, <1>3, <1>4, <2>1, <2>2 DEF Client
<1>5. CASE side = "server"
  <2>1. Owner(e) = c.to /\ Peer(e) = c.from /\ e[2] = "server"
    BY <1>1, <1>5 DEF Owner, Peer, Other, Client
  <2>2. ~(c.from < c.to)
    BY <2>1 DEF Preferred
  <2> QED BY <1>1, <1>2, <1>3, <1>5, <2>1, <2>2 DEF Server
<1> QED BY <1>4, <1>5

\* An entry of an unrefused connection is not taken away.
LEMMA KeptStays ==
  ASSUME IInv, AInv, [Next]_vars, NEW e \in End, Unrefused(e), Preferred(e),
         NEW i \in Node, NEW j \in Node, i > j,
         (Owner(e) = i /\ Peer(e) = j) \/ (Owner(e) = j /\ Peer(e) = i),
         main'[Owner(e)] = "running"
  PROVE  registry'[Owner(e)][Peer(e)] = e
<1>1. /\ recv[e] \in {"loop", "message"} /\ registry[Owner(e)][Peer(e)] = e
      /\ Owner(e) \in Node /\ Peer(e) \in Node /\ e # NoEnd /\ main[Owner(e)] = "running"
  BY Ends DEF AInv, UnrefusedStay, Unrefused
<1>2. CASE registry' = registry
  BY <1>1, <1>2
<1>3. ASSUME NEW S, registry' = Without(S), e \notin S
      PROVE  registry'[Owner(e)][Peer(e)] = e
  BY <1>1, <1>3 DEF Without
<1>4. ASSUME NEW x \in End, AddOrDiscardClient(x)
      PROVE  registry'[Owner(e)][Peer(e)] = e
  <2>1. CASE ~Accepts(x)
    BY <1>2, <1>4, <2>1 DEF AddOrDiscardClient
  <2>2. CASE Accepts(x)
    <3>1. registry' = [registry EXCEPT ![Owner(x)][Peer(x)] = x]
      BY <1>4, <2>2 DEF AddOrDiscardClient
    <3>2. CASE Owner(x) = Owner(e) /\ Peer(x) = Peer(e)
      <4>1. Preferred(x)
        BY <1>1, <2>2, <3>2 DEF Accepts
      <4>2. x = e
        <5>1. ASSUME NEW y \in End, Preferred(y)
              PROVE  /\ Owner(y) = i /\ Peer(y) = j => y = Client([from |-> i, to |-> j])
                     /\ Owner(y) = j /\ Peer(y) = i => y = Server([from |-> i, to |-> j])
          BY <5>1, OnlyOnePreferred
        <5> QED BY <3>2, <4>1, <5>1
      <4> QED BY <1>1, <3>1, <4>2 DEF IInv, TypeOK
    <3>3. CASE ~(Owner(x) = Owner(e) /\ Peer(x) = Peer(e))
      <4>1. Owner(x) \in Node /\ Peer(x) \in Node
        BY Ends
      <4> QED BY <1>1, <3>1, <3>3, <4>1 DEF IInv, TypeOK
    <3> QED BY <3>2, <3>3
  <2> QED BY <2>1, <2>2
<1>5. ASSUME NEW n \in Node, Clean(n)
      PROVE  registry'[Owner(e)][Peer(e)] = e
  <2>1. ASSUME NEW x \in End, JoinAndDiscard(n, x)
        PROVE  registry'[Owner(e)][Peer(e)] = e
    BY <1>1, <1>3, <2>1 DEF JoinAndDiscard
  <2>2. CASE LeaveCleaning(n)
    <3>1. e \notin ToSet(finishing[n])
      BY <1>1 DEF AInv, ListedHaveEnded
    <3> QED BY <1>3, <2>2, <3>1 DEF LeaveCleaning
  <2> QED BY <1>2, <1>5, <2>1, <2>2 DEF Clean, EnterCleaning, CloseSocket
<1>6. ASSUME NEW n \in Node, ClearConnections(n) \/ Exit(n)
      PROVE  registry'[Owner(e)][Peer(e)] = e
  <2>1. n # Owner(e)
    BY <1>1, <1>6 DEF ClearConnections, Exit
  <2>2. registry' = [registry EXCEPT ![n] = [m \in Node |-> NoEnd]]
    BY <1>6 DEF ClearConnections, Exit
  <2> QED BY <1>1, <2>1, <2>2 DEF IInv, TypeOK
<1>7. ASSUME NEW x \in End, Receive(x) \/ TakeMessage(x)
      PROVE  registry'[Owner(e)][Peer(e)] = e
  BY <1>2, <1>4, <1>7 DEF Receive, Handshake, HandshakeSend, HandshakeRecv, HandshakeFails, LoopEnds,
       RegisterFinishingClient, TakeMessage
<1>8. ASSUME NEW c \in Conn, Connect(c) \/ Break(c)
      PROVE  registry'[Owner(e)][Peer(e)] = e
  BY <1>2, <1>8 DEF Connect, Accept, AddFoundServer, Break
<1>9. ASSUME NEW n \in Node, Terminate(n) \/ Stop(n)
      PROVE  registry'[Owner(e)][Peer(e)] = e
  BY <1>2, <1>6, <1>9 DEF Stop, Terminate, StopServer, JoinThreads
<1>10. CASE UNCHANGED vars
  BY <1>2, <1>10 DEF vars
<1> QED BY <1>5, <1>7, <1>8, <1>9, <1>10 DEF Next, Run

\* Terminate() is not taken back.
LEMMA RunningStays ==
  ASSUME IInv, [Next]_vars, NEW n \in Node, main'[n] = "running"
  PROVE  main[n] = "running"
<1>1. CASE main' = main
  BY <1>1
<1>2. ASSUME NEW m \in Node, NEW place, place # "running", main' = [main EXCEPT ![m] = place]
      PROVE  main[n] = "running"
  BY <1>2 DEF IInv, TypeOK
<1>3. ASSUME NEW m \in Node, Clean(m)
      PROVE  main[n] = "running"
  <2>1. \A x \in DOMAIN AfterCleaning : AfterCleaning[x] # "running"
    BY DEF AfterCleaning
  <2>2. cleaner[m] = Main => main[m] \in DOMAIN AfterCleaning
    BY DEF IInv, CleanersAreInCall
  <2> QED BY <1>1, <1>2, <1>3, <2>1, <2>2 DEF Clean, EnterCleaning, CloseSocket, JoinAndDiscard,
       LeaveCleaning
<1>4. ASSUME NEW m \in Node, Terminate(m) \/ Stop(m)
      PROVE  main[n] = "running"
  BY <1>2, <1>4 DEF Stop, Terminate, StopServer, JoinThreads, ClearConnections, Exit
<1>5. ASSUME NEW e \in End, Receive(e) \/ TakeMessage(e)
      PROVE  main[n] = "running"
  BY <1>1, <1>5 DEF Receive, Handshake, HandshakeSend, HandshakeRecv, HandshakeFails, LoopEnds,
       AddOrDiscardClient, RegisterFinishingClient, TakeMessage
<1>6. ASSUME NEW c \in Conn, Connect(c) \/ Break(c)
      PROVE  main[n] = "running"
  BY <1>1, <1>6 DEF Connect, Accept, AddFoundServer, Break
<1>7. CASE UNCHANGED vars
  BY <1>1, <1>7 DEF vars
<1> QED BY <1>3, <1>4, <1>5, <1>6, <1>7 DEF Next, Run

-----------------------------------------------------------------------------
(* The theorems *)

\* All variables always have their types.
THEOREM TypesHold == Spec => []TypeOK
<1>1. IInv => TypeOK
  BY DEF IInv
<1> QED BY <1>1, IInvInit, IInvStep, PTL DEF Spec

\* Whatever is sent under _lock to a connection in the registry finds its socket, and
\* clearing an entry never destroys a connection that is still to be cleaned up.
THEOREM EntriesStayUsable == Spec => []EntriesAreUsable
<1>1. IInv => EntriesAreUsable
  BY DEF IInv
<1> QED BY <1>1, IInvInit, IInvStep, PTL DEF Spec

\* No connection stays in the registry without a receiver that will discard it.
THEOREM EntriesStayWatched == Spec => []EntriesAreWatched
<1>1. IInv => EntriesAreWatched
  BY DEF IInv
<1> QED BY <1>1, IInvInit, IInvStep, PTL DEF Spec

\* Two nodes that keep the connection that the larger one has opened do so until it
\* breaks or one of them stops: no thread that cleans up and no second connection,
\* however it is timed, takes it out of either registry (AddOrDiscardClient(),
\* DiscardClient(), CleanUp()).
THEOREM AgreementStays == Spec => AgreementIsKept
<1>1. ASSUME IInv, AInv, [Next]_vars, NEW i \in Node, NEW j \in Node, i > j, KeptBy(i, j),
             [from |-> i, to |-> j] \notin broken', {main'[i], main'[j]} = {"running"}
      PROVE  KeptBy(i, j)'
  <2> DEFINE c == [from |-> i, to |-> j]
  <2>1. /\ c \in Conn \ broken /\ c.from = i /\ c.to = j /\ i \in Nat /\ j \in Nat
        /\ registry[i][j] = Client(c) /\ registry[j][i] = Server(c)
        /\ main'[i] = "running" /\ main'[j] = "running"
    BY <1>1, NodeAssumption DEF KeptBy
  <2>2. main[i] = "running" /\ main[j] = "running"
    BY <1>1, <2>1, RunningStays
  <2> HIDE DEF c
  <2>3. /\ Client(c) \in End /\ Owner(Client(c)) = i /\ Peer(Client(c)) = j
        /\ Server(c) \in End /\ Owner(Server(c)) = j /\ Peer(Server(c)) = i
        /\ Other(Client(c)) = Server(c) /\ Other(Server(c)) = Client(c)
        /\ Client(c)[1] = c /\ Server(c)[1] = c
        /\ Client(c)[2] = "client" /\ Server(c)[2] = "server"
    BY <2>1 DEF Client, Server, End, Owner, Peer, Other
  <2>4. Unrefused(Client(c)) /\ Unrefused(Server(c))
    BY <2>1, <2>2, <2>3 DEF Unrefused
  <2>5. Preferred(Client(c)) /\ Preferred(Server(c))
    BY <1>1, <2>1, <2>3 DEF Preferred
  <2>6. registry'[i][j] = Client(c) /\ registry'[j][i] = Server(c)
    BY <1>1, <2>1, <2>3, <2>4, <2>5, KeptStays
  <2> QED BY <1>1, <2>1, <2>6 DEF KeptBy, c
<1>2. IInv /\ AInv /\ [Next]_vars =>
        [\A i, j \in Node :
           /\ i > j /\ KeptBy(i, j)
           /\ [from |-> i, to |-> j] \notin broken' /\ {main'[i], main'[j]} = {"running"}
           => KeptBy(i, j)']_vars
  BY <1>1
<1> QED BY <1>2, IInvInit, IInvStep, AInvInit, AInvStep, PTL DEF Spec, AgreementIsKept

=============================================================================
