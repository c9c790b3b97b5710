------------------------------- MODULE Frames -------------------------------
(***************************************************************************)
(* One direction of a connection, byte by byte: the threads of a node that *)
(* send messages over the same socket, and the receiver thread of the      *)
(* other side that tells the messages apart again.                         *)
(*                                                                         *)
(* A message is sent as two parts, its header and its data, by one call of *)
(* TCPSocket::Send() each; a call may take many calls of send() and hold   *)
(* only so many bytes are under way.  _lock of the ClientConnection keeps  *)
(* the parts of a message together.  The first byte of all is the answer   *)
(* of the AcceptLoop() to a probe, the first message is sent in the        *)
(* handshake without that lock.                                            *)
(***************************************************************************)
EXTENDS ByteStreams

CONSTANTS Id,           \* the name of the sender's node, a sequence of bytes
          Leader,       \* the name of the leader it knows
          Payloads,     \* the messages its computation may send
          Count,        \* bound: how many of them it sends, and how many keep-alives
          Capacity,     \* bytes that are under way at most
          SendTimesOut, \* whether a send() may time out
          RecvTimesOut, \* whether a recv() may time out
          NoThread

Receiver == "receiver"        \* the sender's own receiver thread, which greets
KeepAlive == "keepAlive"
Computation == "computation"
Thread == {Receiver, KeepAlive, Computation}

ASSUME FramesAssumption ==
  /\ Count \in Nat /\ Capacity \in Nat \ {0}
  /\ SendTimesOut \in BOOLEAN /\ RecvTimesOut \in BOOLEAN
  /\ NoThread \notin Thread

-----------------------------------------------------------------------------
(* Messages *)

Type == [INITIAL |-> 0, KNOWN_LEADER |-> 3, KEEP_ALIVE |-> 4, STACK_ASSIGNMENT |-> 6,
         ASSIGNMENT_FINISHED |-> 7, DIVIDE_WITH |-> 8, TERMINATE |-> 9]

\* What the factory makes, and what is read from it.
InitialMsg == [type |-> Type.INITIAL, id |-> Id]
KnownLeaderMsg == [type |-> Type.KNOWN_LEADER, id |-> Leader]
KeepAliveMsg == [type |-> Type.KEEP_ALIVE]
StackAssignmentMsg(table) == [type |-> Type.STACK_ASSIGNMENT, table |-> table]
FinishedMsg(best) == [type |-> Type.ASSIGNMENT_FINISHED, best |-> best]
DivideWithMsg(with) == [type |-> Type.DIVIDE_WITH, with |-> with]
TerminateMsg == [type |-> Type.TERMINATE]
Message == {InitialMsg, KnownLeaderMsg, KeepAliveMsg} \cup Payloads

\* The bytes of a message.  The names in the handshake and in the election are sent as
\* they are, others with their length.
Data(m) ==
  CASE m.type \in {Type.INITIAL, Type.KNOWN_LEADER} -> m.id
    [] m.type = Type.STACK_ASSIGNMENT -> Serialize(m.table)
    [] m.type = Type.ASSIGNMENT_FINISHED -> PutInt(m.best)
    [] m.type = Type.DIVIDE_WITH -> PutString(m.with)
    [] OTHER -> <<>>
Bytes == [m \in Message |-> Data(m)]
HeaderSize == IntSize + LongSize
Headers == [m \in Message |-> PutInt(m.type) \o Raw(Len(Bytes[m]), LongSize)]

\* What is read from a header, and the message that the handlers find in the data.
HeaderType(h) == NextInt(h).value
HeaderLength(h) == Unsigned(SubSeq(h, IntSize + 1, HeaderSize))
Content(type, data) ==
  CASE type \in {Type.INITIAL, Type.KNOWN_LEADER} -> [type |-> type, id |-> data]
    [] type = Type.STACK_ASSIGNMENT -> StackAssignmentMsg(Deserialize(data))
    [] type = Type.ASSIGNMENT_FINISHED -> FinishedMsg(NextInt(data).value)
    [] type = Type.DIVIDE_WITH -> DivideWithMsg(NextString(data).value)
    [] OTHER -> [type |-> type]

\* The numbers and lengths fit into their bytes, and no name contains a zero.
ASSUME EncodingAssumption ==
  \A m \in Message :
    /\ Bytes[m] \in Seq(Byte)
    /\ Headers[m] \in Seq(Byte) /\ Len(Headers[m]) = HeaderSize
    /\ HeaderType(Headers[m]) = m.type /\ HeaderLength(Headers[m]) = Len(Bytes[m])
    /\ Content(m.type, Bytes[m]) = m

-----------------------------------------------------------------------------
VARIABLES place,      \* what each thread of the sender is about
          message,    \* the message it sends
          left,       \* the bytes of the part it sends that are left
          lock,       \* the thread that holds _lock of the ClientConnection
          sendLock,   \* the thread that holds _sendLock of the TCPSocket
          registered, \* the sender has put the connection into _clientConnections
          todo,       \* how many more messages each thread sends
          error,      \* _error of the sender's socket
          closed,     \* the sender's socket is closed
          wire,       \* the bytes under way
          reading,    \* what the other side waits for
          got,        \* the bytes of it that have come
          header,     \* the header of the message whose data it waits for
          received,   \* the messages it has taken
          sent,       \* the messages that any thread has begun to send; not in the code
          cut         \* a message was cut short; not in the code

sender == <<place, message, left, lock, sendLock, registered, todo, error, closed, sent, cut>>
reader == <<reading, got, header, received>>
vars == <<sender, wire, reader>>

\* In their order: between two messages; in Send() of the header; between the two calls
\* of Send(); in Send() of the data.
Place == {"idle", "header", "between", "data"}

TypeOK ==
  /\ place \in [Thread -> Place]
  /\ message \in [Thread -> Message]
  /\ left \in [Thread -> Seq(Byte)]
  /\ lock \in Thread \cup {NoThread} /\ sendLock \in Thread \cup {NoThread}
  /\ registered \in BOOLEAN /\ error \in BOOLEAN /\ closed \in BOOLEAN /\ cut \in BOOLEAN
  /\ todo \in [Thread -> Nat]
  /\ wire \in Seq(Byte) /\ Len(wire) <= Capacity
  /\ reading \in {"answer", "header", "data", "stopped"}
  /\ got \in Seq(Byte) /\ header \in Seq(Byte)
  /\ sent \in Seq(Message)

-----------------------------------------------------------------------------
(* The sender *)

BeginsToSend(t, m) ==
  /\ place[t] = "idle" /\ todo[t] > 0 /\ sendLock = NoThread
  /\ place' = [place EXCEPT ![t] = "header"]
  /\ message' = [message EXCEPT ![t] = m]
  /\ left' = [left EXCEPT ![t] = Headers[m]]
  /\ sendLock' = t
  /\ todo' = [todo EXCEPT ![t] = @ - 1]
  /\ sent' = IF cut THEN sent ELSE Append(sent, m)
  /\ UNCHANGED <<registered, error, closed, wire, reader, cut>>

HandshakeSend ==
  /\ todo[Receiver] = 2
  /\ BeginsToSend(Receiver, InitialMsg)
  /\ UNCHANGED lock

\* The id of the other side has come, by the other direction.
AddOrDiscardClient ==
  /\ todo[Receiver] = 1 /\ place[Receiver] = "idle" /\ ~registered /\ ~error
  /\ registered' = TRUE
  /\ UNCHANGED <<place, message, left, lock, sendLock, todo, error, closed, wire, reader, sent, cut>>

SendMsgUnlocked(t, m) ==  \* mutant: SendMsg() does not take _lock
  /\ registered
  /\ BeginsToSend(t, m)
  /\ UNCHANGED lock

SendMsgUnregistered(t, m) ==  \* mutant: the connection is in the registry from the start
  /\ lock = NoThread /\ lock' = t
  /\ BeginsToSend(t, m)

\* SendMsg(), and SendKeepAlive().
SendMsg(t, m) ==
  /\ registered
  /\ lock = NoThread /\ lock' = t
  /\ BeginsToSend(t, m)

\* Other threads find the connection in the registry; the receiver thread greets with
\* the leader when there is one.
SendMessages ==
  \/ Leader # <<>> /\ SendMsg(Receiver, KnownLeaderMsg)
  \/ SendMsg(KeepAlive, KeepAliveMsg)
  \/ \E m \in Payloads : SendMsg(Computation, m)

\* send() takes as many bytes as there is room for, or fewer.
SendSome(t) ==
  /\ place[t] \in {"header", "data"} /\ left[t] # <<>> /\ ~closed
  /\ \E k \in 1 .. Len(left[t]) :
       /\ Len(wire) + k <= Capacity
       /\ wire' = wire \o SubSeq(left[t], 1, k)
       /\ left' = [left EXCEPT ![t] = After(@, k)]
  /\ UNCHANGED <<place, message, lock, sendLock, registered, todo, error, closed, reader, sent, cut>>

HeaderIsSent(t) ==
  /\ place[t] = "header" /\ left[t] = <<>>
  /\ place' = [place EXCEPT ![t] = "between"]
  /\ sendLock' = NoThread
  /\ UNCHANGED <<message, left, lock, registered, todo, error, closed, wire, reader, sent, cut>>

SendData(t) ==
  /\ place[t] = "between" /\ sendLock = NoThread
  /\ place' = [place EXCEPT ![t] = "data"]
  /\ left' = [left EXCEPT ![t] = Bytes[message[t]]]
  /\ sendLock' = t
  /\ UNCHANGED <<message, lock, registered, todo, error, closed, wire, reader, sent, cut>>

\* Send() returns to SendMsg(), which returns.
Returns(t) ==
  /\ place' = [place EXCEPT ![t] = "idle"]
  /\ sendLock' = NoThread
  /\ lock' = IF lock = t THEN NoThread ELSE lock

DataIsSent(t) ==
  /\ place[t] = "data" /\ left[t] = <<>>
  /\ Returns(t)
  /\ UNCHANGED <<message, left, registered, todo, error, closed, wire, reader, sent, cut>>

\* A send() that has waited for room for too long fails, and one on a connection that
\* either side has closed.  Send() does not look whether another one has failed.
SendFails(t) ==
  /\ place[t] \in {"header", "data"} /\ left[t] # <<>>
  /\ (SendTimesOut /\ Len(wire) = Capacity) \/ closed \/ reading = "stopped"
  /\ Returns(t)
  /\ error' = TRUE /\ cut' = TRUE
  /\ UNCHANGED <<message, left, registered, todo, closed, wire, reader, sent>>

\* The sender's receiver thread leaves its loop when the socket has failed, and the
\* connection is cleaned up.
Close ==
  /\ error /\ ~closed
  /\ closed' = TRUE
  /\ UNCHANGED <<place, message, left, lock, sendLock, registered, todo, error, wire, reader, sent, cut>>

-----------------------------------------------------------------------------
(* The other side *)

\* The bytes that Receive() has been asked for.
Needed == CASE reading = "answer" -> 1
            [] reading = "header" -> HeaderSize
            [] reading = "data" -> HeaderLength(header)
            [] OTHER -> 0

\* How many messages there are before the one that was cut short.
Whole == IF cut THEN Len(sent) - 1 ELSE Len(sent)

\* recv() takes as many bytes as have come, or fewer.
ReceiveSome ==
  /\ reading # "stopped"
  /\ \E k \in 1 .. Len(wire) :
       /\ Len(got) + k <= Needed
       /\ got' = got \o SubSeq(wire, 1, k)
       /\ wire' = After(wire, k)
  /\ UNCHANGED <<sender, reading, header, received>>

\* CheckForServer() reads one byte.
AnswerIsRead ==
  /\ reading = "answer" /\ Len(got) = Needed
  /\ reading' = "header" /\ got' = <<>>
  /\ UNCHANGED <<sender, wire, header, received>>

HeaderIsRead ==
  /\ reading = "header" /\ Len(got) = Needed
  /\ reading' = "data" /\ header' = got /\ got' = <<>>
  /\ UNCHANGED <<sender, wire, received>>

DataIsRead ==
  /\ reading = "data" /\ Len(got) = Needed
  /\ reading' = "header" /\ got' = <<>>
  /\ received' = Append(received, [type |-> HeaderType(header), data |-> got])
  /\ UNCHANGED <<sender, wire, header>>

\* Receive() gives up in the middle and forgets what it has got, but the socket has
\* failed then, and the receiver thread leaves its loop.
ReceiveFailsOnly ==  \* mutant: the loop goes on after a timeout
  /\ wire = <<>> /\ Len(got) < Needed /\ RecvTimesOut
  /\ reading = "data" /\ reading' = "header" /\ got' = <<>>
  /\ UNCHANGED <<sender, wire, header, received>>

ReceiveFails ==
  /\ wire = <<>> /\ Len(got) < Needed /\ (RecvTimesOut \/ closed)
  /\ reading' = "stopped" /\ got' = <<>>
  /\ UNCHANGED <<sender, wire, header, received>>

-----------------------------------------------------------------------------
\* AcceptLoop() has answered the probe before the receiver thread starts.
Init ==
  /\ place = [t \in Thread |-> "idle"]
  /\ message = [t \in Thread |-> InitialMsg]
  /\ left = [t \in Thread |-> <<>>]
  /\ lock = NoThread /\ sendLock = NoThread
  /\ registered = FALSE
  /\ todo = [t \in Thread |-> IF t = Receiver THEN 2 ELSE Count]
  /\ error = FALSE /\ closed = FALSE /\ cut = FALSE
  /\ wire = <<66 % Base>>
  /\ reading = "answer" /\ got = <<>> /\ header = <<>>
  /\ received = <<>> /\ sent = <<>>

Sends(t) == SendSome(t) \/ HeaderIsSent(t) \/ SendData(t) \/ DataIsSent(t)
Reads == ReceiveSome \/ AnswerIsRead \/ HeaderIsRead \/ DataIsRead

Next ==
  \/ HandshakeSend \/ AddOrDiscardClient \/ SendMessages
  \/ \E t \in Thread : Sends(t) \/ SendFails(t)
  \/ Close
  \/ Reads \/ ReceiveFails

\* A Send() that has begun goes on while there is room, and the receiver thread reads.
Fairness == WF_vars(Reads) /\ WF_vars(\E t \in Thread : Sends(t))

Spec == Init /\ [][Next]_vars /\ Fairness

-----------------------------------------------------------------------------
(* Properties *)

\* What the handlers find in the messages before the one that was cut short.  Bytes
\* that no message has are left as they are.
Contents == [raw \in {[type |-> m.type, data |-> Bytes[m]] : m \in Message} |->
               Content(raw.type, raw.data)]
Delivered ==
  [i \in {j \in DOMAIN received : j <= Whole} |->
     IF received[i] \in DOMAIN Contents THEN Contents[received[i]] ELSE received[i]]

FIFO == INSTANCE Channel WITH delivered <- Delivered

\* The messages of all threads come out whole, with the same contents, once each, and in
\* the order in which they were begun, however the bytes are split up, up to the first
\* one that is cut short.
ImplementsChannel == FIFO!Spec

\* Whoever gets messages over a connection has been told before whose they are.
InitialComesFirst == received # <<>> => received[1].type = Type.INITIAL

\* Whenever messages have been begun, all of them arrive, if the connection does not fail.
EverythingArrives == []<>(Len(received) >= Len(sent) \/ cut \/ reading = "stopped")

=============================================================================
