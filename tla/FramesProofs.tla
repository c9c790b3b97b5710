---------------------------- MODULE FramesProofs ----------------------------
(***************************************************************************)
(* Proofs about module Frames, for any names, any messages whose contents  *)
(* can be encoded, any number of them and any number of bytes under way.   *)
(***************************************************************************)
EXTENDS Frames, SequenceTheorems, TLAPS

-----------------------------------------------------------------------------
(* The inductive invariant.                                                *)
(*                                                                         *)
(* It speaks of four values that are not part of the state.  The bytes on  *)
(* the connection are numbered from 1, the answer to the probe:            *)
(*                                                                         *)
(*   pos     pos[k] is the number of the last byte of the k-th message     *)
(*   ideal   the bytes that there would be if no message were cut short    *)
(*   edge    how many bytes have been sent, up to where one was cut short  *)
(*   base    how many bytes the reader had taken when got was last emptied *)

\* Where the messages that were begun lie, and what their bytes are.
Layout(pos, ideal) ==
  /\ pos \in [Nat -> Nat] /\ pos[0] = 1
  /\ \A k \in 1 .. Len(sent) :
       /\ pos[k] = pos[k - 1] + HeaderSize + Len(Bytes[sent[k]])
       /\ \A i \in 1 .. HeaderSize : ideal[pos[k - 1] + i] = Headers[sent[k]][i]
       /\ \A i \in 1 .. Len(Bytes[sent[k]]) :
            ideal[pos[k - 1] + HeaderSize + i] = Bytes[sent[k]][i]

\* All messages but the last one have been sent as a whole.
Edge(pos, edge) ==
  /\ edge \in Nat /\ edge <= pos[Len(sent)]
  /\ \A k \in 0 .. Len(sent) - 1 : pos[k] <= edge
  /\ cut => edge < pos[Len(sent)]

\* What thread t has to send goes up to end.
Upcoming(ideal, edge, end, t) ==
  /\ edge + Len(left[t]) = end
  /\ \A i \in 1 .. Len(left[t]) : left[t][i] = ideal[edge + i]

\* The writers, before a message was cut short.
Writing(pos, ideal, edge) ==
  /\ (\A t \in Thread : place[t] = "idle") => edge = pos[Len(sent)]
  /\ \A t \in Thread : place[t] # "idle" =>
       /\ sent # <<>> /\ message[t] = sent[Len(sent)]
       /\ place[t] = "header" =>
            Upcoming(ideal, edge, pos[Len(sent) - 1] + HeaderSize, t)
       /\ place[t] = "between" => edge = pos[Len(sent) - 1] + HeaderSize
       /\ place[t] = "data" => Upcoming(ideal, edge, pos[Len(sent)], t)

\* Nothing is sent behind a message that was cut short before the connection was
\* registered.
Exact == ~cut \/ ~registered

\* Which bytes are under way and in got.
UnderWay(ideal, edge, base) ==
  /\ edge <= base + Len(got) + Len(wire)
  /\ Exact => edge = base + Len(got) + Len(wire)
  /\ \A i \in 1 .. Len(got) : base + i <= edge => got[i] = ideal[base + i]
  /\ \A i \in 1 .. Len(wire) :
       base + Len(got) + i <= edge => wire[i] = ideal[base + Len(got) + i]

\* The reader.
Reading(pos, edge, base) ==
  /\ base \in Nat
  /\ reading = "answer" => base = 0 /\ received = <<>>
  /\ reading = "header" /\ Len(received) <= Whole => base = pos[Len(received)]
  /\ reading = "data" /\ Len(received) < Len(sent) =>
       /\ base = pos[Len(received)] + HeaderSize
       /\ base <= edge => header = Headers[sent[Len(received) + 1]]
  /\ Exact => Len(received) <= Whole
  /\ Exact /\ reading = "data" => Len(received) < Len(sent)
  /\ ~cut /\ Len(received) = Len(sent) => edge = pos[Len(sent)]

Laid(pos, ideal, edge, base) ==
  /\ Layout(pos, ideal) /\ Edge(pos, edge)
  /\ ~cut => Writing(pos, ideal, edge)
  /\ reading # "stopped" => UnderWay(ideal, edge, base)
  /\ Reading(pos, edge, base)

\* Who sends, and when: the first message of all is that of the handshake.
Handshake ==
  /\ todo[Receiver] \in 0 .. 2
  /\ IF todo[Receiver] = 2 THEN sent = <<>> /\ ~cut /\ ~registered ELSE sent # <<>>
  /\ sent # <<>> => sent[1] = InitialMsg
  /\ error = cut
  /\ registered => Whole >= 1
  /\ \A t \in Thread : place[t] # "idle" =>
       /\ sent # <<>>
       /\ IF registered THEN lock = t ELSE t = Receiver
       /\ cut => registered
       /\ registered /\ ~cut => Len(sent) >= 2

\* The messages before one that was cut short have come out as they were put in.
RightlyReceived ==
  /\ \E S : received \in Seq(S)
  /\ \A i \in 1 .. Len(received) :
       i <= Whole => received[i] = [type |-> sent[i].type, data |-> Bytes[sent[i]]]

IInv ==
  /\ TypeOK /\ Handshake /\ RightlyReceived
  /\ \E pos, ideal, edge, base : Laid(pos, ideal, edge, base)

-----------------------------------------------------------------------------
(* Facts about messages and sequences *)

\* A header has some bytes, and there are threads.
LEMMA Sizes ==
  /\ HeaderSize \in Nat \ {0} /\ IntSize \in Nat \ {0}
  /\ NoThread \notin Thread /\ Receiver \in Thread
BY SizeAssumption, FramesAssumption DEF HeaderSize, Thread

\* The messages of the handshake and the keep-alives are among the messages.
LEMMA Messages ==
  /\ InitialMsg \in Message /\ KnownLeaderMsg \in Message /\ KeepAliveMsg \in Message
  /\ Payloads \subseteq Message
BY DEF Message

\* What is left of a sequence behind its first n members.
LEMMA AfterProperties ==
  ASSUME NEW S, NEW s \in Seq(S), NEW n \in 0 .. Len(s)
  PROVE  /\ After(s, n) \in Seq(S) /\ Len(After(s, n)) = Len(s) - n
         /\ \A i \in 1 .. Len(s) - n : After(s, n)[i] = s[n + i]
<1>1. \A i \in n + 1 .. Len(s) : s[i] \in S
  OBVIOUS
<1>2. /\ SubSeq(s, n + 1, Len(s)) \in Seq(S)
      /\ Len(SubSeq(s, n + 1, Len(s))) = IF n + 1 <= Len(s) THEN Len(s) - (n + 1) + 1 ELSE 0
      /\ \A i \in 1 .. Len(s) - (n + 1) + 1 : SubSeq(s, n + 1, Len(s))[i] = s[n + 1 + i - 1]
  BY <1>1, SubSeqProperties
<1>3. Len(s) \in Nat
  OBVIOUS
<1> QED BY <1>2, <1>3 DEF After

\* Its first n members.
LEMMA UpToProperties ==
  ASSUME NEW S, NEW s \in Seq(S), NEW n \in 0 .. Len(s)
  PROVE  /\ SubSeq(s, 1, n) \in Seq(S) /\ Len(SubSeq(s, 1, n)) = n
         /\ \A i \in 1 .. n : SubSeq(s, 1, n)[i] = s[i]
<1>1. \A i \in 1 .. n : s[i] \in S
  OBVIOUS
<1>2. /\ SubSeq(s, 1, n) \in Seq(S)
      /\ Len(SubSeq(s, 1, n)) = IF 1 <= n THEN n - 1 + 1 ELSE 0
      /\ \A i \in 1 .. n - 1 + 1 : SubSeq(s, 1, n)[i] = s[1 + i - 1]
  BY <1>1, SubSeqProperties
<1> QED BY <1>2

\* Moving members from the front of one sequence to the end of another one.
LEMMA MovedProperties ==
  ASSUME NEW S, NEW s \in Seq(S), NEW t \in Seq(S), NEW n \in 0 .. Len(t)
  PROVE  /\ s \o SubSeq(t, 1, n) \in Seq(S) /\ Len(s \o SubSeq(t, 1, n)) = Len(s) + n
         /\ \A i \in 1 .. Len(s) : (s \o SubSeq(t, 1, n))[i] = s[i]
         /\ \A i \in 1 .. n : (s \o SubSeq(t, 1, n))[Len(s) + i] = t[i]
<1> DEFINE u == SubSeq(t, 1, n)
<1>1. u \in Seq(S) /\ Len(u) = n /\ \A i \in 1 .. n : u[i] = t[i]
  BY UpToProperties
<1> HIDE DEF u
<1>2. /\ s \o u \in Seq(S) /\ Len(s \o u) = Len(s) + Len(u)
      /\ \A i \in 1 .. Len(s) + Len(u) : (s \o u)[i] = IF i <= Len(s) THEN s[i] ELSE u[i - Len(s)]
  BY <1>1, ConcatProperties
<1>3. s \o u \in Seq(S) /\ Len(s \o u) = Len(s) + n /\ Len(s) \in Nat
  BY <1>1, <1>2
<1>4. \A i \in 1 .. Len(s) : (s \o u)[i] = s[i]
  BY <1>1, <1>2, <1>3
<1>5. \A i \in 1 .. n : (s \o u)[Len(s) + i] = t[i]
  <2> TAKE i \in 1 .. n
  <2>1. Len(s) + i \in 1 .. Len(s) + Len(u) /\ ~ (Len(s) + i <= Len(s)) /\ Len(s) + i - Len(s) = i
    BY <1>1, <1>3
  <2> QED BY <1>1, <1>2, <2>1
<1> QED BY <1>3, <1>4, <1>5 DEF u

-----------------------------------------------------------------------------
(* Types *)

LEMMA TypeInit == Init => TypeOK
<1> SUFFICES ASSUME Init
             PROVE  TypeOK
  OBVIOUS
<1>1. Base \in Nat \ {0, 1} /\ Capacity \in Nat \ {0} /\ Count \in Nat
  BY SizeAssumption, FramesAssumption
<1>2. 66 % Base \in Byte
  BY <1>1 DEF Byte
<1>3. <<66 % Base>> \in Seq(Byte) /\ Len(<<66 % Base>>) = 1
  BY <1>2
<1>4. InitialMsg \in Message
  BY Messages
<1>5. todo \in [Thread -> Nat]
  BY <1>1 DEF Init
<1>6. Len(wire) <= Capacity /\ wire \in Seq(Byte)
  BY <1>1, <1>3 DEF Init
<1>7. /\ place \in [Thread -> Place] /\ message \in [Thread -> Message]
      /\ left \in [Thread -> Seq(Byte)]
  BY <1>4 DEF Init, Place
<1>8. /\ registered \in BOOLEAN /\ error \in BOOLEAN /\ closed \in BOOLEAN /\ cut \in BOOLEAN
      /\ lock = NoThread /\ sendLock = NoThread
  BY DEF Init
<1>9. /\ reading \in {"answer", "header", "data", "stopped"}
      /\ got \in Seq(Byte) /\ header \in Seq(Byte) /\ sent \in Seq(Message)
  BY DEF Init
<1> QED BY <1>5, <1>6, <1>7, <1>8, <1>9 DEF TypeOK

\* A thread begins to send a message.
LEMMA TypeBegins ==
  ASSUME TypeOK, NEW t \in Thread, NEW m \in Message, BeginsToSend(t, m),
         lock' \in Thread \cup {NoThread}
  PROVE  TypeOK'
<1>1. Headers[m] \in Seq(Byte)
  BY EncodingAssumption
<1>2. /\ place' \in [Thread -> Place] /\ message' \in [Thread -> Message]
      /\ left' \in [Thread -> Seq(Byte)] /\ sendLock' \in Thread \cup {NoThread}
  BY <1>1 DEF TypeOK, BeginsToSend, Place
<1>3. todo' \in [Thread -> Nat]
  BY DEF TypeOK, BeginsToSend
<1>4. sent' \in Seq(Message)
  BY DEF TypeOK, BeginsToSend
<1> QED BY <1>2, <1>3, <1>4 DEF TypeOK, BeginsToSend, reader

\* Bytes go out.
LEMMA TypeSendSome ==
  ASSUME TypeOK, NEW t \in Thread, SendSome(t)
  PROVE  TypeOK'
<1>1. PICK k \in 1 .. Len(left[t]) :
        /\ Len(wire) + k <= Capacity
        /\ wire' = wire \o SubSeq(left[t], 1, k)
        /\ left' = [left EXCEPT ![t] = After(@, k)]
  BY DEF SendSome
<1>2. left[t] \in Seq(Byte) /\ wire \in Seq(Byte) /\ k \in 0 .. Len(left[t])
  BY DEF TypeOK
<1>3. After(left[t], k) \in Seq(Byte)
  BY <1>2, AfterProperties
<1>4. wire' \in Seq(Byte) /\ Len(wire') = Len(wire) + k
  BY <1>1, <1>2, MovedProperties
<1>5. left' \in [Thread -> Seq(Byte)]
  BY <1>1, <1>3 DEF TypeOK
<1> QED BY <1>1, <1>4, <1>5 DEF TypeOK, SendSome, reader

\* Bytes come in.
LEMMA TypeReceiveSome ==
  ASSUME TypeOK, ReceiveSome
  PROVE  TypeOK'
<1>1. PICK k \in 1 .. Len(wire) : got' = got \o SubSeq(wire, 1, k) /\ wire' = After(wire, k)
  BY DEF ReceiveSome
<1>2. got \in Seq(Byte) /\ wire \in Seq(Byte) /\ k \in 0 .. Len(wire) /\ Capacity \in Nat
  BY FramesAssumption DEF TypeOK
<1>3. wire' \in Seq(Byte) /\ Len(wire') = Len(wire) - k
  BY <1>1, <1>2, AfterProperties
<1>4. got' \in Seq(Byte)
  BY <1>1, <1>2, MovedProperties
<1>5. Len(wire) \in Nat
  BY <1>2
<1>6. Len(wire') <= Capacity
  BY <1>2, <1>3, <1>5 DEF TypeOK
<1> QED BY <1>3, <1>4, <1>6 DEF TypeOK, ReceiveSome, sender

\* The steps that move no byte.
LEMMA TypeOther ==
  ASSUME TypeOK, NEW t \in Thread,
         \/ AddOrDiscardClient \/ Close
         \/ HeaderIsSent(t) \/ SendData(t) \/ DataIsSent(t) \/ SendFails(t)
         \/ AnswerIsRead \/ HeaderIsRead \/ DataIsRead \/ ReceiveFails
         \/ UNCHANGED vars
  PROVE  TypeOK'
<1>1. CASE AddOrDiscardClient \/ Close
  BY <1>1 DEF AddOrDiscardClient, Close, TypeOK, reader
<1>2. CASE HeaderIsSent(t)
  BY <1>2 DEF HeaderIsSent, TypeOK, reader, Place
<1>3. CASE SendData(t)
  <2>1. Bytes[message[t]] \in Seq(Byte)
    BY EncodingAssumption DEF TypeOK
  <2> QED BY <1>3, <2>1 DEF SendData, TypeOK, reader, Place
<1>4. CASE DataIsSent(t) \/ SendFails(t)
  <2>1. lock' \in Thread \cup {NoThread} /\ place' \in [Thread -> Place]
    BY <1>4 DEF DataIsSent, SendFails, Returns, TypeOK, Place
  <2> QED BY <1>4, <2>1 DEF DataIsSent, SendFails, Returns, TypeOK, reader
<1>5. CASE AnswerIsRead \/ HeaderIsRead \/ DataIsRead \/ ReceiveFails
  <2>1. UNCHANGED sender /\ wire' = wire
    BY <1>5 DEF AnswerIsRead, HeaderIsRead, DataIsRead, ReceiveFails
  <2>2. /\ reading' \in {"answer", "header", "data", "stopped"}
        /\ got' \in Seq(Byte) /\ header' \in {header, got}
    <3>1. <<>> \in Seq(Byte)
      OBVIOUS
    <3> QED BY <1>5, <3>1 DEF AnswerIsRead, HeaderIsRead, DataIsRead, ReceiveFails
  <2> QED BY <2>1, <2>2 DEF TypeOK, sender
<1>6. CASE UNCHANGED vars
  BY <1>6 DEF vars, sender, reader, TypeOK
<1> QED BY <1>1, <1>2, <1>3, <1>4, <1>5, <1>6

LEMMA TypeStep == TypeOK /\ [Next]_vars => TypeOK'
<1> SUFFICES ASSUME TypeOK, [Next]_vars
             PROVE  TypeOK'
  OBVIOUS
<1>1. CASE HandshakeSend
  BY <1>1, TypeBegins, Messages, Sizes DEF HandshakeSend, TypeOK
<1>2. CASE SendMessages
  <2>1. PICK t \in Thread, m \in Message : SendMsg(t, m)
    BY <1>2, Messages DEF SendMessages, Thread
  <2> QED BY <2>1, TypeBegins DEF SendMsg
<1>3. ASSUME NEW t \in Thread, Sends(t) \/ SendFails(t)
      PROVE  TypeOK'
  BY <1>3, TypeSendSome, TypeOther DEF Sends
<1>4. CASE AddOrDiscardClient \/ Close \/ Reads \/ ReceiveFails \/ UNCHANGED vars
  BY <1>4, TypeReceiveSome, TypeOther, Sizes DEF Reads
<1> QED BY <1>1, <1>2, <1>3, <1>4 DEF Next

\* Types, of all reachable states.
THEOREM TypeCorrect == Spec => []TypeOK
<1>1. Init => TypeOK
  BY TypeInit
<1>2. TypeOK /\ [Next]_vars => TypeOK'
  BY TypeStep
<1> QED BY <1>1, <1>2, PTL DEF Spec

-----------------------------------------------------------------------------
(* Who sends, and when *)

LEMMA HandshakeInit == Init => Handshake
<1> SUFFICES ASSUME Init
             PROVE  Handshake
  OBVIOUS
<1>1. todo[Receiver] = 2 /\ sent = <<>> /\ ~cut /\ ~registered /\ ~error
  BY Sizes DEF Init
<1>2. \A t \in Thread : place[t] = "idle"
  BY DEF Init
<1>3. error = cut
  BY DEF Init
<1> QED BY <1>1, <1>2, <1>3 DEF Handshake

\* Only one thread is about a message.
LEMMA OneSends ==
  ASSUME Handshake, NEW t \in Thread, place[t] # "idle"
  PROVE  \A u \in Thread : place[u] # "idle" => u = t
BY DEF Handshake

\* Nobody is when a thread begins.
LEMMA NobodySends ==
  ASSUME Handshake,
         HandshakeSend \/ \E t \in Thread, m \in Message : SendMsg(t, m)
  PROVE  \A u \in Thread : place[u] = "idle"
<1>1. CASE HandshakeSend
  <2>1. ~registered /\ place[Receiver] = "idle"
    BY <1>1, Sizes DEF HandshakeSend, BeginsToSend, Handshake
  <2> QED BY <2>1 DEF Handshake
<1>2. CASE \E t \in Thread, m \in Message : SendMsg(t, m)
  <2>1. registered /\ lock = NoThread
    BY <1>2 DEF SendMsg
  <2> QED BY <2>1, Sizes DEF Handshake
<1> QED BY <1>1, <1>2

LEMMA HandshakeStep == TypeOK /\ Handshake /\ [Next]_vars => Handshake'
<1> SUFFICES ASSUME TypeOK, Handshake, [Next]_vars
             PROVE  Handshake'
  OBVIOUS
<1>1. /\ Len(sent) \in Nat /\ (sent # <<>> <=> Len(sent) >= 1)
      /\ \A m \in Message :
                /\ Append(sent, m) # <<>> /\ Len(Append(sent, m)) = Len(sent) + 1
                /\ sent # <<>> => Append(sent, m)[1] = sent[1]
                /\ sent = <<>> => Append(sent, m)[1] = m
  <2>1. sent \in Seq(Message)
    BY DEF TypeOK
  <2>2. Len(sent) \in Nat /\ (sent # <<>> <=> Len(sent) >= 1)
    BY <2>1, EmptySeq
  <2> QED BY <2>1, <2>2, AppendProperties
<1>2. CASE HandshakeSend
  <2>1. /\ todo[Receiver] = 2 /\ todo'[Receiver] = 1 /\ ~registered /\ ~registered'
        /\ place' = [place EXCEPT ![Receiver] = "header"]
        /\ sent' = Append(sent, InitialMsg) /\ ~cut /\ cut' = cut /\ error' = error
    BY <1>2, Sizes DEF HandshakeSend, BeginsToSend, Handshake, TypeOK
  <2>2. \A u \in Thread : place[u] = "idle"
    BY <1>2, NobodySends
  <2>3. \A u \in Thread : place'[u] # "idle" => u = Receiver
    BY <2>1, <2>2 DEF TypeOK
  <2>4. sent' # <<>> /\ sent'[1] = InitialMsg
    BY <1>1, <2>1, Messages DEF Handshake
  <2> QED BY <2>1, <2>3, <2>4 DEF Handshake
<1>3. CASE SendMessages
  <2>1. PICK t \in Thread, m \in Message : SendMsg(t, m)
    BY <1>3, Messages DEF SendMessages, Thread
  <2>2. /\ registered /\ registered' = registered /\ lock' = t
        /\ place' = [place EXCEPT ![t] = "header"]
        /\ todo' = [todo EXCEPT ![t] = @ - 1] /\ todo[t] > 0
        /\ sent' = IF cut THEN sent ELSE Append(sent, m)
        /\ error' = error /\ cut' = cut
    BY <2>1 DEF SendMsg, BeginsToSend
  <2>3. \A u \in Thread : place[u] = "idle"
    BY <2>1, NobodySends
  <2>4. \A u \in Thread : place'[u] # "idle" => u = t
    BY <2>2, <2>3 DEF TypeOK
  <2>5. todo[Receiver] \in 0 .. 1 /\ todo'[Receiver] \in 0 .. 1 /\ sent # <<>>
    BY <2>2, Sizes DEF Handshake, TypeOK
  <2>6. sent' # <<>> /\ sent'[1] = InitialMsg
    BY <1>1, <2>2, <2>5 DEF Handshake
  <2>7. Whole' >= 1 /\ (~cut' => Len(sent') >= 2)
    BY <1>1, <2>2, <2>5 DEF Handshake, Whole
  <2> QED BY <2>2, <2>4, <2>5, <2>6, <2>7 DEF Handshake
<1>4. ASSUME NEW t \in Thread, SendSome(t) \/ HeaderIsSent(t) \/ SendData(t)
      PROVE  Handshake'
  <2>1. UNCHANGED <<todo, sent, registered, error, cut, lock>>
    BY <1>4 DEF SendSome, HeaderIsSent, SendData
  <2>2. \A u \in Thread : place'[u] # "idle" => place[u] # "idle"
    BY <1>4 DEF SendSome, HeaderIsSent, SendData, TypeOK
  <2> QED BY <2>1, <2>2 DEF Handshake, Whole
<1>5. ASSUME NEW t \in Thread, DataIsSent(t) \/ SendFails(t)
      PROVE  Handshake'
  <2>1. /\ UNCHANGED <<todo, sent, registered>>
        /\ place' = [place EXCEPT ![t] = "idle"] /\ place[t] # "idle"
    BY <1>5 DEF DataIsSent, SendFails, Returns
  <2>2. \A u \in Thread : place'[u] = "idle"
    BY <2>1, OneSends DEF TypeOK
  <2>3. error' = cut'
    BY <1>5 DEF DataIsSent, SendFails, Returns, Handshake
  <2>4. sent # <<>> /\ (registered => Whole >= 1 /\ Whole' >= 1)
    <3>1. sent # <<>>
      BY <2>1 DEF Handshake, Whole
    <3>2. registered => Len(sent) >= 2 \/ cut
      BY <2>1 DEF Handshake
    <3> QED BY <1>1, <2>1, <3>1, <3>2 DEF Handshake, Whole, TypeOK
  <2> QED BY <2>1, <2>2, <2>3, <2>4 DEF Handshake
<1>6. CASE AddOrDiscardClient
  <2>1. ~cut /\ ~cut' /\ sent # <<>> /\ \A u \in Thread : place[u] = "idle"
    BY <1>6, Sizes DEF AddOrDiscardClient, Handshake
  <2> QED BY <1>1, <1>6, <2>1 DEF AddOrDiscardClient, Handshake, Whole
<1>7. CASE Close \/ Reads \/ ReceiveFails \/ UNCHANGED vars
  <2>1. UNCHANGED <<todo, sent, registered, error, cut, lock, place>>
    BY <1>7 DEF Close, Reads, ReceiveSome, AnswerIsRead, HeaderIsRead, DataIsRead,
                ReceiveFails, vars, sender
  <2> QED BY <2>1 DEF Handshake, Whole
<1> QED BY <1>2, <1>3, <1>4, <1>5, <1>6, <1>7 DEF Next, Sends

-----------------------------------------------------------------------------
(* The bytes *)

LEMMA LaidInit == Init => RightlyReceived /\ \E pos, ideal, edge, base : Laid(pos, ideal, edge, base)
<1> SUFFICES ASSUME Init
             PROVE  RightlyReceived /\ \E pos, ideal, edge, base : Laid(pos, ideal, edge, base)
  OBVIOUS
<1> DEFINE pos == [n \in Nat |-> 1]
           ideal == [n \in Nat |-> 66 % Base]
<1>1. /\ sent = <<>> /\ Len(sent) = 0 /\ received = <<>> /\ Len(received) = 0
      /\ got = <<>> /\ Len(got) = 0 /\ wire = <<66 % Base>> /\ Len(wire) = 1 /\ wire[1] = 66 % Base
      /\ reading = "answer" /\ ~cut /\ \A t \in Thread : place[t] = "idle"
  BY DEF Init
<1>2. Layout(pos, ideal)
  BY <1>1 DEF Layout
<1>3. Edge(pos, 1) /\ Writing(pos, ideal, 1)
  BY <1>1 DEF Edge, Writing
<1>4. UnderWay(ideal, 1, 0)
  BY <1>1 DEF UnderWay
<1>5. Reading(pos, 1, 0)
  BY <1>1 DEF Reading, Whole
<1>6. Laid(pos, ideal, 1, 0)
  BY <1>2, <1>3, <1>4, <1>5 DEF Laid
<1>7. RightlyReceived
  <2>1. received \in Seq(Message)
    BY <1>1
  <2> QED BY <1>1, <2>1 DEF RightlyReceived
<1> QED BY <1>6, <1>7

\* Numbers that the steps below need.
LEMMA Lengths ==
  ASSUME TypeOK, Handshake, RightlyReceived, NEW pos, NEW ideal, NEW edge, NEW base,
         Laid(pos, ideal, edge, base)
  PROVE  /\ Len(sent) \in Nat /\ Len(received) \in Nat /\ Len(got) \in Nat /\ Len(wire) \in Nat
         /\ edge \in Nat /\ base \in Nat /\ \A n \in Nat : pos[n] \in Nat
         /\ cut => Len(sent) >= 1
         /\ \A t \in Thread : Len(left[t]) \in Nat
<1>1. /\ sent \in Seq(Message) /\ got \in Seq(Byte) /\ wire \in Seq(Byte)
      /\ \A t \in Thread : left[t] \in Seq(Byte)
  BY DEF TypeOK
<1>2. Len(received) \in Nat
  BY DEF RightlyReceived
<1>3. edge \in Nat /\ base \in Nat /\ pos \in [Nat -> Nat]
  BY DEF Laid, Layout, Edge, Reading
<1>4. cut => Len(sent) >= 1
  <2>1. cut => sent # <<>>
    BY DEF Handshake
  <2> QED BY <1>1, <2>1, EmptySeq
<1>5. /\ Len(sent) \in Nat /\ Len(got) \in Nat /\ Len(wire) \in Nat
  BY <1>1
<1>6. \A t \in Thread : Len(left[t]) \in Nat
  BY <1>1
<1>7. \A n \in Nat : pos[n] \in Nat
  BY <1>3
<1> QED BY <1>2, <1>3, <1>4, <1>5, <1>6, <1>7

\* A message that has not been sent as a whole has not been received.
LEMMA NotYetReceived ==
  ASSUME TypeOK, Handshake, RightlyReceived, NEW pos, NEW ideal, NEW edge, NEW base,
         Laid(pos, ideal, edge, base), ~cut, edge < pos[Len(sent)]
  PROVE  Len(received) < Len(sent)
<1>1. Len(received) <= Len(sent) /\ (Len(received) = Len(sent) => edge = pos[Len(sent)])
  BY DEF Laid, Reading, Exact, Whole
<1> QED BY <1>1, Lengths

\* What the messages that were received were does not change as long as those that are
\* before a cut stay.
LEMMA ReceivedStays ==
  ASSUME TypeOK, RightlyReceived, received' = received, Whole' \in Nat,
         \A i \in 1 .. Len(received) : i <= Whole' => i <= Whole /\ sent'[i] = sent[i]
  PROVE  RightlyReceived'
BY DEF RightlyReceived

\* A thread begins to send a message behind all that were sent: it lies there.
LEMMA LaidBegins ==
  ASSUME TypeOK, Handshake, RightlyReceived, NEW pos, NEW ideal, NEW edge, NEW base,
         Laid(pos, ideal, edge, base),
         NEW t \in Thread, NEW m \in Message, BeginsToSend(t, m),
         \A u \in Thread : place[u] = "idle"
  PROVE  RightlyReceived' /\ \E p, d : Laid(p, d, edge, base)'
<1>1. PICK N \in Nat : N = Len(sent)
  BY Lengths
<1>2. N \in Nat /\ edge \in Nat /\ base \in Nat /\ pos \in [Nat -> Nat]
  <2>1. pos \in [Nat -> Nat]
    BY DEF Laid, Layout
  <2> QED BY <2>1, Lengths
<1>3. Len(received) \in Nat /\ Len(got) \in Nat /\ Len(wire) \in Nat
  BY Lengths
<1>4. cut => N >= 1
  BY <1>1, Lengths
<1>5. /\ place' = [place EXCEPT ![t] = "header"] /\ message' = [message EXCEPT ![t] = m]
      /\ left' = [left EXCEPT ![t] = Headers[m]]
      /\ UNCHANGED <<registered, wire, reading, got, header, received, cut>>
  BY DEF BeginsToSend, reader
<1>6. CASE cut
  <2>1. sent' = sent /\ cut' /\ Whole' = Whole /\ Exact' = Exact /\ Whole \in Nat
    BY <1>2, <1>5, <1>1, <1>6, <1>4 DEF BeginsToSend, Whole, Exact
  <2>2. Layout(pos, ideal)' /\ Edge(pos, edge)'
    BY <1>5, <1>6, <2>1 DEF Laid, Layout, Edge
  <2>3. (reading # "stopped" => UnderWay(ideal, edge, base))'
    BY <1>5, <2>1 DEF Laid, UnderWay
  <2>4. Reading(pos, edge, base)'
    BY <1>5, <1>6, <2>1 DEF Laid, Reading
  <2>5. Laid(pos, ideal, edge, base)'
    BY <2>1, <2>2, <2>3, <2>4 DEF Laid
  <2>6. RightlyReceived'
    BY <1>5, <2>1, ReceivedStays
  <2> QED BY <2>5, <2>6
<1>7. CASE ~cut
  <2>1. PICK size \in Nat : size = Len(Bytes[m])
    <3>1. Bytes[m] \in Seq(Byte)
      BY EncodingAssumption
    <3> QED BY <3>1
  <2> DEFINE p == [pos EXCEPT ![N + 1] = pos[N] + HeaderSize + size]
             d == [j \in Nat |-> IF j <= pos[N] THEN ideal[j]
                                 ELSE IF j <= pos[N] + HeaderSize THEN Headers[m][j - pos[N]]
                                 ELSE Bytes[m][j - (pos[N] + HeaderSize)]]
  <2>2. /\ sent' = Append(sent, m) /\ Len(sent') = N + 1 /\ sent'[N + 1] = m
        /\ \A i \in 1 .. N : sent'[i] = sent[i]
        /\ ~cut' /\ Exact /\ Exact' /\ Whole = N /\ Whole' = N + 1
    <3>1. sent' = Append(sent, m) /\ sent \in Seq(Message) /\ N = Len(sent)
      BY <1>1, <1>7 DEF BeginsToSend, TypeOK
    <3>2. /\ Len(sent') = N + 1 /\ sent'[N + 1] = m
          /\ \A i \in 1 .. N : sent'[i] = sent[i]
      BY <3>1
    <3> QED BY <1>5, <1>7, <3>1, <3>2 DEF Whole, Exact
  <2>3. HeaderSize \in Nat /\ HeaderSize > 0
    BY Sizes
  <2>4. Len(Headers[m]) = HeaderSize
    BY EncodingAssumption
  <2>5. edge = pos[N] /\ pos[N] \in Nat /\ \A k \in 0 .. N : pos[k] <= pos[N]
    <3>1. edge = pos[N] /\ \A k \in 0 .. N - 1 : pos[k] <= edge
      BY <1>1, <1>7 DEF Laid, Edge, Writing
    <3>2. pos[N] \in Nat
      BY <1>2
    <3> QED BY <1>2, <3>1, <3>2
  <2>6. /\ p \in [Nat -> Nat] /\ p[N + 1] = pos[N] + HeaderSize + size
        /\ \A k \in 0 .. N : p[k] = pos[k]
    <3>1. pos[N] + HeaderSize + size \in Nat /\ N + 1 \in Nat
      BY <1>2, <2>3, <2>5
    <3>2. \A k \in 0 .. N : k \in Nat /\ k # N + 1
      BY <1>2
    <3> QED BY <1>2, <3>1, <3>2
  <2>7. /\ \A j \in 0 .. pos[N] : d[j] = ideal[j]
        /\ \A i \in 1 .. HeaderSize : d[pos[N] + i] = Headers[m][i]
        /\ \A i \in 1 .. size : d[pos[N] + HeaderSize + i] = Bytes[m][i]
    <3>1. \A j \in Nat : d[j] = IF j <= pos[N] THEN ideal[j]
                               ELSE IF j <= pos[N] + HeaderSize THEN Headers[m][j - pos[N]]
                               ELSE Bytes[m][j - (pos[N] + HeaderSize)]
      OBVIOUS
    <3> HIDE DEF p, d
    <3>2. \A j \in 0 .. pos[N] : d[j] = ideal[j]
      BY <2>5, <3>1
    <3>3. ASSUME NEW i \in 1 .. HeaderSize
          PROVE  d[pos[N] + i] = Headers[m][i]
      <4>1. PICK j \in Nat : j = pos[N] + i
        BY <2>5
      <4>2. ~ (j <= pos[N]) /\ j <= pos[N] + HeaderSize /\ j - pos[N] = i
        BY <2>3, <2>5, <4>1
      <4>3. d[j] = Headers[m][i]
        BY <3>1, <4>2
      <4> QED BY <4>1, <4>3
    <3>4. ASSUME NEW i \in 1 .. size
          PROVE  d[pos[N] + HeaderSize + i] = Bytes[m][i]
      <4>1. PICK j \in Nat : j = pos[N] + HeaderSize + i
        BY <2>3, <2>5
      <4>2. /\ ~ (j <= pos[N]) /\ ~ (j <= pos[N] + HeaderSize)
            /\ j - (pos[N] + HeaderSize) = i
        BY <2>3, <2>5, <4>1
      <4>3. d[j] = Bytes[m][i]
        BY <3>1, <4>2
      <4> QED BY <4>1, <4>3
    <3> QED BY <3>2, <3>3, <3>4
  <2> HIDE DEF p, d
  <2>8. Layout(p, d)'
    <3>1. p[0] = 1
      BY <1>2, <2>6 DEF Laid, Layout
    <3>2. ASSUME NEW k \in 1 .. N + 1
          PROVE  /\ p[k] = p[k - 1] + HeaderSize + Len(Bytes[sent'[k]])
                 /\ \A i \in 1 .. HeaderSize : d[p[k - 1] + i] = Headers[sent'[k]][i]
                 /\ \A i \in 1 .. Len(Bytes[sent'[k]]) :
                      d[p[k - 1] + HeaderSize + i] = Bytes[sent'[k]][i]
      <4>1. CASE k = N + 1
        <5>1. k - 1 = N /\ sent'[k] = m /\ p[k - 1] = pos[N]
          BY <1>2, <2>2, <2>6, <4>1
        <5> QED BY <2>6, <2>7, <2>1, <4>1, <5>1
      <4>2. CASE k # N + 1
        <5>1. k \in 1 .. N /\ k - 1 \in 0 .. N /\ k \in 0 .. N /\ k \in Nat /\ k - 1 \in Nat
          BY <1>2, <4>2
        <5>2. sent'[k] = sent[k] /\ p[k] = pos[k] /\ p[k - 1] = pos[k - 1] /\ pos[k] <= pos[N]
          BY <2>2, <2>5, <2>6, <5>1
        <5>3. /\ pos[k] = pos[k - 1] + HeaderSize + Len(Bytes[sent[k]])
              /\ \A i \in 1 .. HeaderSize : ideal[pos[k - 1] + i] = Headers[sent[k]][i]
              /\ \A i \in 1 .. Len(Bytes[sent[k]]) :
                   ideal[pos[k - 1] + HeaderSize + i] = Bytes[sent[k]][i]
          BY <1>1, <5>1 DEF Laid, Layout
        <5>4. PICK len \in Nat : len = Len(Bytes[sent[k]])
          <6>1. sent[k] \in Message
            BY <1>1, <5>1 DEF TypeOK
          <6>2. Bytes[sent[k]] \in Seq(Byte)
            BY <6>1, EncodingAssumption
          <6> QED BY <6>2
        <5>5. /\ pos[k - 1] \in Nat /\ pos[N] \in Nat
              /\ pos[k - 1] + HeaderSize + len <= pos[N]
          <6>1. pos[k - 1] \in Nat /\ pos[N] \in Nat
            BY <1>2, <5>1
          <6> QED BY <5>2, <5>3, <5>4, <6>1
        <5>6. ASSUME NEW i \in 1 .. HeaderSize
              PROVE  d[pos[k - 1] + i] = ideal[pos[k - 1] + i]
          <6>1. len \in Nat
            BY <5>4
          <6>2. pos[k - 1] + i \in 0 .. pos[N]
            BY <2>3, <5>5, <6>1
          <6> QED BY <2>7, <6>2
        <5>7. ASSUME NEW i \in 1 .. Len(Bytes[sent[k]])
              PROVE  d[pos[k - 1] + HeaderSize + i] = ideal[pos[k - 1] + HeaderSize + i]
          <6>1. len \in Nat /\ i \in 1 .. len
            BY <5>4
          <6>2. pos[k - 1] + HeaderSize + i \in 0 .. pos[N]
            BY <2>3, <5>5, <6>1
          <6> QED BY <2>7, <6>2
        <5> QED BY <5>2, <5>3, <5>6, <5>7
      <4> QED BY <4>1, <4>2
    <3> QED BY <2>2, <2>6, <3>1, <3>2 DEF Layout
  <2>9. Edge(p, edge)'
    <3>1. edge <= p[N + 1]
      BY <1>2, <2>3, <2>5, <2>6
    <3>2. \A k \in 0 .. N + 1 - 1 : p[k] <= edge
      BY <1>2, <2>5, <2>6
    <3> QED BY <1>2, <2>2, <3>1, <3>2 DEF Edge
  <2>10. Writing(p, d, edge)'
    <3>1. \A u \in Thread : place'[u] # "idle" => u = t
      BY <1>5 DEF TypeOK
    <3>2. /\ place'[t] = "header" /\ message'[t] = m /\ left'[t] = Headers[m]
      BY <1>5 DEF TypeOK
    <3>3. sent' # <<>> /\ sent'[Len(sent')] = m
      <4>1. Len(sent') # 0
        BY <1>2, <2>2
      <4> QED BY <2>2, <4>1
    <3>4. Upcoming(d, edge, p[Len(sent) - 1] + HeaderSize, t)'
      <4>1. Len(sent') - 1 = N /\ p[N] = pos[N]
        <5>1. Len(sent') = N + 1 /\ N \in 0 .. N
          BY <1>2, <2>2
        <5>2. N + 1 - 1 = N
          BY <1>2
        <5> QED BY <2>6, <5>1, <5>2
      <4>2. Len(left'[t]) = HeaderSize
        BY <2>4, <3>2
      <4>3. edge + Len(left'[t]) = p[Len(sent') - 1] + HeaderSize
        BY <2>5, <4>1, <4>2
      <4>4. \A i \in 1 .. HeaderSize : left'[t][i] = d[edge + i]
        BY <2>5, <2>7, <3>2
      <4> QED BY <4>2, <4>3, <4>4 DEF Upcoming
    <3>5. place'[t] # "idle" /\ place'[t] # "between" /\ place'[t] # "data"
      BY <3>2
    <3> QED BY <3>1, <3>2, <3>3, <3>4, <3>5 DEF Writing
  <2>11. (reading # "stopped" => UnderWay(d, edge, base))'
    <3> SUFFICES ASSUME reading # "stopped"
                 PROVE  UnderWay(d, edge, base)'
      BY <1>5
    <3>1. UnderWay(ideal, edge, base)
      BY DEF Laid
    <3>2. ASSUME NEW i \in 1 .. Len(got), base + i <= edge
          PROVE  d[base + i] = ideal[base + i]
      <4>1. base + i \in 0 .. pos[N]
        BY <1>2, <1>3, <2>5, <3>2
      <4> QED BY <2>7, <4>1
    <3>3. ASSUME NEW i \in 1 .. Len(wire), base + Len(got) + i <= edge
          PROVE  d[base + Len(got) + i] = ideal[base + Len(got) + i]
      <4>1. base + Len(got) + i \in 0 .. pos[N]
        BY <1>2, <1>3, <2>5, <3>3
      <4> QED BY <2>7, <4>1
    <3> QED BY <1>5, <2>2, <3>1, <3>2, <3>3 DEF UnderWay
  <2>12. Reading(p, edge, base)'
    <3>1. /\ Len(received) <= N /\ (reading = "data" => Len(received) < N)
          /\ base \in Nat /\ (reading = "answer" => base = 0 /\ received = <<>>)
      BY <1>1, <2>2 DEF Laid, Reading
    <3>2. /\ reading = "header" => base = pos[Len(received)]
          /\ reading = "data" =>
               /\ base = pos[Len(received)] + HeaderSize
               /\ base <= edge => header = Headers[sent[Len(received) + 1]]
      BY <1>1, <2>2, <3>1 DEF Laid, Reading
    <3>3. p[Len(received)] = pos[Len(received)] /\ Len(received) # N + 1
      BY <1>2, <1>3, <2>6, <3>1
    <3>4. reading = "data" => sent'[Len(received) + 1] = sent[Len(received) + 1]
      BY <1>2, <1>3, <2>2, <3>1
    <3>5. Len(received) <= N + 1 /\ Len(received) < N + 1
      BY <1>3, <3>1
    <3> QED BY <1>5, <2>2, <3>1, <3>2, <3>3, <3>4, <3>5 DEF Reading
  <2>13. Laid(p, d, edge, base)'
    BY <2>2, <2>8, <2>9, <2>10, <2>11, <2>12 DEF Laid
  <2>14. RightlyReceived'
    <3>1. Len(received) <= N
      BY <1>1, <2>2 DEF Laid, Reading
    <3> QED BY <1>2, <1>5, <1>3, <2>2, <3>1, ReceivedStays
  <2> QED BY <2>13, <2>14
<1> QED BY <1>6, <1>7

\* Where the messages lie does not change when none is begun or cut short.
LEMMA LayoutStays ==
  ASSUME NEW pos, NEW ideal, NEW edge, UNCHANGED <<sent, cut>>
  PROVE  /\ Whole' = Whole
         /\ Layout(pos, ideal) => Layout(pos, ideal)'
         /\ Edge(pos, edge) => Edge(pos, edge)'
BY DEF Layout, Edge, Whole

\* Some bytes go out: the edge moves with them.
LEMMA LaidSendSome ==
  ASSUME TypeOK, Handshake, RightlyReceived, NEW pos, NEW ideal, NEW edge, NEW base,
         Laid(pos, ideal, edge, base), NEW t \in Thread, SendSome(t)
  PROVE  RightlyReceived' /\ \E e : Laid(pos, ideal, e, base)'
<1>1. PICK k \in 1 .. Len(left[t]) :
        wire' = wire \o SubSeq(left[t], 1, k) /\ left' = [left EXCEPT ![t] = After(@, k)]
  BY DEF SendSome
<1>2. /\ place[t] \in {"header", "data"}
      /\ UNCHANGED <<place, message, registered, reading, got, header, received, sent, cut>>
  BY DEF SendSome, reader
<1>3. /\ Len(sent) \in Nat /\ Len(received) \in Nat /\ Len(got) \in Nat /\ Len(wire) \in Nat
      /\ edge \in Nat /\ base \in Nat /\ Len(left[t]) \in Nat
  BY Lengths
<1>4. \A n \in Nat : pos[n] \in Nat
  BY Lengths
<1>5. left[t] \in Seq(Byte) /\ wire \in Seq(Byte) /\ k \in 0 .. Len(left[t]) /\ k \in Nat
  BY <1>3 DEF TypeOK
<1>6. /\ Len(wire') = Len(wire) + k
      /\ \A i \in 1 .. Len(wire) : wire'[i] = wire[i]
      /\ \A i \in 1 .. k : wire'[Len(wire) + i] = left[t][i]
  BY <1>1, <1>5, MovedProperties
<1>7. /\ left'[t] = After(left[t], k) /\ Len(left'[t]) = Len(left[t]) - k
      /\ \A i \in 1 .. Len(left[t]) - k : left'[t][i] = left[t][k + i]
  BY <1>1, <1>5, AfterProperties DEF TypeOK
<1>8. /\ Whole' = Whole /\ Layout(pos, ideal)'
  BY <1>2, LayoutStays DEF Laid
<1>9. RightlyReceived'
  BY <1>2, <1>8 DEF RightlyReceived
<1>10. CASE cut
  <2>1. ~Exact /\ ~Exact'
    <3>1. registered
      BY <1>2, <1>10 DEF Handshake
    <3> QED BY <1>2, <1>10, <3>1 DEF Exact
  <2>2. Edge(pos, edge)'
    BY <1>2, LayoutStays DEF Laid
  <2>3. (reading # "stopped" => UnderWay(ideal, edge, base))'
    <3> SUFFICES ASSUME reading # "stopped"
                 PROVE  UnderWay(ideal, edge, base)'
      BY <1>2
    <3>1. UnderWay(ideal, edge, base)
      BY DEF Laid
    <3>2. edge <= base + Len(got) + Len(wire')
      BY <1>3, <1>5, <1>6, <3>1 DEF UnderWay
    <3>3. ASSUME NEW i \in 1 .. Len(wire'), base + Len(got) + i <= edge
          PROVE  wire'[i] = ideal[base + Len(got) + i]
      <4>1. i \in 1 .. Len(wire)
        BY <1>3, <1>5, <1>6, <3>1, <3>3 DEF UnderWay
      <4> QED BY <1>6, <3>1, <3>3, <4>1 DEF UnderWay
    <3> QED BY <1>2, <2>1, <3>1, <3>2, <3>3 DEF UnderWay
  <2>4. Reading(pos, edge, base)'
    BY <1>2, <1>8, <1>10, <2>1 DEF Laid, Reading
  <2>5. Laid(pos, ideal, edge, base)'
    BY <1>2, <1>8, <1>10, <2>2, <2>3, <2>4 DEF Laid
  <2> QED BY <1>9, <2>5
<1>11. CASE ~cut
  <2>1. PICK e \in Nat : e = edge + k
    BY <1>3, <1>5
  <2>2. Exact /\ Exact' /\ ~cut'
    BY <1>2, <1>11 DEF Exact
  <2>3. PICK end : /\ Upcoming(ideal, edge, end, t)
                   /\ end = IF place[t] = "header" THEN pos[Len(sent) - 1] + HeaderSize
                            ELSE pos[Len(sent)]
    BY <1>2, <1>11 DEF Laid, Writing
  <2>4. /\ edge + Len(left[t]) = end
        /\ \A i \in 1 .. Len(left[t]) : left[t][i] = ideal[edge + i]
    BY <2>3 DEF Upcoming
  <2>5. end <= pos[Len(sent)]
    <3>1. CASE place[t] = "header"
      <4>1. sent # <<>> /\ sent \in Seq(Message)
        BY <1>2, <1>11 DEF Laid, Writing, TypeOK
      <4>2. Len(sent) \in 1 .. Len(sent) /\ sent[Len(sent)] \in Message
        BY <4>1, EmptySeq, ElementOfSeq
      <4>3. pos[Len(sent)] = pos[Len(sent) - 1] + HeaderSize + Len(Bytes[sent[Len(sent)]])
        BY <4>2 DEF Laid, Layout
      <4>4. Len(Bytes[sent[Len(sent)]]) \in Nat
        BY <4>2, EncodingAssumption
      <4>5. pos[Len(sent) - 1] \in Nat /\ HeaderSize \in Nat
        BY <1>3, <1>4, <4>2, Sizes
      <4> QED BY <2>3, <3>1, <4>3, <4>4, <4>5
    <3>2. CASE place[t] # "header"
      BY <1>3, <1>4, <2>3, <3>2
    <3> QED BY <3>1, <3>2
  <2>6. e <= pos[Len(sent)]
    BY <2>1, <1>3, <1>4, <1>5, <2>4, <2>5
  <2>7. e + Len(left'[t]) = end /\ \A i \in 1 .. Len(left'[t]) : left'[t][i] = ideal[e + i]
    <3>1. e + Len(left'[t]) = end
      <4>1. PICK l \in Nat : l = Len(left[t])
        BY <1>3
      <4>2. PICK l2 : l2 = Len(left'[t])
        OBVIOUS
      <4>3. l2 = l - k /\ edge + l = end /\ k \in Nat /\ edge \in Nat
        BY <1>3, <1>5, <1>7, <2>4, <4>1, <4>2
      <4>4. e + l2 = end
        BY <2>1, <4>3
      <4> QED BY <4>2, <4>4
    <3>2. ASSUME NEW i \in 1 .. Len(left'[t])
          PROVE  left'[t][i] = ideal[e + i]
      <4>1. k + i \in 1 .. Len(left[t]) /\ i \in 1 .. Len(left[t]) - k /\ edge + (k + i) = e + i
        BY <2>1, <1>3, <1>5, <1>7
      <4> QED BY <1>7, <2>4, <4>1
    <3> QED BY <3>1, <3>2
  <2>8. Edge(pos, e)'
    <3>1. \A j \in 0 .. Len(sent) - 1 : pos[j] <= edge
      BY DEF Laid, Edge
    <3>2. \A j \in 0 .. Len(sent) - 1 : pos[j] <= e
      BY <2>1, <1>3, <1>4, <1>5, <3>1
    <3> QED BY <1>2, <2>2, <2>6, <3>2 DEF Edge
  <2>9. Writing(pos, ideal, e)'
    <3>1. \A u \in Thread : place[u] # "idle" => u = t
      BY <1>2, OneSends
    <3>2. sent # <<>> /\ message[t] = sent[Len(sent)] /\ place[t] # "idle"
      BY <1>2, <1>11 DEF Laid, Writing
    <3>3. Upcoming(ideal, e, end, t)'
      BY <2>7 DEF Upcoming
    <3> QED BY <1>2, <2>3, <3>1, <3>2, <3>3 DEF Writing
  <2>10. (reading # "stopped" => UnderWay(ideal, e, base))'
    <3> SUFFICES ASSUME reading # "stopped"
                 PROVE  UnderWay(ideal, e, base)'
      BY <1>2
    <3>1. UnderWay(ideal, edge, base)
      BY DEF Laid
    <3>2. edge = base + Len(got) + Len(wire)
      BY <2>2, <3>1 DEF UnderWay
    <3>3. e = base + Len(got) + Len(wire')
      BY <2>1, <1>3, <1>5, <1>6, <3>2
    <3>4. ASSUME NEW i \in 1 .. Len(got)
          PROVE  got[i] = ideal[base + i]
      <4>1. base + i <= edge
        BY <1>3, <3>2
      <4> QED BY <3>1, <4>1 DEF UnderWay
    <3>5. ASSUME NEW i \in 1 .. Len(wire')
          PROVE  wire'[i] = ideal[base + Len(got) + i]
      <4>1. CASE i <= Len(wire)
        <5>1. i \in 1 .. Len(wire) /\ base + Len(got) + i <= edge
          BY <1>3, <3>2, <4>1
        <5> QED BY <1>6, <3>1, <5>1 DEF UnderWay
      <4>2. CASE ~ (i <= Len(wire))
        <5>1. /\ i - Len(wire) \in 1 .. k /\ i - Len(wire) \in 1 .. Len(left[t])
              /\ Len(wire) + (i - Len(wire)) = i
              /\ edge + (i - Len(wire)) = base + Len(got) + i
          BY <1>3, <1>5, <1>6, <3>2, <4>2
        <5> QED BY <1>6, <2>4, <5>1
      <4> QED BY <4>1, <4>2
    <3>6. e <= base + Len(got) + Len(wire')
      BY <2>6, <3>3
    <3> QED BY <1>2, <3>3, <3>4, <3>5, <3>6 DEF UnderWay
  <2>11. Reading(pos, e, base)'
    <3>1. edge < pos[Len(sent)]
      BY <1>3, <1>4, <1>5, <2>4, <2>5
    <3>2. Len(received) < Len(sent)
      BY <1>11, <3>1, NotYetReceived
    <3>3. ASSUME reading = "data"
          PROVE  base <= edge
      BY <1>3, <2>2, <3>3 DEF Laid, UnderWay
    <3> QED BY <1>2, <1>3, <1>8, <2>2, <3>2, <3>3 DEF Laid, Reading
  <2>12. Laid(pos, ideal, e, base)'
    BY <1>8, <2>8, <2>9, <2>10, <2>11 DEF Laid
  <2> QED BY <1>9, <2>12
<1> QED BY <1>10, <1>11

\* As long as no byte moves and nothing is begun or cut short, only the writers may
\* have gone on.
LEMMA LaidStays ==
  ASSUME RightlyReceived, NEW pos, NEW ideal, NEW edge, NEW base,
         Laid(pos, ideal, edge, base),
         UNCHANGED <<sent, cut, wire, reading, got, header, received>>,
         ~cut => Writing(pos, ideal, edge)', Exact' => Exact
  PROVE  RightlyReceived' /\ Laid(pos, ideal, edge, base)'
<1>1. Whole' = Whole /\ Layout(pos, ideal)' /\ Edge(pos, edge)'
  BY LayoutStays DEF Laid
<1>2. (reading # "stopped" => UnderWay(ideal, edge, base))'
  BY DEF Laid, UnderWay
<1>3. Reading(pos, edge, base)'
  BY <1>1 DEF Laid, Reading
<1>4. RightlyReceived'
  BY <1>1 DEF RightlyReceived
<1> QED BY <1>1, <1>2, <1>3, <1>4 DEF Laid

\* The writer has sent one of its parts, or goes on to the second one.
LEMMA LaidGoesOn ==
  ASSUME TypeOK, Handshake, RightlyReceived, NEW pos, NEW ideal, NEW edge, NEW base,
         Laid(pos, ideal, edge, base),
         NEW t \in Thread, HeaderIsSent(t) \/ SendData(t) \/ DataIsSent(t)
  PROVE  RightlyReceived' /\ Laid(pos, ideal, edge, base)'
<1>1. /\ UNCHANGED <<sent, cut, registered, wire, reading, got, header, received, message>>
      /\ place[t] # "idle"
  BY DEF HeaderIsSent, SendData, DataIsSent, reader
<1>2. /\ Len(sent) \in Nat /\ edge \in Nat /\ Len(left[t]) \in Nat
      /\ \A n \in Nat : pos[n] \in Nat
  BY Lengths
<1>3. \A u \in Thread : place[u] # "idle" => u = t
  BY <1>1, OneSends
<1>4. ASSUME ~cut
      PROVE  Writing(pos, ideal, edge)'
  <2>1. /\ sent # <<>> /\ message[t] = sent[Len(sent)]
        /\ place[t] = "header" =>
             Upcoming(ideal, edge, pos[Len(sent) - 1] + HeaderSize, t)
        /\ place[t] = "between" => edge = pos[Len(sent) - 1] + HeaderSize
        /\ place[t] = "data" => Upcoming(ideal, edge, pos[Len(sent)], t)
    BY <1>1, <1>4 DEF Laid, Writing
  <2>2. Len(sent) \in 1 .. Len(sent) /\ sent[Len(sent)] \in Message
    <3>1. sent \in Seq(Message)
      BY DEF TypeOK
    <3> QED BY <2>1, <3>1, EmptySeq, ElementOfSeq
  <2>3. pos[Len(sent) - 1] \in Nat /\ pos[Len(sent)] \in Nat /\ HeaderSize \in Nat
    BY <1>2, <2>2, Sizes
  <2>4. CASE HeaderIsSent(t)
    <3>1. place[t] = "header" /\ place' = [place EXCEPT ![t] = "between"] /\ Len(left[t]) = 0
      BY <2>4 DEF HeaderIsSent
    <3>2. edge = pos[Len(sent) - 1] + HeaderSize
      BY <1>2, <2>1, <2>3, <3>1 DEF Upcoming
    <3>3. place'[t] = "between" /\ \A u \in Thread : place'[u] # "idle" => u = t
      BY <1>3, <3>1 DEF TypeOK
    <3> QED BY <1>1, <2>1, <3>2, <3>3 DEF Writing
  <2>5. CASE SendData(t)
    <3>1. /\ place[t] = "between" /\ place' = [place EXCEPT ![t] = "data"]
          /\ left' = [left EXCEPT ![t] = Bytes[message[t]]]
      BY <2>5 DEF SendData
    <3>2. place'[t] = "data" /\ \A u \in Thread : place'[u] # "idle" => u = t
      BY <1>3, <3>1 DEF TypeOK
    <3>3. left'[t] = Bytes[sent[Len(sent)]]
      BY <2>1, <3>1 DEF TypeOK
    <3>4. /\ pos[Len(sent)] = pos[Len(sent) - 1] + HeaderSize + Len(Bytes[sent[Len(sent)]])
          /\ \A i \in 1 .. Len(Bytes[sent[Len(sent)]]) :
               ideal[pos[Len(sent) - 1] + HeaderSize + i] = Bytes[sent[Len(sent)]][i]
      BY <2>2 DEF Laid, Layout
    <3>5. edge = pos[Len(sent) - 1] + HeaderSize
      BY <2>1, <3>1
    <3>6. Upcoming(ideal, edge, pos[Len(sent)], t)'
      BY <1>1, <3>3, <3>4, <3>5 DEF Upcoming
    <3> QED BY <1>1, <2>1, <3>2, <3>6 DEF Writing
  <2>6. CASE DataIsSent(t)
    <3>1. place[t] = "data" /\ place' = [place EXCEPT ![t] = "idle"] /\ Len(left[t]) = 0
      BY <2>6 DEF DataIsSent, Returns
    <3>2. edge = pos[Len(sent)]
      BY <1>2, <2>1, <2>3, <3>1 DEF Upcoming
    <3>3. \A u \in Thread : place'[u] = "idle"
      BY <1>3, <3>1 DEF TypeOK
    <3> QED BY <1>1, <3>2, <3>3 DEF Writing
  <2> QED BY <2>4, <2>5, <2>6
<1> QED BY <1>1, <1>4, LaidStays DEF Exact

\* The last message is cut short, if none was before.
LEMMA LaidCut ==
  ASSUME TypeOK, Handshake, RightlyReceived, NEW pos, NEW ideal, NEW edge, NEW base,
         Laid(pos, ideal, edge, base), NEW t \in Thread, SendFails(t)
  PROVE  /\ RightlyReceived' /\ Laid(pos, ideal, edge, base)'
         /\ ~cut => Len(received) < Len(sent)
<1>1. /\ UNCHANGED <<sent, registered, wire, reading, got, header, received>> /\ cut'
      /\ place[t] \in {"header", "data"} /\ left[t] # <<>>
  BY DEF SendFails, reader
<1>2. CASE cut
  <2>1. cut' = cut
    BY <1>1, <1>2 DEF TypeOK
  <2> QED BY <1>1, <1>2, <2>1, LaidStays DEF Exact
<1>3. CASE ~cut
  <2>1. /\ Len(sent) \in Nat /\ Len(received) \in Nat /\ edge \in Nat /\ Len(left[t]) \in Nat
        /\ \A n \in Nat : pos[n] \in Nat
    BY Lengths
  <2>2. /\ sent # <<>> /\ sent \in Seq(Message)
        /\ place[t] = "header" =>
             Upcoming(ideal, edge, pos[Len(sent) - 1] + HeaderSize, t)
        /\ place[t] = "data" => Upcoming(ideal, edge, pos[Len(sent)], t)
    BY <1>1, <1>3 DEF Laid, Writing, TypeOK
  <2>3. Len(sent) \in 1 .. Len(sent) /\ sent[Len(sent)] \in Message
    BY <2>2, EmptySeq, ElementOfSeq
  <2>4. Len(left[t]) >= 1
    <3>1. left[t] \in Seq(Byte)
      BY DEF TypeOK
    <3> QED BY <1>1, <2>1, <3>1, EmptySeq
  <2>5. edge < pos[Len(sent)]
    <3>1. CASE place[t] = "header"
      <4>1. edge + Len(left[t]) = pos[Len(sent) - 1] + HeaderSize
        BY <2>2, <3>1 DEF Upcoming
      <4>2. pos[Len(sent)] = pos[Len(sent) - 1] + HeaderSize + Len(Bytes[sent[Len(sent)]])
        BY <2>3 DEF Laid, Layout
      <4>3. PICK len \in Nat : len = Len(Bytes[sent[Len(sent)]])
        <5>1. Bytes[sent[Len(sent)]] \in Seq(Byte)
          BY <2>3, EncodingAssumption
        <5> QED BY <5>1
      <4>4. pos[Len(sent) - 1] \in Nat /\ HeaderSize \in Nat
        BY <2>1, <2>3, Sizes
      <4>5. edge \in Nat /\ Len(left[t]) \in Nat
        BY <2>1
      <4>6. pos[Len(sent)] = pos[Len(sent) - 1] + HeaderSize + len
        BY <4>2, <4>3
      <4> QED BY ONLY <2>4, <4>1, <4>3, <4>4, <4>5, <4>6
    <3>2. CASE place[t] = "data"
      <4>1. edge + Len(left[t]) = pos[Len(sent)]
        BY <2>2, <3>2 DEF Upcoming
      <4> QED BY <2>1, <2>4, <4>1
    <3> QED BY <1>1, <3>1, <3>2
  <2>6. Len(received) < Len(sent)
    BY <1>3, <2>5, NotYetReceived
  <2>7. Whole = Len(sent) /\ Whole' = Len(sent) - 1 /\ Len(received) <= Len(sent) - 1
    BY <1>1, <1>3, <2>1, <2>6 DEF Whole
  <2>8. Layout(pos, ideal)' /\ Edge(pos, edge)'
    BY <1>1, <2>5 DEF Laid, Layout, Edge
  <2>9. Exact
    BY <1>3 DEF Exact
  <2>10. (reading # "stopped" => UnderWay(ideal, edge, base))'
    BY <1>1, <2>9 DEF Laid, UnderWay
  <2>11. Reading(pos, edge, base)'
    <3>1. Len(received) <= Whole /\ Len(received) <= Whole' /\ Len(received) # Len(sent)
      BY <2>1, <2>6, <2>7
    <3> QED BY <1>1, <2>6, <2>9, <3>1 DEF Laid, Reading
  <2>12. RightlyReceived'
    BY <1>1, <2>1, <2>7 DEF RightlyReceived
  <2> QED BY <1>1, <2>6, <2>8, <2>10, <2>11, <2>12 DEF Laid
<1> QED BY <1>2, <1>3

\* What the reader does leaves the messages and the writers as they are.
LEMMA ReaderOnly ==
  ASSUME NEW pos, NEW ideal, NEW edge, NEW base, Laid(pos, ideal, edge, base),
         UNCHANGED sender
  PROVE  /\ UNCHANGED <<sent, cut, registered>> /\ Whole' = Whole /\ Exact' = Exact
         /\ Layout(pos, ideal)' /\ Edge(pos, edge)' /\ (~cut => Writing(pos, ideal, edge))'
<1>1. UNCHANGED <<place, message, left, sent, cut, registered>>
  BY DEF sender
<1>2. Layout(pos, ideal)' /\ Edge(pos, edge)' /\ Whole' = Whole
  BY <1>1, LayoutStays DEF Laid
<1>3. (~cut => Writing(pos, ideal, edge))'
  BY <1>1 DEF Laid, Writing, Upcoming
<1> QED BY <1>1, <1>2, <1>3 DEF Exact

\* Some bytes come in.
LEMMA LaidReceiveSome ==
  ASSUME TypeOK, Handshake, RightlyReceived, NEW pos, NEW ideal, NEW edge, NEW base,
         Laid(pos, ideal, edge, base), ReceiveSome
  PROVE  RightlyReceived' /\ Laid(pos, ideal, edge, base)'
<1>1. PICK k \in 1 .. Len(wire) : got' = got \o SubSeq(wire, 1, k) /\ wire' = After(wire, k)
  BY DEF ReceiveSome
<1>2. reading # "stopped" /\ UNCHANGED sender /\ UNCHANGED <<reading, header, received>>
  BY DEF ReceiveSome
<1>3. /\ UNCHANGED <<sent, cut, registered>> /\ Whole' = Whole /\ Exact' = Exact
      /\ Layout(pos, ideal)' /\ Edge(pos, edge)' /\ (~cut => Writing(pos, ideal, edge))'
  BY <1>2, ReaderOnly
<1>4. Len(got) \in Nat /\ Len(wire) \in Nat /\ edge \in Nat /\ base \in Nat
  BY Lengths
<1>5. got \in Seq(Byte) /\ wire \in Seq(Byte) /\ k \in 0 .. Len(wire) /\ k \in Nat
  BY <1>4 DEF TypeOK
<1>6. /\ Len(got') = Len(got) + k
      /\ \A i \in 1 .. Len(got) : got'[i] = got[i]
      /\ \A i \in 1 .. k : got'[Len(got) + i] = wire[i]
  BY <1>1, <1>5, MovedProperties
<1>7. /\ Len(wire') = Len(wire) - k
      /\ \A i \in 1 .. Len(wire) - k : wire'[i] = wire[k + i]
  BY <1>1, <1>5, AfterProperties
<1>8. UnderWay(ideal, edge, base)
  BY <1>2 DEF Laid
<1>9. UnderWay(ideal, edge, base)'
  <2>1. base + Len(got') + Len(wire') = base + Len(got) + Len(wire)
    BY <1>4, <1>5, <1>6, <1>7
  <2>2. ASSUME NEW i \in 1 .. Len(got'), base + i <= edge
        PROVE  got'[i] = ideal[base + i]
    <3>1. CASE i <= Len(got)
      BY <1>4, <1>6, <1>8, <2>2, <3>1 DEF UnderWay
    <3>2. CASE ~ (i <= Len(got))
      <4>1. /\ i - Len(got) \in 1 .. k /\ i - Len(got) \in 1 .. Len(wire)
            /\ Len(got) + (i - Len(got)) = i
            /\ base + Len(got) + (i - Len(got)) = base + i
        BY <1>4, <1>5, <1>6, <3>2
      <4> QED BY <1>6, <1>8, <2>2, <4>1 DEF UnderWay
    <3> QED BY <3>1, <3>2
  <2>3. ASSUME NEW i \in 1 .. Len(wire'), base + Len(got') + i <= edge
        PROVE  wire'[i] = ideal[base + Len(got') + i]
    <3>1. /\ k + i \in 1 .. Len(wire) /\ i \in 1 .. Len(wire) - k
          /\ base + Len(got) + (k + i) = base + Len(got') + i
      BY <1>4, <1>5, <1>6, <1>7
    <3> QED BY <1>7, <1>8, <2>3, <3>1 DEF UnderWay
  <2> QED BY <1>3, <1>8, <2>1, <2>2, <2>3 DEF UnderWay
<1>10. Reading(pos, edge, base)'
  BY <1>2, <1>3 DEF Laid, Reading
<1>11. RightlyReceived'
  BY <1>2, <1>3 DEF RightlyReceived
<1> QED BY <1>2, <1>3, <1>9, <1>10, <1>11 DEF Laid

\* Taking got as a whole moves the base behind it.
LEMMA Emptied ==
  ASSUME TypeOK, Handshake, RightlyReceived, NEW pos, NEW ideal, NEW edge, NEW base,
         Laid(pos, ideal, edge, base), NEW b, b = base + Len(got),
         reading # "stopped", UNCHANGED sender, wire' = wire, got' = <<>>
  PROVE  UnderWay(ideal, edge, b)'
<1>1. Len(got) \in Nat /\ Len(wire) \in Nat /\ edge \in Nat /\ base \in Nat
  BY Lengths
<1>2. UnderWay(ideal, edge, base) /\ Exact' = Exact
  BY ReaderOnly DEF Laid
<1>3. Len(got') = 0 /\ b + Len(got') = b
  BY <1>1
<1> QED BY <1>2, <1>3 DEF UnderWay

\* The answer to the probe is no part of a message.
LEMMA LaidAnswer ==
  ASSUME TypeOK, Handshake, RightlyReceived, NEW pos, NEW ideal, NEW edge, NEW base,
         Laid(pos, ideal, edge, base), AnswerIsRead, NEW b \in Nat, b = base + Len(got)
  PROVE  RightlyReceived' /\ Laid(pos, ideal, edge, b)'
<1>1. /\ reading = "answer" /\ Len(got) = 1 /\ reading' = "header" /\ got' = <<>>
      /\ UNCHANGED sender /\ UNCHANGED <<wire, header, received>>
  BY DEF AnswerIsRead, Needed
<1>2. /\ UNCHANGED <<sent, cut, registered>> /\ Whole' = Whole /\ Exact' = Exact
      /\ Layout(pos, ideal)' /\ Edge(pos, edge)' /\ (~cut => Writing(pos, ideal, edge))'
  BY <1>1, ReaderOnly
<1>3. base = 0 /\ Len(received) = 0 /\ b = 1 /\ pos[0] = 1
  <2>1. base = 0 /\ received = <<>> /\ pos[0] = 1
    BY <1>1 DEF Laid, Reading, Layout
  <2> QED BY <1>1, <2>1
<1>4. Reading(pos, edge, b)'
  BY <1>1, <1>2, <1>3 DEF Laid, Reading
<1>5. RightlyReceived'
  BY <1>1, <1>2 DEF RightlyReceived
<1> QED BY <1>1, <1>2, <1>4, <1>5, Emptied DEF Laid

\* A header of a message that was sent as a whole is the right one.
LEMMA LaidHeader ==
  ASSUME TypeOK, Handshake, RightlyReceived, NEW pos, NEW ideal, NEW edge, NEW base,
         Laid(pos, ideal, edge, base), HeaderIsRead, NEW b \in Nat, b = base + Len(got)
  PROVE  RightlyReceived' /\ Laid(pos, ideal, edge, b)'
<1>1. PICK r \in Nat : r = Len(received)
  BY Lengths
<1>2. /\ reading = "header" /\ Len(got) = HeaderSize /\ reading' = "data" /\ header' = got
      /\ got' = <<>> /\ UNCHANGED sender /\ UNCHANGED <<wire, received>>
  BY DEF HeaderIsRead, Needed
<1>3. /\ UNCHANGED <<sent, cut, registered>> /\ Whole' = Whole /\ Exact' = Exact
      /\ Layout(pos, ideal)' /\ Edge(pos, edge)' /\ (~cut => Writing(pos, ideal, edge))'
  BY <1>2, ReaderOnly
<1>4. /\ Len(got) \in Nat /\ Len(wire) \in Nat /\ edge \in Nat /\ base \in Nat
      /\ Len(sent) \in Nat /\ HeaderSize \in Nat \ {0}
  BY Lengths, Sizes
<1>5. cut => Len(sent) >= 1
  BY Lengths
<1>6. /\ UnderWay(ideal, edge, base)
      /\ r <= Whole => base = pos[r]
      /\ Exact => r <= Whole
      /\ ~cut /\ r = Len(sent) => edge = pos[Len(sent)]
  BY <1>1, <1>2 DEF Laid, Reading
<1>7. Exact => edge = b + Len(wire)
  BY <1>6 DEF UnderWay
<1>8. r < Len(sent) => r <= Whole
  BY <1>4 DEF Whole
<1>9. ASSUME Exact
      PROVE  r < Len(sent)
  <2>1. CASE cut
    BY <1>4, <1>6, <1>9, <1>5, <2>1 DEF Whole
  <2>2. CASE ~cut
    <3>1. r <= Len(sent)
      BY <1>6, <1>9, <2>2 DEF Whole
    <3>2. ASSUME r = Len(sent)
          PROVE  FALSE
      <4>1. edge = base
        BY <1>6, <1>9, <2>2, <3>1, <3>2 DEF Whole
      <4> QED BY <1>2, <1>4, <1>7, <1>9, <4>1
    <3> QED BY <1>4, <3>1, <3>2
  <2> QED BY <2>1, <2>2
<1>10. ASSUME r < Len(sent)
       PROVE  /\ b = pos[r] + HeaderSize
              /\ b <= edge => header' = Headers[sent[r + 1]]
  <2>1. base = pos[r]
    BY <1>6, <1>8, <1>10
  <2>2. ASSUME b <= edge
        PROVE  header' = Headers[sent[r + 1]]
    <3>1. r + 1 \in 1 .. Len(sent) /\ r + 1 - 1 = r
      BY <1>4, <1>10
    <3>2. \A i \in 1 .. HeaderSize : ideal[pos[r] + i] = Headers[sent[r + 1]][i]
      BY <3>1 DEF Laid, Layout
    <3>3. \A i \in 1 .. HeaderSize : got[i] = ideal[base + i]
      <4> TAKE i \in 1 .. HeaderSize
      <4>1. i \in 1 .. Len(got) /\ base + i <= edge
        BY <1>2, <1>4, <2>2
      <4> QED BY <1>6, <4>1 DEF UnderWay
    <3>4. got \in Seq(Byte) /\ sent[r + 1] \in Message
      BY <3>1 DEF TypeOK
    <3>5. Headers[sent[r + 1]] \in Seq(Byte) /\ Len(Headers[sent[r + 1]]) = HeaderSize
      BY <3>4, EncodingAssumption
    <3>6. got = Headers[sent[r + 1]]
      <4>1. \A i \in 1 .. HeaderSize : got[i] = Headers[sent[r + 1]][i]
        BY <2>1, <3>2, <3>3
      <4>2. Len(got) = HeaderSize
        BY <1>2
      <4> QED BY <3>4, <3>5, <4>1, <4>2, SeqEqual
    <3> QED BY <1>2, <3>6
  <2> QED BY <1>2, <2>1, <2>2
<1>11. Reading(pos, edge, b)'
  BY <1>1, <1>2, <1>3, <1>6, <1>9, <1>10 DEF Reading
<1>12. RightlyReceived'
  BY <1>2, <1>3 DEF RightlyReceived
<1> QED BY <1>2, <1>3, <1>11, <1>12, Emptied DEF Laid

\* The data of a message that was sent as a whole is the right one, too.
LEMMA LaidData ==
  ASSUME TypeOK, Handshake, RightlyReceived, NEW pos, NEW ideal, NEW edge, NEW base,
         Laid(pos, ideal, edge, base), DataIsRead, NEW b \in Nat, b = base + Len(got)
  PROVE  RightlyReceived' /\ Laid(pos, ideal, edge, b)'
<1>1. PICK r \in Nat : r = Len(received)
  BY Lengths
<1> DEFINE raw == [type |-> HeaderType(header), data |-> got]
<1>2. /\ reading = "data" /\ Len(got) = HeaderLength(header) /\ reading' = "header"
      /\ got' = <<>> /\ UNCHANGED sender /\ UNCHANGED <<wire, header>>
      /\ received' = Append(received, raw)
  BY DEF DataIsRead, Needed
<1>3. /\ UNCHANGED <<sent, cut, registered>> /\ Whole' = Whole /\ Exact' = Exact
      /\ Layout(pos, ideal)' /\ Edge(pos, edge)' /\ (~cut => Writing(pos, ideal, edge))'
  BY <1>2, ReaderOnly
<1>4. /\ Len(got) \in Nat /\ Len(wire) \in Nat /\ edge \in Nat /\ base \in Nat
      /\ Len(sent) \in Nat
  BY Lengths
<1>5. cut => Len(sent) >= 1
  BY Lengths
<1>6. \A n \in Nat : pos[n] \in Nat
  BY Lengths
<1>7. /\ UnderWay(ideal, edge, base)
      /\ r < Len(sent) =>
           /\ base = pos[r] + HeaderSize
           /\ base <= edge => header = Headers[sent[r + 1]]
      /\ Exact => r < Len(sent)
  BY <1>1, <1>2 DEF Laid, Reading
<1>8. PICK S : received \in Seq(S) /\ raw \in S
  <2>1. PICK S : received \in Seq(S)
    BY DEF RightlyReceived
  <2>2. received \in Seq(S \cup {raw})
    <3> HIDE DEF raw
    <3> QED BY <2>1, SeqMonotonic
  <2> QED BY <2>2
<1>9. /\ received' \in Seq(S) /\ Len(received') = r + 1 /\ received'[r + 1] = raw
      /\ \A i \in 1 .. r : received'[i] = received[i]
  <2> HIDE DEF raw
  <2> QED BY <1>1, <1>2, <1>8, AppendProperties
<1> HIDE DEF raw
<1>10. ASSUME r < Len(sent), b <= edge
       PROVE  /\ b = pos[r + 1] /\ raw = [type |-> sent[r + 1].type, data |-> Bytes[sent[r + 1]]]
  <2>1. r + 1 \in 1 .. Len(sent) /\ r + 1 - 1 = r
    BY <1>4, <1>10
  <2>2. sent[r + 1] \in Message
    BY <2>1 DEF TypeOK
  <2>3. header = Headers[sent[r + 1]] /\ base = pos[r] + HeaderSize
    BY <1>4, <1>7, <1>10
  <2>4. /\ HeaderLength(header) = Len(Bytes[sent[r + 1]])
        /\ HeaderType(header) = sent[r + 1].type /\ Bytes[sent[r + 1]] \in Seq(Byte)
    BY <2>2, <2>3, EncodingAssumption
  <2>5. /\ pos[r + 1] = pos[r] + HeaderSize + Len(Bytes[sent[r + 1]])
        /\ \A i \in 1 .. Len(Bytes[sent[r + 1]]) :
             ideal[pos[r] + HeaderSize + i] = Bytes[sent[r + 1]][i]
    <3>1. PICK k \in 1 .. Len(sent) : k = r + 1
      BY <2>1
    <3>2. k - 1 = r
      BY <2>1, <3>1
    <3>3. /\ pos[k] = pos[k - 1] + HeaderSize + Len(Bytes[sent[k]])
          /\ \A i \in 1 .. Len(Bytes[sent[k]]) :
               ideal[pos[k - 1] + HeaderSize + i] = Bytes[sent[k]][i]
      BY DEF Laid, Layout
    <3> QED BY <3>1, <3>2, <3>3
  <2>6. \A i \in 1 .. Len(got) : got[i] = ideal[base + i]
    <3> TAKE i \in 1 .. Len(got)
    <3>1. base + i <= edge
      BY <1>4, <1>10
    <3> QED BY <1>7, <3>1 DEF UnderWay
  <2>7. got \in Seq(Byte)
    BY DEF TypeOK
  <2>8. got = Bytes[sent[r + 1]]
    BY <1>2, <2>3, <2>4, <2>5, <2>6, <2>7, SeqEqual
  <2> QED BY <1>2, <2>3, <2>4, <2>5, <2>8 DEF raw
<1>11. ASSUME r + 1 <= Whole
       PROVE  r < Len(sent) /\ b <= edge
  <2>1. r < Len(sent)
    BY <1>4, <1>11, <1>5 DEF Whole
  <2>2. CASE Exact
    BY <1>4, <1>7, <2>2 DEF UnderWay
  <2>3. CASE ~Exact
    <3>1. cut /\ Whole = Len(sent) - 1 /\ r + 1 \in 0 .. Len(sent) - 1
      BY <1>4, <1>11, <1>5, <2>3 DEF Exact, Whole
    <3>2. pos[r + 1] <= edge
      BY <3>1 DEF Laid, Edge
    <3>3. r + 1 \in 1 .. Len(sent) /\ r + 1 - 1 = r /\ sent[r + 1] \in Message
      BY <1>4, <3>1 DEF TypeOK
    <3>4. pos[r + 1] = pos[r] + HeaderSize + Len(Bytes[sent[r + 1]])
      BY <3>3 DEF Laid, Layout
    <3>5. PICK len \in Nat : len = Len(Bytes[sent[r + 1]])
      <4>1. Bytes[sent[r + 1]] \in Seq(Byte)
        BY <3>3, EncodingAssumption
      <4> QED BY <4>1
    <3>6. pos[r] \in Nat /\ pos[r + 1] \in Nat /\ HeaderSize \in Nat /\ edge \in Nat
      BY <1>4, <1>6, Sizes
    <3>7. base = pos[r] + HeaderSize /\ base <= edge
      <4>1. base = pos[r] + HeaderSize
        BY <1>7, <2>1
      <4>2. len \in Nat /\ pos[r + 1] = pos[r] + HeaderSize + len
        BY <3>4, <3>5
      <4> QED BY <3>2, <3>6, <4>1, <4>2
    <3>8. header = Headers[sent[r + 1]]
      BY <1>7, <2>1, <3>7
    <3>9. Len(got) = Len(Bytes[sent[r + 1]])
      BY <1>2, <3>3, <3>8, EncodingAssumption
    <3> QED BY <2>1, <3>2, <3>4, <3>5, <3>7, <3>9, <3>6
  <2> QED BY <2>1, <2>2, <2>3
<1>12. ASSUME Exact
       PROVE  r + 1 <= Whole
  <2>1. r < Len(sent) /\ b <= edge
    BY <1>4, <1>7, <1>12 DEF UnderWay
  <2>2. CASE ~cut
    BY <1>4, <2>1, <2>2 DEF Whole
  <2>3. CASE cut
    <3>1. edge < pos[Len(sent)] /\ b = pos[r + 1]
      BY <1>10, <2>1, <2>3 DEF Laid, Edge
    <3>2. r + 1 # Len(sent)
      <4>1. pos[r + 1] <= edge /\ pos[r + 1] \in Nat
        BY <1>4, <1>6, <2>1, <3>1
      <4> QED BY <1>4, <1>6, <3>1, <4>1
    <3> QED BY <1>4, <2>1, <2>3, <3>2 DEF Whole
  <2> QED BY <2>2, <2>3
<1>13. RightlyReceived'
  <2>1. ASSUME NEW i \in 1 .. r + 1, i <= Whole
        PROVE  received'[i] = [type |-> sent[i].type, data |-> Bytes[sent[i]]]
    <3>1. CASE i = r + 1
      BY <1>9, <1>10, <1>11, <2>1, <3>1
    <3>2. CASE i # r + 1
      <4>1. i \in 1 .. r
        BY <1>4, <3>2
      <4> QED BY <1>1, <1>9, <2>1, <4>1 DEF RightlyReceived
    <3> QED BY <3>1, <3>2
  <2> QED BY <1>3, <1>9, <2>1 DEF RightlyReceived
<1>14. Reading(pos, edge, b)'
  <2>1. r + 1 <= Whole => b = pos[r + 1]
    BY <1>10, <1>11
  <2>2. ~cut /\ r + 1 = Len(sent) => edge = pos[Len(sent)]
    <3> SUFFICES ASSUME ~cut, r + 1 = Len(sent)
                 PROVE  edge = pos[Len(sent)]
      OBVIOUS
    <3>1. r + 1 <= Whole
      BY <1>4 DEF Whole
    <3>2. b <= edge /\ edge <= pos[Len(sent)]
      BY <1>11, <3>1 DEF Laid, Edge
    <3> QED BY <1>4, <1>6, <2>1, <3>1, <3>2
  <2>3. Exact => r + 1 <= Whole
    BY <1>12
  <2>4. Len(received') = r + 1
    BY <1>9
  <2> QED BY <1>2, <1>3, <2>1, <2>2, <2>3, <2>4 DEF Reading
<1> QED BY <1>2, <1>3, <1>13, <1>14, Emptied DEF Laid

\* A reader that gives up does not read on.
LEMMA LaidFails ==
  ASSUME TypeOK, Handshake, RightlyReceived, NEW pos, NEW ideal, NEW edge, NEW base,
         Laid(pos, ideal, edge, base), ReceiveFails
  PROVE  RightlyReceived' /\ Laid(pos, ideal, edge, base)'
<1>1. reading' = "stopped" /\ UNCHANGED sender /\ UNCHANGED <<wire, header, received>>
  BY DEF ReceiveFails
<1>2. /\ UNCHANGED <<sent, cut, registered>> /\ Whole' = Whole /\ Exact' = Exact
      /\ Layout(pos, ideal)' /\ Edge(pos, edge)' /\ (~cut => Writing(pos, ideal, edge))'
  BY <1>1, ReaderOnly
<1>3. Reading(pos, edge, base)'
  BY <1>1, <1>2 DEF Laid, Reading
<1>4. RightlyReceived'
  BY <1>1, <1>2 DEF RightlyReceived
<1> QED BY <1>1, <1>2, <1>3, <1>4 DEF Laid

-----------------------------------------------------------------------------
(* The invariant is inductive *)

LEMMA IInvInit == Init => IInv
BY TypeInit, HandshakeInit, LaidInit DEF IInv

LEMMA LaidStep ==
  ASSUME TypeOK, Handshake, RightlyReceived, NEW pos, NEW ideal, NEW edge, NEW base,
         Laid(pos, ideal, edge, base), [Next]_vars
  PROVE  RightlyReceived' /\ \E p, d, e, b : Laid(p, d, e, b)'
<1>1. CASE HandshakeSend
  <2>1. BeginsToSend(Receiver, InitialMsg) /\ \A u \in Thread : place[u] = "idle"
    BY <1>1, NobodySends DEF HandshakeSend
  <2> QED BY <2>1, LaidBegins, Sizes, Messages
<1>2. CASE SendMessages
  <2>1. PICK t \in Thread, m \in Message : SendMsg(t, m)
    BY <1>2, Messages DEF SendMessages, Thread
  <2>2. BeginsToSend(t, m) /\ \A u \in Thread : place[u] = "idle"
    BY <2>1, NobodySends DEF SendMsg
  <2> QED BY <2>2, LaidBegins
<1>3. ASSUME NEW t \in Thread, Sends(t)
      PROVE  RightlyReceived' /\ \E p, d, e, b : Laid(p, d, e, b)'
  BY <1>3, LaidSendSome, LaidGoesOn DEF Sends
<1>4. ASSUME NEW t \in Thread, SendFails(t)
      PROVE  RightlyReceived' /\ \E p, d, e, b : Laid(p, d, e, b)'
  BY <1>4, LaidCut
<1>5. CASE Reads
  <2>1. PICK b \in Nat : b = base + Len(got)
    BY Lengths
  <2> QED BY <1>5, <2>1, LaidReceiveSome, LaidAnswer, LaidHeader, LaidData DEF Reads
<1>6. CASE ReceiveFails
  BY <1>6, LaidFails
<1>7. CASE AddOrDiscardClient \/ Close \/ UNCHANGED vars
  <2>1. UNCHANGED <<sent, cut, wire, reading, got, header, received, place, message, left>>
    BY <1>7 DEF AddOrDiscardClient, Close, vars, sender, reader
  <2>2. Exact' => Exact
    <3>1. CASE AddOrDiscardClient
      BY <3>1 DEF AddOrDiscardClient, Handshake, Exact
    <3>2. CASE Close \/ UNCHANGED vars
      BY <3>2 DEF Close, vars, sender, Exact
    <3> QED BY <1>7, <3>1, <3>2
  <2>3. ~cut => Writing(pos, ideal, edge)'
    BY <2>1 DEF Laid, Writing, Upcoming
  <2>4. Laid(pos, ideal, edge, base)' /\ RightlyReceived'
    BY <2>1, <2>2, <2>3, LaidStays
  <2> QED BY <2>4
<1> QED BY <1>1, <1>2, <1>3, <1>4, <1>5, <1>6, <1>7 DEF Next

LEMMA IInvStep == IInv /\ [Next]_vars => IInv'
<1> SUFFICES ASSUME IInv, [Next]_vars
             PROVE  IInv'
  OBVIOUS
<1>1. PICK pos, ideal, edge, base : Laid(pos, ideal, edge, base)
  BY DEF IInv
<1>2. RightlyReceived' /\ \E p, d, e, b : Laid(p, d, e, b)'
  BY <1>1, LaidStep DEF IInv
<1>3. TypeOK' /\ Handshake'
  BY TypeStep, HandshakeStep DEF IInv
<1> QED BY <1>2, <1>3 DEF IInv

LEMMA Inductive == Spec => []IInv
BY IInvInit, IInvStep, PTL DEF Spec

-----------------------------------------------------------------------------
(* What comes out *)

\* Before the connection is registered no message comes out that was not sent as a
\* whole, and at least the one of the handshake was sent as a whole after that: the
\* first message that comes out says whose the messages are, for any interleaving of
\* the sender's threads and wherever the connection fails.
THEOREM HandshakeComesFirst == Spec => []InitialComesFirst
<1>1. IInv => InitialComesFirst
  <2> SUFFICES ASSUME IInv, received # <<>>
               PROVE  received[1].type = Type.INITIAL
    BY DEF InitialComesFirst
  <2>1. PICK pos, ideal, edge, base : Laid(pos, ideal, edge, base)
    BY DEF IInv
  <2>2. Len(received) \in Nat /\ Len(received) >= 1
    BY EmptySeq DEF IInv, RightlyReceived
  <2>3. Whole >= 1 /\ Len(sent) >= 1 /\ sent # <<>>
    <3>1. Len(sent) \in Nat
      BY DEF IInv, TypeOK
    <3>2. registered => Whole >= 1
      BY DEF IInv, Handshake
    <3>3. ~registered => Len(received) <= Whole
      BY <2>1 DEF Laid, Reading, Exact
    <3>4. Whole >= 1
      BY <2>2, <3>1, <3>2, <3>3 DEF Whole
    <3> QED BY <3>1, <3>4 DEF Whole
  <2>4. received[1] = [type |-> sent[1].type, data |-> Bytes[sent[1]]]
    BY <2>2, <2>3 DEF IInv, RightlyReceived
  <2>5. sent[1] = InitialMsg
    BY <2>3 DEF IInv, Handshake
  <2> QED BY <2>4, <2>5 DEF InitialMsg
<1> QED BY <1>1, Inductive, PTL

\* So many messages have come out.
Out == IF Len(received) <= Whole THEN Len(received) ELSE Whole

\* And these are the first that were put in.
DeliveredIsPrefix ==
  /\ Out \in Nat /\ Out <= Len(sent)
  /\ Delivered \in Seq(Message) /\ Len(Delivered) = Out
  /\ \A i \in 1 .. Out : Delivered[i] = sent[i]

LEMMA DeliveredAsSent == TypeOK /\ Handshake /\ RightlyReceived => DeliveredIsPrefix
<1> SUFFICES ASSUME TypeOK, Handshake, RightlyReceived
             PROVE  DeliveredIsPrefix
  OBVIOUS
<1>1. Len(sent) \in Nat /\ sent \in Seq(Message) /\ Len(received) \in Nat /\ DOMAIN received = 1 .. Len(received)
  <2>1. PICK S : received \in Seq(S)
    BY DEF RightlyReceived
  <2> QED BY <2>1, LenProperties DEF TypeOK
<1>2. cut => Len(sent) >= 1
  <2>1. cut => sent # <<>>
    BY DEF Handshake
  <2> QED BY <1>1, <2>1, EmptySeq
<1>3. Whole \in Nat /\ Whole <= Len(sent)
  BY <1>1, <1>2 DEF Whole
<1>4. Out \in Nat /\ Out <= Whole /\ Out <= Len(received)
  BY <1>1, <1>3 DEF Out
<1>5. {j \in DOMAIN received : j <= Whole} = 1 .. Out
  BY <1>1, <1>3 DEF Out
<1>6. ASSUME NEW i \in 1 .. Out
      PROVE  /\ sent[i] \in Message
             /\ (IF received[i] \in DOMAIN Contents THEN Contents[received[i]] ELSE received[i]) = sent[i]
  <2>1. sent[i] \in Message
    BY <1>1, <1>3, <1>4
  <2>2. received[i] = [type |-> sent[i].type, data |-> Bytes[sent[i]]]
    BY <1>1, <1>3, <1>4 DEF RightlyReceived
  <2>3. received[i] \in {[type |-> m.type, data |-> Bytes[m]] : m \in Message}
    BY <2>1, <2>2
  <2>4. Contents[received[i]] = Content(received[i].type, received[i].data)
    BY <2>3 DEF Contents
  <2>5. Contents[received[i]] = sent[i]
    BY <2>1, <2>2, <2>4, EncodingAssumption
  <2>6. received[i] \in DOMAIN Contents
    BY <2>3 DEF Contents
  <2> QED BY <2>1, <2>5, <2>6
<1>7. Delivered \in [1 .. Out -> Message] /\ \A i \in 1 .. Out : Delivered[i] = sent[i]
  BY <1>5, <1>6 DEF Delivered
<1>8. Delivered \in Seq(Message)
  BY <1>4, <1>7, SeqDef
<1>9. Len(Delivered) = Out
  <2>1. DOMAIN Delivered = 1 .. Out /\ DOMAIN Delivered = 1 .. Len(Delivered) /\ Len(Delivered) \in Nat
    BY <1>7, <1>8, LenProperties
  <2> QED BY <1>4, <2>1
<1> QED BY <1>1, <1>3, <1>4, <1>7, <1>8, <1>9 DEF DeliveredIsPrefix

LEMMA ChannelInit == Init => FIFO!Init
<1> SUFFICES ASSUME Init
             PROVE  Delivered = <<>>
  BY DEF Init, FIFO!Init
<1>1. Delivered \in Seq(Message) /\ Len(Delivered) = Out /\ Out = 0
  <2>1. Len(received) = 0 /\ Whole = 0
    BY DEF Init, Whole
  <2> QED BY <2>1, DeliveredAsSent, TypeInit, HandshakeInit, LaidInit
             DEF Out, DeliveredIsPrefix
<1> QED BY <1>1, EmptySeq

\* As long as none comes out and those that were put in stay, the channel stays.
LEMMA ChannelStays ==
  ASSUME TypeOK, Handshake, RightlyReceived, TypeOK', Handshake', RightlyReceived',
         Out' = Out, \A i \in 1 .. Out : sent'[i] = sent[i]
  PROVE  Delivered' = Delivered
<1>1. /\ Out \in Nat /\ Delivered \in Seq(Message) /\ Len(Delivered) = Out
      /\ \A i \in 1 .. Out : Delivered[i] = sent[i]
  BY DeliveredAsSent DEF DeliveredIsPrefix
<1>2. /\ Delivered' \in Seq(Message) /\ Len(Delivered') = Out
      /\ \A i \in 1 .. Out : Delivered'[i] = sent'[i]
  <2>1. DeliveredIsPrefix'
    BY DeliveredAsSent, PTL
  <2> QED BY <2>1 DEF DeliveredIsPrefix
<1>3. \A i \in 1 .. Len(Delivered) : Delivered[i] = Delivered'[i]
  BY <1>1, <1>2
<1> QED BY <1>1, <1>2, <1>3, SeqEqual

\* The next one comes out.
LEMMA ChannelDelivers ==
  ASSUME TypeOK, Handshake, RightlyReceived, TypeOK', Handshake', RightlyReceived',
         sent' = sent, Out' = Out + 1
  PROVE  FIFO!Deliver
<1>1. /\ Out \in Nat /\ Delivered \in Seq(Message) /\ Len(Delivered) = Out
      /\ \A i \in 1 .. Out : Delivered[i] = sent[i]
  BY DeliveredAsSent DEF DeliveredIsPrefix
<1>2. /\ Out + 1 <= Len(sent) /\ Delivered' \in Seq(Message) /\ Len(Delivered') = Out + 1
      /\ \A i \in 1 .. Out + 1 : Delivered'[i] = sent[i]
  <2>1. DeliveredIsPrefix'
    BY DeliveredAsSent, PTL
  <2> QED BY <2>1 DEF DeliveredIsPrefix
<1>3. sent[Out + 1] \in Message /\ Len(Delivered) < Len(sent)
  <2>1. sent \in Seq(Message) /\ Len(sent) \in Nat
    BY DEF TypeOK
  <2> QED BY <1>1, <1>2, <2>1
<1> DEFINE s == Append(Delivered, sent[Out + 1])
<1>4. /\ s \in Seq(Message) /\ Len(s) = Out + 1
      /\ \A i \in 1 .. Out : s[i] = Delivered[i]
      /\ s[Out + 1] = sent[Out + 1]
  BY <1>1, <1>3, AppendProperties
<1> HIDE DEF s
<1>5. ASSUME NEW i \in 1 .. Len(s)
      PROVE  s[i] = Delivered'[i]
  <2>1. CASE i = Out + 1
    BY <1>1, <1>2, <1>4, <2>1
  <2>2. CASE i # Out + 1
    <3>1. i \in 1 .. Out /\ i \in 1 .. Out + 1
      BY <1>1, <1>4, <2>2
    <3> QED BY <1>1, <1>2, <1>4, <3>1
  <2> QED BY <2>1, <2>2
<1>6. s = Delivered'
  BY <1>2, <1>4, <1>5, SeqEqual
<1> QED BY <1>1, <1>3, <1>6 DEF s, FIFO!Deliver

LEMMA ChannelStep == IInv /\ IInv' /\ [Next]_vars => [FIFO!Next]_(FIFO!vars)
<1> SUFFICES ASSUME IInv, IInv', [Next]_vars
             PROVE  [FIFO!Next]_(FIFO!vars)
  OBVIOUS
<1>1. TypeOK /\ Handshake /\ RightlyReceived /\ TypeOK' /\ Handshake' /\ RightlyReceived'
  BY DEF IInv
<1>2. PICK pos, ideal, edge, base : Laid(pos, ideal, edge, base)
  BY DEF IInv
<1>3. Len(sent) \in Nat /\ Len(received) \in Nat /\ (cut => Len(sent) >= 1)
  BY <1>1, <1>2, Lengths
<1>4. ~cut => Len(received) <= Len(sent)
  BY <1>2 DEF Laid, Reading, Exact, Whole
<1>5. ASSUME NEW t \in Thread, NEW m \in Message, BeginsToSend(t, m)
      PROVE  [FIFO!Next]_(FIFO!vars)
  <2>1. /\ sent' = IF cut THEN sent ELSE Append(sent, m)
        /\ UNCHANGED <<received, cut>>
    BY <1>5 DEF BeginsToSend, reader
  <2>2. CASE cut
    <3>1. sent' = sent /\ Out' = Out
      BY <2>1, <2>2 DEF Out, Whole
    <3> QED BY <1>1, <3>1, ChannelStays DEF FIFO!vars
  <2>3. CASE ~cut
    <3>1. /\ sent' = Append(sent, m) /\ Len(sent') = Len(sent) + 1
          /\ \A i \in 1 .. Len(sent) : sent'[i] = sent[i]
      BY <1>1, <2>1, <2>3, AppendProperties DEF TypeOK
    <3>2. Out = Len(received) /\ Out' = Len(received)
      BY <1>3, <1>4, <2>1, <2>3, <3>1 DEF Out, Whole
    <3>3. \A i \in 1 .. Out : sent'[i] = sent[i]
      BY <1>3, <1>4, <2>3, <3>1, <3>2
    <3>4. Delivered' = Delivered
      BY <1>1, <3>2, <3>3, ChannelStays
    <3> QED BY <3>1, <3>4 DEF FIFO!Send, FIFO!Next
  <2> QED BY <2>2, <2>3
<1>6. CASE HandshakeSend \/ SendMessages
  <2>1. PICK t \in Thread, m \in Message : BeginsToSend(t, m)
    BY <1>6, Messages, Sizes DEF HandshakeSend, SendMessages, SendMsg, Thread
  <2> QED BY <1>5, <2>1
<1>7. ASSUME NEW t \in Thread, SendFails(t)
      PROVE  [FIFO!Next]_(FIFO!vars)
  <2>1. cut' /\ UNCHANGED <<sent, received>> /\ (~cut => Len(received) < Len(sent))
    BY <1>1, <1>2, <1>7, LaidCut DEF SendFails, reader
  <2>2. Out' = Out
    BY <1>3, <2>1 DEF Out, Whole
  <2> QED BY <1>1, <2>1, <2>2, ChannelStays DEF FIFO!vars
<1>8. CASE DataIsRead
  <2>1. UNCHANGED <<sent, cut>> /\ Len(received') = Len(received) + 1
    <3>1. received' = Append(received, [type |-> HeaderType(header), data |-> got])
      BY <1>8 DEF DataIsRead
    <3>2. PICK S : received \in Seq(S)
      BY <1>1 DEF RightlyReceived
    <3>3. Len(received') = Len(received) + 1
      BY <3>1, <3>2
    <3> QED BY <1>8, <3>3 DEF DataIsRead, sender
  <2>2. Out' = Out \/ Out' = Out + 1
    BY <1>3, <2>1 DEF Out, Whole
  <2>3. CASE Out' = Out
    BY <1>1, <2>1, <2>3, ChannelStays DEF FIFO!vars
  <2>4. CASE Out' = Out + 1
    BY <1>1, <2>1, <2>4, ChannelDelivers DEF FIFO!Next
  <2> QED BY <2>2, <2>3, <2>4
<1>9. ASSUME UNCHANGED <<sent, cut, received>>
      PROVE  [FIFO!Next]_(FIFO!vars)
  <2>1. Out' = Out
    BY <1>9 DEF Out, Whole
  <2> QED BY <1>1, <1>9, <2>1, ChannelStays DEF FIFO!vars
<1>10. ASSUME NEW t \in Thread, Sends(t)
       PROVE  UNCHANGED <<sent, cut, received>>
  BY <1>10 DEF Sends, SendSome, HeaderIsSent, SendData, DataIsSent, reader
<1>11. CASE \/ AddOrDiscardClient \/ Close \/ ReceiveSome \/ AnswerIsRead \/ HeaderIsRead
            \/ ReceiveFails \/ UNCHANGED vars
  <2>1. UNCHANGED <<sent, cut, received>>
    BY <1>11 DEF AddOrDiscardClient, Close, ReceiveSome, AnswerIsRead, HeaderIsRead,
                 ReceiveFails, vars, sender, reader
  <2> QED BY <1>9, <2>1
<1> QED BY <1>6, <1>7, <1>8, <1>9, <1>10, <1>11 DEF Next, Reads

\* However the sender's threads interleave, however the bytes are split up, and wherever
\* the connection fails: the messages before the first that is cut short come out whole,
\* once each, with their contents, and in the order in which they were begun.
THEOREM FramesImplementChannel == Spec => ImplementsChannel
<1>1. Init => FIFO!Init
  BY ChannelInit
<1>2. IInv /\ IInv' /\ [Next]_vars => [FIFO!Next]_(FIFO!vars)
  BY ChannelStep
<1> QED BY <1>1, <1>2, Inductive, PTL DEF Spec, ImplementsChannel, FIFO!Spec

=============================================================================
