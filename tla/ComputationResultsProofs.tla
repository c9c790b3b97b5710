---------------------- MODULE ComputationResultsProofs ----------------------
(***************************************************************************)
(* Proofs about the results of module Computation, for any set of nodes,   *)
(* any job and any delays of the messages: the bests the nodes announce    *)
(* reach everybody, and the job is not lost as long as no busy node is     *)
(* handed a share.                                                         *)
(***************************************************************************)
EXTENDS ComputationProofs

-----------------------------------------------------------------------------
(* The bests in the messages *)

\* What the messages of a channel announce.
Mailed(s) == UNION {x.best : x \in {y \in ToSet(s) : y.type = "ASSIGNMENT_FINISHED"}}

\* Messages are announced with those before them.
LEMMA MailedConcat ==
  ASSUME NEW s \in Seq(Message), NEW t \in Seq(Message)
  PROVE  s \o t \in Seq(Message) /\ Mailed(s \o t) = Mailed(s) \cup Mailed(t)
<1>1. ToSet(s \o t) = ToSet(s) \cup ToSet(t) /\ s \o t \in Seq(Message)
  BY ConcatSet
<1> QED BY <1>1 DEF Mailed

\* Reading a message takes only what it announces off the channel.
LEMMA MailedTail ==
  ASSUME NEW s \in Seq(Message), s # <<>>
  PROVE  Mailed(s) = Mailed(Tail(s))
                       \cup (IF Head(s).type = "ASSIGNMENT_FINISHED" THEN Head(s).best ELSE {})
<1>1. ToSet(s) = ToSet(Tail(s)) \cup {Head(s)}
  BY TailSet
<1> QED BY <1>1 DEF Mailed

\* The shortest channels.
LEMMA MailedSmall ==
  /\ Mailed(<<>>) = {}
  /\ \A x : Mailed(<<x>>) = IF x.type = "ASSIGNMENT_FINISHED" THEN x.best ELSE {}
<1>1. ToSet(<<>>) = {} /\ \A x : ToSet(<<x>>) = {x}
  BY ToSetSmall
<1> QED BY <1>1 DEF Mailed

\* Messages that announce nothing, one after the other
Silent(s) == s \in Seq(Message) /\ Mailed(s) = {}

\* Messages without announcements, one after the other.
LEMMA SilentConcat ==
  ASSUME NEW s, Silent(s), NEW t, Silent(t)
  PROVE  Silent(s \o t)
BY MailedConcat DEF Silent

\* Messages that are no announcements announce nothing, sent or not.
LEMMA SilentIf ==
  ASSUME NEW P \in BOOLEAN, NEW x, P => x \in Message /\ x.type # "ASSIGNMENT_FINISHED"
  PROVE  Silent(MessagesIf(P, x))
<1>1. CASE P
  <2>1. x \in Message /\ Mailed(<<x>>) = {}
    BY <1>1, MailedSmall
  <2>2. <<x>> \in Seq(Message)
    BY <2>1
  <2> QED BY <1>1, <2>1, <2>2 DEF MessagesIf, Silent
<1>2. CASE ~P
  <2>1. <<>> \in Seq(Message)
    OBVIOUS
  <2> QED BY <1>2, <2>1, MailedSmall DEF MessagesIf, Silent
<1> QED BY <1>1, <1>2

-----------------------------------------------------------------------------
(* What the handlers make of a node's best *)

\* They announce nothing, and keep the best the node knows.
KeepsBest(l, e) ==
  e.local.bestFound = l.bestFound /\ \A j \in Node : Mailed(e.out[j]) = {}

\* A handler that sends nothing and leaves the result alone keeps it.
LEMMA KeepsBestAlone ==
  ASSUME NEW l, NEW m, m.bestFound = l.bestFound
  PROVE  KeepsBest(l, Effect(m, Nothing))
<1>1. Effect(m, Nothing).local = m /\ \A j \in Node : Effect(m, Nothing).out[j] = <<>>
  BY DEF Effect, Nothing
<1> QED BY <1>1, MailedSmall DEF KeepsBest

\* OnAssignment() leaves the result alone.
LEMMA OnAssignmentBest ==
  ASSUME NEW n \in Node, NEW l \in LocalState, NEW a
  PROVE  OnAssignment(n, l, a).bestFound = l.bestFound
BY DEF OnAssignment, LocalState

\* So do being told to finish and the steps that clear entries.
LEMMA OthersBest ==
  ASSUME NEW n \in Node, NEW l \in LocalState
  PROVE  /\ OnTerminate(l).bestFound = l.bestFound
         /\ ClearDisconnected(n, l).bestFound = l.bestFound
         /\ NonLeaderStep(l).bestFound = l.bestFound
BY DEF OnTerminate, ClearDisconnected, NonLeaderStep, LocalState

\* OnDivideWith() leaves the result alone and announces nothing.
LEMMA OnDivideWithBest ==
  ASSUME NEW n \in Node, NEW l \in LocalState, NEW c \in Node
  PROVE  KeepsBest(l, OnDivideWith(n, l, c))
<1>1. CASE l.states = <<>>
  BY <1>1, KeepsBestAlone DEF OnDivideWith
<1>2. CASE l.states # <<>>
  <2> DEFINE rest == [l EXCEPT !.states = Kept(@)]
             msg == StackAssignmentMsg(Halves(n, l, c))
             local == OnAssignment(n, rest, Halves(n, l, c))
  <2>1. rest \in LocalState /\ rest.bestFound = l.bestFound
    BY KeptType DEF LocalState
  <2>2. OnDivideWith(n, l, c) = Effect(local, [j \in Node |-> <<msg>>])
    BY <1>2 DEF OnDivideWith
  <2> HIDE DEF rest
  <2>3. local.bestFound = l.bestFound
    BY <2>1, OnAssignmentBest
  <2>4. Mailed(<<msg>>) = {}
    BY MailedSmall DEF StackAssignmentMsg
  <2> HIDE DEF local, msg
  <2>5. /\ OnDivideWith(n, l, c).local = local
        /\ \A j \in Node : OnDivideWith(n, l, c).out[j] = <<msg>>
    BY <2>2 DEF Effect
  <2> QED BY <2>3, <2>4, <2>5 DEF KeepsBest
<1> QED BY <1>1, <1>2

\* Nor does a division that the leader asks itself for.
LEMMA OwnDivisionBest ==
  ASSUME TypeOK, NEW n \in Node, NEW l \in LocalState, Owns(n, l)
  PROVE  KeepsBest(l, OwnDivision(n, l))
<1> DEFINE c == Cleared(n, l)
           k == AfterEnd(n, l)
           r == AfterRegiving(n, l)
<1>1. c \in LocalState /\ Owns(n, c) /\ c.bestFound = l.bestFound
  BY ClearDisconnectedGood, OthersBest DEF Cleared
<1>2. k = IF NoJobsLeft(n, l) THEN OnTerminate(c) ELSE c
  BY DEF AfterEnd
<1> HIDE DEF c, k
<1>3. k \in LocalState /\ Owns(n, k) /\ k.bestFound = l.bestFound
  BY <1>1, <1>2, OnTerminateGood, OthersBest DEF Good
<1>4. r = IF HeirsOf(n, l) = {} THEN k ELSE OnAssignment(n, k, Regiven(n, l))
  BY DEF AfterRegiving, k
<1>5. Regiven(n, l) \in Assignment
  BY RegivenType
<1> HIDE DEF r
<1>6. r \in LocalState /\ r.bestFound = l.bestFound
  BY <1>3, <1>4, <1>5, OnAssignmentGood, OnAssignmentBest
<1>7. CASE n \in Dividers(n, l)
  <2> DEFINE d == DivideWith(n, l, n)
  <2>1. d \in Node
    BY <1>7, DivideWithNode
  <2>2. OwnDivision(n, l) = OnDivideWith(n, r, d)
    BY <1>7 DEF OwnDivision, r
  <2> HIDE DEF d
  <2>3. KeepsBest(r, OnDivideWith(n, r, d))
    BY <1>6, <2>1, OnDivideWithBest
  <2> QED BY <1>6, <2>2, <2>3 DEF KeepsBest
<1>8. CASE n \notin Dividers(n, l)
  <2>1. OwnDivision(n, l) = Effect(r, Nothing)
    BY <1>8 DEF OwnDivision, r
  <2> QED BY <1>6, <2>1, KeepsBestAlone
<1> QED BY <1>7, <1>8

\* CheckAssignments() announces nothing to anybody.
LEMMA CheckMessagesSilent ==
  ASSUME TypeOK, NEW n \in Node, NEW l \in LocalState, Owns(n, l), NEW sync \in BOOLEAN,
         NEW j \in Node
  PROVE  Silent(CheckMessages(n, l, sync, j))
<1> DEFINE table == StackAssignmentMsg(Cleared(n, l).curr)
           divide == DivideWithMsg(DivideWith(n, l, j))
           p1 == MessagesIf(sync, table)
           p2 == MessagesIf(j \in NewClients(n, l), table)
           p3 == MessagesIf(NoJobsLeft(n, l), TerminateMsg)
           p4 == MessagesIf(HeirsOf(n, l) # {}, RegivenMsg(n, l))
           p5 == MessagesIf(j \in Dividers(n, l) /\ j < n, divide)
           p6 == OwnDivision(n, l).out[j]
           p7 == MessagesIf(j \in Dividers(n, l) /\ j > n, divide)
<1>1. CheckMessages(n, l, sync, j) = p1 \o p2 \o p3 \o p4 \o p5 \o p6 \o p7
  BY DEF CheckMessages
<1>2. table \in Message /\ table.type = "STACK_ASSIGNMENT"
  BY OwnDivisionGood, MessageTypes DEF LocalState, StackAssignmentMsg
<1>3. RegivenMsg(n, l) \in Message /\ RegivenMsg(n, l).type = "STACK_ASSIGNMENT"
  <2>1. Regiven(n, l) \in Assignment /\ WithEntry(Regiven(n, l), n) \in Assignment
    BY RegivenType, AssignmentTypes
  <2> QED BY <2>1, MessageTypes DEF RegivenMsg, StackAssignmentMsg
<1>4. TerminateMsg \in Message /\ TerminateMsg.type = "TERMINATE"
  BY MessageTypes DEF TerminateMsg
<1>5. j \in Dividers(n, l) => divide \in Message /\ divide.type = "DIVIDE_WITH"
  BY DivideWithNode, MessageTypes DEF DivideWithMsg
<1>6. /\ (j \in NewClients(n, l)) \in BOOLEAN /\ NoJobsLeft(n, l) \in BOOLEAN
      /\ (HeirsOf(n, l) # {}) \in BOOLEAN /\ (j \in Dividers(n, l) /\ j < n) \in BOOLEAN
      /\ (j \in Dividers(n, l) /\ j > n) \in BOOLEAN
  BY DEF NoJobsLeft
<1>7. Silent(p6)
  <2>1. OwnDivision(n, l).out[j] \in Seq(Message)
    BY OwnDivisionGood DEF Effects
  <2> QED BY <2>1, OwnDivisionBest DEF Silent, KeepsBest
<1> HIDE DEF table, divide
<1>8. Silent(p1) /\ Silent(p2) /\ Silent(p3) /\ Silent(p4)
  BY <1>2, <1>3, <1>4, <1>6, SilentIf
<1>9. Silent(p5) /\ Silent(p7)
  BY <1>5, <1>6, SilentIf
<1> DEFINE q2 == p1 \o p2
           q3 == q2 \o p3
           q4 == q3 \o p4
           q5 == q4 \o p5
           q6 == q5 \o p6
           q7 == q6 \o p7
<1>10. CheckMessages(n, l, sync, j) = q7
  BY <1>1
<1> HIDE DEF p1, p2, p3, p4, p5, p6, p7
<1>11. Silent(q2)
  BY <1>8, SilentConcat
<1> HIDE DEF q2
<1>12. Silent(q3)
  BY <1>8, <1>11, SilentConcat
<1> HIDE DEF q3
<1>13. Silent(q4)
  BY <1>8, <1>12, SilentConcat
<1> HIDE DEF q4
<1>14. Silent(q5)
  BY <1>9, <1>13, SilentConcat
<1> HIDE DEF q5
<1>15. Silent(q6)
  BY <1>7, <1>14, SilentConcat
<1> HIDE DEF q6
<1>16. Silent(q7)
  BY <1>9, <1>15, SilentConcat
<1> QED BY <1>10, <1>16

\* CheckAssignments() leaves the result alone.
LEMMA CheckBest ==
  ASSUME TypeOK, NEW n \in Node, NEW l \in LocalState, Owns(n, l), NEW sync \in BOOLEAN
  PROVE  KeepsBest(l, CheckAssignments(n, l, sync))
<1>1. CASE l.curr = NoAssignment
  <2> DEFINE m == [l EXCEPT !.state = "Aborted"]
  <2>1. m.bestFound = l.bestFound
    BY DEF LocalState
  <2>2. CheckAssignments(n, l, sync) = Effect(m, Nothing)
    BY <1>1 DEF CheckAssignments
  <2> HIDE DEF m
  <2> QED BY <2>1, <2>2, KeepsBestAlone
<1>2. CASE l.curr # NoAssignment
  <2>1. /\ CheckAssignments(n, l, sync).local = OwnDivision(n, l).local
        /\ \A j \in Node : CheckAssignments(n, l, sync).out[j] = CheckMessages(n, l, sync, j)
    BY <1>2 DEF CheckAssignments, Effect
  <2> QED BY <2>1, OwnDivisionBest, CheckMessagesSilent DEF KeepsBest, Silent
<1> QED BY <1>1, <1>2

\* A node that has explored all it had announces it and counts it in.
LEMMA AnnounceBest ==
  ASSUME NEW n \in Node, NEW e \in Effects, Owns(n, e.local), e.local.states = <<>>
  PROVE  LET f == AnnounceIfComputing(n, e)
         IN  /\ f \in Effects /\ f.local.bestMax = e.local.bestMax
             /\ e.local.state # "Computing" => f = e
             /\ e.local.state = "Computing" =>
                  /\ f.local.bestFound = e.local.bestFound \cup e.local.bestMax
                  /\ f.local.state = "Waiting"
                  /\ \A j \in Node : Mailed(f.out[j]) = Mailed(e.out[j]) \cup e.local.bestMax
<1> DEFINE f == AnnounceIfComputing(n, e)
<1>1. e.local \in LocalState /\ e.out \in [Node -> Seq(Message)] /\ f \in Effects
  BY AnnounceGood DEF Effects
<1>2. CASE e.local.state # "Computing"
  BY <1>1, <1>2 DEF AnnounceIfComputing
<1>3. CASE e.local.state = "Computing"
  <2> DEFINE l == e.local
             best == l.bestMax
             m == OnAssignmentFinished(l, n, best)
             w == [m EXCEPT !.state = "Waiting"]
             msg == FinishedMsg(best)
             out == [j \in Node |-> Append(e.out[j], msg)]
  <2>1. m = [l EXCEPT !.bestFound = @ \cup best, !.curr = WithoutJob(@, n)]
    BY <1>3 DEF OnAssignmentFinished, Owns
  <2>2. m.bestMax = best /\ m.bestFound = l.bestFound \cup best /\ DOMAIN m = DOMAIN l
    BY <1>1, <2>1 DEF LocalState
  <2>3. DOMAIN l = {"state", "states", "bestMax", "bestFound", "curr"}
    BY <1>1 DEF LocalState
  <2>4. f = Effect(w, out)
    BY <1>3 DEF AnnounceIfComputing
  <2>5. best \in SUBSET Path /\ msg \in Message /\ msg.type = "ASSIGNMENT_FINISHED" /\ msg.best = best
    BY <1>1, MessageTypes DEF LocalState, FinishedMsg
  <2> HIDE DEF l, best, m, msg
  <2>6. w.bestMax = best /\ w.bestFound = l.bestFound \cup best /\ w.state = "Waiting"
    BY <2>2, <2>3
  <2> HIDE DEF w, out
  <2>7. f.local = w /\ f.out = out
    BY <2>4 DEF Effect
  <2>8. ASSUME NEW j \in Node
        PROVE  Mailed(out[j]) = Mailed(e.out[j]) \cup best
    <3> DEFINE t == e.out[j]
               u == <<msg>>
    <3>1. t \in Seq(Message)
      BY <1>1
    <3>2. out[j] = Append(t, msg)
      BY DEF out
    <3> HIDE DEF t
    <3>3. Append(t, msg) = t \o u /\ u \in Seq(Message)
      BY <2>5, <3>1, AppendIsConcat
    <3>4. Mailed(u) = best
      BY <2>5, MailedSmall
    <3> HIDE DEF u
    <3>5. Mailed(t \o u) = Mailed(t) \cup best
      BY <3>1, <3>3, <3>4, MailedConcat
    <3> QED BY <3>2, <3>3, <3>5 DEF t
  <2> QED BY <1>1, <1>3, <2>6, <2>7, <2>8 DEF l, best
<1> QED BY <1>2, <1>3

-----------------------------------------------------------------------------
(* Every best arrives *)

\* What is announced is known to the node that announces it.
AnnouncesOwn == \A m, n \in Node : Mailed(chan[m][n]) \subseteq comp[m].bestFound

BestInv == AnnouncesOwn /\ EveryBestArrives

\* What is under way to a node.
LEMMA BestsToIs == \A n \in Node : \A x : x \in BestsTo(n) <=> \E m \in Node : x \in Mailed(chan[m][n])
BY DEF BestsTo, Mailed, Messages

\* What is sent is added to what has been sent.
LEMMA SentMailed ==
  ASSUME NEW n \in Node, NEW out \in [Node -> Seq(Message)],
         NEW ch \in [Node -> [Node -> Seq(Message)]], NEW m \in Node, NEW j \in Node
  PROVE  LET s == Sent(n, out, ch)[m][j]
         IN  /\ Mailed(ch[m][j]) \subseteq Mailed(s)
             /\ Mailed(s) \subseteq Mailed(ch[m][j]) \cup (IF m = n THEN Mailed(out[j]) ELSE {})
             /\ m = n /\ j \in clients[n] /\ ~Gone(j) => Mailed(out[j]) \subseteq Mailed(s)
<1>1. ch[m][j] \in Seq(Message) /\ out[j] \in Seq(Message)
  OBVIOUS
<1>2. Mailed(ch[m][j] \o out[j]) = Mailed(ch[m][j]) \cup Mailed(out[j])
  BY <1>1, MailedConcat
<1>3. Sent(n, out, ch)[m][j] = IF m = n /\ j \in clients[n] /\ ~Gone(j)
                               THEN ch[m][j] \o out[j] ELSE ch[m][j]
  BY DEF Sent
<1> QED BY <1>2, <1>3

\* Node n moves to l: it announces B to all that live on, and learns only what
\* somebody knows.
LEMMA BestsStep ==
  ASSUME IInv, BestInv, NEW n \in Node, NEW l, NEW B,
         comp' = [comp EXCEPT ![n] = l], Living' \subseteq Living,
         comp[n].bestFound \subseteq l.bestFound, B \subseteq l.bestFound,
         \A x \in l.bestFound : x \in B \/ \E k \in Node : x \in comp[k].bestFound,
         \A i, j \in Node : Mailed(chan'[i][j]) \subseteq Mailed(chan[i][j])
                                                           \cup (IF i = n THEN B ELSE {}),
         \A i \in Node, j \in Living' :
           Mailed(chan[i][j]) \subseteq Mailed(chan'[i][j])
                                          \cup (IF j = n THEN l.bestFound ELSE {}),
         \A j \in Living' : j # n => B \subseteq Mailed(chan'[n][j])
  PROVE  BestInv'
<1>1. comp'[n] = l /\ \A m \in Node : m # n => comp'[m] = comp[m]
  BY DEF IInv, TypeOK
<1>2. \A m \in Node : comp[m].bestFound \subseteq comp'[m].bestFound
  BY <1>1
<1>3. AnnouncesOwn'
  <2> SUFFICES ASSUME NEW i \in Node, NEW j \in Node, NEW x \in Mailed(chan'[i][j])
               PROVE  x \in comp'[i].bestFound
    BY DEF AnnouncesOwn, Mailed
  <2>1. CASE x \in Mailed(chan[i][j])
    BY <1>2, <2>1 DEF BestInv, AnnouncesOwn
  <2>2. CASE i = n /\ x \in B
    BY <1>1, <2>2
  <2> QED BY <2>1, <2>2
<1>4. Living' \subseteq Node /\ Living \subseteq Node
  BY DEF Living
<1>5. \A j \in Node : \A x : x \in BestsTo(j) <=> \E m \in Node : x \in Mailed(chan[m][j])
  BY BestsToIs
<1>6. \A j \in Node : \A x : x \in BestsTo(j)' <=> \E m \in Node : x \in Mailed(chan'[m][j])
  BY DEF BestsTo, Mailed, Messages
<1>7. ASSUME NEW k \in Node, NEW j \in Living', NEW x \in comp[k].bestFound
      PROVE  x \in comp'[j].bestFound \cup BestsTo(j)'
  <2>1. x \in comp[j].bestFound \/ x \in BestsTo(j)
    BY DEF BestInv, EveryBestArrives
  <2>2. CASE x \in comp[j].bestFound
    BY <1>2, <1>4, <2>2
  <2>3. CASE x \in BestsTo(j)
    <3>1. PICK m \in Node : x \in Mailed(chan[m][j])
      BY <1>4, <1>5, <2>3
    <3>2. x \in Mailed(chan'[m][j]) \/ (j = n /\ x \in l.bestFound)
      BY <3>1
    <3> QED BY <1>1, <1>4, <1>6, <3>2
  <2> QED BY <2>1, <2>2, <2>3
<1>8. ASSUME NEW j \in Living', NEW x \in B
      PROVE  x \in comp'[j].bestFound \cup BestsTo(j)'
  BY <1>1, <1>4, <1>6
<1>9. ASSUME NEW m \in Node, NEW j \in Living', NEW x \in comp'[m].bestFound
      PROVE  x \in comp'[j].bestFound \cup BestsTo(j)'
  <2>1. CASE m # n
    BY <1>1, <1>7, <2>1
  <2>2. CASE m = n
    BY <1>1, <1>7, <1>8, <2>2
  <2> QED BY <2>1, <2>2
<1>10. EveryBestArrives'
  BY <1>9 DEF EveryBestArrives
<1> QED BY <1>3, <1>10 DEF BestInv

\* A step of a node that hears and announces nothing, whatever it sends otherwise.
LEMMA BestsStay ==
  ASSUME IInv, BestInv, NEW n \in Node, NEW l, comp' = [comp EXCEPT ![n] = l],
         l.bestFound = comp[n].bestFound, Living' \subseteq Living,
         \A i, j \in Node : Mailed(chan'[i][j]) \subseteq Mailed(chan[i][j]),
         \A i \in Node, j \in Living' : Mailed(chan[i][j]) \subseteq Mailed(chan'[i][j])
  PROVE  BestInv'
<1> DEFINE B == {}
<1>1. B \subseteq l.bestFound /\ \A j \in Living' : j # n => B \subseteq Mailed(chan'[n][j])
  OBVIOUS
<1>2. \A x \in l.bestFound : x \in B \/ \E k \in Node : x \in comp[k].bestFound
  OBVIOUS
<1>3. \A i, j \in Node : Mailed(chan'[i][j]) \subseteq Mailed(chan[i][j])
                                                           \cup (IF i = n THEN B ELSE {})
  OBVIOUS
<1>4. \A i \in Node, j \in Living' :
        Mailed(chan[i][j]) \subseteq Mailed(chan'[i][j]) \cup (IF j = n THEN l.bestFound ELSE {})
  OBVIOUS
<1> HIDE DEF B
<1> QED BY <1>1, <1>2, <1>3, <1>4, BestsStep

\* Nobody reads what was sent to a process that ends.
LEMMA UnreadMailed ==
  ASSUME TypeOK, NEW n \in Node
  PROVE  \A i, j \in Node : Mailed(Unread(n)[i][j]) = IF j = n THEN {} ELSE Mailed(chan[i][j])
<1>1. \A i, j \in Node : Unread(n)[i][j] = IF j = n THEN <<>> ELSE chan[i][j]
  BY DEF Unread, TypeOK
<1> QED BY <1>1, MailedSmall

\* A process that ends keeps its result; what was sent to it is discarded.
LEMMA BestsEnd ==
  ASSUME IInv, BestInv, NEW n \in Node, NEW l, comp' = [comp EXCEPT ![n] = l],
         l.bestFound = comp[n].bestFound, NEW p \in {"done", "dead"},
         pc' = [pc EXCEPT ![n] = p], chan' = Unread(n)
  PROVE  BestInv'
<1>1. TypeOK /\ pc'[n] = p /\ \A m \in Node : m # n => pc'[m] = pc[m]
  BY DEF IInv, TypeOK
<1>2. Living' \subseteq Living /\ n \notin Living' /\ Living' \subseteq Node
  BY <1>1 DEF Living, Gone
<1>3. \A i, j \in Node : Mailed(chan'[i][j]) = IF j = n THEN {} ELSE Mailed(chan[i][j])
  BY <1>1, UnreadMailed
<1>4. \A i, j \in Node : Mailed(chan'[i][j]) \subseteq Mailed(chan[i][j])
  BY <1>3
<1>5. \A i \in Node, j \in Living' : Mailed(chan[i][j]) \subseteq Mailed(chan'[i][j])
  BY <1>2, <1>3
<1> QED BY <1>2, <1>4, <1>5, BestsStay

\* compute() and what follows it.
LEMMA ComputeStepBests ==
  ASSUME IInv, NetInv, BestInv, NEW n \in Node, ~Gone(n), NEW e \in Effects,
         Owns(n, e.local), KeepsBest(comp[n], e), NEW left, ComputeStep(n, e, left)
  PROVE  BestInv'
<1>1. /\ e.local \in LocalState /\ Linked
      /\ e.local.bestFound = comp[n].bestFound /\ \A j \in Node : Mailed(e.out[j]) = {}
  BY DEF IInv, TypeOK, Effects, NetInv, KeepsBest
<1> DEFINE out == e.out
<1>0. out \in [Node -> Seq(Message)] /\ chan \in [Node -> [Node -> Seq(Message)]]
  BY DEF IInv, TypeOK, Effects
<1>2. \A m \in Node : m # n => pc'[m] = pc[m]
  BY DEF ComputeStep, IInv, TypeOK
<1>3. Living' \subseteq Living /\ Living' \subseteq Node
  BY <1>2 DEF Living, Gone
<1>4. \A j \in Living' : j # n => j \in clients[n] /\ ~Gone(j)
  BY <1>1, <1>3 DEF Linked, Living
<1>5. CASE e.local.states # <<>>
  <2> DEFINE l == Explore(e.local)
  <2>1. comp' = [comp EXCEPT ![n] = l] /\ chan' = Sent(n, e.out, chan)
    BY <1>5 DEF ComputeStep
  <2>2. l.bestFound = comp[n].bestFound
    BY <1>1 DEF Explore, LocalState
  <2> HIDE DEF l
  <2>3. \A i, j \in Node : /\ Mailed(chan'[i][j]) \subseteq Mailed(chan[i][j])
                           /\ Mailed(chan[i][j]) \subseteq Mailed(chan'[i][j])
    <3> SUFFICES ASSUME NEW i \in Node, NEW j \in Node
                 PROVE  /\ Mailed(chan'[i][j]) \subseteq Mailed(chan[i][j])
                        /\ Mailed(chan[i][j]) \subseteq Mailed(chan'[i][j])
      OBVIOUS
    <3> HIDE DEF out
    <3>1. /\ Mailed(chan[i][j]) \subseteq Mailed(Sent(n, out, chan)[i][j])
          /\ Mailed(Sent(n, out, chan)[i][j])
               \subseteq Mailed(chan[i][j]) \cup (IF i = n THEN Mailed(out[j]) ELSE {})
      BY <1>0, SentMailed
    <3> QED BY <1>1, <2>1, <3>1 DEF out
  <2> QED BY <1>3, <2>1, <2>2, <2>3, BestsStay
<1>6. CASE e.local.states = <<>>
  <2> DEFINE f == AnnounceIfComputing(n, e)
             B == IF e.local.state = "Computing" THEN e.local.bestMax ELSE {}
  <2>1. comp' = [comp EXCEPT ![n] = f.local] /\ chan' = Sent(n, f.out, chan)
    BY <1>6 DEF ComputeStep
  <2>2. /\ f \in Effects
        /\ e.local.state # "Computing" => f = e
        /\ e.local.state = "Computing" =>
             /\ f.local.bestFound = e.local.bestFound \cup e.local.bestMax
             /\ \A j \in Node : Mailed(f.out[j]) = Mailed(e.out[j]) \cup e.local.bestMax
    BY <1>6, AnnounceBest
  <2> HIDE DEF f
  <2>3. /\ f.local.bestFound = comp[n].bestFound \cup B
        /\ \A j \in Node : Mailed(f.out[j]) = B
    BY <1>1, <2>2
  <2> HIDE DEF B
  <2>4. f.out \in [Node -> Seq(Message)]
    BY <2>2 DEF Effects
  <2>5. \A i, j \in Node : /\ Mailed(chan[i][j]) \subseteq Mailed(chan'[i][j])
                           /\ Mailed(chan'[i][j]) \subseteq Mailed(chan[i][j])
                                                              \cup (IF i = n THEN B ELSE {})
    <3> SUFFICES ASSUME NEW i \in Node, NEW j \in Node
                 PROVE  /\ Mailed(chan[i][j]) \subseteq Mailed(chan'[i][j])
                        /\ Mailed(chan'[i][j]) \subseteq Mailed(chan[i][j])
                                                           \cup (IF i = n THEN B ELSE {})
      OBVIOUS
    <3>1. /\ Mailed(chan[i][j]) \subseteq Mailed(Sent(n, f.out, chan)[i][j])
          /\ Mailed(Sent(n, f.out, chan)[i][j])
               \subseteq Mailed(chan[i][j]) \cup (IF i = n THEN Mailed(f.out[j]) ELSE {})
      BY <1>0, <2>4, SentMailed
    <3> QED BY <2>1, <2>3, <3>1
  <2>6. \A j \in Living' : j # n => B \subseteq Mailed(chan'[n][j])
    <3> SUFFICES ASSUME NEW j \in Living', j # n
                 PROVE  B \subseteq Mailed(chan'[n][j])
      OBVIOUS
    <3>1. j \in Node /\ j \in clients[n] /\ ~Gone(j)
      BY <1>3, <1>4
    <3>2. Mailed(f.out[j]) \subseteq Mailed(Sent(n, f.out, chan)[n][j])
      BY <1>0, <2>4, <3>1, SentMailed
    <3> QED BY <2>1, <2>3, <3>1, <3>2
  <2> DEFINE l == f.local
  <2>7. /\ comp' = [comp EXCEPT ![n] = l] /\ comp[n].bestFound \subseteq l.bestFound
        /\ B \subseteq l.bestFound
        /\ \A x \in l.bestFound : x \in B \/ \E k \in Node : x \in comp[k].bestFound
    BY <2>1, <2>3
  <2>8. \A i \in Node, j \in Living' :
          Mailed(chan[i][j]) \subseteq Mailed(chan'[i][j]) \cup (IF j = n THEN l.bestFound ELSE {})
    BY <1>3, <2>5
  <2> HIDE DEF l
  <2> QED BY <1>3, <2>5, <2>6, <2>7, <2>8, BestsStep
<1> QED BY <1>5, <1>6

\* A message is read: what it announces is known to the node that sent it.
LEMMA ReadBests ==
  ASSUME IInv, NetInv, BestInv, NEW n \in Node, NEW m \in Node, ReadMessage(n, m)
  PROVE  BestInv'
<1> DEFINE s == chan[m][n]
           msg == Head(s)
           e == Handle(n, m, msg)
           read == [chan EXCEPT ![m][n] = Tail(@)]
           l == comp[n]
<1>1. /\ pc[n] = "loop" /\ s # <<>>
      /\ IF e.local.state = "Aborted"
         THEN Abort(n, e.local)
         ELSE /\ comp' = [comp EXCEPT ![n] = e.local]
              /\ chan' = Sent(n, e.out, read)
              /\ pc' = pc
  BY DEF ReadMessage
<1>2. /\ TypeOK /\ chan \in [Node -> [Node -> Seq(Message)]] /\ s \in Seq(Message)
      /\ l \in LocalState /\ l.state # "Aborted" /\ ~Gone(n)
  <2>1. pc[n] = "loop" /\ ~Gone(n)
    BY DEF ReadMessage, Gone
  <2>2. l.state # "Aborted"
    BY <2>1 DEF NetInv, LocalsRight
  <2> QED BY <2>1, <2>2 DEF IInv, TypeOK
<1>3. /\ msg \in Message /\ Tail(s) \in Seq(Message)
      /\ Mailed(s) = Mailed(Tail(s))
                       \cup (IF msg.type = "ASSIGNMENT_FINISHED" THEN msg.best ELSE {})
  BY <1>1, <1>2, MailedTail
<1>4. /\ read \in [Node -> [Node -> Seq(Message)]]
      /\ \A i, j \in Node : read[i][j] = IF i = m /\ j = n THEN Tail(s) ELSE chan[i][j]
  BY <1>2, <1>3
<1>5. e \in Effects
  BY <1>1, <1>3, HandleGood
<1>6. msg.type # "ASSIGNMENT_FINISHED" => KeepsBest(l, e)
  <2> SUFFICES ASSUME msg.type # "ASSIGNMENT_FINISHED"
               PROVE  KeepsBest(l, e)
    OBVIOUS
  <2>1. l \in LocalState
    BY <1>2 DEF TypeOK
  <2>2. CASE msg.type = "STACK_ASSIGNMENT"
    <3>1. e = Effect(OnAssignment(n, l, msg.assign), Nothing)
      BY <2>2 DEF Handle
    <3>2. OnAssignment(n, l, msg.assign).bestFound = l.bestFound
      BY <2>1, OnAssignmentBest
    <3> QED BY <3>1, <3>2, KeepsBestAlone
  <2>3. CASE msg.type = "DIVIDE_WITH"
    <3>1. e = OnDivideWith(n, l, msg.with) /\ msg.with \in Node
      BY <1>3, <2>3, MessageContents DEF Handle
    <3> QED BY <2>1, <3>1, OnDivideWithBest
  <2>4. CASE msg.type = "TERMINATE"
    <3>1. e = Effect(OnTerminate(l), Nothing)
      BY <2>4 DEF Handle
    <3> QED BY <2>1, <3>1, OthersBest, KeepsBestAlone
  <2> QED BY <1>3, <2>2, <2>3, <2>4, MessageContents
<1>7. msg.type = "ASSIGNMENT_FINISHED" =>
        /\ \A j \in Node : Mailed(e.out[j]) = {}
        /\ IF e.local.state = "Aborted" THEN e.local.bestFound = l.bestFound
                                        ELSE e.local.bestFound = l.bestFound \cup msg.best
  <2> SUFFICES ASSUME msg.type = "ASSIGNMENT_FINISHED"
               PROVE  /\ \A j \in Node : Mailed(e.out[j]) = {}
                      /\ IF e.local.state = "Aborted"
                         THEN e.local.bestFound = l.bestFound
                         ELSE e.local.bestFound = l.bestFound \cup msg.best
    OBVIOUS
  <2> DEFINE k == OnAssignmentFinished(l, m, msg.best)
  <2>1. e = Effect(k, Nothing)
    BY DEF Handle
  <2>2. IF k.state = "Aborted" THEN k.bestFound = l.bestFound
                               ELSE k.bestFound = l.bestFound \cup msg.best
    <3>1. CASE l.curr = NoAssignment
      BY <1>2, <3>1 DEF OnAssignmentFinished, LocalState
    <3>2. CASE l.curr # NoAssignment
      BY <1>2, <3>2 DEF OnAssignmentFinished, LocalState
    <3> QED BY <3>1, <3>2
  <2> HIDE DEF k
  <2>3. e.local = k /\ \A j \in Node : e.out[j] = <<>>
    BY <2>1 DEF Effect, Nothing
  <2> QED BY <2>2, <2>3, MailedSmall
<1> DEFINE news == IF msg.type = "ASSIGNMENT_FINISHED" THEN msg.best ELSE {}
           g == e.local
<1>8. /\ \A j \in Node : Mailed(e.out[j]) = {}
      /\ g.bestFound = IF msg.type = "ASSIGNMENT_FINISHED" /\ g.state = "Aborted"
                       THEN l.bestFound ELSE l.bestFound \cup news
  BY <1>6, <1>7 DEF KeepsBest
<1>9. news \subseteq comp[m].bestFound
  BY <1>3 DEF BestInv, AnnouncesOwn
<1>10. e.out \in [Node -> Seq(Message)]
  BY <1>5 DEF Effects
<1>11. Mailed(s) = Mailed(Tail(s)) \cup news
  BY <1>3
<1> HIDE DEF e, g, news, read, msg
<1>12. CASE g.state = "Aborted"
  <2>1. g.bestFound = l.bestFound
    BY <1>8, <1>12 DEF news
  <2>2. /\ comp' = [comp EXCEPT ![n] = g] /\ pc' = [pc EXCEPT ![n] = "dead"]
        /\ chan' = Unread(n)
    BY <1>1, <1>12 DEF Abort, g
  <2> QED BY <2>1, <2>2, BestsEnd
<1>13. CASE g.state # "Aborted"
  <2>1. comp' = [comp EXCEPT ![n] = g] /\ chan' = Sent(n, e.out, read) /\ pc' = pc
    BY <1>1, <1>13 DEF g
  <2>2. g.bestFound = l.bestFound \cup news
    BY <1>8, <1>13
  <2>3. Living' = Living
    BY <2>1 DEF Living, Gone
  <2>4. \A i, j \in Node : /\ Mailed(read[i][j]) \subseteq Mailed(chan'[i][j])
                           /\ Mailed(chan'[i][j]) \subseteq Mailed(read[i][j])
    <3> SUFFICES ASSUME NEW i \in Node, NEW j \in Node
                 PROVE  /\ Mailed(read[i][j]) \subseteq Mailed(chan'[i][j])
                        /\ Mailed(chan'[i][j]) \subseteq Mailed(read[i][j])
      OBVIOUS
    <3>1. /\ Mailed(read[i][j]) \subseteq Mailed(Sent(n, e.out, read)[i][j])
          /\ Mailed(Sent(n, e.out, read)[i][j])
               \subseteq Mailed(read[i][j]) \cup (IF i = n THEN Mailed(e.out[j]) ELSE {})
      BY <1>4, <1>10, SentMailed
    <3> QED BY <1>8, <2>1, <3>1
  <2>5. \A i, j \in Node : /\ Mailed(read[i][j]) \subseteq Mailed(chan[i][j])
                           /\ Mailed(chan[i][j]) \subseteq
                                Mailed(read[i][j]) \cup (IF j = n THEN news ELSE {})
    BY <1>4, <1>11
  <2> DEFINE B == {}
  <2>6. /\ Living' \subseteq Living /\ comp' = [comp EXCEPT ![n] = g]
        /\ comp[n].bestFound \subseteq g.bestFound /\ B \subseteq g.bestFound
        /\ \A x \in g.bestFound : x \in B \/ \E k \in Node : x \in comp[k].bestFound
        /\ \A j \in Living' : j # n => B \subseteq Mailed(chan'[n][j])
    BY <1>9, <2>1, <2>2, <2>3
  <2>7. \A i, j \in Node : Mailed(chan'[i][j]) \subseteq Mailed(chan[i][j])
                                                            \cup (IF i = n THEN B ELSE {})
    BY <2>4, <2>5
  <2>8. \A i \in Node, j \in Living' :
          Mailed(chan[i][j]) \subseteq Mailed(chan'[i][j]) \cup (IF j = n THEN g.bestFound ELSE {})
    <3>1. Living' \subseteq Node
      BY <2>3 DEF Living
    <3> QED BY <2>2, <2>4, <2>5, <3>1
  <2> HIDE DEF B, l
  <2> QED BY <2>6, <2>7, <2>8, BestsStep
<1> QED BY <1>12, <1>13

\* A node that sends nothing and changes nothing of its best
LEMMA BestsUntouched ==
  ASSUME IInv, BestInv, NEW n \in Node, NEW l, comp' = [comp EXCEPT ![n] = l],
         l.bestFound = comp[n].bestFound, Living' \subseteq Living, chan' = chan
  PROVE  BestInv'
<1>1. Living' \subseteq Node
  BY DEF Living
<1> QED BY <1>1, BestsStay

\* A step of a process: what it knows, it has told everybody or was told by somebody.
LEMMA ProcessBests ==
  ASSUME IInv, NetInv, BestInv, NEW n \in Node, Process(n)
  PROVE  BestInv'
<1> DEFINE l == comp[n]
<1>1. TypeOK /\ l \in LocalState /\ Owns(n, l) /\ ~Gone(n) /\ comp = [comp EXCEPT ![n] = l]
  BY ProcessRuns DEF IInv, TypeOK, NodeInv
<1>2. ASSUME NEW m \in LocalState, Owns(n, m), m.bestFound = l.bestFound,
             NEW left, ComputeStep(n, Effect(m, Nothing), left)
      PROVE  BestInv'
  <2> DEFINE e == Effect(m, Nothing)
  <2>1. e \in Effects /\ e.local = m /\ KeepsBest(l, e)
    BY <1>2, NothingType, KeepsBestAlone DEF Effect
  <2>2. ComputeStep(n, e, left)
    BY <1>2
  <2> HIDE DEF e
  <2> QED BY <1>1, <1>2, <2>1, <2>2, ComputeStepBests
<1>3. ASSUME StartComputation(n)
      PROVE  BestInv'
  <2>1. comp' = comp /\ chan' = chan /\ pc' = [pc EXCEPT ![n] = "loop"]
    BY <1>3 DEF StartComputation
  <2>2. Living' \subseteq Living
    BY <1>1, <2>1 DEF Living, Gone, TypeOK
  <2> QED BY <1>1, <2>1, <2>2, BestsUntouched
<1>4. ASSUME BeginInit(n)
      PROVE  BestInv'
  <2> DEFINE m == [l EXCEPT !.state = "Waiting", !.states = @ \o Roots]
  <2>1. comp' = [comp EXCEPT ![n] = m] /\ chan' = chan /\ pc' = [pc EXCEPT ![n] = "init"]
    BY <1>4 DEF BeginInit
  <2>2. m.bestFound = l.bestFound
    BY <1>1 DEF LocalState
  <2> HIDE DEF m
  <2>3. Living' \subseteq Living
    BY <1>1, <2>1 DEF Living, Gone, TypeOK
  <2> QED BY <2>1, <2>2, <2>3, BestsUntouched
<1>5. ASSUME ExploreFirst(n)
      PROVE  BestInv'
  <2> DEFINE m == Explore(l)
  <2>1. comp' = [comp EXCEPT ![n] = m] /\ chan' = chan /\ pc' = pc
    BY <1>5 DEF ExploreFirst
  <2>2. m.bestFound = l.bestFound
    BY <1>1 DEF Explore, LocalState
  <2> HIDE DEF m
  <2>3. Living' \subseteq Living
    BY <2>1 DEF Living, Gone
  <2> QED BY <2>1, <2>2, <2>3, BestsUntouched
<1>6. ASSUME DivideInit(n)
      PROVE  BestInv'
  <2>1. PICK position \in [dealTo[n] -> 1 .. Cardinality(dealTo[n])] :
          LET jobs == DealtJobs(n, position)
          IN  ComputeStep(n,
                Effect(OnAssignment(n, comp[n], jobs),
                       [j \in Node |-> MessagesIf(j \in dealTo[n], StackAssignmentMsg(jobs))]),
                LoopCycles + 1)
    BY <1>6 DEF DivideInit
  <2> DEFINE jobs == DealtJobs(n, position)
             after == OnAssignment(n, l, jobs)
             msg == StackAssignmentMsg(jobs)
             out == [j \in Node |-> MessagesIf(j \in dealTo[n], msg)]
             e == Effect(after, out)
  <2>2. jobs \in Assignment
    BY DealtJobsType
  <2>3. ComputeStep(n, e, LoopCycles + 1)
    BY <2>1
  <2> HIDE DEF jobs
  <2>4. after \in LocalState /\ Good(n, after) /\ after.bestFound = l.bestFound
    BY <1>1, <2>2, OnAssignmentGood, OnAssignmentBest
  <2>5. msg \in Message /\ msg.type # "ASSIGNMENT_FINISHED"
    BY <2>2, MessageTypes DEF StackAssignmentMsg
  <2> HIDE DEF after, msg
  <2>6. \A j \in Node : Silent(MessagesIf(j \in dealTo[n], msg))
    <3>1. \A j \in Node : (j \in dealTo[n]) \in BOOLEAN
      OBVIOUS
    <3> QED BY <2>5, <3>1, SilentIf
  <2>7. out \in [Node -> Seq(Message)] /\ \A j \in Node : Mailed(out[j]) = {}
    BY <2>6 DEF Silent
  <2> HIDE DEF out
  <2>8. e \in Effects /\ e.local = after /\ KeepsBest(l, e)
    BY <2>4, <2>7 DEF Effect, Effects, KeepsBest
  <2> HIDE DEF e
  <2>9. Owns(n, e.local)
    BY <2>4, <2>8 DEF Good
  <2> QED BY <1>1, <2>3, <2>8, <2>9, ComputeStepBests
<1>7. ASSUME Loop(n)
      PROVE  BestInv'
  <2>1. IdleEmpty(l)
    BY <1>7 DEF Loop, Iterate, IterateAndClear, IterateAndCheck, MayIterate, IInv, NodeInv
  <2>2. /\ NonLeaderStep(l) \in LocalState /\ Owns(n, NonLeaderStep(l))
        /\ NonLeaderStep(l).bestFound = l.bestFound
    BY <1>1, <2>1, NonLeaderStepGood, OthersBest
  <2>3. CASE Iterate(n)
    <3> DEFINE m == IF n \in leader THEN l ELSE NonLeaderStep(l)
    <3>1. m \in LocalState /\ Owns(n, m) /\ m.bestFound = l.bestFound
      BY <1>1, <2>2
    <3>2. ComputeStep(n, Effect(m, Nothing), LoopCycles + 1)
      BY <2>3 DEF Iterate
    <3> HIDE DEF m
    <3> QED BY <1>2, <3>1, <3>2
  <2>4. CASE IterateAndClear(n)
    <3> DEFINE k == NonLeaderStep(l)
               m == ClearDisconnected(n, k)
    <3>1. ComputeStep(n, Effect(m, Nothing), LoopCycles + 1)
      BY <2>4 DEF IterateAndClear
    <3> HIDE DEF k
    <3>2. m \in LocalState /\ Owns(n, m) /\ m.bestFound = l.bestFound
      BY <2>2, ClearDisconnectedGood, OthersBest DEF k
    <3> HIDE DEF m
    <3> QED BY <1>2, <3>1, <3>2
  <2>5. ASSUME NEW sync \in BOOLEAN, IterateAndCheck(n, sync)
        PROVE  BestInv'
    <3> DEFINE e == CheckAssignments(n, l, sync)
    <3>1. e \in Effects /\ Owns(n, e.local) /\ KeepsBest(l, e)
      BY <1>1, <2>1, CheckAssignmentsGood, CheckBest
    <3>2. IF e.local.state = "Aborted" THEN Abort(n, e.local)
                                       ELSE ComputeStep(n, e, LoopCycles + 1)
      BY <2>5 DEF IterateAndCheck
    <3> HIDE DEF e
    <3>3. CASE e.local.state = "Aborted"
      <4>1. /\ comp' = [comp EXCEPT ![n] = e.local] /\ pc' = [pc EXCEPT ![n] = "dead"]
            /\ chan' = Unread(n)
        BY <3>2, <3>3 DEF Abort
      <4> QED BY <3>1, <4>1, BestsEnd DEF KeepsBest
    <3>4. CASE e.local.state # "Aborted"
      BY <1>1, <3>1, <3>2, <3>4, ComputeStepBests
    <3> QED BY <3>3, <3>4
  <2> QED BY <1>7, <2>3, <2>4, <2>5 DEF Loop
<1>8. ASSUME ContinueCompute(n)
      PROVE  BestInv'
  <2>1. ComputeStep(n, Effect(l, Nothing), fuel[n])
    BY <1>8 DEF ContinueCompute
  <2> HIDE DEF l
  <2> QED BY <1>1, <1>2, <2>1
<1>9. ASSUME Read(n)
      PROVE  BestInv'
  BY <1>9, ReadBests DEF Read
<1>10. ASSUME SeeFinished(n)
       PROVE  BestInv'
  <2>1. comp' = comp /\ chan' = chan /\ pc' = pc
    BY <1>10 DEF SeeFinished
  <2>2. Living' \subseteq Living
    BY <2>1 DEF Living, Gone
  <2> QED BY <1>1, <2>1, <2>2, BestsUntouched
<1>11. ASSUME Terminate(n)
       PROVE  BestInv'
  <2> DEFINE m == OnTerminate(l)
  <2>1. comp' = [comp EXCEPT ![n] = m] /\ chan' = chan /\ pc' = pc
    BY <1>11 DEF Terminate, OnTerminate
  <2>2. m.bestFound = l.bestFound
    BY <1>1, OthersBest
  <2> HIDE DEF m
  <2>3. Living' \subseteq Living
    BY <2>1 DEF Living, Gone
  <2> QED BY <2>1, <2>2, <2>3, BestsUntouched
<1>12. ASSUME EndLoop(n)
       PROVE  BestInv'
  <2>1. comp' = comp /\ chan' = Unread(n) /\ pc' = [pc EXCEPT ![n] = "done"]
    BY <1>12 DEF EndLoop
  <2> QED BY <1>1, <2>1, BestsEnd
<1> QED BY <1>3, <1>4, <1>5, <1>6, <1>7, <1>8, <1>9, <1>10, <1>11, <1>12 DEF Process

\* A step of the network, when a crash loses nothing that was sent.
LEMMA NetworkBests ==
  ASSUME IInv, BestInv, TailLoss = FALSE, Network
  PROVE  BestInv'
<1>1. CASE \E n \in Node : Crash(n)
  <2>1. PICK n \in Node : Crash(n)
    BY <1>1
  <2>2. /\ comp' = [comp EXCEPT ![n] = comp[n]] /\ chan' = Unread(n)
        /\ pc' = [pc EXCEPT ![n] = "dead"]
    BY <2>1 DEF Crash, IInv, TypeOK
  <2> QED BY <2>2, BestsEnd
<1>2. CASE UNCHANGED <<comp, pc, chan>>
  BY <1>2 DEF BestInv, AnnouncesOwn, EveryBestArrives, BestsTo, Messages, Living, Gone
<1> QED BY <1>1, <1>2 DEF Network, Elect, Connect, LoseLast, Disconnect

\* Every step keeps the invariant.
LEMMA StepBests ==
  ASSUME IInv, NetInv, BestInv, TailLoss = FALSE, [Next]_vars
  PROVE  BestInv'
<1>1. CASE UNCHANGED <<comp, pc, chan>>
  BY <1>1 DEF BestInv, AnnouncesOwn, EveryBestArrives, BestsTo, Messages, Living, Gone
<1>2. CASE \E n \in Node : Process(n)
  BY <1>2, ProcessBests
<1>3. CASE Network
  BY <1>3, NetworkBests
<1> QED BY <1>1, <1>2, <1>3 DEF Next, AllStopped, vars

\* A best that some node knows is known to every node that runs, or in a message to
\* it: whatever the delays of the messages and however often jobs are divided,
\* announced and given again, no OnAssignmentFinished() and no ComputeStep() loses a
\* result.  It supposes that all processes know each other from the start and that a
\* crash loses nothing that was sent; a late node has missed what was announced
\* before, and a lost message is not sent again.
THEOREM BestsArrive ==
  ASSUME Late = {}, TailLoss = FALSE
  PROVE  Spec => []EveryBestArrives
<1>1. Init => IInv /\ NetInv /\ BestInv
  <2> SUFFICES ASSUME Init
               PROVE  IInv /\ NetInv /\ BestInv
    OBVIOUS
  <2>1. IInv /\ NetInv
    BY InitInv, NetInit
  <2>2. \A m, n \in Node : comp[m].bestFound = {} /\ chan[m][n] = <<>>
    BY DEF Init, InitLocal
  <2>3. AnnouncesOwn /\ EveryBestArrives
    BY <2>2, MailedSmall DEF AnnouncesOwn, EveryBestArrives
  <2> QED BY <2>1, <2>3 DEF BestInv
<1>2. IInv /\ NetInv /\ BestInv /\ [Next]_vars => (IInv /\ NetInv /\ BestInv)'
  BY StepInv, StepPasses, StepBests
<1>3. IInv /\ NetInv /\ BestInv => EveryBestArrives
  BY DEF BestInv
<1> QED BY <1>1, <1>2, <1>3, PTL DEF Spec


-----------------------------------------------------------------------------
(* The job is not lost *)

\* The job has not been started: no node has a table.
NothingYet ==
  Quiet /\ \A n \in Node : pc[n] # "init" /\ comp[n].curr = NoAssignment

\* A step loses work: what OnAssignment() leaves behind at a busy node is nowhere else.
LosesWork == ~(Dropped \subseteq WorkThere')

JobKept == Living = Node => WholeJob \subseteq WorkThere \/ NothingYet

\* compute() and what follows it start no job.
LEMMA ComputeStepYet ==
  ASSUME IInv, NothingYet, NEW n \in Node, NEW m \in LocalState, m.curr = NoAssignment,
         m.state # "Computing", NEW left, ComputeStep(n, Effect(m, Nothing), left)
  PROVE  NothingYet'
<1> DEFINE e == Effect(m, Nothing)
<1>1. e.local = m /\ e.out = Nothing /\ AnnounceIfComputing(n, e) = e
  BY DEF Effect, AnnounceIfComputing
<1>2. ComputeStep(n, e, left)
  OBVIOUS
<1> HIDE DEF e
<1>3. \E l : comp' = [comp EXCEPT ![n] = l] /\ l.curr = NoAssignment
  <2>1. CASE m.states = <<>>
    BY <1>1, <1>2, <2>1 DEF ComputeStep
  <2>2. CASE m.states # <<>>
    <3>1. Explore(m).curr = NoAssignment
      BY DEF Explore, LocalState
    <3> QED BY <1>1, <1>2, <2>2, <3>1 DEF ComputeStep
  <2> QED BY <2>1, <2>2
<1>4. \A k \in Node : comp'[k].curr = NoAssignment
  BY <1>3 DEF IInv, TypeOK, NothingYet
<1>5. \A k \in Node : pc'[k] # "init"
  BY <1>2 DEF ComputeStep, IInv, TypeOK, NothingYet
<1>6. chan' = Sent(n, Nothing, chan)
  BY <1>1, <1>2 DEF ComputeStep
<1>7. \A i, j \in Node : chan'[i][j] = <<>>
  <2>1. chan \in [Node -> [Node -> Seq(Message)]]
    BY DEF IInv, TypeOK
  <2>2. \A i, j \in Node :
          chan'[i][j] = IF i = n /\ j \in clients[n] /\ ~Gone(j) THEN chan[n][j] \o Nothing[j]
                                                               ELSE chan[i][j]
    BY <1>6, <2>1 DEF Sent
  <2>3. \A i, j \in Node : chan[i][j] = <<>> /\ Nothing[j] = <<>>
    BY DEF NothingYet, Quiet, Nothing
  <2>4. <<>> \o <<>> = <<>>
    OBVIOUS
  <2> QED BY <2>2, <2>3, <2>4
<1> QED BY <1>4, <1>5, <1>7 DEF NothingYet, Quiet

\* The job is there once it has been put on the stack of a leader.
LEMMA ProcessStarts ==
  ASSUME IInv, NetInv, NothingYet, NEW n \in Node, Process(n), Living' = Node
  PROVE  WholeJob \subseteq WorkThere' \/ NothingYet'
<1> DEFINE l == comp[n]
<1>1. /\ TypeOK /\ l \in LocalState /\ l.curr = NoAssignment /\ pc[n] # "init"
      /\ l.state # "Computing" /\ \A j \in Node : chan[j][n] = <<>>
  BY DEF IInv, NodeInv, Owns, TypeOK, NothingYet, Quiet
<1>2. CASE UNCHANGED <<comp, chan>> /\ \E p \in PC \ {"init"} : pc' = [pc EXCEPT ![n] = p]
  BY <1>1, <1>2 DEF NothingYet, Quiet, TypeOK
<1>3. StartComputation(n) \/ SeeFinished(n)
        => UNCHANGED <<comp, chan>> /\ \E p \in PC \ {"init"} : pc' = [pc EXCEPT ![n] = p]
  <2>1. pc[n] \in PC \ {"init"} /\ pc = [pc EXCEPT ![n] = pc[n]] /\ "loop" \in PC \ {"init"}
    BY <1>1 DEF PC, TypeOK
  <2>2. StartComputation(n) => UNCHANGED <<comp, chan>> /\ pc' = [pc EXCEPT ![n] = "loop"]
    BY DEF StartComputation
  <2>3. SeeFinished(n) => UNCHANGED <<comp, chan>> /\ pc' = pc
    BY DEF SeeFinished
  <2> QED BY <2>1, <2>2, <2>3
<1>4. CASE BeginInit(n)
  <2>1. comp'[n].states = l.states \o Roots
    BY <1>1, <1>4 DEF BeginInit, TypeOK, LocalState
  <2>2. \A x : x \in WorkIn(Roots) => x \in WorkIn(comp'[n].states)
    BY <1>1, <2>1, ConcatWork, JobAssumption DEF LocalState
  <2>3. WorkIn(comp'[n].states) \subseteq OnStacks'
    BY DEF OnStacks
  <2> QED BY <2>2, <2>3 DEF WholeJob, WorkThere
<1>5. ~ExploreFirst(n) /\ ~DivideInit(n) /\ \A m \in Node : ~ReadMessage(n, m)
  BY <1>1 DEF ExploreFirst, DivideInit, ReadMessage
<1>6. ~EndLoop(n)
  BY <1>1 DEF EndLoop, Living, Gone, TypeOK
<1>7. CASE Terminate(n)
  <2>1. /\ chan' = chan /\ pc' = pc /\ \A k \in Node : comp'[k].curr = comp[k].curr
    BY <1>1, <1>7 DEF Terminate, TypeOK, LocalState
  <2> QED BY <2>1 DEF NothingYet, Quiet
<1>8. CASE Loop(n)
  <2>1. /\ NonLeaderStep(l) \in LocalState /\ NonLeaderStep(l).curr = NoAssignment
        /\ NonLeaderStep(l).state # "Computing"
    <3>1. Owns(n, l) /\ IdleEmpty(l)
      BY <1>8 DEF Loop, Iterate, IterateAndClear, IterateAndCheck, MayIterate, IInv, NodeInv
    <3>2. NonLeaderStep(l) \in LocalState
      BY <1>1, <3>1, NonLeaderStepGood
    <3> QED BY <1>1, <3>2 DEF NonLeaderStep, LocalState
  <2>2. CASE Iterate(n)
    <3> DEFINE m == IF n \in leader THEN l ELSE NonLeaderStep(l)
    <3>1. m \in LocalState /\ m.curr = NoAssignment /\ m.state # "Computing"
      BY <1>1, <2>1
    <3>2. ComputeStep(n, Effect(m, Nothing), LoopCycles + 1)
      BY <2>2 DEF Iterate
    <3> HIDE DEF m
    <3> QED BY <3>1, <3>2, ComputeStepYet
  <2>3. CASE IterateAndClear(n)
    <3> DEFINE k == NonLeaderStep(l)
               m == ClearDisconnected(n, k)
    <3>1. ComputeStep(n, Effect(m, Nothing), LoopCycles + 1)
      BY <2>3 DEF IterateAndClear
    <3> HIDE DEF k
    <3>2. k \in LocalState /\ k.curr = NoAssignment /\ k.state # "Computing"
      BY <2>1 DEF k
    <3>3. /\ RemoveIdle(NoAssignment, Node \ (clients[n] \cup {n})) = NoAssignment
          /\ NoAssignment \in Assignment
      BY NoStack DEF RemoveIdle, NoAssignment, Assignment
    <3>4. m \in LocalState /\ m.curr = NoAssignment /\ m.state # "Computing"
      BY <3>2, <3>3 DEF ClearDisconnected, LocalState
    <3> HIDE DEF m
    <3> QED BY <3>1, <3>4, ComputeStepYet
  <2>4. ASSUME NEW sync \in BOOLEAN, IterateAndCheck(n, sync)
        PROVE  FALSE
    <3>1. CheckAssignments(n, l, sync).local.state = "Aborted"
      BY <1>1 DEF CheckAssignments, Effect, LocalState
    <3>2. pc' = [pc EXCEPT ![n] = "dead"]
      BY <2>4, <3>1 DEF IterateAndCheck, Abort
    <3> QED BY <1>1, <3>2 DEF Living, Gone, TypeOK
  <2> QED BY <1>8, <2>2, <2>3, <2>4 DEF Loop
<1>9. CASE ContinueCompute(n)
  <2>1. ComputeStep(n, Effect(l, Nothing), fuel[n])
    BY <1>9 DEF ContinueCompute
  <2> HIDE DEF l
  <2> QED BY <1>1, <2>1, ComputeStepYet
<1> QED BY <1>2, <1>3, <1>4, <1>5, <1>6, <1>7, <1>8, <1>9 DEF Process, Read

\* A step keeps the job while no busy node is handed a share.
LEMMA StepKeepsJob ==
  ASSUME IInv, NetInv, JobKept, Late = {}, [Next]_vars, ~LosesWork
  PROVE  JobKept'
<1> SUFFICES ASSUME Living' = Node
             PROVE  WholeJob \subseteq WorkThere' \/ NothingYet'
  BY DEF JobKept, WholeJob, WorkIn, Subtree, ToSet
<1>1. TypeOK
  BY DEF IInv
<1>2. Living = Node
  <2>1. CASE \E n \in Node : Process(n)
    BY <1>1, <2>1, ProcessRuns
  <2>2. CASE Network
    <3>1. \A n \in Node : Gone(n) => Gone(n)'
      BY <1>1, <2>2 DEF Network, Elect, Connect, Crash, LoseLast, Disconnect, Gone, TypeOK
    <3> QED BY <3>1 DEF Living
  <2>3. CASE UNCHANGED vars
    BY <2>3 DEF vars, Living, Gone
  <2> QED BY <2>1, <2>2, <2>3 DEF Next, AllStopped
<1>3. WorkThere \subseteq WorkThere'
  BY StepPasses DEF WorkStays, LosesWork
<1>4. CASE WholeJob \subseteq WorkThere
  BY <1>3, <1>4
<1>5. CASE NothingYet
  <2>1. CASE \E n \in Node : Process(n)
    BY <1>5, <2>1, ProcessStarts
  <2>2. CASE Network
    <3>1. \A n \in Node : ~Crash(n)
      BY <1>1 DEF Crash, Living, Gone, TypeOK
    <3>2. UNCHANGED <<comp, pc, chan>>
      BY <1>2, <2>2, <3>1 DEF Network, Elect, Connect, LoseLast, Disconnect, Living, Gone
    <3> QED BY <1>5, <3>2 DEF NothingYet, Quiet
  <2>3. CASE UNCHANGED vars
    BY <1>5, <2>3 DEF vars, NothingYet, Quiet
  <2> QED BY <2>1, <2>2, <2>3 DEF Next, AllStopped
<1> QED BY <1>2, <1>4, <1>5 DEF JobKept

\* Every step that loses nothing keeps the job.
LEMMA JobStays ==
  ASSUME JobKept, UNCHANGED <<comp, pc, chan>>
  PROVE  JobKept'
<1>1. WorkThere' = WorkThere
  BY SameWork
<1>2. NothingYet' = NothingYet /\ Living' = Living
  BY DEF NothingYet, Quiet, Living, Gone
<1>3. WholeJob' = WholeJob
  BY DEF WholeJob, WorkIn, Subtree, ToSet
<1> QED BY <1>1, <1>2, <1>3 DEF JobKept

\* When no message is under way the job is explored or on the stacks.
LEMMA JobIsThere ==
  ASSUME JobKept, Living = Node
  PROVE  NothingLost
<1> SUFFICES ASSUME Quiet, Dealt
             PROVE  WholeJob \subseteq Explored \cup OnStacks
  BY DEF NothingLost
<1>1. ~NothingYet
  BY DEF Dealt, NothingYet
<1>2. \A m, n \in Node : Messages(m, n) = {}
  BY ToSetSmall DEF Quiet, Messages
<1>3. InTransit = {}
  BY <1>2 DEF InTransit
<1> QED BY <1>1, <1>3 DEF JobKept, WorkThere

\* Whenever no message is under way every path of the job has been explored or is on a
\* stack, as long as every process runs and whatever OnAssignment() left behind was
\* somewhere else as well, like the old share in a table that is synchronised: the
\* delays of the messages cannot make InitLeaderStep(), CheckAssignments(),
\* OnDivideWith() or ComputeStep() lose anything.  A share that only the message holds
\* and that a node which computes is handed is the one way to lose work, and the code
\* does not exclude it (run LostWork).
THEOREM NoJobIsLost ==
  ASSUME Late = {}
  PROVE  Spec /\ [][~LosesWork]_vars => [](Living = Node => NothingLost)
<1>1. Init => IInv /\ NetInv /\ JobKept
  <2> SUFFICES ASSUME Init
               PROVE  IInv /\ NetInv /\ JobKept
    OBVIOUS
  <2>1. IInv /\ NetInv
    BY InitInv, NetInit
  <2>2. \A n \in Node : /\ pc[n] = "off" /\ comp[n].curr = NoAssignment
                        /\ \A m \in Node : chan[m][n] = <<>>
    BY DEF Init, InitLocal
  <2> QED BY <2>1, <2>2 DEF JobKept, NothingYet, Quiet
<1>2. IInv /\ NetInv /\ JobKept /\ [Next]_vars /\ [~LosesWork]_vars
        => (IInv /\ NetInv /\ JobKept)'
  <2>1. CASE ~LosesWork
    BY <2>1, StepInv, StepPasses, StepKeepsJob
  <2>2. CASE UNCHANGED vars
    <3>1. UNCHANGED <<comp, pc, chan>> /\ UNCHANGED <<dealTo, clients>>
      BY <2>2 DEF vars
    <3> QED BY <2>2, <3>1, JobStays, StepInv DEF NetInv, Linked, OthersDivide, LocalsRight, Gone
  <2> QED BY <2>1, <2>2
<1>3. IInv /\ NetInv /\ JobKept => (Living = Node => NothingLost)
  BY JobIsThere
<1> QED BY <1>1, <1>2, <1>3, PTL DEF Spec


-----------------------------------------------------------------------------
(* What every node knows when the computation comes to rest *)

\* A node that waits has counted in all that it has explored.
Counted(l) == l.state \in {"Initial", "Waiting"} => l.bestMax \subseteq l.bestFound
AllCounted == \A n \in Node : pc[n] \notin {"init", "dead"} => Counted(comp[n])

\* So have those that may take a share, which finish in no other way than by TERMINATE.
MayTake(l) == l.state \notin {"Finished", "Aborted"} /\ Counted(l)

\* OnAssignment() keeps a node that runs such that, if it waits, all it has explored is counted.
LEMMA OnAssignmentCounts ==
  ASSUME NEW n \in Node, NEW l \in LocalState, Owns(n, l), NEW a \in Assignment, MayTake(l)
  PROVE  MayTake(OnAssignment(n, l, a))
<1>1. l.state \in {"Initial", "Waiting", "Computing"}
  BY DEF MayTake, LocalState, State
<1>2. OnAssignment(n, l, a).bestMax = l.bestMax /\ OnAssignment(n, l, a).bestFound = l.bestFound
  BY OnAssignmentIs, OnAssignmentBest
<1>3. OnAssignment(n, l, a).state \in {"Waiting", "Computing"}
  BY OnAssignmentIs
<1>4. l.state = "Computing" => OnAssignment(n, l, a).state = "Computing"
  BY OnAssignmentIs
<1> QED BY <1>1, <1>2, <1>3, <1>4 DEF MayTake, Counted

\* So does OnDivideWith().
LEMMA OnDivideWithCounts ==
  ASSUME NEW n \in Node, NEW l \in LocalState, Owns(n, l), NEW c \in Node, MayTake(l)
  PROVE  MayTake(OnDivideWith(n, l, c).local)
<1>1. CASE l.states = <<>>
  BY <1>1 DEF OnDivideWith, Effect
<1>2. CASE l.states # <<>>
  <2> DEFINE rest == [l EXCEPT !.states = Kept(@)]
             a == Halves(n, l, c)
  <2>1. Kept(l.states) \in Seq(Path) /\ Given(l.states) \in Seq(Path)
    BY KeptType DEF LocalState
  <2>2. rest \in LocalState /\ Owns(n, rest) /\ MayTake(rest)
    BY <2>1 DEF LocalState, Owns, MayTake, Counted
  <2>3. a \in Assignment
    BY <2>1 DEF Halves, NoAssignment, Assignment
  <2>4. OnDivideWith(n, l, c).local = OnAssignment(n, rest, a)
    BY <1>2 DEF OnDivideWith, Effect
  <2> HIDE DEF rest, a
  <2> QED BY <2>2, <2>3, <2>4, OnAssignmentCounts
<1> QED BY <1>1, <1>2

\* So does CheckAssignments().
LEMMA CheckCounts ==
  ASSUME TypeOK, NEW n \in Node, NEW l \in LocalState, Owns(n, l), MayTake(l),
         NEW sync \in BOOLEAN
  PROVE  Counted(CheckAssignments(n, l, sync).local)
<1> DEFINE c == Cleared(n, l)
           r == AfterRegiving(n, l)
<1>1. CASE l.curr = NoAssignment
  BY <1>1 DEF CheckAssignments, Effect, Counted, LocalState
<1>2. c \in LocalState /\ Owns(n, c) /\ MayTake(c)
  <2>1. c.state = l.state /\ c.bestMax = l.bestMax /\ c.bestFound = l.bestFound
    BY DEF Cleared, ClearDisconnected, LocalState
  <2> QED BY <2>1, ClearDisconnectedGood DEF Cleared, MayTake, Counted
<1>3. CASE l.curr # NoAssignment /\ NoJobsLeft(n, l)
  <2>1. HeirsOf(n, l) = {} /\ n \notin Dividers(n, l)
    BY <1>3, NoHeirs
  <2>2. CheckAssignments(n, l, sync).local = OnTerminate(c)
    BY <1>3, <2>1 DEF CheckAssignments, Effect, OwnDivision, AfterRegiving, AfterEnd
  <2> HIDE DEF c
  <2>3. OnTerminate(c).state = "Finished"
    BY <1>2 DEF OnTerminate, LocalState
  <2> QED BY <2>2, <2>3 DEF Counted
<1>4. CASE l.curr # NoAssignment /\ ~NoJobsLeft(n, l)
  <2>1. r = IF HeirsOf(n, l) = {} THEN c ELSE OnAssignment(n, c, Regiven(n, l))
    BY <1>4 DEF AfterRegiving, AfterEnd
  <2> HIDE DEF c, r
  <2>2. Regiven(n, l) \in Assignment
    BY RegivenType
  <2>3. r \in LocalState /\ Owns(n, r) /\ MayTake(r)
    BY <1>2, <2>1, <2>2, OnAssignmentGood, OnAssignmentCounts DEF Good
  <2>4. CASE n \in Dividers(n, l)
    <3> DEFINE d == DivideWith(n, l, n)
    <3>1. d \in Node
      BY <2>4, DivideWithNode
    <3>2. CheckAssignments(n, l, sync).local = OnDivideWith(n, r, d).local
      BY <1>4, <2>4 DEF CheckAssignments, Effect, OwnDivision, r
    <3> HIDE DEF d
    <3> QED BY <2>3, <3>1, <3>2, OnDivideWithCounts DEF MayTake
  <2>5. CASE n \notin Dividers(n, l)
    <3>1. CheckAssignments(n, l, sync).local = r
      BY <1>4, <2>5 DEF CheckAssignments, Effect, OwnDivision, r
    <3> QED BY <2>3, <3>1 DEF MayTake
  <2> QED BY <2>4, <2>5
<1> QED BY <1>1, <1>3, <1>4

\* ComputeStep() counts what has been explored when the node stops computing.
LEMMA ComputeStepCounts ==
  ASSUME IInv, AllCounted, NEW n \in Node, NEW e \in Effects, Owns(n, e.local),
         IdleEmpty(e.local), Counted(e.local), NEW left, ComputeStep(n, e, left)
  PROVE  AllCounted'
<1>1. \A m \in Node : m # n => comp'[m] = comp[m] /\ pc'[m] = pc[m]
  BY DEF ComputeStep, IInv, TypeOK
<1>2. CASE e.local.states # <<>>
  <2>1. comp'[n] = Explore(e.local)
    BY <1>2 DEF ComputeStep, IInv, TypeOK
  <2>2. Explore(e.local).state = e.local.state /\ e.local.state \notin {"Initial", "Waiting"}
    BY <1>2, ExploreIs DEF IdleEmpty, Effects
  <2> QED BY <1>1, <2>1, <2>2 DEF AllCounted, Counted
<1>3. CASE e.local.states = <<>>
  <2> DEFINE f == AnnounceIfComputing(n, e)
  <2>1. comp'[n] = f.local
    BY <1>3 DEF ComputeStep, IInv, TypeOK
  <2>2. /\ f.local.bestMax = e.local.bestMax
        /\ e.local.state # "Computing" => f = e
        /\ e.local.state = "Computing" =>
             f.local.bestFound = e.local.bestFound \cup e.local.bestMax
    BY <1>3, AnnounceBest
  <2> HIDE DEF f
  <2>3. Counted(f.local)
    BY <2>2 DEF Counted
  <2> QED BY <1>1, <2>1, <2>3 DEF AllCounted
<1> QED BY <1>2, <1>3

\* The ways in which the computation may lose something although no process fails: work
\* that a busy node is handed and leaves behind; a leader whose own part of the first
\* division is empty, which does not announce what it has explored before; and a node
\* that goes back to work after it has been told to finish.
DealsItselfNothing ==
  \E n \in Node : pc[n] = "init" /\ pc'[n] = "loop" /\ comp'[n].state = "Waiting"
GoesBackToWork ==
  \E n \in Node : comp[n].state = "Finished" /\ comp'[n].state # "Finished"
Loses == LosesWork \/ DealsItselfNothing \/ GoesBackToWork


\* Every message that is read keeps what is counted, unless one of the three things happens.
LEMMA ReadCounts ==
  ASSUME IInv, NetInv, AllCounted, NEW n \in Node, NEW m \in Node, ReadMessage(n, m), ~Loses
  PROVE  AllCounted'
<1> DEFINE l == comp[n]
           msg == Head(chan[m][n])
           e == Handle(n, m, msg)
<1>1. /\ pc[n] = "loop" /\ chan[m][n] # <<>>
      /\ IF e.local.state = "Aborted"
         THEN Abort(n, e.local)
         ELSE comp' = [comp EXCEPT ![n] = e.local] /\ pc' = pc
  BY DEF ReadMessage
<1>2. /\ TypeOK /\ l \in LocalState /\ Owns(n, l) /\ Counted(l) /\ l.state # "Aborted"
  <2>1. l.state # "Aborted" /\ Counted(l)
    BY <1>1 DEF NetInv, LocalsRight, AllCounted, Gone
  <2> QED BY <2>1 DEF IInv, NodeInv, TypeOK
<1>3. msg \in Message
  <2>1. chan[m][n] \in Seq(Message)
    BY <1>2 DEF TypeOK
  <2> QED BY <1>1, <2>1
<1>4. CASE e.local.state = "Aborted"
  <2>1. comp' = [comp EXCEPT ![n] = e.local] /\ pc' = [pc EXCEPT ![n] = "dead"]
    BY <1>1, <1>4 DEF Abort
  <2> HIDE DEF e
  <2> QED BY <1>2, <2>1 DEF AllCounted, TypeOK
<1>5. CASE e.local.state # "Aborted"
  <2>1. comp'[n] = e.local /\ pc' = pc /\ \A k \in Node : k # n => comp'[k] = comp[k]
    BY <1>1, <1>2, <1>5 DEF TypeOK
  <2>2. CASE l.state = "Finished"
    <3>1. comp'[n].state = "Finished"
      BY <2>2 DEF Loses, GoesBackToWork
    <3> QED BY <2>1, <3>1 DEF AllCounted, Counted
  <2>3. CASE l.state # "Finished"
    <3>1. MayTake(l)
      BY <1>2, <2>3 DEF MayTake
    <3> HIDE DEF l
    <3>2. ASSUME msg.type = "STACK_ASSIGNMENT"
          PROVE  Counted(e.local)
      <4>1. e.local = OnAssignment(n, l, msg.assign) /\ msg.assign \in Assignment
        BY <1>3, <3>2, MessageContents DEF Handle, Effect, l
      <4> QED BY <1>2, <3>1, <4>1, OnAssignmentCounts DEF MayTake
    <3>3. ASSUME msg.type = "DIVIDE_WITH"
          PROVE  Counted(e.local)
      <4>1. e.local = OnDivideWith(n, l, msg.with).local /\ msg.with \in Node
        BY <1>3, <3>3, MessageContents DEF Handle, l
      <4> QED BY <1>2, <3>1, <4>1, OnDivideWithCounts DEF MayTake
    <3>4. ASSUME msg.type = "TERMINATE"
          PROVE  Counted(e.local)
      <4>1. e.local = OnTerminate(l)
        BY <3>4 DEF Handle, Effect, l
      <4> QED BY <1>2, <4>1 DEF OnTerminate, Counted, LocalState
    <3>5. ASSUME msg.type = "ASSIGNMENT_FINISHED"
          PROVE  Counted(e.local)
      <4>1. e.local = OnAssignmentFinished(l, m, msg.best)
        BY <3>5 DEF Handle, Effect, l
      <4>2. l.curr # NoAssignment
        BY <1>2, <1>5, <4>1 DEF OnAssignmentFinished, LocalState
      <4>3. /\ e.local.state = l.state /\ e.local.bestMax = l.bestMax
            /\ l.bestFound \subseteq e.local.bestFound
        BY <1>2, <4>1, <4>2 DEF OnAssignmentFinished, LocalState
      <4> HIDE DEF e
      <4> QED BY <1>2, <4>3 DEF Counted
    <3>6. Counted(e.local)
      BY <1>3, <3>2, <3>3, <3>4, <3>5, MessageContents DEF MayTake
    <3> HIDE DEF e
    <3> QED BY <2>1, <3>6 DEF AllCounted
  <2> QED BY <2>2, <2>3
<1> QED BY <1>4, <1>5

\* So does every step of a process.
LEMMA ProcessCounts ==
  ASSUME IInv, NetInv, AllCounted, NEW n \in Node, Process(n), ~Loses
  PROVE  AllCounted'
<1> DEFINE l == comp[n]
<1>1. /\ TypeOK /\ l \in LocalState /\ Owns(n, l) /\ ~Gone(n) /\ l.state # "Aborted"
      /\ pc[n] # "init" => Counted(l)
  <2>1. ~Gone(n)
    BY ProcessRuns DEF IInv
  <2>2. l.state # "Aborted" /\ (pc[n] # "init" => Counted(l))
    BY <2>1 DEF NetInv, LocalsRight, AllCounted, Gone
  <2> QED BY <2>1, <2>2 DEF IInv, TypeOK, NodeInv
<1>2. ASSUME NEW m \in LocalState, Owns(n, m), IdleEmpty(m), Counted(m),
             NEW left, ComputeStep(n, Effect(m, Nothing), left)
      PROVE  AllCounted'
  <2> DEFINE e == Effect(m, Nothing)
  <2>1. e \in Effects /\ e.local = m
    BY NothingType DEF Effect
  <2>2. ComputeStep(n, e, left)
    BY <1>2
  <2> HIDE DEF e
  <2> QED BY <1>2, <2>1, <2>2, ComputeStepCounts
<1>3. ASSUME StartComputation(n)
      PROVE  AllCounted'
  BY <1>1, <1>3 DEF StartComputation, AllCounted, TypeOK
<1>4. ASSUME BeginInit(n) \/ ExploreFirst(n)
      PROVE  AllCounted'
  <2>1. pc'[n] = "init" /\ \A m \in Node : m # n => comp'[m] = comp[m] /\ pc'[m] = pc[m]
    BY <1>1, <1>4 DEF BeginInit, ExploreFirst, TypeOK
  <2> QED BY <2>1 DEF AllCounted
<1>5. ASSUME DivideInit(n)
      PROVE  AllCounted'
  <2>1. PICK position \in [dealTo[n] -> 1 .. Cardinality(dealTo[n])] :
          LET jobs == DealtJobs(n, position)
          IN  ComputeStep(n,
                Effect(OnAssignment(n, comp[n], jobs),
                       [j \in Node |-> MessagesIf(j \in dealTo[n], StackAssignmentMsg(jobs))]),
                LoopCycles + 1)
    BY <1>5 DEF DivideInit
  <2> DEFINE jobs == DealtJobs(n, position)
             after == OnAssignment(n, l, jobs)
             out == [j \in Node |-> MessagesIf(j \in dealTo[n], StackAssignmentMsg(jobs))]
             e == Effect(after, out)
  <2>2. pc[n] = "init" /\ jobs \in Assignment /\ l.state # "Computing"
    BY <1>5, DealtJobsType DEF DivideInit, NetInv, LocalsRight
  <2>3. out \in [Node -> Seq(Message)]
    BY <2>2, MessageTypes DEF MessagesIf
  <2>4. ComputeStep(n, e, LoopCycles + 1)
    BY <2>1
  <2> HIDE DEF jobs
  <2>5. /\ after \in LocalState /\ Owns(n, after) /\ IdleEmpty(after)
        /\ after.state \in {"Waiting", "Computing"}
    BY <1>1, <2>2, OnAssignmentIs
  <2> HIDE DEF after, out
  <2>6. e \in Effects /\ e.local = after
    BY <2>3, <2>5 DEF Effect, Effects
  <2> HIDE DEF e
  <2>7. CASE after.state = "Waiting"
    <3>1. after.states = <<>>
      BY <2>5, <2>7 DEF IdleEmpty
    <3>2. AnnounceIfComputing(n, e) = e
      BY <2>6, <2>7 DEF AnnounceIfComputing
    <3>3. comp'[n] = after /\ pc'[n] = "loop"
      BY <1>1, <2>4, <2>6, <3>1, <3>2 DEF ComputeStep, TypeOK
    <3> QED BY <2>2, <2>7, <3>3 DEF Loses, DealsItselfNothing
  <2>8. CASE after.state = "Computing"
    <3>1. Counted(e.local) /\ Owns(n, e.local) /\ IdleEmpty(e.local)
      BY <2>5, <2>6, <2>8 DEF Counted
    <3> QED BY <2>4, <2>6, <3>1, ComputeStepCounts
  <2> QED BY <2>5, <2>7, <2>8
<1>6. ASSUME Loop(n)
      PROVE  AllCounted'
  <2>1. IdleEmpty(l) /\ MayTake(l)
    BY <1>1, <1>6 DEF Loop, Iterate, IterateAndClear, IterateAndCheck, MayIterate, IInv, NodeInv,
                      MayTake
  <2>2. /\ NonLeaderStep(l) \in LocalState /\ Owns(n, NonLeaderStep(l))
        /\ IdleEmpty(NonLeaderStep(l)) /\ Counted(NonLeaderStep(l))
    BY <1>1, <2>1, NonLeaderStepGood DEF NonLeaderStep, MayTake, Counted, LocalState
  <2>3. CASE Iterate(n)
    <3> DEFINE m == IF n \in leader THEN l ELSE NonLeaderStep(l)
    <3>1. m \in LocalState /\ Owns(n, m) /\ IdleEmpty(m) /\ Counted(m)
      BY <1>1, <2>1, <2>2 DEF MayTake
    <3>2. ComputeStep(n, Effect(m, Nothing), LoopCycles + 1)
      BY <2>3 DEF Iterate
    <3> HIDE DEF m
    <3> QED BY <1>2, <3>1, <3>2
  <2>4. CASE IterateAndClear(n)
    <3> DEFINE k == NonLeaderStep(l)
               m == ClearDisconnected(n, k)
    <3>1. ComputeStep(n, Effect(m, Nothing), LoopCycles + 1)
      BY <2>4 DEF IterateAndClear
    <3> HIDE DEF k
    <3>2. k \in LocalState /\ Owns(n, k) /\ IdleEmpty(k) /\ Counted(k)
      BY <2>2 DEF k
    <3>3. m \in LocalState /\ Owns(n, m) /\ IdleEmpty(m)
      BY <3>2, ClearDisconnectedGood
    <3>4. m.state = k.state /\ m.bestMax = k.bestMax /\ m.bestFound = k.bestFound
      BY <3>2 DEF ClearDisconnected, LocalState
    <3>5. Counted(m)
      BY <3>2, <3>4 DEF Counted
    <3> HIDE DEF m
    <3> QED BY <1>2, <3>1, <3>3, <3>5
  <2>5. ASSUME NEW sync \in BOOLEAN, IterateAndCheck(n, sync)
        PROVE  AllCounted'
    <3> DEFINE e == CheckAssignments(n, l, sync)
    <3>1. e \in Effects /\ Owns(n, e.local) /\ IdleEmpty(e.local) /\ Counted(e.local)
      BY <1>1, <2>1, CheckAssignmentsGood, CheckCounts
    <3>2. IF e.local.state = "Aborted" THEN Abort(n, e.local)
                                       ELSE ComputeStep(n, e, LoopCycles + 1)
      BY <2>5 DEF IterateAndCheck
    <3> HIDE DEF e
    <3>3. CASE e.local.state = "Aborted"
      BY <1>1, <3>2, <3>3 DEF Abort, AllCounted, TypeOK
    <3>4. CASE e.local.state # "Aborted"
      BY <3>1, <3>2, <3>4, ComputeStepCounts
    <3> QED BY <3>3, <3>4
  <2> QED BY <1>6, <2>3, <2>4, <2>5 DEF Loop
<1>7. ASSUME ContinueCompute(n)
      PROVE  AllCounted'
  <2>1. ComputeStep(n, Effect(l, Nothing), fuel[n]) /\ pc[n] = "compute"
    BY <1>7 DEF ContinueCompute
  <2>2. IdleEmpty(l) /\ Counted(l)
    BY <1>1, <2>1 DEF IInv, NodeInv
  <2> HIDE DEF l
  <2> QED BY <1>1, <1>2, <2>1, <2>2
<1>8. ASSUME Read(n)
      PROVE  AllCounted'
  BY <1>8, ReadCounts DEF Read
<1>9. ASSUME SeeFinished(n)
      PROVE  AllCounted'
  BY <1>9 DEF SeeFinished, AllCounted
<1>10. ASSUME Terminate(n)
       PROVE  AllCounted'
  <2>1. /\ comp'[n].state = "Finished" /\ pc' = pc
        /\ \A m \in Node : m # n => comp'[m] = comp[m]
    BY <1>1, <1>10 DEF Terminate, TypeOK, LocalState
  <2> QED BY <2>1 DEF AllCounted, Counted
<1>11. ASSUME EndLoop(n)
       PROVE  AllCounted'
  <2>1. /\ comp' = comp /\ comp[n].state = "Finished"
        /\ \A m \in Node : m # n => pc'[m] = pc[m]
    BY <1>1, <1>11 DEF EndLoop, TypeOK
  <2> QED BY <2>1 DEF AllCounted, Counted
<1> QED BY <1>3, <1>4, <1>5, <1>6, <1>7, <1>8, <1>9, <1>10, <1>11 DEF Process

\* So does every step.
LEMMA StepCounts ==
  ASSUME IInv, NetInv, AllCounted, [Next]_vars, ~Loses
  PROVE  AllCounted'
<1>1. CASE \E n \in Node : Process(n)
  BY <1>1, ProcessCounts
<1>2. CASE UNCHANGED <<comp, pc>>
  BY <1>2 DEF AllCounted
<1>3. CASE \E n \in Node : Crash(n)
  BY <1>3 DEF Crash, AllCounted, IInv, TypeOK
<1> QED BY <1>1, <1>2, <1>3 DEF Next, Network, Elect, Connect, LoseLast, Disconnect, AllStopped, vars

-----------------------------------------------------------------------------

\* The job has been dealt, nobody works on it any more and no message is under way: now
\* the leader finds that no job is left.
AtRest ==
  Quiet /\ Dealt /\ \A n \in Node : pc[n] \in {"compute", "loop"} /\ comp[n].state = "Waiting"

\* Then every node knows the largest cut.
CutIsKnown == AtRest => \A n \in Node : BestMax(comp[n].bestFound) = LargestCut

\* At rest everything has been explored, and every node has counted all of it.
LEMMA RestIsRight ==
  ASSUME IInv, SearchInv, Explored \subseteq WholeJob, BestInv, JobKept, AllCounted, AtRest
  PROVE  \A n \in Node : comp[n].bestFound = WholeJob
<1>1. Living = Node
  BY DEF AtRest, Living, Gone
<1>2. \A m, n \in Node : Messages(m, n) = {}
  BY ToSetSmall DEF AtRest, Quiet, Messages
<1>3. \A n \in Node : BestsTo(n) = {}
  BY <1>2 DEF BestsTo
<1>4. \A m, n \in Node : comp[m].bestFound \subseteq comp[n].bestFound
  BY <1>1, <1>3 DEF BestInv, EveryBestArrives
<1>5. \A n \in Node : comp[n].states = <<>> /\ comp[n].bestMax \subseteq comp[n].bestFound
  BY DEF AtRest, IInv, NodeInv, IdleEmpty, AllCounted, Counted
<1>6. OnStacks = {}
  <2>1. WorkIn(<<>>) = {}
    BY ToSetSmall DEF WorkIn
  <2>2. \A n \in Node : WorkIn(comp[n].states) = {}
    BY <1>5, <2>1
  <2> QED BY <1>1, <2>2 DEF OnStacks
<1>7. WholeJob \subseteq Explored
  BY <1>1, <1>6, JobIsThere DEF AtRest, NothingLost
<1>8. \A n \in Node : Explored \subseteq comp[n].bestFound
  BY <1>4, <1>5 DEF Explored
<1>9. \A n \in Node : comp[n].bestFound \subseteq Explored
  BY DEF SearchInv, Sound
<1> QED BY <1>7, <1>8, <1>9

\* Whatever the delays of the messages, the number of nodes and the graph: when the
\* computation comes to rest every node knows the largest cut, or one of the three
\* things has happened that Loses names.  So these are all the ways in which dividing,
\* announcing, synchronising and giving again can spoil the result of nodes that do not
\* fail; the code does not exclude them (runs LostWork and Rounds, README.md).
THEOREM CutIsKnownAtRest ==
  ASSUME Late = {}, TailLoss = FALSE, JobIsSearch
  PROVE  Spec /\ [][~Loses]_vars => []CutIsKnown
<1> DEFINE Inv == /\ IInv /\ NetInv /\ SearchInv /\ Explored \subseteq WholeJob
                  /\ BestInv /\ JobKept /\ AllCounted
<1>1. Init => NetInv /\ BestInv /\ JobKept /\ AllCounted
  <2> SUFFICES ASSUME Init
               PROVE  NetInv /\ BestInv /\ JobKept /\ AllCounted
    OBVIOUS
  <2>1. \A m, n \in Node : /\ pc[n] = "off" /\ comp[n].curr = NoAssignment /\ chan[m][n] = <<>>
                           /\ comp[n].bestFound = {} /\ comp[n].bestMax = {}
    BY DEF Init, InitLocal
  <2>2. AnnouncesOwn /\ EveryBestArrives
    BY <2>1, MailedSmall DEF AnnouncesOwn, EveryBestArrives
  <2>3. JobKept /\ AllCounted
    BY <2>1 DEF JobKept, NothingYet, Quiet, AllCounted, Counted
  <2> QED BY <2>2, <2>3, NetInit DEF BestInv
<1>2. IInv /\ NetInv /\ BestInv /\ JobKept /\ AllCounted /\ [Next]_vars /\ [~Loses]_vars
        => (NetInv /\ BestInv /\ JobKept /\ AllCounted)'
  <2> SUFFICES ASSUME IInv, NetInv, BestInv, JobKept, AllCounted, [Next]_vars, [~Loses]_vars
               PROVE  NetInv' /\ BestInv' /\ JobKept' /\ AllCounted'
    OBVIOUS
  <2>1. NetInv' /\ BestInv'
    BY StepPasses, StepBests
  <2>2. CASE ~Loses
    BY <2>1, <2>2, StepKeepsJob, StepCounts DEF Loses
  <2>3. CASE UNCHANGED vars
    <3>1. UNCHANGED <<comp, pc, chan>>
      BY <2>3 DEF vars
    <3>2. JobKept'
      BY <3>1, JobStays
    <3> QED BY <2>1, <3>1, <3>2 DEF AllCounted
  <2> QED BY <2>2, <2>3
<1>3. IInv /\ SearchInv /\ Explored \subseteq WholeJob /\ BestInv /\ JobKept /\ AllCounted
        => CutIsKnown
  <2>1. BestMax(WholeJob) = LargestCut
    BY SearchVisitsPaths, BestOfPathsIsLargest
  <2> QED BY <2>1, RestIsRight DEF CutIsKnown
<1> QED BY <1>1, <1>2, <1>3, SearchInvariance, PTL DEF Spec


=============================================================================
